--------------------------- MODULE FifoSemaphore ---------------------------
(***************************************************************************)
(* What a Semaphore promises: a fixed number of permits, each held by at   *)
(* most one process at a time, handed directly to the process that has     *)
(* waited longest.                                                         *)
(***************************************************************************)
EXTENDS Naturals, Sequences

CONSTANTS Proc, Permits

VARIABLES
    free,       \* permits nobody holds
    holders,    \* the processes that hold a permit
    blocked     \* the processes that wait for one, longest first

semVars == <<free, holders, blocked>>

Blocked == {blocked[i] : i \in DOMAIN blocked}

Init ==
    /\ free = Permits
    /\ holders = {}
    /\ blocked = <<>>

Acquire(p) ==
    /\ p \notin holders \cup Blocked
    /\ free > 0
    /\ free' = free - 1
    /\ holders' = holders \cup {p}
    /\ UNCHANGED blocked

Block(p) ==
    /\ p \notin holders \cup Blocked
    /\ free = 0
    /\ blocked' = Append(blocked, p)
    /\ UNCHANGED <<free, holders>>

Release(p) ==
    /\ p \in holders
    /\ blocked = <<>>
    /\ free' = free + 1
    /\ holders' = holders \ {p}
    /\ UNCHANGED blocked

HandOver(p) ==
    /\ p \in holders
    /\ blocked # <<>>
    /\ holders' = (holders \ {p}) \cup {Head(blocked)}
    /\ blocked' = Tail(blocked)
    /\ UNCHANGED free

Next == \E p \in Proc : Acquire(p) \/ Block(p) \/ Release(p) \/ HandOver(p)

Spec == Init /\ [][Next]_semVars

=============================================================================
