--------------------------- MODULE RunQueue_proofs ---------------------------
(***************************************************************************)
(* Proofs about RunQueue, for every finite set of processes: the linked    *)
(* list never runs into itself, leaves no link behind, and implements the  *)
(* queue of FifoQueue.                                                     *)
(*                                                                         *)
(* IsList says that a sequence of processes is linked in the heap; the     *)
(* walk along the links then finds exactly this sequence, and each         *)
(* operation turns one list into another.                                  *)
(***************************************************************************)
EXTENDS RunQueue, FiniteSetTheorems, SequenceTheorems, WellFoundedInduction, TLAPS

(* The k-th element of a sequence, nil after the last.                     *)
Item(q, k) == IF k \in 1 .. Len(q) THEN q[k] ELSE NoProc
Members(q) == {q[i] : i \in DOMAIN q}
Distinct(q) == \A i, j \in DOMAIN q : q[i] = q[j] => i = j

(* The processes of q are linked one to the next, and no other one has a   *)
(* link.                                                                   *)
IsList(q) ==
    /\ q \in Seq(Proc) /\ Distinct(q)
    /\ runnable = Item(q, 1)
    /\ \A i \in 1 .. Len(q) : link[q[i]] = Item(q, i + 1)
    /\ \A p \in Proc : p \notin Members(q) => link[p] = NoProc

QueueInv ==
    /\ link \in [Proc -> Proc \cup {NoProc}]
    /\ curProc \in Proc \cup {NoProc}
    /\ aborted \in BOOLEAN
    /\ IsList(Chain)

-----------------------------------------------------------------------------
LEMMA SeqFacts ==
    ASSUME NEW q \in Seq(Proc)
    PROVE  /\ Len(q) \in Nat /\ DOMAIN q = 1 .. Len(q)
           /\ \A i \in 1 .. Len(q) : q[i] \in Proc /\ q[i] # NoProc
           /\ \A k : Item(q, k) \in Proc \cup {NoProc}
BY NoProcAssumption DEF Item

(* Distinct processes are no more than there are processes.                *)
LEMMA ShortEnough ==
    ASSUME NEW q \in Seq(Proc), Distinct(q)
    PROVE  Len(q) <= Cardinality(Proc) /\ Cardinality(Proc) \in Nat
<1>1. Len(q) \in Nat /\ DOMAIN q = 1 .. Len(q) /\ IsFiniteSet(Proc)
  BY NoProcAssumption, SeqFacts
<1>2. q \in Injection(1 .. Len(q), Proc)
  BY <1>1 DEF Distinct, Injection, IsInjective
<1>3. Cardinality(1 .. Len(q)) <= Cardinality(Proc)
  BY <1>1, <1>2, FS_Injection
<1>4. Cardinality(1 .. Len(q)) = Len(q)
  BY <1>1, FS_Interval
<1> QED BY <1>1, <1>3, <1>4, FS_CardinalityType

-----------------------------------------------------------------------------
(* The walk along the links of a list.                                     *)
Last == Cardinality(Proc) + 1
walkStep(f, k) ==
    IF k = 1 THEN runnable
    ELSE IF f[k - 1] = NoProc THEN NoProc ELSE link[f[k - 1]]

LEMMA WalkItem ==
    ASSUME NEW q, IsList(q), NEW f, NEW k \in 1 .. Last,
           k # 1 => f[k - 1] = Item(q, k - 1)
    PROVE  walkStep(f, k) = Item(q, k)
<1>1. /\ Len(q) \in Nat /\ k \in Nat /\ k >= 1
      /\ \A i \in 1 .. Len(q) : q[i] # NoProc
  BY SeqFacts, ShortEnough DEF IsList, Last
<1>2. CASE k = 1
  BY <1>2 DEF walkStep, IsList
<1>3. CASE k # 1 /\ k - 1 \in 1 .. Len(q)
  BY <1>1, <1>3 DEF walkStep, IsList, Item
<1>4. CASE k # 1 /\ k - 1 \notin 1 .. Len(q)
  BY <1>1, <1>4 DEF walkStep, Item
<1> QED BY <1>2, <1>3, <1>4

LEMMA WalkFindsList ==
    ASSUME NEW q, IsList(q)
    PROVE  nth = [k \in 1 .. Last |-> Item(q, k)]
<1> DEFINE f == [k \in 1 .. Last |-> Item(q, k)]
<1>1. Last \in Nat /\ Last >= 1
  BY ShortEnough DEF IsList, Last
<1>2. f = [k \in 1 .. Last |-> walkStep(f, k)]
  <2>1. ASSUME NEW k \in 1 .. Last PROVE walkStep(f, k) = Item(q, k)
    <3>1. k # 1 => k - 1 \in 1 .. Last
      BY <1>1
    <3>2. k # 1 => f[k - 1] = Item(q, k - 1)
      BY <3>1
    <3> QED BY <3>2, WalkItem
  <2> QED BY <2>1
<1>3. nth = [k \in 1 .. Last |-> walkStep(nth, k)]
  BY <1>2 DEF nth, walkStep, Last
<1> HIDE DEF f
<1>4. ASSUME NEW k \in 1 .. Last PROVE nth[k] = Item(q, k)
  <2> DEFINE T == {j \in 1 .. Last : nth[j] # Item(q, j)}
  <2> SUFFICES ASSUME T # {} PROVE FALSE
    OBVIOUS
  <2>1. T \subseteq Nat
    OBVIOUS
  <2>2. PICK m \in T : \A j \in T : ~(<<j, m>> \in OpToRel(<, Nat))
    BY <2>1, WFMin, NatLessThanWellFounded
  <2>3. \A j \in T : ~(j < m)
    BY <2>1, <2>2 DEF OpToRel
  <2>4. m \in 1 .. Last /\ (m # 1 => m - 1 \in 1 .. Last /\ m - 1 \notin T)
    BY <1>1, <2>3
  <2>5. walkStep(nth, m) = Item(q, m)
    BY <2>4, WalkItem
  <2> QED BY <1>3, <2>4, <2>5
<1>5. nth = [k \in 1 .. Last |-> nth[k]]
  BY <1>3
<1> QED BY <1>4, <1>5

(* So the chain is the list.                                               *)
ListsAreChains == \A q : IsList(q) => Chain = q

LEMMA ChainIsList == ListsAreChains
<1> SUFFICES ASSUME NEW q, IsList(q) PROVE Chain = q
  BY DEF ListsAreChains
<1>1. nth = [k \in 1 .. Last |-> Item(q, k)]
  BY WalkFindsList
<1>2. /\ Len(q) \in Nat /\ Len(q) <= Last /\ Last \in Nat
      /\ \A i \in 1 .. Len(q) : q[i] # NoProc
  BY SeqFacts, ShortEnough DEF IsList, Last
<1>3. {j \in DOMAIN nth : nth[j] # NoProc} = 1 .. Len(q)
  BY <1>1, <1>2 DEF Item
<1>4. \A k \in 1 .. Len(q) : nth[k] = q[k]
  BY <1>1, <1>2 DEF Item
<1>5. Chain = [k \in 1 .. Len(q) |-> q[k]]
  BY <1>3, <1>4 DEF Chain
<1> QED BY <1>5 DEF IsList

LEMMA ChainIsListNext == ListsAreChains'
BY ChainIsList, PTL

-----------------------------------------------------------------------------
(* Places in a sequence of n elements.                                     *)
LEMMA FirstPlace == \A n \in Nat : n # 0 => 1 \in 1 .. n
OBVIOUS

LEMMA NextPlace ==
    ASSUME NEW n \in Nat, NEW j \in 1 .. n
    PROVE  /\ j \in Nat /\ 1 <= j /\ j <= n /\ j + 1 # 1 /\ (j + 1) - 1 = j
           /\ j + 1 \in 1 .. n <=> j # n
           /\ j - 1 \in 1 .. n <=> j # 1
OBVIOUS

(* A process is in the list, by its links, at one place only, and the one  *)
(* that links to it is the one before.                                     *)
LEMMA ListFacts ==
    ASSUME NEW q, IsList(q)
    PROVE  /\ q \in Seq(Proc) /\ Len(q) \in Nat /\ DOMAIN q = 1 .. Len(q)
           /\ \A i \in 1 .. Len(q) : q[i] \in Proc /\ q[i] # NoProc
           /\ \A i, j \in 1 .. Len(q) : q[i] = q[j] => i = j
           /\ runnable = IF Len(q) = 0 THEN NoProc ELSE q[1]
           /\ \A i \in 1 .. Len(q) :
                link[q[i]] = IF i = Len(q) THEN NoProc ELSE q[i + 1]
           /\ \A p \in Proc : p \notin Members(q) => link[p] = NoProc
           /\ Len(q) = 0 <=> q = <<>>
<1>1. q \in Seq(Proc) /\ Len(q) \in Nat /\ DOMAIN q = 1 .. Len(q)
  BY SeqFacts DEF IsList
<1>2. \A i \in 1 .. Len(q) : q[i] \in Proc /\ q[i] # NoProc
  BY <1>1, SeqFacts
<1>3. \A i, j \in 1 .. Len(q) : q[i] = q[j] => i = j
  BY <1>1 DEF IsList, Distinct
<1>4. runnable = IF Len(q) = 0 THEN NoProc ELSE q[1]
  BY <1>1 DEF IsList, Item
<1>5. ASSUME NEW i \in 1 .. Len(q)
      PROVE  link[q[i]] = IF i = Len(q) THEN NoProc ELSE q[i + 1]
  BY <1>1, <1>5, NextPlace DEF IsList, Item
<1>6. Len(q) = 0 <=> q = <<>>
  BY <1>1, EmptySeq
<1> QED BY <1>1, <1>2, <1>3, <1>4, <1>5, <1>6 DEF IsList

(* The process in front of another one links to it, and nobody else does.  *)
LEMMA OneBefore ==
    ASSUME NEW q, IsList(q), NEW i \in 1 .. Len(q), NEW node \in Proc,
           link[node] = q[i]
    PROVE  /\ i # 1 /\ i - 1 \in 1 .. Len(q)
           /\ node = q[i - 1]
<1>1. /\ Len(q) \in Nat /\ DOMAIN q = 1 .. Len(q)
      /\ \A j \in 1 .. Len(q) : q[j] # NoProc
      /\ \A j, k \in 1 .. Len(q) : q[j] = q[k] => j = k
      /\ \A j \in 1 .. Len(q) : link[q[j]] = IF j = Len(q) THEN NoProc ELSE q[j + 1]
      /\ \A p \in Proc : p \notin Members(q) => link[p] = NoProc
  BY ListFacts
<1>2. node \in Members(q)
  BY <1>1
<1>3. PICK j \in 1 .. Len(q) : node = q[j]
  BY <1>1, <1>2 DEF Members
<1>4. j # Len(q) /\ q[j + 1] = q[i]
  BY <1>1, <1>3
<1>5. j + 1 \in 1 .. Len(q)
  BY <1>1, <1>4, NextPlace
<1>6. j + 1 = i
  BY <1>1, <1>4, <1>5
<1>7. j + 1 # 1 /\ (j + 1) - 1 = j
  BY <1>1, NextPlace
<1>8. i # 1 /\ i - 1 = j
  BY <1>6, <1>7
<1> QED BY <1>3, <1>8

(* The sequence without its i-th element.                                  *)
Without(q, i) == [k \in 1 .. Len(q) - 1 |-> IF k < i THEN q[k] ELSE q[k + 1]]

LEMMA WithoutFacts ==
    ASSUME NEW q \in Seq(Proc), Distinct(q), NEW i \in 1 .. Len(q)
    PROVE  /\ Without(q, i) \in Seq(Proc) /\ Len(Without(q, i)) = Len(q) - 1
           /\ \A k \in 1 .. Len(q) - 1 :
                Without(q, i)[k] = IF k < i THEN q[k] ELSE q[k + 1]
           /\ Distinct(Without(q, i))
           /\ Members(Without(q, i)) = Members(q) \ {q[i]}
<1> DEFINE t == Without(q, i)
<1>1. /\ Len(q) \in Nat /\ Len(q) >= 1 /\ DOMAIN q = 1 .. Len(q)
      /\ \A k \in 1 .. Len(q) : q[k] \in Proc
      /\ \A j, k \in 1 .. Len(q) : q[j] = q[k] => j = k
  BY SeqFacts DEF Distinct
<1>2. \A k \in 1 .. Len(q) - 1 : k \in 1 .. Len(q) /\ k + 1 \in 1 .. Len(q)
  BY <1>1
<1>3. /\ t \in Seq(Proc) /\ Len(t) = Len(q) - 1 /\ DOMAIN t = 1 .. Len(q) - 1
      /\ \A k \in 1 .. Len(q) - 1 : t[k] = IF k < i THEN q[k] ELSE q[k + 1]
  <2>1. /\ t = [k \in 1 .. Len(q) - 1 |-> IF k < i THEN q[k] ELSE q[k + 1]]
        /\ Len(q) - 1 \in Nat
    BY <1>1 DEF Without
  <2>2. \A k \in 1 .. Len(q) - 1 : (IF k < i THEN q[k] ELSE q[k + 1]) \in Proc
    BY <1>1, <1>2
  <2> HIDE DEF t
  <2>3. t \in [1 .. Len(q) - 1 -> Proc]
    BY <2>1, <2>2
  <2> QED BY <2>1, <2>3
<1> HIDE DEF t
<1>4. Distinct(t)
  <2> SUFFICES ASSUME NEW j \in DOMAIN t, NEW k \in DOMAIN t, t[j] = t[k]
               PROVE  j = k
    BY DEF Distinct
  <2> DEFINE place(l) == IF l < i THEN l ELSE l + 1
  <2>1. t[j] = q[place(j)] /\ t[k] = q[place(k)]
    BY <1>3
  <2>2. place(j) \in 1 .. Len(q) /\ place(k) \in 1 .. Len(q)
    BY <1>2, <1>3
  <2>3. place(j) = place(k)
    BY <1>1, <2>1, <2>2
  <2>4. j \in Int /\ k \in Int /\ i \in Int
    BY <1>1, <1>3
  <2> QED BY <2>3, <2>4
<1>5. Members(t) \subseteq Members(q) \ {q[i]}
  <2> SUFFICES ASSUME NEW k \in DOMAIN t PROVE t[k] \in Members(q) /\ t[k] # q[i]
    BY DEF Members
  <2>1. t[k] = IF k < i THEN q[k] ELSE q[k + 1]
    BY <1>3
  <2> QED BY <1>1, <1>2, <1>3, <2>1 DEF Members
<1>6. Members(q) \ {q[i]} \subseteq Members(t)
  <2> SUFFICES ASSUME NEW j \in DOMAIN q, q[j] # q[i] PROVE q[j] \in Members(t)
    BY DEF Members
  <2>1. CASE j < i
    <3>1. j \in DOMAIN t /\ t[j] = q[j]
      BY <1>1, <1>3, <2>1
    <3> QED BY <3>1 DEF Members
  <2>2. CASE ~(j < i)
    <3>1. j - 1 \in DOMAIN t /\ t[j - 1] = q[j]
      BY <1>1, <1>3, <2>2
    <3> QED BY <3>1 DEF Members
  <2> QED BY <2>1, <2>2
<1> QED BY <1>3, <1>4, <1>5, <1>6 DEF t

LEMMA CutPlace ==
    ASSUME NEW n \in Nat, NEW i \in 1 .. n
    PROVE  /\ (IF i + 1 <= n THEN n - (i + 1) + 1 ELSE 0) = n - i
           /\ (i - 1) + (n - i) = n - 1
OBVIOUS

(* It is what FifoQueue calls the queue without that element.              *)
LEMMA WithoutIsRemoveAt ==
    ASSUME NEW q \in Seq(Proc), Distinct(q), NEW i \in 1 .. Len(q)
    PROVE  /\ Fifo!RemoveAt(q, i) = Without(q, i)
           /\ i = 1 => Tail(q) = Without(q, i)
<1> DEFINE n == Len(q)
           a == SubSeq(q, 1, i - 1)
           b == SubSeq(q, i + 1, n)
<1>1. n \in Nat /\ i \in Nat /\ i >= 1 /\ i <= n /\ \A k \in 1 .. n : q[k] \in Proc
  BY SeqFacts
<1>2. /\ a \in Seq(Proc) /\ Len(a) = i - 1
      /\ \A k \in 1 .. i - 1 : a[k] = q[k]
  <2>1. \A k \in 1 .. i - 1 : q[k] \in Proc
    BY <1>1
  <2>2. 1 \in Int /\ i - 1 \in Int /\ (i - 1) - 1 + 1 = i - 1
    BY <1>1
  <2>3. /\ a \in Seq(Proc) /\ Len(a) = IF 1 <= i - 1 THEN (i - 1) - 1 + 1 ELSE 0
        /\ \A k \in 1 .. (i - 1) - 1 + 1 : a[k] = q[1 + k - 1]
    BY <2>1, <2>2, SubSeqProperties
  <2> QED BY <1>1, <2>2, <2>3
<1>3. /\ b \in Seq(Proc) /\ Len(b) = n - i
      /\ \A k \in 1 .. n - i : b[k] = q[k + i]
  <2>1. \A k \in i + 1 .. n : q[k] \in Proc
    BY <1>1
  <2>2. i + 1 \in Int /\ n \in Int /\ n - (i + 1) + 1 = n - i
    BY <1>1
  <2>3. /\ b \in Seq(Proc) /\ Len(b) = IF i + 1 <= n THEN n - (i + 1) + 1 ELSE 0
        /\ \A k \in 1 .. n - (i + 1) + 1 : b[k] = q[(i + 1) + k - 1]
    BY <2>1, <2>2, SubSeqProperties
  <2> HIDE DEF a, b
  <2>4. Len(b) = n - i
    BY <1>1, <2>3, CutPlace
  <2>5. \A k \in 1 .. n - i : (i + 1) + k - 1 = k + i
    BY <1>1
  <2> QED BY <2>2, <2>3, <2>4, <2>5
<1> HIDE DEF a, b
<1>4. /\ Without(q, i) \in Seq(Proc) /\ Len(Without(q, i)) = n - 1
      /\ \A k \in 1 .. n - 1 : Without(q, i)[k] = IF k < i THEN q[k] ELSE q[k + 1]
  BY WithoutFacts
<1>5. a \o b = Without(q, i)
  <2>1. /\ a \o b \in Seq(Proc) /\ Len(a \o b) = n - 1
        /\ \A k \in 1 .. n - 1 : (a \o b)[k] = IF k < i THEN q[k] ELSE q[k + 1]
    <3>1. a \o b \in Seq(Proc) /\ Len(a \o b) = n - 1
      <4>1. a \o b \in Seq(Proc) /\ Len(a \o b) = Len(a) + Len(b)
        BY <1>2, <1>3, ConcatProperties
      <4> QED BY <1>1, <1>2, <1>3, <4>1, CutPlace
    <3>2. ASSUME NEW k \in 1 .. n - 1
          PROVE  (a \o b)[k] = IF k < i THEN q[k] ELSE q[k + 1]
      <4>1. (a \o b)[k] = IF k <= Len(a) THEN a[k] ELSE b[k - Len(a)]
        BY <1>1, <1>2, <1>3, <3>1, ConcatProperties
      <4>2. CASE k < i
        <5>1. k \in 1 .. i - 1 /\ k <= Len(a)
          BY <1>1, <1>2, <4>2
        <5> QED BY <1>2, <4>1, <4>2, <5>1
      <4>3. CASE ~(k < i)
        <5>1. k - Len(a) \in 1 .. n - i /\ (k - Len(a)) + i = k + 1 /\ ~(k <= Len(a))
          BY <1>1, <1>2, <4>3
        <5> QED BY <1>3, <4>1, <4>3, <5>1
      <4> QED BY <4>2, <4>3
    <3> QED BY <3>1, <3>2
  <2> QED BY <1>1, <1>4, <2>1, SeqEqual
<1>6. ASSUME i = 1 PROVE Tail(q) = Without(q, i)
  <2>1. q # <<>>
    BY <1>1
  <2>2. /\ Tail(q) \in Seq(Proc) /\ Len(Tail(q)) = n - 1
        /\ \A k \in 1 .. n - 1 : Tail(q)[k] = q[k + 1]
    BY <1>1, <2>1, HeadTailProperties
  <2> QED BY <1>1, <1>4, <1>6, <2>2, SeqEqual
<1> QED BY <1>5, <1>6 DEF Fifo!RemoveAt, a, b

-----------------------------------------------------------------------------
(* What the two operations of the list make of it.                         *)
LinkType == link \in [Proc -> Proc \cup {NoProc}]

LEMMA AppendFacts ==
    ASSUME NEW q \in Seq(Proc), Distinct(q), NEW p \in Proc, p \notin Members(q)
    PROVE  /\ Append(q, p) \in Seq(Proc) /\ Len(Append(q, p)) = Len(q) + 1
           /\ \A i \in 1 .. Len(q) : Append(q, p)[i] = q[i]
           /\ Append(q, p)[Len(q) + 1] = p
           /\ Distinct(Append(q, p))
           /\ Members(Append(q, p)) = Members(q) \cup {p}
<1> DEFINE t == Append(q, p)
<1>1. /\ t \in Seq(Proc) /\ Len(t) = Len(q) + 1 /\ Len(q) \in Nat
      /\ DOMAIN q = 1 .. Len(q) /\ DOMAIN t = 1 .. Len(q) + 1
      /\ \A i \in 1 .. Len(q) : t[i] = q[i]
      /\ t[Len(q) + 1] = p
  BY LenProperties
<1> HIDE DEF t
<1>2. Distinct(t)
  <2> SUFFICES ASSUME NEW i \in DOMAIN t, NEW j \in DOMAIN t, t[i] = t[j] PROVE i = j
    BY DEF Distinct
  <2> QED BY <1>1 DEF Distinct, Members
<1>3. Members(t) = Members(q) \cup {p}
  BY <1>1 DEF Members
<1> QED BY <1>1, <1>2, <1>3 DEF t

LEMMA AppendItem ==
    ASSUME NEW q \in Seq(Proc), Distinct(q), NEW p \in Proc, p \notin Members(q),
           NEW k \in Nat, k >= 1
    PROVE  Item(Append(q, p), k) = IF k = Len(q) + 1 THEN p ELSE Item(q, k)
<1>1. /\ Len(Append(q, p)) = Len(q) + 1 /\ Len(q) \in Nat
      /\ \A i \in 1 .. Len(q) : Append(q, p)[i] = q[i]
      /\ Append(q, p)[Len(q) + 1] = p
  BY AppendFacts, SeqFacts
<1> QED BY <1>1 DEF Item

LEMMA WithoutItem ==
    ASSUME NEW q \in Seq(Proc), Distinct(q), NEW i \in 1 .. Len(q),
           NEW k \in Nat, k >= 1
    PROVE  Item(Without(q, i), k) = IF k < i THEN Item(q, k) ELSE Item(q, k + 1)
<1>1. /\ Len(Without(q, i)) = Len(q) - 1 /\ Len(q) \in Nat
      /\ \A j \in 1 .. Len(q) - 1 :
           Without(q, i)[j] = IF j < i THEN q[j] ELSE q[j + 1]
  BY WithoutFacts, SeqFacts
<1>2. CASE k \in 1 .. Len(q) - 1
  <2>1. k \in 1 .. Len(q) /\ k + 1 \in 1 .. Len(q)
    BY <1>1, <1>2
  <2> QED BY <1>1, <1>2, <2>1 DEF Item
<1>3. CASE k \notin 1 .. Len(q) - 1
  <2>1. k >= Len(q) /\ i <= Len(q)
    BY <1>1, <1>3
  <2>2. ~(k < i) /\ k + 1 \notin 1 .. Len(q)
    BY <1>1, <2>1
  <2> QED BY <1>1, <1>3, <2>2 DEF Item
<1> QED BY <1>2, <1>3

(* addToListLast finds the last process of the list and links the new one  *)
(* to it.                                                                  *)
LEMMA LinksAppended ==
    ASSUME NEW q, IsList(q), LinkType, NEW p \in Proc, p \notin Members(q),
           addToListLast(p)
    PROVE  IsList(Append(q, p))' /\ LinkType'
<1> DEFINE t == Append(q, p)
           n == Len(q)
<1>1. /\ q \in Seq(Proc) /\ Distinct(q) /\ n \in Nat /\ DOMAIN q = 1 .. n
      /\ \A i \in 1 .. n : q[i] \in Proc /\ q[i] \in Members(q)
      /\ \A i, j \in 1 .. n : q[i] = q[j] => i = j
      /\ runnable = IF n = 0 THEN NoProc ELSE q[1]
      /\ n # 0 => runnable # NoProc
      /\ \A i \in 1 .. n : link[q[i]] = Item(q, i + 1)
      /\ \A r \in Proc : r \notin Members(q) => link[r] = NoProc
  BY ListFacts DEF IsList, Members
<1>2. Chain = q
  BY ChainIsList DEF ListsAreChains
<1>3. /\ t \in Seq(Proc) /\ Len(t) = n + 1 /\ Distinct(t)
      /\ \A i \in 1 .. n : t[i] = q[i]
      /\ t[n + 1] = p
      /\ Members(t) = Members(q) \cup {p}
      /\ \A k \in Nat : k >= 1 => Item(t, k) = IF k = n + 1 THEN p ELSE Item(q, k)
  BY <1>1, AppendFacts, AppendItem
<1>4. Item(t, n + 2) = NoProc
  BY <1>1, <1>3 DEF Item
<1> HIDE DEF t
<1>5. CASE n = 0
  <2>1. runnable' = p /\ link' = link /\ Members(q) = {}
    BY <1>1, <1>5 DEF addToListLast, Members
  <2>2. runnable' = Item(t, 1)
    BY <1>3, <1>5, <2>1
  <2>3. \A i \in 1 .. Len(t) : link'[t[i]] = Item(t, i + 1)
    BY <1>1, <1>3, <1>4, <1>5, <2>1
  <2>4. \A r \in Proc : r \notin Members(t) => link'[r] = NoProc
    BY <1>1, <1>3, <2>1
  <2> QED BY <1>3, <2>1, <2>2, <2>3, <2>4 DEF IsList, LinkType, t
<1>6. CASE n # 0
  <2>1. /\ link' = [link EXCEPT ![q[n]] = p] /\ runnable' = runnable
        /\ n \in 1 .. n /\ 1 \in 1 .. n
    BY <1>1, <1>2, <1>6 DEF addToListLast
  <2>2. /\ link'[q[n]] = p /\ \A r \in Proc : r # q[n] => link'[r] = link[r]
        /\ LinkType'
    BY <1>1, <2>1 DEF LinkType
  <2>3. runnable' = Item(t, 1)
    BY <1>1, <1>3, <1>6, <2>1 DEF Item
  <2>4. ASSUME NEW i \in 1 .. Len(t) PROVE link'[t[i]] = Item(t, i + 1)
    <3>1. CASE i = n + 1
      <4>1. link'[p] = NoProc
        BY <1>1, <2>1, <2>2
      <4>2. i + 1 = n + 2
        BY <1>1, <3>1
      <4> QED BY <1>3, <1>4, <3>1, <4>1, <4>2
    <3>2. CASE i = n
      <4>1. n + 1 \in Nat /\ n + 1 >= 1
        BY <1>1
      <4> QED BY <1>3, <2>1, <2>2, <3>2, <4>1
    <3>3. CASE i # n + 1 /\ i # n
      <4>1. i \in 1 .. n /\ i + 1 \in Nat /\ i + 1 >= 1 /\ i + 1 # n + 1
        <5>1. n \in Nat /\ i \in 1 .. n + 1 /\ i # n + 1 /\ i # n
          BY <1>1, <1>3, <3>3
        <5> HIDE DEF n
        <5> QED BY <5>1
      <4>2. q[i] # q[n] /\ q[i] \in Proc
        BY <1>1, <2>1, <3>3, <4>1
      <4>3. link'[q[i]] = Item(q, i + 1)
        BY <1>1, <2>2, <4>1, <4>2
      <4> QED BY <1>3, <4>1, <4>3
    <3> QED BY <3>1, <3>2, <3>3
  <2>5. \A r \in Proc : r \notin Members(t) => link'[r] = NoProc
    BY <1>1, <1>3, <2>1, <2>2
  <2> QED BY <1>3, <2>2, <2>3, <2>4, <2>5 DEF IsList, t
<1> QED BY <1>5, <1>6

(* removeFromList links the process before to the one after, and clears    *)
(* the link of the process itself.                                         *)
LEMMA LinksRemoved ==
    ASSUME NEW q, IsList(q), LinkType, NEW i \in 1 .. Len(q),
           removeFromList(q[i])
    PROVE  IsList(Without(q, i))' /\ LinkType'
<1> DEFINE t == Without(q, i)
           n == Len(q)
<1>1. /\ q \in Seq(Proc) /\ Distinct(q) /\ n \in Nat /\ DOMAIN q = 1 .. n
      /\ \A j \in 1 .. n : q[j] \in Proc
      /\ \A j, k \in 1 .. n : q[j] = q[k] => j = k
      /\ runnable = IF n = 0 THEN NoProc ELSE q[1]
      /\ \A j \in 1 .. n : link[q[j]] = Item(q, j + 1)
      /\ \A r \in Proc : r \notin Members(q) => link[r] = NoProc
  BY ListFacts DEF IsList
<1>2. i \in Nat /\ i >= 1 /\ i <= n /\ n # 0 /\ 1 \in 1 .. n
  BY <1>1
<1>3. /\ t \in Seq(Proc) /\ Len(t) = n - 1 /\ Distinct(t)
      /\ \A k \in 1 .. n - 1 : t[k] = IF k < i THEN q[k] ELSE q[k + 1]
      /\ Members(t) = Members(q) \ {q[i]}
      /\ \A k \in Nat : k >= 1 => Item(t, k) = IF k < i THEN Item(q, k) ELSE Item(q, k + 1)
  BY <1>1, WithoutFacts, WithoutItem
<1> HIDE DEF t
<1>4. CASE i = 1
  <2>1. /\ runnable' = Item(q, 2) /\ link' = [link EXCEPT ![q[1]] = NoProc]
    BY <1>1, <1>2, <1>4 DEF removeFromList
  <2>2. /\ link'[q[1]] = NoProc /\ \A r \in Proc : r # q[1] => link'[r] = link[r]
        /\ LinkType'
    BY <1>1, <1>2, <2>1 DEF LinkType
  <2>3. runnable' = Item(t, 1)
    BY <1>3, <1>4, <2>1
  <2>4. ASSUME NEW k \in 1 .. Len(t) PROVE link'[t[k]] = Item(t, k + 1)
    <3>1. /\ k \in 1 .. n - 1 /\ k + 1 \in 1 .. n /\ k + 1 # 1 /\ k + 1 \in Nat
          /\ k + 1 >= 1 /\ ~(k < 1) /\ ~(k + 1 < 1) /\ k \in Nat
      BY <1>1, <1>3
    <3>2. t[k] = q[k + 1] /\ q[k + 1] # q[1]
      BY <1>1, <1>2, <1>3, <1>4, <3>1
    <3>3. link'[t[k]] = Item(q, (k + 1) + 1)
      BY <1>1, <2>2, <3>1, <3>2
    <3> QED BY <1>3, <1>4, <3>1, <3>3
  <2>5. \A r \in Proc : r \notin Members(t) => link'[r] = NoProc
    BY <1>1, <1>3, <1>4, <2>2
  <2> QED BY <1>3, <2>2, <2>3, <2>4, <2>5 DEF IsList, t
<1>5. CASE i # 1
  <2>1. i - 1 \in 1 .. n /\ i - 1 < i /\ i - 1 # i /\ i - 1 \in 1 .. n - 1 /\ (i - 1) + 1 = i
    BY <1>1, <1>2, <1>5
  <2>2. runnable # q[i]
    BY <1>1, <1>2, <1>5
  <2>3. /\ runnable' = runnable
        /\ link' = [link EXCEPT ![q[i - 1]] = link[q[i]], ![q[i]] = NoProc]
    <3>1. PICK node \in Proc :
            /\ link[node] = q[i]
            /\ link' = [link EXCEPT ![node] = link[q[i]], ![q[i]] = NoProc]
            /\ UNCHANGED runnable
      BY <2>2 DEF removeFromList
    <3>2. node = q[i - 1]
      BY <3>1, OneBefore
    <3> QED BY <3>1, <3>2
  <2>4. q[i - 1] # q[i]
    BY <1>1, <2>1
  <2>5. /\ link'[q[i]] = NoProc /\ link'[q[i - 1]] = Item(q, i + 1)
        /\ \A r \in Proc : r # q[i] /\ r # q[i - 1] => link'[r] = link[r]
        /\ LinkType'
    <3>1. link[q[i]] = Item(q, i + 1) /\ link[q[i]] \in Proc \cup {NoProc}
      BY <1>1 DEF LinkType
    <3> QED BY <1>1, <2>1, <2>3, <2>4, <3>1 DEF LinkType
  <2>6. runnable' = Item(t, 1)
    <3>1. 1 \in Nat /\ 1 >= 1 /\ 1 < i
      BY <1>2, <1>5
    <3>2. Item(t, 1) = Item(q, 1)
      BY <1>3, <3>1
    <3> QED BY <1>1, <1>2, <2>3, <3>2 DEF Item
  <2>7. ASSUME NEW k \in 1 .. Len(t) PROVE link'[t[k]] = Item(t, k + 1)
    <3>1. /\ k \in 1 .. n - 1 /\ k \in 1 .. n /\ k + 1 \in 1 .. n /\ k \in Nat
          /\ k + 1 \in Nat /\ k + 1 >= 1
      BY <1>1, <1>3
    <3>2. CASE k = i - 1
      <4>1. t[k] = q[i - 1] /\ k + 1 = i /\ ~(k + 1 < i)
        BY <1>2, <1>3, <2>1, <3>1, <3>2
      <4> QED BY <1>3, <2>5, <3>1, <4>1
    <3>3. CASE k < i /\ k # i - 1
      <4>1. k + 1 < i /\ k # i
        BY <1>2, <3>1, <3>3
      <4>2. t[k] = q[k] /\ q[k] # q[i] /\ q[k] # q[i - 1]
        BY <1>1, <1>3, <2>1, <3>1, <3>3, <4>1
      <4>3. link'[t[k]] = Item(q, k + 1)
        BY <1>1, <2>5, <3>1, <4>2
      <4> QED BY <1>3, <3>1, <4>1, <4>3
    <3>4. CASE ~(k < i)
      <4>1. ~(k + 1 < i) /\ k + 1 # i /\ k + 1 # i - 1
        BY <1>2, <3>1, <3>4
      <4>2. t[k] = q[k + 1] /\ q[k + 1] # q[i] /\ q[k + 1] # q[i - 1]
        BY <1>1, <1>3, <2>1, <3>1, <3>4, <4>1
      <4>3. link'[t[k]] = Item(q, (k + 1) + 1)
        BY <1>1, <2>5, <3>1, <4>2
      <4> QED BY <1>3, <3>1, <4>1, <4>3
    <3> QED BY <3>2, <3>3, <3>4
  <2>8. ASSUME NEW r \in Proc, r \notin Members(t) PROVE link'[r] = NoProc
    <3>1. CASE r = q[i]
      BY <2>5, <3>1
    <3>2. CASE r # q[i]
      <4>1. r \notin Members(q)
        BY <1>3, <2>8, <3>2
      <4>2. r # q[i - 1]
        BY <1>1, <2>1, <4>1 DEF Members
      <4> QED BY <1>1, <2>5, <3>2, <4>1, <4>2
    <3> QED BY <3>1, <3>2
  <2> QED BY <1>3, <2>5, <2>6, <2>7, <2>8 DEF IsList, t
<1> QED BY <1>4, <1>5

-----------------------------------------------------------------------------
(* The chain is q now, and t after the step.                               *)
LEMMA ChainBecomes ==
    ASSUME NEW t, IsList(t)'
    PROVE  Chain' = t /\ IsList(Chain)'
<1>1. Chain' = t
  BY ChainIsListNext DEF ListsAreChains
<1> QED BY <1>1 DEF IsList

(* containedInList, in terms of the list.                                  *)
LEMMA Contained ==
    ASSUME NEW q, q = Chain, NEW p
    PROVE  /\ containedInList(p) <=> p \in Members(q)
           /\ Fifo!Queued = Members(q)
BY DEF containedInList, Members, Fifo!Queued

LEMMA AddStep ==
    ASSUME QueueInv, NEW p \in Proc, addProcToRunnables(p)
    PROVE  QueueInv' /\ Fifo!Next
<1>1. PICK q : q = Chain /\ IsList(q)
  BY DEF QueueInv
<1>2. (containedInList(p) <=> p \in Members(q)) /\ Fifo!Queued = Members(q)
  BY <1>1, Contained
<1>3. p \notin Members(q) => link[p] = NoProc
  BY <1>1, ListFacts
<1>4. CASE p \in Members(q)
  <2>1. ~aborted /\ Abort
    BY <1>2, <1>4 DEF addProcToRunnables
  <2>2. IsList(q)'
    BY <1>1, <2>1 DEF Abort, IsList
  <2>3. Chain' = Chain /\ IsList(Chain)'
    BY <1>1, <2>2, ChainBecomes
  <2>4. QueueInv'
    BY <2>1, <2>3 DEF QueueInv, Abort
  <2>5. Fifo!EnterTwice(p)
    BY <1>2, <1>4, <2>1, <2>3 DEF Fifo!EnterTwice, Abort
  <2> QED BY <2>4, <2>5 DEF Fifo!Next
<1>5. CASE p \notin Members(q)
  <2>1. ~aborted /\ addToListLast(p) /\ UNCHANGED <<curProc, aborted>>
    BY <1>2, <1>3, <1>5 DEF addProcToRunnables
  <2>2. IsList(Append(q, p))' /\ LinkType'
    BY <1>1, <1>5, <2>1, LinksAppended DEF QueueInv, LinkType
  <2>3. Chain' = Append(Chain, p) /\ IsList(Chain)'
    BY <1>1, <2>2, ChainBecomes
  <2>4. QueueInv'
    BY <2>1, <2>2, <2>3 DEF QueueInv, LinkType
  <2>5. Fifo!Enter(p)
    BY <1>2, <1>5, <2>1, <2>3 DEF Fifo!Enter
  <2> QED BY <2>4, <2>5 DEF Fifo!Next
<1> QED BY <1>4, <1>5

LEMMA SuspendStep ==
    ASSUME QueueInv, NEW p \in Proc, suspendProcess(p)
    PROVE  QueueInv' /\ Fifo!Next
<1>1. PICK q : q = Chain /\ IsList(q)
  BY DEF QueueInv
<1>2. ~aborted /\ p \in Members(q) /\ removeFromList(p) /\ UNCHANGED <<curProc, aborted>>
  BY <1>1, Contained DEF suspendProcess
<1>3. q \in Seq(Proc) /\ Distinct(q) /\ DOMAIN q = 1 .. Len(q)
  BY <1>1, ListFacts DEF IsList
<1>4. PICK i \in 1 .. Len(q) : q[i] = p
  BY <1>2, <1>3 DEF Members
<1>5. IsList(Without(q, i))' /\ LinkType'
  BY <1>1, <1>2, <1>4, LinksRemoved DEF QueueInv, LinkType
<1>6. Chain' = Without(q, i) /\ IsList(Chain)'
  BY <1>5, ChainBecomes
<1>7. Fifo!RemoveAt(q, i) = Without(q, i)
  BY <1>3, WithoutIsRemoveAt
<1>8. QueueInv'
  BY <1>2, <1>5, <1>6 DEF QueueInv, LinkType
<1>9. i \in DOMAIN Chain /\ Chain[i] = p /\ Chain' = Fifo!RemoveAt(Chain, i)
  BY <1>1, <1>3, <1>4, <1>6, <1>7
<1>10. Fifo!Leave(p)
  BY <1>2, <1>9 DEF Fifo!Leave
<1> QED BY <1>8, <1>10 DEF Fifo!Next

LEMMA NextStep ==
    ASSUME QueueInv, getNextForRunning
    PROVE  QueueInv' /\ Fifo!Next
<1>1. PICK q : q = Chain /\ IsList(q)
  BY DEF QueueInv
<1>2. /\ q \in Seq(Proc) /\ Distinct(q) /\ Len(q) \in Nat /\ DOMAIN q = 1 .. Len(q)
      /\ \A i \in 1 .. Len(q) : q[i] \in Proc /\ q[i] # NoProc
      /\ runnable = IF Len(q) = 0 THEN NoProc ELSE q[1]
      /\ Len(q) = 0 <=> q = <<>>
  BY <1>1, ListFacts DEF IsList
<1>3. ~aborted /\ curProc' = runnable /\ UNCHANGED aborted
  BY DEF getNextForRunning
<1>4. CASE Len(q) = 0
  <2>1. UNCHANGED <<runnable, link>> /\ runnable = NoProc
    BY <1>2, <1>4 DEF getNextForRunning
  <2>2. IsList(q)'
    BY <1>1, <2>1 DEF IsList
  <2>3. Chain' = Chain /\ IsList(Chain)'
    BY <1>1, <2>2, ChainBecomes
  <2>4. QueueInv'
    BY <1>3, <2>1, <2>3 DEF QueueInv
  <2>5. Fifo!TakeNone
    BY <1>1, <1>2, <1>3, <1>4, <2>1, <2>3 DEF Fifo!TakeNone
  <2> QED BY <2>4, <2>5 DEF Fifo!Next
<1>5. CASE Len(q) # 0
  <2>1. 1 \in 1 .. Len(q) /\ runnable = q[1] /\ removeFromList(q[1])
    BY <1>2, <1>5 DEF getNextForRunning
  <2>2. IsList(Without(q, 1))' /\ LinkType'
    BY <1>1, <2>1, LinksRemoved DEF QueueInv, LinkType
  <2>3. Chain' = Without(q, 1) /\ IsList(Chain)'
    BY <2>2, ChainBecomes
  <2>4. Tail(q) = Without(q, 1) /\ Head(q) = q[1]
    BY <1>2, <2>1, WithoutIsRemoveAt
  <2>5. QueueInv'
    BY <1>2, <1>3, <2>1, <2>2, <2>3 DEF QueueInv, LinkType
  <2>6. Fifo!Take
    BY <1>1, <1>2, <1>3, <1>5, <2>1, <2>3, <2>4 DEF Fifo!Take
  <2> QED BY <2>5, <2>6 DEF Fifo!Next
<1> QED BY <1>4, <1>5

LEMMA QueueInit == Init => QueueInv /\ Fifo!Init
<1> SUFFICES ASSUME Init PROVE QueueInv /\ Fifo!Init
  OBVIOUS
<1>1. runnable = NoProc /\ link = [p \in Proc |-> NoProc] /\ curProc = NoProc /\ aborted = FALSE
  BY DEF Init
<1>2. <<>> \in Seq(Proc) /\ Len(<<>>) = 0 /\ DOMAIN <<>> = {}
  BY EmptySeq
<1>3. IsList(<<>>)
  BY <1>1, <1>2 DEF IsList, Item, Distinct, Members
<1>4. Chain = <<>>
  BY <1>3, ChainIsList DEF ListsAreChains
<1> QED BY <1>1, <1>3, <1>4 DEF QueueInv, Fifo!Init

LEMMA QueueStep ==
    ASSUME QueueInv, [Next]_vars
    PROVE  QueueInv' /\ [Fifo!Next]_(Fifo!fifoVars)
<1>1. CASE UNCHANGED vars
  <2>1. UNCHANGED <<runnable, link, curProc, aborted>>
    BY <1>1 DEF vars
  <2>2. PICK q : q = Chain /\ IsList(q)
    BY DEF QueueInv
  <2>3. IsList(q)'
    BY <2>1, <2>2 DEF IsList
  <2>4. Chain' = Chain /\ IsList(Chain)'
    BY <2>2, <2>3, ChainBecomes
  <2> QED BY <2>1, <2>4 DEF QueueInv, Fifo!fifoVars
<1>2. CASE Next
  BY <1>2, AddStep, SuspendStep, NextStep DEF Next
<1> QED BY <1>1, <1>2

-----------------------------------------------------------------------------
(* The processes linked from the head on are a sequence without repetition *)
(* at every moment, and no other process has a link.                       *)
THEOREM QueueInvariant == Spec => []QueueInv
<1>1. QueueInv /\ [Next]_vars => QueueInv'
  BY QueueStep
<1> QED BY <1>1, QueueInit, PTL DEF Spec

(* The loops of the three list functions reach nil after at most as many   *)
(* processes as there are, whatever calls were made before.                *)
THEOREM WalksTerminate == Spec => []WalkTerminates
<1>1. QueueInv => WalkTerminates
  <2> SUFFICES ASSUME QueueInv PROVE WalkTerminates
    OBVIOUS
  <2>1. PICK q : q = Chain /\ IsList(q)
    BY DEF QueueInv
  <2>2. Last \in 1 .. Last /\ ~(Last \in 1 .. Len(q))
    BY <2>1, ListFacts, ShortEnough DEF IsList, Last
  <2>3. nth[Last] = Item(q, Last)
    BY <2>1, <2>2, WalkFindsList
  <2> QED BY <2>2, <2>3 DEF WalkTerminates, Item, Last
<1> QED BY <1>1, QueueInvariant, PTL

(* Every operation leaves the processes outside the list without a link,   *)
(* and without one that leads to them, so that no later call meets a stale *)
(* part of an old list.                                                    *)
THEOREM NoLinkLeftBehind == Spec => []OutsideUnlinked
<1>1. QueueInv => OutsideUnlinked
  <2> SUFFICES ASSUME QueueInv, NEW p \in Proc, ~containedInList(p)
               PROVE  /\ link[p] = NoProc
                      /\ p # runnable
                      /\ \A r \in Proc : link[r] # p
    BY DEF OutsideUnlinked
  <2>1. PICK q : q = Chain /\ IsList(q)
    BY DEF QueueInv
  <2>2. p \notin Members(q) /\ p # NoProc
    BY <2>1, Contained, NoProcAssumption
  <2>3. /\ Len(q) \in Nat /\ DOMAIN q = 1 .. Len(q)
        /\ runnable = IF Len(q) = 0 THEN NoProc ELSE q[1]
        /\ \A i \in 1 .. Len(q) : link[q[i]] = IF i = Len(q) THEN NoProc ELSE q[i + 1]
        /\ \A r \in Proc : r \notin Members(q) => link[r] = NoProc
    BY <2>1, ListFacts
  <2>4. \A i \in 1 .. Len(q) : q[i] # p
    BY <2>2, <2>3 DEF Members
  <2>5. p # runnable
    <3>1. Len(q) # 0 => 1 \in 1 .. Len(q)
      BY <2>3, FirstPlace
    <3> QED BY <2>2, <2>3, <2>4, <3>1
  <2>6. ASSUME NEW r \in Proc PROVE link[r] # p
    <3>1. CASE r \notin Members(q)
      BY <2>2, <2>3, <3>1
    <3>2. ASSUME NEW i \in 1 .. Len(q), r = q[i] PROVE link[r] # p
      <4>1. i # Len(q) => i + 1 \in 1 .. Len(q)
        BY <2>3, NextPlace
      <4> QED BY <2>2, <2>3, <2>4, <3>2, <4>1
    <3> QED BY <2>3, <3>1, <3>2 DEF Members
  <2> QED BY <2>2, <2>3, <2>5, <2>6
<1> QED BY <1>1, QueueInvariant, PTL

(* The intrusive list implements the queue that the scheduler relies on:   *)
(* entering, suspending and taking have the effect on the order that their *)
(* callers expect, and the assertion fails for a process that is queued    *)
(* already and for no other.                                               *)
THEOREM ListIsFifo == Spec => ImplementsFifo
<1>1. QueueInv /\ [Next]_vars => [Fifo!Next]_(Fifo!fifoVars)
  BY QueueStep
<1> QED BY <1>1, QueueInit, QueueInvariant, PTL DEF Spec, ImplementsFifo, Fifo!Spec

=============================================================================
