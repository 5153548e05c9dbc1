------------------------------- MODULE Lookup -------------------------------
(***************************************************************************)
(* How classes and their dictionaries of methods lie in the memory, and    *)
(* the inline caches of the machine (lookupCached): what has to stay as it *)
(* is for them to agree with the lookup of methods.  Nothing ever empties  *)
(* a cache, so the classes and the dictionaries that a lookup reads must   *)
(* not change once one has been filled.                                    *)
(***************************************************************************)
EXTENDS Machine

IsSite(m, o) == m[o].isa = Known("Character")
IsCache(m, o) ==
    /\ IsSite(m, o) /\ Len(m[o].slots) = CacheSlots
    /\ m[o].slots[CacheMethod] # Nil

Coherent(m) ==
    \A o \in DOMAIN m :
        IsCache(m, o) => m[o].slots[CacheMethod] =
                         LookupMethod(m, m[o].slots[CacheClass],
                                      m[o].slots[CacheSelector][2])

(* INVARIANT.  A filled cache holds what a lookup in the class that it was *)
(* filled for finds (lookupCached, which compares classes and a version    *)
(* that never changes).                                                    *)
CachesCoherent == phase \notin {"names", "synth", "generate"} => Coherent(mem)

-----------------------------------------------------------------------------
(* The objects numbered K are the classes, those numbered D their          *)
(* dictionaries of methods: lookups from a class of K read no others.      *)
Oops(S) == {Oop(i) : i \in S}
Apart(m, K, D, o) ==
    o[2] \notin K \cup D /\ (o[2] \in DOMAIN m => ~IsSite(m, o[2]))

(* Every chain of superclasses ends.                                       *)
Closed(m, K, D) ==
    \A k \in K : /\ At(m, Oop(k), SuperClass) \in Oops(K) \cup {Nil}
                /\ At(m, Oop(k), Methods) \in Oops(D) \cup {Nil}
Rooted(m, K) ==
    \A c \in Oops(K) : \E n \in 0 .. Len(m) : IsTop(m, Lineage(m, c)[n])

IsObject(o) == o = [isa |-> o.isa, slots |-> o.slots]
IsMemory(m) ==
    /\ Len(m) \in Nat /\ m = [i \in 1 .. Len(m) |-> m[i]]
    /\ \A i \in 1 .. Len(m) : IsObject(m[i])

(* Dictionaries over keys that have hash codes of their own.  Nothing is   *)
(* asked of the tables but that they have buckets: a key may occur in one  *)
(* twice, and its first pair is what counts.                               *)
OwnCodes(Keys) ==
    /\ \A k \in Keys : HashCode[k] \in Nat
    /\ \A k, l \in Keys : HashCode[k] = HashCode[l] => k = l
Entries(Keys, V) == [key : Keys, value : V]
Tables(Keys, V) == Seq(Seq(Entries(Keys, V))) \ {<<>>}

(* As the compiler lays them out: no two classes share a dictionary.       *)
ClassesLaid(m, K, D, Keys, V) ==
    /\ IsMemory(m)
    /\ K \subseteq DOMAIN m /\ D \subseteq DOMAIN m /\ K \cap D = {}
    /\ Closed(m, K, D) /\ Rooted(m, K)
    /\ \A k \in K : {SuperClass, Methods} \subseteq DOMAIN m[k].slots
    /\ \A d \in D : 1 \in DOMAIN m[d].slots /\ m[d].slots[1] \in Tables(Keys, V)
    /\ \A k, l \in K :
          At(m, Oop(k), Methods) = At(m, Oop(l), Methods) =>
              k = l \/ At(m, Oop(k), Methods) = Nil

(* While the machine runs every object is an instance of one of the        *)
(* classes, or of none, and so are the classes that the machine names.     *)
Placed(m, K, D) ==
    /\ K \subseteq DOMAIN m /\ D \subseteq DOMAIN m
    /\ \A i \in K \cup D : ~IsSite(m, i)
    /\ Closed(m, K, D) /\ Rooted(m, K)
    /\ \A i \in DOMAIN KnownClasses : Known(KnownClasses[i]) \in Oops(K)
    /\ \A i \in DOMAIN m : m[i].isa \in Oops(K) \cup {Nil}
    /\ \A i \in DOMAIN m : IsCache(m, i) => m[i].slots[CacheClass] \in Oops(K)
    /\ Apart(m, K, D, Globals)

(* What a program may not do: store into a class, a dictionary of methods  *)
(* or a cache, as basicAt:put: and the stores of variables could, or make  *)
(* an object an instance of what is not a class, or of the caches' own.    *)
Stores == {"classOfPut", "basicAtPut", "byteAtPut"}
SafeCall(K, D, p, a) ==
    /\ PrimName(p) \in Stores => Apart(mem, K, D, a[1])
    /\ PrimName(p) = "classOfPut" =>
          a[2] \in (Oops(K) \cup {Nil}) \ {Known("Character")}

(* The values that a send takes are what the compiler and the machine make *)
(* of them: a cache with its five fields, and an object that exists.       *)
IsValue(v) == v[1] \in {"smi", "nil", "sym"} \/ v \in Oops(DOMAIN mem)
SafeSend(K, D) ==
    LET cache == Lit(Operand(1))
    IN  /\ cache[2] \in DOMAIN mem \ (K \cup D)
        /\ IsSite(mem, cache[2])
        /\ Len(mem[cache[2]].slots) = CacheSlots
        /\ DOMAIN mem[cache[2]].slots = 1 .. CacheSlots
        /\ IsValue(ac)

Disciplined(K, D) ==
    /\ Executes("StaNstVar") => Apart(mem, K, D, Reg(0))
    /\ Executes("StaMyHeapVar") \/ Executes("MoveParentHeapVarToMyHeapVars") =>
          Apart(mem, K, D, Ctx.heapVars)
    /\ Executes("StaParentHeapVar") \/ Executes("MoveMyHeapVarToParentHeapVars") =>
          Apart(mem, K, D, Ctx.parentHeapVars)
    /\ Executes("LdaBlockCopy") => LET t == Lit(Operand(1))[2]
                                   IN  t \in DOMAIN mem /\ ~IsSite(mem, t)
    /\ Executes("Send") => SafeSend(K, D)
    /\ Executes("SendSuper") => SafeSend(K, D) /\ ClassOfMethod \in Oops(K)
    /\ Executes("Primitive") =>
          SafeCall(K, D, Operand(1), [i \in 1 .. Operand(2) |-> Reg(Operand(2 + i))])
    /\ Executes("Primitive0") => SafeCall(K, D, Operand(1), <<>>)
    /\ Executes("Primitive1") => SafeCall(K, D, Operand(1), <<ac>>)
    /\ Executes("Primitive2") =>
          SafeCall(K, D, Operand(1), <<Reg(Operand(2)), ac>>)
    /\ Executes("Primitive3") =>
          SafeCall(K, D, Operand(1), <<Reg(Operand(2)), Reg(Operand(2) + 1), ac>>)

MachineNext == Execute \/ Instruction \/ TimesliceDone
=============================================================================
