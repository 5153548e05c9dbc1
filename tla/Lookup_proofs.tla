--------------------------- MODULE Lookup_proofs ---------------------------
(***************************************************************************)
(* Proofs about the dictionaries, the lookup of methods and the inline     *)
(* caches of the machine, for every memory: a method that is added is      *)
(* found, and a program that stores into no class, dictionary of methods   *)
(* or cache finds in its caches what a lookup finds.                       *)
(***************************************************************************)
EXTENDS Lookup, WellFoundedInduction, TLAPS

-----------------------------------------------------------------------------
(* The first of a set of numbers.                                          *)
LEMMA First ==
    ASSUME NEW S, S \subseteq Nat, S # {}
    PROVE  \E n \in S : \A i \in S : n <= i
<1>1. PICK n \in S : \A i \in S : ~(<<i, n>> \in OpToRel(<, Nat))
  BY WFMin, NatLessThanWellFounded
<1>2. \A i \in S : ~(i < n)
  BY <1>1 DEF OpToRel
<1> QED BY <1>2

-----------------------------------------------------------------------------
LEMMA LeastOfSet ==
    ASSUME NEW S, S \subseteq Nat, S # {}
    PROVE  Min(S) \in S /\ \A i \in S : Min(S) <= i
<1>1. \E n \in S : \A i \in S : n <= i
  BY First
<1> QED BY <1>1 DEF Min

(* Inserting in a bucket: later lookups of the key find the value, those   *)
(* of other keys what they found before.                                   *)
LEMMA BucketRemembers ==
    ASSUME NEW Keys, OwnCodes(Keys), NEW V, NEW b \in Seq(Entries(Keys, V)),
           NEW k \in Keys, NEW v \in V
    PROVE  /\ BucketInsert(b, k, v) \in Seq(Entries(Keys, V))
           /\ BucketLookup(BucketInsert(b, k, v), k) = v
           /\ \A l \in Keys \ {k} :
                 BucketLookup(BucketInsert(b, k, v), l) = BucketLookup(b, l)
<1> DEFINE c == BucketInsert(b, k, v)
           pair == [key |-> k, value |-> v]
           Same(s, l) == {i \in DOMAIN s : s[i].key = l}
<1>1. pair \in Entries(Keys, V)
  BY DEF Entries
<1>2. \A s \in Seq(Entries(Keys, V)), l \in Keys :
          BucketLookup(s, l) = IF Same(s, l) = {} THEN Nil ELSE s[Min(Same(s, l))].value
  <2> SUFFICES ASSUME NEW s \in Seq(Entries(Keys, V)), NEW l \in Keys
               PROVE  BucketLookup(s, l)
                      = IF Same(s, l) = {} THEN Nil ELSE s[Min(Same(s, l))].value
    OBVIOUS
  <2>1. \A i \in DOMAIN s : s[i].key \in Keys
    <3>1. \A i \in DOMAIN s : s[i] \in Entries(Keys, V)
      OBVIOUS
    <3> QED BY <3>1 DEF Entries
  <2>2. {i \in DOMAIN s : HashCode[s[i].key] = HashCode[l]} = Same(s, l)
    BY <2>1 DEF OwnCodes
  <2> QED BY <2>2 DEF BucketLookup
<1>3. \A s \in Seq(Entries(Keys, V)), l \in Keys :
          Same(s, l) # {} => /\ Min(Same(s, l)) \in Same(s, l)
                             /\ \A i \in Same(s, l) : Min(Same(s, l)) <= i
  <2> SUFFICES ASSUME NEW s \in Seq(Entries(Keys, V)), NEW l \in Keys, Same(s, l) # {}
               PROVE  /\ Min(Same(s, l)) \in Same(s, l)
                      /\ \A i \in Same(s, l) : Min(Same(s, l)) <= i
    OBVIOUS
  <2>1. Same(s, l) \subseteq Nat
    OBVIOUS
  <2> HIDE DEF Same
  <2> QED BY <2>1, LeastOfSet
<1>4. CASE Same(b, k) = {}
  <2>1. c = Append(b, pair)
    BY <1>4 DEF BucketInsert
  <2> HIDE DEF pair
  <2>2. /\ c \in Seq(Entries(Keys, V)) /\ Len(c) = Len(b) + 1
        /\ c[Len(b) + 1] = pair /\ \A i \in DOMAIN b : c[i] = b[i]
    BY <1>1, <2>1
  <2> HIDE DEF c
  <2>3. pair.key = k /\ pair.value = v
    BY DEF pair
  <2>4. Same(c, k) = {Len(b) + 1}
    BY <1>4, <2>2, <2>3
  <2>5. BucketLookup(c, k) = v
    <3>1. Min(Same(c, k)) = Len(b) + 1
      BY <1>3, <2>2, <2>4
    <3> QED BY <1>2, <2>2, <2>3, <2>4, <3>1
  <2>6. \A l \in Keys \ {k} : BucketLookup(c, l) = BucketLookup(b, l)
    <3> SUFFICES ASSUME NEW l \in Keys \ {k}
                 PROVE  BucketLookup(c, l) = BucketLookup(b, l)
      OBVIOUS
    <3>1. Same(c, l) = Same(b, l)
      BY <2>2, <2>3
    <3>2. Same(b, l) # {} => Min(Same(b, l)) \in DOMAIN b
      BY <1>3
    <3>3. Same(b, l) # {} => c[Min(Same(b, l))] = b[Min(Same(b, l))]
      BY <2>2, <3>2
    <3> HIDE DEF Same
    <3> QED BY <1>2, <2>2, <3>1, <3>3
  <2> QED BY <2>2, <2>5, <2>6 DEF c
<1>5. CASE Same(b, k) # {}
  <2> DEFINE n == Min(Same(b, k))
  <2>1. c = [b EXCEPT ![n] = pair]
    BY <1>5 DEF BucketInsert
  <2>2. n \in DOMAIN b /\ b[n].key = k
    BY <1>3, <1>5
  <2> HIDE DEF n
  <2>3. /\ c \in Seq(Entries(Keys, V)) /\ DOMAIN c = DOMAIN b
        /\ \A i \in DOMAIN b : c[i] = IF i = n THEN pair ELSE b[i]
    <3> HIDE DEF pair
    <3>1. b \in [1 .. Len(b) -> Entries(Keys, V)] /\ Len(b) \in Nat
      OBVIOUS
    <3>2. c \in [1 .. Len(b) -> Entries(Keys, V)]
      BY <1>1, <2>1, <3>1
    <3>3. /\ DOMAIN c = DOMAIN b
          /\ \A i \in DOMAIN b : c[i] = IF i = n THEN pair ELSE b[i]
      BY <2>1
    <3> HIDE DEF c
    <3>4. c \in Seq(Entries(Keys, V))
      BY <3>1, <3>2
    <3> QED BY <3>3, <3>4
  <2> HIDE DEF c
  <2>4. pair.key = k /\ pair.value = v
    OBVIOUS
  <2> HIDE DEF pair
  <2>5. \A i \in DOMAIN b : c[i].key = b[i].key
    BY <2>2, <2>3, <2>4
  <2>6. \A l : Same(c, l) = Same(b, l)
    BY <2>3, <2>5
  <2>7. BucketLookup(c, k) = v
    <3>1. Same(c, k) = Same(b, k) /\ c[n].value = v
      BY <2>2, <2>3, <2>4, <2>6
    <3> HIDE DEF Same
    <3> QED BY <1>2, <1>5, <2>3, <3>1 DEF n
  <2>8. \A l \in Keys \ {k} : BucketLookup(c, l) = BucketLookup(b, l)
    <3> SUFFICES ASSUME NEW l \in Keys \ {k}
                 PROVE  BucketLookup(c, l) = BucketLookup(b, l)
      OBVIOUS
    <3>1. Same(b, l) # {} => /\ Min(Same(b, l)) \in DOMAIN b
                             /\ b[Min(Same(b, l))].key = l
      BY <1>3
    <3>2. Same(b, l) # {} => c[Min(Same(b, l))] = b[Min(Same(b, l))]
      BY <2>2, <2>3, <3>1
    <3>3. Same(c, l) = Same(b, l)
      BY <2>6
    <3> HIDE DEF Same
    <3> QED BY <1>2, <2>3, <3>2, <3>3
  <2> QED BY <2>3, <2>7, <2>8 DEF c
<1> QED BY <1>4, <1>5

LEMMA BucketInTable ==
    ASSUME NEW Keys, OwnCodes(Keys), NEW V, NEW t \in Tables(Keys, V), NEW k \in Keys
    PROVE  BucketOf(t, k) \in 1 .. Len(t)
<1>1. Len(t) \in Nat \ {0}
  BY DEF Tables
<1>2. HashCode[k] \in Nat
  BY DEF OwnCodes
<1>3. \A h \in Nat, m \in Nat \ {0} : (h % m) + 1 \in 1 .. m
  OBVIOUS
<1> QED BY <1>1, <1>2, <1>3 DEF BucketOf

(* THEOREM.  What was inserted under a key is found there, and what was    *)
(* under the other keys still is, however many share its bucket; as long   *)
(* as no two keys have one hash code (insert, findPairByFun).              *)
THEOREM TableRemembers ==
    ASSUME NEW Keys, OwnCodes(Keys), NEW V, NEW t \in Tables(Keys, V),
           NEW k \in Keys, NEW v \in V
    PROVE  /\ TableInsert(t, k, v) \in Tables(Keys, V)
           /\ TableLookup(TableInsert(t, k, v), k) = v
           /\ \A l \in Keys \ {k} :
                 TableLookup(TableInsert(t, k, v), l) = TableLookup(t, l)
<1> DEFINE S == Seq(Entries(Keys, V))
           n == BucketOf(t, k)
           w == TableInsert(t, k, v)
<1>1. t \in Seq(S) /\ Len(t) \in Nat \ {0}
  BY DEF Tables
<1>2. \A l \in Keys : BucketOf(t, l) \in 1 .. Len(t)
  BY BucketInTable
<1>3. n \in 1 .. Len(t) /\ t[n] \in S
  <2>1. n \in 1 .. Len(t)
    BY <1>2
  <2> HIDE DEF n, S
  <2> QED BY <1>1, <2>1
<1>4. w = [t EXCEPT ![n] = BucketInsert(t[n], k, v)]
  BY DEF TableInsert
<1> HIDE DEF n
<1>5. BucketInsert(t[n], k, v) \in S
  BY <1>3, BucketRemembers
<1>6. /\ w \in Seq(S) /\ Len(w) = Len(t)
      /\ \A i \in 1 .. Len(t) : w[i] = IF i = n THEN BucketInsert(t[n], k, v) ELSE t[i]
  <2> HIDE DEF S, w
  <2> QED BY <1>1, <1>3, <1>4, <1>5
<1> HIDE DEF w
<1>7. \A l \in Keys : BucketOf(w, l) = BucketOf(t, l)
  BY <1>6 DEF BucketOf
<1>8. TableLookup(w, k) = v
  <2>1. TableLookup(w, k) = BucketLookup(BucketInsert(t[n], k, v), k)
    BY <1>3, <1>6, <1>7 DEF TableLookup, n
  <2> QED BY <1>3, <2>1, BucketRemembers
<1>9. \A l \in Keys \ {k} : TableLookup(w, l) = TableLookup(t, l)
  <2> SUFFICES ASSUME NEW l \in Keys \ {k} PROVE TableLookup(w, l) = TableLookup(t, l)
    OBVIOUS
  <2>1. BucketLookup(BucketInsert(t[n], k, v), l) = BucketLookup(t[n], l)
    BY <1>3, BucketRemembers
  <2>2. BucketLookup(w[BucketOf(t, l)], l) = BucketLookup(t[BucketOf(t, l)], l)
    BY <1>2, <1>6, <2>1
  <2> QED BY <1>7, <2>2 DEF TableLookup
<1>10. w \in Tables(Keys, V)
  <2>1. w # <<>>
    BY <1>1, <1>6
  <2> QED BY <1>6, <2>1 DEF Tables
<1> QED BY <1>8, <1>9, <1>10 DEF w

-----------------------------------------------------------------------------
(* The superclasses of a class, one after the other.                       *)
Step(m, c, f, n) ==
    IF n = 0 THEN c
    ELSE IF IsTop(m, f[n - 1]) THEN f[n - 1] ELSE At(m, f[n - 1], SuperClass)

LEMMA LineageExists ==
    ASSUME NEW m, NEW c, NEW len \in Nat
    PROVE  \E f : f = [n \in 0 .. len |-> Step(m, c, f, n)]
<1> DEFINE T == {n \in Nat : ~\E f : f = [i \in 0 .. n |-> Step(m, c, f, i)]}
<1> SUFFICES ASSUME T # {} PROVE FALSE
  OBVIOUS
<1>1. PICK n \in T : \A i \in T : n <= i
  BY First
<1>2. n # 0
  <2> DEFINE f == [i \in 0 .. 0 |-> c]
  <2>1. f = [i \in 0 .. 0 |-> Step(m, c, f, i)]
    BY DEF Step
  <2> QED BY <2>1
<1>3. n \in Nat /\ n - 1 \in Nat /\ n - 1 \notin T
  BY <1>1, <1>2
<1>4. PICK f : f = [i \in 0 .. n - 1 |-> Step(m, c, f, i)]
  BY <1>3
<1> DEFINE g == [i \in 0 .. n |-> IF i = n THEN Step(m, c, f, n) ELSE f[i]]
<1>5. \A i \in 0 .. n : i # 0 => i - 1 \in 0 .. n /\ g[i - 1] = f[i - 1]
  BY <1>3
<1>6. \A i \in 0 .. n : Step(m, c, g, i) = Step(m, c, f, i)
  BY <1>5 DEF Step
<1>7. \A i \in 0 .. n : i # n => f[i] = Step(m, c, f, i)
  BY <1>3, <1>4
<1>8. g = [i \in 0 .. n |-> Step(m, c, g, i)]
  BY <1>6, <1>7
<1> QED BY <1>1, <1>8

LEMMA LineageIs ==
    ASSUME NEW m, Len(m) \in Nat, NEW c
    PROVE  Lineage(m, c) = [n \in 0 .. Len(m) |-> Step(m, c, Lineage(m, c), n)]
<1> DEFINE F(f) == f = [n \in 0 .. Len(m) |-> Step(m, c, f, n)]
<1>1. \E f : F(f)
  BY LineageExists
<1>2. Lineage(m, c) = CHOOSE f : F(f)
  BY DEF Lineage, Step
<1>3. F(Lineage(m, c))
  <2> HIDE DEF F
  <2> QED BY <1>1, <1>2
<1> QED BY <1>3

-----------------------------------------------------------------------------
(* When the superclasses of the classes K stay, so do their lineages; and  *)
(* when their own methods for a selector stay, so does what a lookup of it *)
(* finds.                                                                  *)
SameLinks(m, w, K) ==
    /\ Len(m) \in Nat /\ Len(w) \in Nat /\ Len(m) <= Len(w)
    /\ \A c \in Oops(K) : At(w, c, SuperClass) = At(m, c, SuperClass)

LEMMA LinksStay ==
    ASSUME NEW K, NEW D, NEW m, NEW w, Closed(m, K, D), SameLinks(m, w, K),
           NEW c \in Oops(K)
    PROVE  /\ IsTop(w, c) <=> IsTop(m, c)
           /\ At(w, c, SuperClass) = At(m, c, SuperClass)
           /\ ~IsTop(m, c) => At(m, c, SuperClass) \in Oops(K)
<1>1. PICK k \in K : c = Oop(k)
  BY DEF Oops
<1>2. At(m, c, SuperClass) \in Oops(K) \cup {Nil}
  BY <1>1 DEF Closed
<1>3. At(w, c, SuperClass) = At(m, c, SuperClass)
  BY DEF SameLinks
<1> QED BY <1>2, <1>3 DEF IsTop

LEMMA LineageStays ==
    ASSUME NEW K, NEW D, NEW m, NEW w, Closed(m, K, D), SameLinks(m, w, K),
           NEW c \in Oops(K), NEW n \in 0 .. Len(m)
    PROVE  /\ Lineage(m, c)[n] \in Oops(K)
           /\ Lineage(w, c)[n] = Lineage(m, c)[n]
<1>1. PICK len \in Nat, more \in Nat :
          len = Len(m) /\ more = Len(w) /\ len <= more
  BY DEF SameLinks
<1>2. PICK f, g : f = Lineage(m, c) /\ g = Lineage(w, c)
  OBVIOUS
<1>3. /\ f = [i \in 0 .. len |-> Step(m, c, f, i)]
      /\ g = [i \in 0 .. more |-> Step(w, c, g, i)]
  BY <1>1, <1>2, LineageIs
<1>4. \A i \in 0 .. len : f[i] = Step(m, c, f, i) /\ g[i] = Step(w, c, g, i)
  <2>1. \A i \in 0 .. len : i \in 0 .. more
    BY <1>1
  <2> QED BY <1>3, <2>1, Zenon
<1> DEFINE T == {i \in 0 .. len : ~(f[i] \in Oops(K) /\ g[i] = f[i])}
<1>5. SUFFICES ASSUME T # {} PROVE FALSE
  BY <1>1, <1>2
<1>6. T \subseteq Nat
  BY <1>1
<1>7. PICK i \in T : \A j \in T : i <= j
  BY <1>5, <1>6, First
<1>8. i # 0
  BY <1>4 DEF Step
<1>9. i \in 0 .. len /\ i - 1 \in 0 .. len /\ i - 1 \notin T
  BY <1>7, <1>8
<1>10. f[i - 1] \in Oops(K) /\ g[i - 1] = f[i - 1]
  BY <1>9
<1>11. /\ IsTop(w, f[i - 1]) <=> IsTop(m, f[i - 1])
       /\ At(w, f[i - 1], SuperClass) = At(m, f[i - 1], SuperClass)
       /\ ~IsTop(m, f[i - 1]) => At(m, f[i - 1], SuperClass) \in Oops(K)
  BY <1>10, LinksStay
<1>12. /\ f[i] = IF IsTop(m, f[i - 1]) THEN f[i - 1] ELSE At(m, f[i - 1], SuperClass)
       /\ g[i] = IF IsTop(w, g[i - 1]) THEN g[i - 1] ELSE At(w, g[i - 1], SuperClass)
  BY <1>4, <1>8, <1>9 DEF Step
<1> QED BY <1>7, <1>10, <1>11, <1>12

LEMMA RootedStays ==
    ASSUME NEW K, NEW D, NEW m, NEW w, Closed(m, K, D), SameLinks(m, w, K), Rooted(m, K)
    PROVE  Rooted(w, K)
<1> SUFFICES ASSUME NEW c \in Oops(K)
             PROVE  \E n \in 0 .. Len(w) : IsTop(w, Lineage(w, c)[n])
  BY DEF Rooted
<1>1. PICK n \in 0 .. Len(m) : IsTop(m, Lineage(m, c)[n])
  BY DEF Rooted
<1>2. Lineage(m, c)[n] \in Oops(K) /\ Lineage(w, c)[n] = Lineage(m, c)[n]
  BY LineageStays
<1>3. IsTop(w, Lineage(w, c)[n])
  BY <1>1, <1>2, LinksStay
<1>4. n \in 0 .. Len(w)
  BY DEF SameLinks
<1> QED BY <1>3, <1>4

Ends(m, c, selector, n) ==
    Own(m, Lineage(m, c)[n], selector) # Nil \/ IsTop(m, Lineage(m, c)[n])
IsFirst(m, c, selector, n) ==
    Ends(m, c, selector, n) /\ \A i \in 0 .. n - 1 : ~Ends(m, c, selector, i)

LEMMA LookupEnds ==
    ASSUME NEW m, Len(m) \in Nat, NEW c, NEW selector, NEW n \in 0 .. Len(m),
           IsFirst(m, c, selector, n)
    PROVE  LookupMethod(m, c, selector) = Own(m, Lineage(m, c)[n], selector)
<1>1. DOMAIN Lineage(m, c) = 0 .. Len(m)
  BY LineageIs
<1>2. \A i \in 0 .. Len(m) : IsFirst(m, c, selector, i) => i = n
  BY DEF IsFirst
<1>3. (CHOOSE i \in DOMAIN Lineage(m, c) : IsFirst(m, c, selector, i)) = n
  BY <1>1, <1>2
<1> QED BY <1>3 DEF LookupMethod, IsFirst, Ends

LEMMA LookupStays ==
    ASSUME NEW K, NEW D, NEW m, NEW w, Closed(m, K, D), SameLinks(m, w, K),
           NEW c \in Oops(K), NEW selector,
           \A x \in Oops(K) : Own(w, x, selector) = Own(m, x, selector),
           \E n \in 0 .. Len(m) : IsTop(m, Lineage(m, c)[n])
    PROVE  LookupMethod(w, c, selector) = LookupMethod(m, c, selector)
<1> DEFINE S == {n \in 0 .. Len(m) : Ends(m, c, selector, n)}
<1>1. Len(m) \in Nat /\ Len(w) \in Nat /\ Len(m) <= Len(w)
  BY DEF SameLinks
<1>2. S \subseteq Nat /\ S # {}
  BY <1>1 DEF Ends
<1>3. PICK n \in S : \A i \in S : n <= i
  BY <1>2, First
<1>4. n \in 0 .. Len(m) /\ n \in 0 .. Len(w) /\ \A i \in 0 .. n : i \in 0 .. Len(m)
  BY <1>1
<1>5. IsFirst(m, c, selector, n)
  BY <1>3, <1>4 DEF IsFirst
<1>6. \A i \in 0 .. n : /\ Lineage(w, c)[i] = Lineage(m, c)[i]
                       /\ Lineage(m, c)[i] \in Oops(K)
  BY <1>4, LineageStays
<1>7. \A i \in 0 .. n : /\ IsTop(w, Lineage(w, c)[i]) <=> IsTop(m, Lineage(m, c)[i])
                       /\ Own(w, Lineage(w, c)[i], selector)
                          = Own(m, Lineage(m, c)[i], selector)
  BY <1>6, LinksStay
<1>8. \A i \in 0 .. n : Ends(w, c, selector, i) <=> Ends(m, c, selector, i)
  BY <1>7 DEF Ends
<1>9. n \in 0 .. n /\ \A i \in 0 .. n - 1 : i \in 0 .. n
  BY <1>4
<1>10. IsFirst(w, c, selector, n)
  BY <1>5, <1>8, <1>9 DEF IsFirst
<1> QED BY <1>1, <1>4, <1>5, <1>7, <1>9, <1>10, LookupEnds

(* A memory in which the classes K and their dictionaries D are as they    *)
(* were.                                                                   *)
Kept(m, w, K, D) ==
    /\ Len(m) \in Nat /\ Len(w) \in Nat /\ Len(m) <= Len(w)
    /\ \A i \in K \cup D : w[i] = m[i]

LEMMA KeptIsSame ==
    ASSUME NEW K, NEW D, NEW m, NEW w, Closed(m, K, D), Kept(m, w, K, D)
    PROVE  /\ SameLinks(m, w, K)
           /\ \A c \in Oops(K) :
                 \A selector : Own(w, c, selector) = Own(m, c, selector)
<1>1. ASSUME NEW c \in Oops(K), NEW selector
      PROVE  /\ At(w, c, SuperClass) = At(m, c, SuperClass)
             /\ Own(w, c, selector) = Own(m, c, selector)
  <2>1. PICK k \in K : c = Oop(k)
    BY DEF Oops
  <2>2. c[2] = k /\ w[k] = m[k]
    BY <2>1 DEF Oop, Kept
  <2>3. \A i : At(w, c, i) = At(m, c, i)
    BY <2>2 DEF At
  <2>4. At(m, c, Methods) \in Oops(D) \cup {Nil}
    BY <2>1 DEF Closed
  <2>5. \A d \in Oops(D) : SymbolLookup(w, d, selector) = SymbolLookup(m, d, selector)
    <3> SUFFICES ASSUME NEW d \in Oops(D)
                 PROVE  SymbolLookup(w, d, selector) = SymbolLookup(m, d, selector)
      OBVIOUS
    <3>1. w[d[2]] = m[d[2]]
      BY DEF Oops, Oop, Kept
    <3> QED BY <3>1 DEF SymbolLookup, At
  <2> QED BY <2>3, <2>4, <2>5 DEF Own
<1> QED BY <1>1 DEF SameLinks, Kept

-----------------------------------------------------------------------------
(* What stays true of the memory: the invariant, inductive for programs    *)
(* that keep the discipline.                                               *)
CacheInv(m, K, D) == IsMemory(m) /\ Placed(m, K, D) /\ Coherent(m)

(* A change that leaves classes, dictionaries and caches as they are.      *)
Harmless(m, w, K, D) ==
    /\ IsMemory(w) /\ Len(m) <= Len(w)
    /\ \A i \in K \cup D : w[i] = m[i]
    /\ \A i \in DOMAIN w : IsSite(w, i) => i \in DOMAIN m /\ IsSite(m, i) /\ w[i] = m[i]
    /\ \A i \in DOMAIN w : w[i].isa \in Oops(K) \cup {Nil}

LEMMA KeptPlaced ==
    ASSUME NEW K, NEW D, NEW m, NEW w, IsMemory(m), Placed(m, K, D),
           IsMemory(w), Kept(m, w, K, D)
    PROVE  Closed(w, K, D) /\ Rooted(w, K) /\ DOMAIN m \subseteq DOMAIN w
<1>1. Closed(m, K, D) /\ Rooted(m, K)
  BY DEF Placed
<1>2. Closed(w, K, D)
  BY <1>1 DEF Closed, Kept, At, Oop
<1>3. Rooted(w, K)
  BY <1>1, KeptIsSame, RootedStays
<1>4. DOMAIN m \subseteq DOMAIN w
  <2>1. DOMAIN m = 1 .. Len(m) /\ DOMAIN w = 1 .. Len(w)
    BY DEF IsMemory
  <2> QED BY <2>1 DEF Kept
<1> QED BY <1>2, <1>3, <1>4

LEMMA HarmlessKeeps ==
    ASSUME NEW K, NEW D, NEW m, NEW w, CacheInv(m, K, D), Harmless(m, w, K, D)
    PROVE  CacheInv(w, K, D)
<1>1. IsMemory(m) /\ Placed(m, K, D) /\ Coherent(m) /\ IsMemory(w)
  BY DEF CacheInv, Harmless
<1>2. Kept(m, w, K, D)
  BY <1>1 DEF Harmless, Kept, IsMemory
<1>3. Closed(w, K, D) /\ Rooted(w, K) /\ DOMAIN m \subseteq DOMAIN w
  BY <1>1, <1>2, KeptPlaced
<1>4. \A i \in DOMAIN w : IsCache(w, i) =>
          i \in DOMAIN m /\ IsCache(m, i) /\ w[i] = m[i]
  BY DEF Harmless, IsCache
<1>5. \A i \in K \cup D : ~IsSite(w, i)
  BY <1>1 DEF Placed, IsSite, Harmless
<1>6. Apart(w, K, D, Globals)
  BY <1>1 DEF Placed, Apart, Harmless
<1>7. Placed(w, K, D)
  BY <1>1, <1>3, <1>4, <1>5, <1>6 DEF Placed, Harmless
<1>8. Coherent(w)
  <2> SUFFICES ASSUME NEW o \in DOMAIN w, IsCache(w, o)
               PROVE  w[o].slots[CacheMethod] =
                      LookupMethod(w, w[o].slots[CacheClass], w[o].slots[CacheSelector][2])
    BY DEF Coherent
  <2>1. o \in DOMAIN m /\ IsCache(m, o) /\ w[o] = m[o]
    BY <1>4
  <2>2. m[o].slots[CacheMethod] =
        LookupMethod(m, m[o].slots[CacheClass], m[o].slots[CacheSelector][2])
    BY <1>1, <2>1 DEF Coherent
  <2>3. m[o].slots[CacheClass] \in Oops(K)
    BY <1>1, <2>1 DEF Placed
  <2>4. Closed(m, K, D) /\ \E n \in 0 .. Len(m) :
                              IsTop(m, Lineage(m, m[o].slots[CacheClass])[n])
    BY <1>1, <2>3 DEF Placed, Rooted
  <2>5. LookupMethod(w, m[o].slots[CacheClass], m[o].slots[CacheSelector][2])
        = LookupMethod(m, m[o].slots[CacheClass], m[o].slots[CacheSelector][2])
    BY <1>2, <2>3, <2>4, KeptIsSame, LookupStays
  <2> QED BY <2>1, <2>2, <2>5
<1> QED BY <1>1, <1>7, <1>8 DEF CacheInv

-----------------------------------------------------------------------------
(* The changes that the machine makes.                                     *)
LEMMA NewKeeps ==
    ASSUME NEW K, NEW D, NEW m, CacheInv(m, K, D), NEW isa, NEW slots,
           isa \in Oops(K) \cup {Nil}, isa # Known("Character")
    PROVE  CacheInv(New(m, isa, slots), K, D)
<1> DEFINE w == New(m, isa, slots)
           o == [isa |-> isa, slots |-> slots]
<1>1. PICK len \in Nat : /\ len = Len(m) /\ m = [i \in 1 .. len |-> m[i]]
                        /\ \A i \in 1 .. len : IsObject(m[i])
  BY DEF CacheInv, IsMemory
<1>2. m \in Seq({m[i] : i \in 1 .. len} \cup {o})
  BY <1>1
<1>3. /\ Len(w) = len + 1 /\ DOMAIN w = 1 .. len + 1
      /\ \A i \in 1 .. len : w[i] = m[i]
      /\ w[len + 1] = o
  BY <1>1, <1>2 DEF New
<1>4. IsMemory(w)
  <2>1. w \in Seq({m[i] : i \in 1 .. len} \cup {o})
    BY <1>2 DEF New
  <2> HIDE DEF w
  <2>2. w = [i \in 1 .. Len(w) |-> w[i]]
    BY <2>1
  <2>3. \A i \in 1 .. len + 1 : i \in 1 .. len \/ i = len + 1
    BY <1>1
  <2>4. IsObject(o)
    BY DEF IsObject
  <2> HIDE DEF o
  <2>5. \A i \in 1 .. len + 1 : IsObject(w[i])
    BY <1>1, <1>3, <2>3, <2>4
  <2> QED BY <1>1, <1>3, <2>2, <2>5 DEF IsMemory
<1> HIDE DEF w
<1>5. Placed(m, K, D) /\ DOMAIN m = 1 .. len
  BY <1>1 DEF CacheInv
<1>6. \A i \in DOMAIN w : (i \in DOMAIN m /\ w[i] = m[i]) \/ w[i] = o
  <2>1. \A i \in 1 .. len + 1 : i \in 1 .. len \/ i = len + 1
    BY <1>1
  <2> HIDE DEF o
  <2> QED BY <1>3, <1>5, <2>1
<1>7. \A i \in K \cup D : w[i] = m[i]
  BY <1>3, <1>5 DEF Placed
<1>8. \A i \in DOMAIN w : w[i].isa \in Oops(K) \cup {Nil}
  BY <1>5, <1>6 DEF Placed
<1>9. \A i \in DOMAIN w : IsSite(w, i) => i \in DOMAIN m /\ IsSite(m, i) /\ w[i] = m[i]
  BY <1>6 DEF IsSite
<1>10. Len(m) <= Len(w)
  BY <1>1, <1>3
<1>11. Harmless(m, w, K, D)
  BY <1>4, <1>7, <1>8, <1>9, <1>10 DEF Harmless
<1> QED BY <1>11, HarmlessKeeps DEF w

LEMMA Replaced ==
    ASSUME NEW m, IsMemory(m), NEW n, NEW new, IsObject(new)
    PROVE  /\ IsMemory([m EXCEPT ![n] = new])
           /\ Len([m EXCEPT ![n] = new]) = Len(m)
           /\ DOMAIN [m EXCEPT ![n] = new] = DOMAIN m
           /\ \A i \in DOMAIN m :
                 [m EXCEPT ![n] = new][i] = IF i = n THEN new ELSE m[i]
<1> DEFINE w == [m EXCEPT ![n] = new]
<1>1. PICK len \in Nat : /\ len = Len(m) /\ m = [i \in 1 .. len |-> m[i]]
                        /\ \A i \in 1 .. len : IsObject(m[i])
  BY DEF IsMemory
<1>2. DOMAIN m = 1 .. len
  BY <1>1
<1>3. w = [i \in 1 .. len |-> IF i = n THEN new ELSE m[i]]
  BY <1>2
<1> HIDE DEF w
<1> DEFINE S == {m[j] : j \in 1 .. len} \cup {new}
<1>4. \A i \in 1 .. len : (IF i = n THEN new ELSE m[i]) \in S
  OBVIOUS
<1>5. w \in [1 .. len -> S]
  BY <1>3, <1>4
<1>6. w \in Seq(S) /\ Len(w) = len
  <2> HIDE DEF S
  <2> QED BY <1>5
<1>7. w = [i \in 1 .. len |-> w[i]]
  BY <1>3
<1>8. \A i \in 1 .. len : IsObject(w[i])
  BY <1>1, <1>3
<1>9. IsMemory(w)
  BY <1>1, <1>6, <1>7, <1>8 DEF IsMemory
<1> QED BY <1>1, <1>2, <1>3, <1>6, <1>9 DEF w

LEMMA ReplaceKeeps ==
    ASSUME NEW K, NEW D, NEW m, CacheInv(m, K, D), NEW o, Apart(m, K, D, o),
           NEW new, IsObject(new),
           o[2] \in DOMAIN m => /\ new.isa \in Oops(K) \cup {Nil}
                               /\ new.isa # Known("Character")
    PROVE  CacheInv([m EXCEPT ![o[2]] = new], K, D)
<1> DEFINE w == [m EXCEPT ![o[2]] = new]
<1>1. /\ IsMemory(w) /\ Len(w) = Len(m) /\ Len(m) \in Nat /\ DOMAIN w = DOMAIN m
      /\ \A i \in DOMAIN m : w[i] = IF i = o[2] THEN new ELSE m[i]
  <2>1. IsMemory(m)
    BY DEF CacheInv
  <2>2. Len(m) \in Nat
    BY <2>1 DEF IsMemory
  <2> QED BY <2>1, <2>2, Replaced, Zenon
<1> HIDE DEF w
<1>2. Placed(m, K, D)
  BY DEF CacheInv
<1>3. \A i \in K \cup D : w[i] = m[i]
  BY <1>1, <1>2 DEF Placed, Apart
<1>4. \A i \in DOMAIN w : w[i].isa \in Oops(K) \cup {Nil}
  BY <1>1, <1>2 DEF Placed
<1>5. \A i \in DOMAIN w : IsSite(w, i) => i \in DOMAIN m /\ IsSite(m, i) /\ w[i] = m[i]
  BY <1>1 DEF IsSite
<1>6. Harmless(m, w, K, D)
  BY <1>1, <1>3, <1>4, <1>5 DEF Harmless
<1> QED BY <1>6, HarmlessKeeps DEF w

LEMMA AtPutReplaces ==
    ASSUME NEW m, IsMemory(m), NEW o, NEW i, NEW v
    PROVE  \E new : /\ AtPut(m, o, i, v) = [m EXCEPT ![o[2]] = new]
                    /\ IsObject(new)
                    /\ o[2] \in DOMAIN m => new.isa = m[o[2]].isa
<1>1. CASE o[2] \in DOMAIN m
  <2> DEFINE old == m[o[2]]
             new == [isa |-> old.isa, slots |-> [old.slots EXCEPT ![i] = v]]
  <2>1. old = [isa |-> old.isa, slots |-> old.slots]
    BY <1>1 DEF IsMemory, IsObject
  <2>2. [old EXCEPT !.slots = [old.slots EXCEPT ![i] = v]] = new
    BY <2>1
  <2>3. AtPut(m, o, i, v) = [m EXCEPT ![o[2]] = new]
    BY <2>2 DEF AtPut
  <2>4. IsObject(new) /\ new.isa = old.isa
    BY DEF IsObject
  <2> QED BY <2>3, <2>4
<1>2. CASE o[2] \notin DOMAIN m
  <2> DEFINE new == [isa |-> Nil, slots |-> <<>>]
  <2>1. IsObject(new)
    BY DEF IsObject
  <2>2. AtPut(m, o, i, v) = [m EXCEPT ![o[2]] = new]
    BY <1>2 DEF AtPut
  <2> QED BY <1>2, <2>1, <2>2
<1> QED BY <1>1, <1>2

LEMMA AtPutKeeps ==
    ASSUME NEW K, NEW D, NEW m, CacheInv(m, K, D), NEW o, Apart(m, K, D, o), NEW i, NEW v
    PROVE  CacheInv(AtPut(m, o, i, v), K, D)
<1>1. PICK new : /\ AtPut(m, o, i, v) = [m EXCEPT ![o[2]] = new]
                 /\ IsObject(new)
                 /\ o[2] \in DOMAIN m => new.isa = m[o[2]].isa
  BY AtPutReplaces DEF CacheInv
<1>2. o[2] \in DOMAIN m => /\ m[o[2]].isa \in Oops(K) \cup {Nil}
                          /\ m[o[2]].isa # Known("Character")
  BY DEF CacheInv, Placed, Apart, IsSite
<1>3. o[2] \in DOMAIN m => /\ new.isa \in Oops(K) \cup {Nil}
                          /\ new.isa # Known("Character")
  BY <1>1, <1>2
<1>4. CacheInv([m EXCEPT ![o[2]] = new], K, D)
  BY <1>1, <1>3, ReplaceKeeps
<1> QED BY <1>1, <1>4, Zenon

LEMMA SetClassKeeps ==
    ASSUME NEW K, NEW D, NEW m, CacheInv(m, K, D), NEW o, Apart(m, K, D, o), NEW cls,
           cls \in Oops(K) \cup {Nil}, cls # Known("Character")
    PROVE  CacheInv(SetClass(m, o, cls), K, D)
<1> DEFINE old == m[o[2]]
           new == [isa |-> cls, slots |-> old.slots]
<1>1. IsObject(new) /\ new.isa = cls
  BY DEF IsObject
<1>2. SetClass(m, o, cls) = [m EXCEPT ![o[2]] = new]
  <2>1. CASE o[2] \in DOMAIN m
    <3>1. old = [isa |-> old.isa, slots |-> old.slots]
      BY <2>1 DEF CacheInv, IsMemory, IsObject
    <3>2. [old EXCEPT !.isa = cls] = new
      BY <3>1
    <3> QED BY <3>2 DEF SetClass
  <2>2. CASE o[2] \notin DOMAIN m
    BY <2>2 DEF SetClass
  <2> QED BY <2>1, <2>2
<1> HIDE DEF new
<1>3. CacheInv([m EXCEPT ![o[2]] = new], K, D)
  BY <1>1, ReplaceKeeps
<1> QED BY <1>2, <1>3, Zenon

(* The classes that the machine names are classes, and none is that of the *)
(* caches but Character.                                                   *)
LEMMA KnownObjects ==
    ASSUME NEW K, NEW D, NEW m, CacheInv(m, K, D)
    PROVE  /\ \A name \in {"StackFrame", "Array", "String"} :
                 Known(name) \in Oops(K) /\ Known(name) # Known("Character")
           /\ Nil # Known("Character")
           /\ \A name \in {"Integer", "UndefinedObject", "Symbol"} :
                 Known(name) \in Oops(K)
<1> DEFINE Index(name) == CHOOSE i \in DOMAIN KnownClasses : KnownClasses[i] = name
<1>1. DOMAIN KnownClasses = 1 .. 16
  BY DEF KnownClasses
<1>2. /\ KnownClasses[1] = "Symbol" /\ KnownClasses[2] = "Array"
      /\ KnownClasses[5] = "Integer" /\ KnownClasses[6] = "String"
      /\ KnownClasses[7] = "UndefinedObject" /\ KnownClasses[12] = "StackFrame"
      /\ KnownClasses[13] = "Character"
  BY DEF KnownClasses
<1>3. \A i \in DOMAIN KnownClasses : Known(KnownClasses[i]) \in Oops(K)
  BY DEF CacheInv, Placed
<1>4. \A i \in 1 .. 16 : /\ Index(KnownClasses[i]) \in 1 .. 16
                         /\ KnownClasses[Index(KnownClasses[i])] = KnownClasses[i]
  BY <1>1
<1>5. \A name : Known(name) = Oop(4 + Index(name))
  BY DEF Known
<1> HIDE DEF Index
<1>6. \A i, j \in 1 .. 16 : KnownClasses[i] # KnownClasses[j] =>
                           Known(KnownClasses[i]) # Known(KnownClasses[j])
  <2> SUFFICES ASSUME NEW i \in 1 .. 16, NEW j \in 1 .. 16,
                      Known(KnownClasses[i]) = Known(KnownClasses[j])
               PROVE  KnownClasses[i] = KnownClasses[j]
    OBVIOUS
  <2>1. 4 + Index(KnownClasses[i]) = 4 + Index(KnownClasses[j])
    BY <1>5 DEF Oop
  <2>2. Index(KnownClasses[i]) = Index(KnownClasses[j])
    BY <1>4, <2>1
  <2> QED BY <1>4, <2>2
<1>7. Nil # Known("Character")
  BY <1>5 DEF Nil, Oop
<1>8. \A i \in {1, 2, 5, 6, 7, 12, 13} : i \in 1 .. 16
  OBVIOUS
<1> QED BY <1>1, <1>2, <1>3, <1>6, <1>7, <1>8

LEMMA HeapVarsKeep ==
    ASSUME NEW K, NEW D, NEW m, CacheInv(m, K, D), NEW code
    PROVE  CacheInv(WithHeapVars(m, code).mem, K, D)
<1> DEFINE w == New(m, Known("Array"), Nils(At(m, code, HeapVarsSize)[2]))
<1>1. CacheInv(w, K, D)
  BY KnownObjects, NewKeeps
<1>2. WithHeapVars(m, code).mem \in {m, w}
  BY DEF WithHeapVars
<1> HIDE DEF w
<1> QED BY <1>1, <1>2

(* Filling a cache with what a lookup finds.                               *)
LEMMA CachedKeeps ==
    ASSUME NEW K, NEW D, CacheInv(mem, K, D), NEW cache, NEW cls \in Oops(K), NEW method,
           cache[2] \in DOMAIN mem, cache[2] \notin K \cup D, IsSite(mem, cache[2]),
           DOMAIN mem[cache[2]].slots = 1 .. CacheSlots,
           method = LookupMethod(mem, cls, At(mem, cache, CacheSelector)[2])
    PROVE  CacheInv(Cached(cache, cls, method), K, D)
<1> DEFINE c == cache[2]
           old == mem[c]
           slots == [old.slots EXCEPT ![CacheMethod] = method, ![CacheClass] = cls,
                                      ![CacheVersion] = Smi(5)]
           new == [isa |-> old.isa, slots |-> slots]
           w == [mem EXCEPT ![c] = new]
<1>1. IsObject(new) /\ new.isa = old.isa /\ new.slots = slots
  BY DEF IsObject
<1>2. Cached(cache, cls, method) = w
  <2>1. old = [isa |-> old.isa, slots |-> old.slots]
    BY DEF CacheInv, IsMemory, IsObject
  <2>2. [old EXCEPT !.slots = slots] = new
    BY <2>1
  <2> QED BY <2>2 DEF Cached
<1>3. /\ slots[CacheMethod] = method /\ slots[CacheClass] = cls
      /\ slots[CacheSelector] = old.slots[CacheSelector]
  BY DEF CacheMethod, CacheClass, CacheVersion, CacheSelector, CacheSlots
<1> HIDE DEF slots, new
<1>4. /\ IsMemory(w) /\ Len(w) = Len(mem) /\ Len(mem) \in Nat /\ DOMAIN w = DOMAIN mem
      /\ \A i \in DOMAIN mem : w[i] = IF i = c THEN new ELSE mem[i]
  <2>1. IsMemory(mem)
    BY DEF CacheInv
  <2>2. Len(mem) \in Nat
    BY <2>1 DEF IsMemory
  <2> QED BY <1>1, <2>1, <2>2, Replaced, Zenon
<1> HIDE DEF w
<1>5. Placed(mem, K, D) /\ IsMemory(mem) /\ Coherent(mem)
  BY DEF CacheInv
<1>6. \A i \in K \cup D : w[i] = mem[i]
  BY <1>4, <1>5 DEF Placed
<1>7. Kept(mem, w, K, D)
  BY <1>4, <1>6 DEF Kept
<1>8. Closed(w, K, D) /\ Rooted(w, K)
  BY <1>4, <1>5, <1>7, KeptPlaced
<1>9. \A i \in DOMAIN mem : w[i].isa = mem[i].isa
  BY <1>1, <1>4
<1>10. \A i \in DOMAIN w : IsCache(w, i) => i = c \/ (IsCache(mem, i) /\ w[i] = mem[i])
  BY <1>4 DEF IsCache, IsSite
<1>11. c \in DOMAIN mem /\ w[c].slots = slots
  BY <1>1, <1>4
<1>12. Placed(w, K, D)
  <2>1. K \subseteq DOMAIN w /\ D \subseteq DOMAIN w
    BY <1>4, <1>5 DEF Placed
  <2>2. \A i \in K \cup D : ~IsSite(w, i)
    BY <1>5, <1>6 DEF Placed, IsSite
  <2>3. \A i \in DOMAIN w : w[i].isa \in Oops(K) \cup {Nil}
    BY <1>4, <1>5, <1>9 DEF Placed
  <2>4. \A i \in DOMAIN w : IsCache(w, i) => w[i].slots[CacheClass] \in Oops(K)
    BY <1>3, <1>4, <1>5, <1>10, <1>11 DEF Placed
  <2>5. Apart(w, K, D, Globals)
    BY <1>4, <1>5, <1>9 DEF Placed, Apart, IsSite
  <2>6. \A i \in DOMAIN KnownClasses : Known(KnownClasses[i]) \in Oops(K)
    BY <1>5 DEF Placed
  <2> QED BY <1>8, <2>1, <2>2, <2>3, <2>4, <2>5, <2>6 DEF Placed
<1>13. Coherent(w)
  <2> SUFFICES ASSUME NEW o \in DOMAIN w, IsCache(w, o)
               PROVE  w[o].slots[CacheMethod] =
                      LookupMethod(w, w[o].slots[CacheClass], w[o].slots[CacheSelector][2])
    BY DEF Coherent
  <2>1. \A k \in Oops(K) : \A sel : LookupMethod(w, k, sel) = LookupMethod(mem, k, sel)
    BY <1>5, <1>7, KeptIsSame, LookupStays DEF Placed, Rooted
  <2>2. CASE o = c
    BY <1>3, <1>11, <2>1, <2>2 DEF At
  <2>3. CASE o # c
    <3>1. IsCache(mem, o) /\ w[o] = mem[o] /\ o \in DOMAIN mem
      BY <1>4, <1>10, <2>3
    <3>2. mem[o].slots[CacheClass] \in Oops(K)
      BY <1>5, <3>1 DEF Placed
    <3>3. mem[o].slots[CacheMethod] =
          LookupMethod(mem, mem[o].slots[CacheClass], mem[o].slots[CacheSelector][2])
      BY <1>5, <3>1 DEF Coherent
    <3> QED BY <2>1, <3>1, <3>2, <3>3
  <2> QED BY <2>2, <2>3
<1>14. CacheInv(w, K, D)
  BY <1>4, <1>12, <1>13 DEF CacheInv
<1> QED BY <1>2, <1>14

-----------------------------------------------------------------------------
(* The instructions.  Most leave the memory as it is.                      *)
LEMMA QuietSteps ==
    ASSUME NEW K, NEW D, CacheInv(mem, K, D),
           UNCHANGED vars \/ Execute \/ TimesliceDone \/ Abort
           \/ opLdaNil \/ opLdaTrue \/ opLdaFalse \/ opLdaThisProcess
           \/ opLdaSmalltalk \/ opLdaParentHeapVar \/ opLdaMyHeapVar \/ opLdaGlobal
           \/ opLdaNstVar \/ opLdaLiteral \/ opLdar \/ opStaGlobal \/ opStar
           \/ opJump \/ opBranchIfFalse \/ opBranchIfTrue
           \/ opReturn \/ opReturnSelf \/ opBlockReturn
    PROVE  CacheInv(mem', K, D)
<1>1. mem' = mem
  BY DEF vars, Execute, TimesliceDone, Abort, Load,
         opLdaNil, opLdaTrue, opLdaFalse, opLdaThisProcess, opLdaSmalltalk,
         opLdaParentHeapVar, opLdaMyHeapVar, opLdaGlobal, opLdaNstVar, opLdaLiteral,
         opLdar, opStaGlobal, opStar, opJump, BranchIf, opBranchIfFalse,
         opBranchIfTrue, ReturnTo, opReturn, opReturnSelf, opBlockReturn
<1> QED BY <1>1

LEMMA StoreSteps ==
    ASSUME NEW K, NEW D, CacheInv(mem, K, D), Disciplined(K, D),
           opStaNstVar \/ opStaMyHeapVar \/ opStaParentHeapVar
           \/ opMoveParentHeapVarToMyHeapVars \/ opMoveMyHeapVarToParentHeapVars
    PROVE  CacheInv(mem', K, D)
<1>1. CASE opStaNstVar
  <2>1. mem' = AtPut(mem, Reg(0), Operand(1), ac) /\ Apart(mem, K, D, Reg(0))
    BY <1>1 DEF opStaNstVar, Store, Disciplined
  <2> QED BY <2>1, AtPutKeeps
<1>2. CASE opStaMyHeapVar
  <2>1. mem' = AtPut(mem, Ctx.heapVars, Operand(1), ac) /\ Apart(mem, K, D, Ctx.heapVars)
    BY <1>2 DEF opStaMyHeapVar, Store, Disciplined
  <2> QED BY <2>1, AtPutKeeps
<1>3. CASE opStaParentHeapVar
  <2>1. /\ mem' = AtPut(mem, Ctx.parentHeapVars, Operand(1), ac)
        /\ Apart(mem, K, D, Ctx.parentHeapVars)
    BY <1>3 DEF opStaParentHeapVar, Store, Disciplined
  <2> QED BY <2>1, AtPutKeeps
<1>4. CASE opMoveParentHeapVarToMyHeapVars
  <2>1. /\ mem' = AtPut(mem, Ctx.heapVars, Operand(2),
                        At(mem, Ctx.parentHeapVars, Operand(1)))
        /\ Apart(mem, K, D, Ctx.heapVars)
    BY <1>4 DEF opMoveParentHeapVarToMyHeapVars, Store, Disciplined
  <2> QED BY <2>1, AtPutKeeps
<1>5. CASE opMoveMyHeapVarToParentHeapVars
  <2>1. /\ mem' = AtPut(mem, Ctx.parentHeapVars, Operand(2),
                        At(mem, Ctx.heapVars, Operand(1)))
        /\ Apart(mem, K, D, Ctx.parentHeapVars)
    BY <1>5 DEF opMoveMyHeapVarToParentHeapVars, Store, Disciplined
  <2> QED BY <2>1, AtPutKeeps
<1> QED BY <1>1, <1>2, <1>3, <1>4, <1>5

LEMMA MakingSteps ==
    ASSUME NEW K, NEW D, CacheInv(mem, K, D), Disciplined(K, D),
           opLdaThisContext \/ opLdaBlockCopy \/ opPrimitiveV
    PROVE  CacheInv(mem', K, D)
<1>1. CASE opLdaThisContext
  <2>1. mem' = New(mem, Known("StackFrame"), <<ThisProcess, Smi(bp)>>)
    BY <1>1 DEF opLdaThisContext
  <2> QED BY <2>1, KnownObjects, NewKeeps
<1>2. CASE opLdaBlockCopy
  <2> DEFINE template == mem[Lit(Operand(1))[2]]
  <2>1. PICK slots : mem' = New(mem, template.isa, slots)
    BY <1>2 DEF opLdaBlockCopy
  <2>2. template.isa \in Oops(K) \cup {Nil} /\ template.isa # Known("Character")
    BY <1>2 DEF opLdaBlockCopy, Disciplined, CacheInv, Placed, IsSite
  <2> QED BY <2>1, <2>2, NewKeeps
<1>3. CASE opPrimitiveV
  <2>1. mem' = WithHeapVars(mem, Reg(Operand(3))).mem
    BY <1>3 DEF opPrimitiveV
  <2> QED BY <2>1, HeapVarsKeep
<1> QED BY <1>1, <1>2, <1>3

(* Sends.                                                                  *)
LEMMA EnterKeeps ==
    ASSUME NEW K, NEW D, NEW m, CacheInv(m, K, D), NEW method, NEW receiver, NEW args,
           NEW next, NEW v, Enter(m, method, receiver, args, next, v)
    PROVE  CacheInv(mem', K, D)
<1>1. mem' = WithHeapVars(m, method).mem
  BY DEF Enter
<1> QED BY <1>1, HeapVarsKeep

(* What a send does: it enters the method that a lookup finds, whether it  *)
(* took it from the cache or not, or it aborts when there is none.         *)
Enters(method, receiver, args, next, v) ==
    \E m : Enter(m, method, receiver, args, next, v)

LEMMA SendStep ==
    ASSUME NEW K, NEW D, CacheInv(mem, K, D), SafeSend(K, D),
           NEW cls \in Oops(K) \cup {Nil}, SendTo(cls)
    PROVE  LET cache == Lit(Operand(1))
               method == FindMethod(cls, At(mem, cache, CacheSelector)[2])
               n == Operand(2)
           IN  /\ CacheInv(mem', K, D)
               /\ IF method = Nil THEN Abort
                  ELSE Enters(method, ac, [i \in 1 .. n |-> Reg(Operand(2 + i))],
                              pc + 3 + n, ac)
<1> DEFINE cache == Lit(Operand(1))
           n == Operand(2)
           args == [i \in 1 .. n |-> Reg(Operand(2 + i))]
           method == FindMethod(cls, At(mem, cache, CacheSelector)[2])
<1>1. /\ cache[2] \in DOMAIN mem /\ cache[2] \notin K \cup D /\ IsSite(mem, cache[2])
      /\ Len(mem[cache[2]].slots) = CacheSlots
      /\ DOMAIN mem[cache[2]].slots = 1 .. CacheSlots
  BY DEF SafeSend
<1>2. /\ CacheHit(cache, cls) => Enter(mem, At(mem, cache, CacheMethod), ac, args, pc + 3 + n, ac)
      /\ ~CacheHit(cache, cls) /\ method = Nil => Abort
      /\ ~CacheHit(cache, cls) /\ method # Nil =>
            Enter(Cached(cache, cls, method), method, ac, args, pc + 3 + n, ac)
  BY DEF SendTo
<1> HIDE DEF cache, n, args
<1>3. CASE CacheHit(cache, cls)
  <2>1. IsCache(mem, cache[2])
    BY <1>1, <1>3 DEF IsCache, CacheHit, At
  <2>2. At(mem, cache, CacheMethod) # Nil /\ At(mem, cache, CacheClass) = cls
    BY <1>3 DEF CacheHit
  <2>3. /\ At(mem, cache, CacheMethod)
           = LookupMethod(mem, cls, At(mem, cache, CacheSelector)[2])
        /\ cls \in Oops(K)
    BY <1>1, <2>1, <2>2 DEF CacheInv, Coherent, Placed, At
  <2>4. cls # Nil
    BY <2>3 DEF Oops, Oop, Nil
  <2>5. method = At(mem, cache, CacheMethod)
    BY <2>3, <2>4 DEF FindMethod
  <2>6. Enter(mem, method, ac, args, pc + 3 + n, ac)
    BY <1>2, <1>3, <2>5
  <2> QED BY <2>2, <2>5, <2>6, EnterKeeps DEF Enters, cache, n, args
<1>4. CASE ~CacheHit(cache, cls) /\ method = Nil
  BY <1>2, <1>4, QuietSteps DEF cache, n, args
<1>5. CASE ~CacheHit(cache, cls) /\ method # Nil
  <2>1. cls # Nil /\ cls \in Oops(K)
    BY <1>5 DEF FindMethod
  <2>2. method = LookupMethod(mem, cls, At(mem, cache, CacheSelector)[2])
    BY <2>1 DEF FindMethod
  <2> HIDE DEF method
  <2>3. CacheInv(Cached(cache, cls, method), K, D)
    BY <1>1, <2>1, <2>2, CachedKeeps
  <2>4. Enter(Cached(cache, cls, method), method, ac, args, pc + 3 + n, ac)
    BY <1>2, <1>5
  <2> QED BY <1>5, <2>3, <2>4, EnterKeeps DEF Enters, cache, n, args, method
<1> QED BY <1>3, <1>4, <1>5

LEMMA ClassOfValue ==
    ASSUME NEW K, NEW D, CacheInv(mem, K, D), NEW v, IsValue(v)
    PROVE  ClassOf(mem, v) \in Oops(K) \cup {Nil}
<1>1. CASE v[1] = "smi"
  BY <1>1, KnownObjects DEF ClassOf
<1>2. CASE v[1] = "nil"
  BY <1>2, KnownObjects DEF ClassOf
<1>3. CASE v[1] = "sym"
  BY <1>3, KnownObjects DEF ClassOf
<1>4. CASE v \in Oops(DOMAIN mem)
  <2>1. v[1] = "oop" /\ v[2] \in DOMAIN mem
    BY <1>4 DEF Oops, Oop
  <2>2. ClassOf(mem, v) = mem[v[2]].isa
    BY <2>1 DEF ClassOf
  <2> QED BY <2>1, <2>2 DEF CacheInv, Placed
<1> QED BY <1>1, <1>2, <1>3, <1>4 DEF IsValue

LEMMA SuperOfMethod ==
    ASSUME NEW K, NEW D, CacheInv(mem, K, D), NEW c \in Oops(K)
    PROVE  At(mem, c, SuperClass) \in Oops(K) \cup {Nil}
BY DEF CacheInv, Placed, Closed, Oops

LEMMA SendSteps ==
    ASSUME NEW K, NEW D, CacheInv(mem, K, D), Disciplined(K, D),
           opBinOp \/ opSend \/ opSendSuper
    PROVE  CacheInv(mem', K, D)
<1>1. CASE opBinOp
  <2>1. mem' = mem \/ \E method, x : mem' = WithHeapVars(mem, method).mem
    BY <1>1 DEF opBinOp, Abort, Enter
  <2> QED BY <2>1, HeapVarsKeep
<1>2. CASE opSend
  <2>1. SafeSend(K, D) /\ SendTo(ClassOf(mem, ac)) /\ IsValue(ac)
    BY <1>2 DEF opSend, Disciplined, SafeSend
  <2> QED BY <2>1, ClassOfValue, SendStep
<1>3. CASE opSendSuper
  <2>1. /\ SafeSend(K, D) /\ SendTo(At(mem, ClassOfMethod, SuperClass))
        /\ ClassOfMethod \in Oops(K)
    BY <1>3 DEF opSendSuper, Disciplined
  <2> QED BY <2>1, SuperOfMethod, SendStep
<1> QED BY <1>1, <1>2, <1>3

(* Primitives.                                                             *)
LEMMA PrimitiveKeeps ==
    ASSUME NEW K, NEW D, CacheInv(mem, K, D), NEW p, NEW a, SafeCall(K, D, p, a)
    PROVE  CacheInv(PrimMemory(PrimName(p), a), K, D)
<1> DEFINE name == PrimName(p)
<1>1. \/ name = "classOfPut" /\ PrimMemory(name, a) = SetClass(mem, a[1], a[2])
      \/ /\ name \in Stores
         /\ \E i, v : PrimMemory(name, a) = AtPut(mem, a[1], i, v)
      \/ PrimMemory(name, a) = SymbolInsert(mem, Globals, a[1][2], a[2])
      \/ \E isa \in {Nil, Known("String")} : \E s : PrimMemory(name, a) = New(mem, isa, s)
      \/ PrimMemory(name, a) = mem
  BY Zenon DEF PrimMemory, Stores
<1>2. CASE name = "classOfPut" /\ PrimMemory(name, a) = SetClass(mem, a[1], a[2])
  BY <1>2, SetClassKeeps DEF SafeCall, Stores
<1>3. CASE name \in Stores /\ \E i, v : PrimMemory(name, a) = AtPut(mem, a[1], i, v)
  BY <1>3, AtPutKeeps DEF SafeCall
<1>4. CASE PrimMemory(name, a) = SymbolInsert(mem, Globals, a[1][2], a[2])
  <2>1. Apart(mem, K, D, Globals)
    BY DEF CacheInv, Placed
  <2> QED BY <1>4, <2>1, AtPutKeeps DEF SymbolInsert
<1>5. CASE \E isa \in {Nil, Known("String")} : \E s : PrimMemory(name, a) = New(mem, isa, s)
  BY <1>5, KnownObjects, NewKeeps
<1>6. CASE PrimMemory(name, a) = mem
  BY <1>6
<1> QED BY <1>1, <1>2, <1>3, <1>4, <1>5, <1>6

LEMMA PrimitiveSteps ==
    ASSUME NEW K, NEW D, CacheInv(mem, K, D), Disciplined(K, D),
           opPrimitive \/ opPrimitive0 \/ opPrimitive1 \/ opPrimitive2 \/ opPrimitive3
    PROVE  CacheInv(mem', K, D)
<1>1. ASSUME NEW op, NEW n, NEW args, CallPrimitive(op, n, args),
             SafeCall(K, D, Operand(1), args)
      PROVE  CacheInv(mem', K, D)
  <2>1. mem' = mem \/ mem' = PrimMemory(PrimName(Operand(1)), args)
    BY <1>1 DEF CallPrimitive, Abort
  <2> QED BY <1>1, <2>1, PrimitiveKeeps
<1>2. CASE opPrimitive
  <2>1. Executes("Primitive")
    BY <1>2 DEF opPrimitive, CallPrimitive
  <2>2. SafeCall(K, D, Operand(1), [i \in 1 .. Operand(2) |-> Reg(Operand(2 + i))])
    BY <2>1 DEF Disciplined
  <2> QED BY <1>1, <1>2, <2>2 DEF opPrimitive
<1>3. CASE opPrimitive0
  <2>1. Executes("Primitive0")
    BY <1>3 DEF opPrimitive0, CallPrimitive
  <2>2. SafeCall(K, D, Operand(1), <<>>)
    BY <2>1 DEF Disciplined
  <2> QED BY <1>1, <1>3, <2>2 DEF opPrimitive0
<1>4. CASE opPrimitive1
  <2>1. Executes("Primitive1")
    BY <1>4 DEF opPrimitive1, CallPrimitive
  <2>2. SafeCall(K, D, Operand(1), <<ac>>)
    BY <2>1 DEF Disciplined
  <2> QED BY <1>1, <1>4, <2>2 DEF opPrimitive1
<1>5. CASE opPrimitive2
  <2>1. Executes("Primitive2")
    BY <1>5 DEF opPrimitive2, CallPrimitive
  <2>2. SafeCall(K, D, Operand(1), <<Reg(Operand(2)), ac>>)
    BY <2>1 DEF Disciplined
  <2> QED BY <1>1, <1>5, <2>2 DEF opPrimitive2
<1>6. CASE opPrimitive3
  <2>1. Executes("Primitive3")
    BY <1>6 DEF opPrimitive3, CallPrimitive
  <2>2. SafeCall(K, D, Operand(1), <<Reg(Operand(2)), Reg(Operand(2) + 1), ac>>)
    BY <2>1 DEF Disciplined
  <2> QED BY <1>1, <1>6, <2>2 DEF opPrimitive3
<1> QED BY <1>2, <1>3, <1>4, <1>5, <1>6

LEMMA MachineKeeps ==
    ASSUME NEW K, NEW D, CacheInv(mem, K, D), Disciplined(K, D), [MachineNext]_vars
    PROVE  CacheInv(mem', K, D)
BY QuietSteps, StoreSteps, MakingSteps, SendSteps, PrimitiveSteps DEF MachineNext, Instruction

-----------------------------------------------------------------------------
(* Whatever the number of classes, methods and caches, a program that      *)
(* begins with its classes, their dictionaries and its caches in place,    *)
(* and stores into none of them, finds in a filled cache what a lookup     *)
(* finds, through any number of sends, calls, returns and time slices.     *)
THEOREM CachesStayCoherent ==
    ASSUME NEW K, NEW D
    PROVE  /\ CacheInv(mem, K, D)
           /\ [][MachineNext]_vars
           /\ []Disciplined(K, D)
           => []CachesCoherent
<1>1. CacheInv(mem, K, D) /\ Disciplined(K, D) /\ [MachineNext]_vars => CacheInv(mem, K, D)'
  BY MachineKeeps
<1>2. CacheInv(mem, K, D) => CachesCoherent
  BY DEF CacheInv, CachesCoherent
<1> QED BY <1>1, <1>2, PTL

(* A send runs the method that a lookup in the class of the receiver, or   *)
(* for a message to super in the superclass of the class of the running    *)
(* method, finds at that moment, whether it took it from its cache or not; *)
(* and it aborts only when there is none.                                  *)
Sends(cls) ==
    LET found == FindMethod(cls, At(mem, Lit(Operand(1)), CacheSelector)[2])
        n == Operand(2)
    IN  IF found = Nil THEN Abort
        ELSE Enters(found, ac, [i \in 1 .. n |-> Reg(Operand(2 + i))], pc + 3 + n, ac)

THEOREM SendsRunWhatIsFound ==
    ASSUME NEW K, NEW D
    PROVE  /\ CacheInv(mem, K, D)
           /\ [][MachineNext]_vars
           /\ []Disciplined(K, D)
           => [][/\ opSend => Sends(ClassOf(mem, ac))
                 /\ opSendSuper => Sends(At(mem, ClassOfMethod, SuperClass))]_vars
<1>1. CacheInv(mem, K, D) /\ Disciplined(K, D) /\ [MachineNext]_vars => CacheInv(mem, K, D)'
  BY MachineKeeps
<1>2. ASSUME CacheInv(mem, K, D), Disciplined(K, D), opSend
      PROVE  Sends(ClassOf(mem, ac))
  <2>1. SafeSend(K, D) /\ SendTo(ClassOf(mem, ac)) /\ IsValue(ac)
    BY <1>2 DEF opSend, Disciplined, SafeSend
  <2>2. ClassOf(mem, ac) \in Oops(K) \cup {Nil}
    BY <1>2, <2>1, ClassOfValue
  <2> QED BY <1>2, <2>1, <2>2, SendStep DEF Sends
<1>3. ASSUME CacheInv(mem, K, D), Disciplined(K, D), opSendSuper
      PROVE  Sends(At(mem, ClassOfMethod, SuperClass))
  <2>1. /\ SafeSend(K, D) /\ SendTo(At(mem, ClassOfMethod, SuperClass))
        /\ ClassOfMethod \in Oops(K)
    BY <1>3 DEF opSendSuper, Disciplined
  <2>2. At(mem, ClassOfMethod, SuperClass) \in Oops(K) \cup {Nil}
    BY <1>3, <2>1, SuperOfMethod
  <2> QED BY <1>3, <2>1, <2>2, SendStep DEF Sends
<1>4. CacheInv(mem, K, D) /\ Disciplined(K, D) =>
        [/\ opSend => Sends(ClassOf(mem, ac))
         /\ opSendSuper => Sends(At(mem, ClassOfMethod, SuperClass))]_vars
  BY <1>2, <1>3
<1> QED BY <1>1, <1>4, PTL

-----------------------------------------------------------------------------
(* What a store into a field does.                                         *)
LEMMA Stored ==
    ASSUME NEW m, IsMemory(m), NEW n \in DOMAIN m, NEW i \in DOMAIN m[n].slots, NEW v
    PROVE  LET w == AtPut(m, Oop(n), i, v)
           IN  /\ IsMemory(w) /\ Len(w) = Len(m) /\ DOMAIN w = DOMAIN m
               /\ \A j \in DOMAIN m : j # n => w[j] = m[j]
               /\ w[n].isa = m[n].isa
               /\ w[n].slots = [m[n].slots EXCEPT ![i] = v]
<1> DEFINE w == AtPut(m, Oop(n), i, v)
           new == [isa |-> m[n].isa, slots |-> [m[n].slots EXCEPT ![i] = v]]
<1>1. Oop(n)[2] = n
  BY DEF Oop
<1>2. m[n] = [isa |-> m[n].isa, slots |-> m[n].slots]
  BY DEF IsMemory, IsObject
<1>3. [m[n] EXCEPT !.slots = [m[n].slots EXCEPT ![i] = v]] = new
  BY <1>2
<1>4. w = [m EXCEPT ![n] = new]
  BY <1>1, <1>3 DEF AtPut
<1>5. IsObject(new)
  BY DEF IsObject
<1> HIDE DEF w, new
<1>6. /\ IsMemory(w) /\ Len(w) = Len(m) /\ DOMAIN w = DOMAIN m
      /\ \A j \in DOMAIN m : w[j] = IF j = n THEN new ELSE m[j]
  BY <1>4, <1>5, Replaced
<1>7. w[n] = new
  BY <1>6
<1> QED BY <1>6, <1>7 DEF w, new

(* A store into what is neither a class nor a dictionary of methods.       *)
LEMMA LaidStays ==
    ASSUME NEW K, NEW D, NEW Keys, NEW V, NEW m, NEW w, ClassesLaid(m, K, D, Keys, V),
           IsMemory(w), Len(m) <= Len(w), \A i \in K \cup D : w[i] = m[i]
    PROVE  ClassesLaid(w, K, D, Keys, V) /\ Kept(m, w, K, D) /\ SameLinks(m, w, K)
<1>1. Closed(m, K, D) /\ Rooted(m, K) /\ IsMemory(m)
  BY DEF ClassesLaid
<1>2. Kept(m, w, K, D)
  BY <1>1 DEF Kept, IsMemory
<1>3. SameLinks(m, w, K)
  BY <1>1, <1>2, KeptIsSame
<1>4. \A k \in K : \A i : At(w, Oop(k), i) = At(m, Oop(k), i)
  BY DEF At, Oop
<1>5. Closed(w, K, D)
  BY <1>1, <1>4 DEF Closed
<1>6. Rooted(w, K)
  BY <1>1, <1>3, RootedStays
<1>7. K \subseteq DOMAIN w /\ D \subseteq DOMAIN w
  <2>1. DOMAIN m = 1 .. Len(m) /\ DOMAIN w = 1 .. Len(w)
    BY <1>1 DEF IsMemory
  <2>2. DOMAIN m \subseteq DOMAIN w
    BY <1>2, <2>1 DEF Kept
  <2> QED BY <2>2 DEF ClassesLaid
<1> QED BY <1>2, <1>3, <1>4, <1>5, <1>6, <1>7 DEF ClassesLaid

(* A class that has no dictionary gets an empty one.                       *)
GivenDictionary(m, w, K, D, Keys, V, k, d) ==
    /\ Newest(NewDictionary(m, MethodBuckets)) = Oop(d)
    /\ ClassesLaid(w, K, D \cup {d}, Keys, V) /\ SameLinks(m, w, K)
    /\ At(w, Oop(k), Methods) = Oop(d)
    /\ \A i \in DOMAIN m \ (K \cup D) : w[i] = m[i]
    /\ \A x \in Oops(K) : \A s \in Keys : Own(w, x, s) = Own(m, x, s)

LEMMA DictionaryGiven ==
    ASSUME NEW K, NEW D, NEW Keys, NEW V, NEW m, ClassesLaid(m, K, D, Keys, V),
           OwnCodes(Keys), MethodBuckets \in Nat \ {0},
           NEW k \in K, At(m, Oop(k), Methods) = Nil, NEW d, d = Len(m) + 1,
           NEW w, w = AtPut(NewDictionary(m, MethodBuckets), Oop(k), Methods, Oop(d))
    PROVE  GivenDictionary(m, w, K, D, Keys, V, k, d)
<1> DEFINE t == [i \in 1 .. MethodBuckets |-> <<>>]
           o == [isa |-> Known("Dictionary"), slots |-> << t >>]
           u == NewDictionary(m, MethodBuckets)
<1>1. /\ IsMemory(m) /\ Len(m) \in Nat /\ DOMAIN m = 1 .. Len(m)
      /\ K \subseteq DOMAIN m /\ D \subseteq DOMAIN m /\ K \cap D = {}
  BY DEF ClassesLaid, IsMemory
<1>2. u = Append(m, o)
  BY DEF NewDictionary, New
<1>3. IsMemory(u) /\ Len(u) = d /\ u[d] = o /\ \A i \in DOMAIN m : u[i] = m[i]
  <2> DEFINE S == {m[i] : i \in 1 .. Len(m)} \cup {o}
  <2>1. m \in Seq(S)
    BY <1>1 DEF IsMemory
  <2>2. o \in S
    OBVIOUS
  <2> HIDE DEF S, o, u
  <2>3. u \in Seq(S) /\ Len(u) = d /\ u[d] = o /\ \A i \in 1 .. Len(m) : u[i] = m[i]
    BY <1>1, <1>2, <2>1, <2>2
  <2>4. IsObject(o)
    BY DEF o, IsObject
  <2>5. \A i \in 1 .. d : i \in 1 .. Len(m) \/ i = d
    BY <1>1
  <2>6. \A i \in 1 .. d : IsObject(u[i])
    BY <1>1, <2>3, <2>4, <2>5 DEF IsMemory
  <2>7. u = [i \in 1 .. Len(u) |-> u[i]]
    BY <2>3
  <2>8. Len(u) \in Nat
    BY <1>1, <2>3
  <2>9. IsMemory(u)
    BY <2>3, <2>6, <2>7, <2>8 DEF IsMemory
  <2> QED BY <1>1, <2>3, <2>9
<1> HIDE DEF u
<1>4. /\ ClassesLaid(u, K, D, Keys, V) /\ SameLinks(m, u, K)
      /\ \A x \in Oops(K) : \A s : Own(u, x, s) = Own(m, x, s)
  <2>1. Len(m) <= Len(u)
    BY <1>1, <1>3
  <2>2. \A i \in K \cup D : u[i] = m[i]
    BY <1>1, <1>3
  <2>3. IsMemory(u)
    BY <1>3
  <2> HIDE DEF t, o
  <2>4. ClassesLaid(u, K, D, Keys, V) /\ SameLinks(m, u, K) /\ Kept(m, u, K, D)
    BY <2>1, <2>2, <2>3, LaidStays
  <2>5. \A x \in Oops(K) : \A s : Own(u, x, s) = Own(m, x, s)
    BY <1>1, <2>4, KeptIsSame DEF ClassesLaid
  <2> QED BY <2>4, <2>5
<1>5. k \in DOMAIN u /\ Methods \in DOMAIN u[k].slots /\ u[k] = m[k]
  BY <1>1, <1>3, <1>4 DEF ClassesLaid
<1>6. /\ IsMemory(w) /\ Len(w) = d /\ DOMAIN w = DOMAIN u
      /\ \A j \in DOMAIN u : j # k => w[j] = u[j]
      /\ w[k].slots = [u[k].slots EXCEPT ![Methods] = Oop(d)]
  BY <1>3, <1>5, Stored DEF u
<1>7. DOMAIN u = 1 .. d /\ d \in DOMAIN u /\ d \notin K \cup D /\ d \notin DOMAIN m
  BY <1>1, <1>3 DEF IsMemory
<1>8. /\ At(w, Oop(k), Methods) = Oop(d)
      /\ At(w, Oop(k), SuperClass) = At(m, Oop(k), SuperClass)
      /\ \A l \in K \ {k} : \A i : At(w, Oop(l), i) = At(m, Oop(l), i)
  <2>1. \A j : Oop(j)[2] = j
    BY DEF Oop
  <2>2. /\ w[k].slots[Methods] = Oop(d)
        /\ w[k].slots[SuperClass] = m[k].slots[SuperClass]
    <3>1. PICK f, g : /\ f = u[k].slots /\ g = w[k].slots /\ f = m[k].slots
                      /\ g = [f EXCEPT ![Methods] = Oop(d)]
                      /\ {SuperClass, Methods} \subseteq DOMAIN f
      BY <1>5, <1>6 DEF ClassesLaid
    <3>2. g[Methods] = Oop(d) /\ g[SuperClass] = f[SuperClass]
      BY <3>1 DEF SuperClass, Methods
    <3> QED BY <3>1, <3>2
  <2>3. \A l \in K \ {k} : w[l] = m[l]
    BY <1>1, <1>3, <1>4, <1>6 DEF ClassesLaid
  <2> QED BY <2>1, <2>2, <2>3 DEF At
<1>10. \A x \in Oops(K) : At(w, x, SuperClass) = At(m, x, SuperClass)
  BY <1>8 DEF Oops
<1>11. SameLinks(m, w, K)
  BY <1>1, <1>6, <1>10 DEF SameLinks
<1>12. Closed(m, K, D) /\ Rooted(m, K)
  BY DEF ClassesLaid
<1>13. Closed(w, K, D \cup {d})
  <2> SUFFICES ASSUME NEW l \in K
               PROVE  /\ At(w, Oop(l), SuperClass) \in Oops(K) \cup {Nil}
                      /\ At(w, Oop(l), Methods) \in Oops(D \cup {d}) \cup {Nil}
    BY DEF Closed
  <2>1. At(w, Oop(l), SuperClass) \in Oops(K) \cup {Nil}
    BY <1>8, <1>12 DEF Closed
  <2>2. At(w, Oop(l), Methods) = Oop(d) \/ At(w, Oop(l), Methods) \in Oops(D) \cup {Nil}
    BY <1>8, <1>12 DEF Closed
  <2> QED BY <2>1, <2>2 DEF Oops
<1>14. Rooted(w, K)
  BY <1>11, <1>12, RootedStays
<1>15. t \in Tables(Keys, V)
  <2>1. <<>> \in Seq(Entries(Keys, V))
    OBVIOUS
  <2>2. t \in [1 .. MethodBuckets -> Seq(Entries(Keys, V))]
    BY <2>1
  <2>3. Len(t) = MethodBuckets
    OBVIOUS
  <2>4. t \in Seq(Seq(Entries(Keys, V)))
    BY <2>2
  <2> HIDE DEF t
  <2>5. t # <<>>
    BY <2>3
  <2> QED BY <2>4, <2>5 DEF Tables
<1>16. \A s \in Keys : TableLookup(t, s) = Nil
  <2> SUFFICES ASSUME NEW s \in Keys PROVE TableLookup(t, s) = Nil
    OBVIOUS
  <2>1. Len(t) = MethodBuckets
    OBVIOUS
  <2>2. BucketOf(t, s) \in 1 .. MethodBuckets
    BY <1>15, <2>1, BucketInTable
  <2>3. t[BucketOf(t, s)] = <<>>
    BY <2>2
  <2>4. BucketLookup(<<>>, s) = Nil
    BY DEF BucketLookup
  <2> QED BY <2>3, <2>4 DEF TableLookup
<1>17. /\ \A e \in D : w[e] = m[e]
       /\ w[d].slots[1] = t /\ 1 \in DOMAIN w[d].slots
  <2>1. \A e \in D : e # k /\ e \in DOMAIN u /\ u[e] = m[e]
    BY <1>1, <1>3, <1>4 DEF ClassesLaid
  <2>2. w[d] = o
    BY <1>3, <1>6, <1>7
  <2> QED BY <1>6, <2>1, <2>2
<1>18. ClassesLaid(w, K, D \cup {d}, Keys, V)
  <2>1. /\ K \subseteq DOMAIN w /\ D \cup {d} \subseteq DOMAIN w
        /\ K \cap (D \cup {d}) = {}
    BY <1>1, <1>4, <1>6, <1>7 DEF ClassesLaid
  <2>2. \A l \in K : {SuperClass, Methods} \subseteq DOMAIN w[l].slots
    <3>1. \A l \in K : {SuperClass, Methods} \subseteq DOMAIN u[l].slots /\ l \in DOMAIN u
      BY <1>4 DEF ClassesLaid
    <3> QED BY <1>6, <3>1
  <2>3. \A e \in D \cup {d} :
            1 \in DOMAIN w[e].slots /\ w[e].slots[1] \in Tables(Keys, V)
    <3>1. \A e \in D : 1 \in DOMAIN m[e].slots /\ m[e].slots[1] \in Tables(Keys, V)
      BY DEF ClassesLaid
    <3> HIDE DEF t
    <3> QED BY <1>15, <1>17, <3>1
  <2>4. \A l \in K \ {k} : At(w, Oop(l), Methods) \in Oops(D) \cup {Nil}
    BY <1>8, <1>12 DEF Closed
  <2>5. Oop(d) \notin Oops(D) \cup {Nil}
    BY <1>1, <1>7 DEF Oops, Oop, Nil
  <2>6. \A l, j \in K :
            At(w, Oop(l), Methods) = At(w, Oop(j), Methods) =>
                l = j \/ At(w, Oop(l), Methods) = Nil
    <3>1. \A l, j \in K :
            At(m, Oop(l), Methods) = At(m, Oop(j), Methods) =>
                l = j \/ At(m, Oop(l), Methods) = Nil
      BY DEF ClassesLaid
    <3> QED BY <1>8, <2>4, <2>5, <3>1
  <2> QED BY <1>6, <1>13, <1>14, <2>1, <2>2, <2>3, <2>6 DEF ClassesLaid
<1>19. \A x \in Oops(K) : \A s \in Keys : Own(w, x, s) = Own(m, x, s)
  <2> SUFFICES ASSUME NEW l \in K, NEW s \in Keys
               PROVE  Own(w, Oop(l), s) = Own(m, Oop(l), s)
    BY DEF Oops
  <2>1. CASE l = k
    <3>1. Own(m, Oop(l), s) = Nil
      BY <2>1 DEF Own
    <3>2. Own(w, Oop(l), s) = SymbolLookup(w, Oop(d), s)
      <4>1. Oop(d) # Nil
        BY DEF Oop, Nil
      <4> QED BY <1>8, <2>1, <4>1 DEF Own
    <3>3. At(w, Oop(d), 1) = t
      BY <1>17 DEF At, Oop
    <3> QED BY <1>16, <3>1, <3>2, <3>3 DEF SymbolLookup
  <2>2. CASE l # k
    <3>1. At(w, Oop(l), Methods) = At(m, Oop(l), Methods)
      BY <1>8, <2>2
    <3>2. At(m, Oop(l), Methods) \in Oops(D) \cup {Nil}
      BY <1>12 DEF Closed
    <3>3. \A y \in Oops(D) : At(w, y, 1) = At(m, y, 1)
      <4>1. \A e \in D : Oop(e)[2] = e /\ w[e] = m[e]
        BY <1>17 DEF Oop
      <4>2. \A e \in D : At(w, Oop(e), 1) = At(m, Oop(e), 1)
        BY <4>1 DEF At
      <4> QED BY <4>2 DEF Oops
    <3>4. \A y \in Oops(D) : SymbolLookup(w, y, s) = SymbolLookup(m, y, s)
      BY <3>3 DEF SymbolLookup
    <3> QED BY <3>1, <3>2, <3>4 DEF Own
  <2> QED BY <2>1, <2>2
<1>20. \A i \in DOMAIN m \ (K \cup D) : w[i] = m[i]
  BY <1>1, <1>3, <1>6, <1>7
<1> QED BY <1>3, <1>8, <1>11, <1>18, <1>19, <1>20 DEF Newest, u, GivenDictionary

(* A method is entered in the dictionary of a class.                       *)
LEMMA MethodEntered ==
    ASSUME NEW K, NEW D, NEW Keys, NEW V, NEW m, ClassesLaid(m, K, D, Keys, V),
           OwnCodes(Keys), NEW k \in K, NEW d \in D, At(m, Oop(k), Methods) = Oop(d),
           NEW s \in Keys, NEW v \in V
    PROVE  LET w == SymbolInsert(m, Oop(d), s, v)
           IN  /\ ClassesLaid(w, K, D, Keys, V) /\ SameLinks(m, w, K)
               /\ \A l \in K : \A r \in Keys :
                     Own(w, Oop(l), r)
                     = IF l = k /\ r = s THEN v ELSE Own(m, Oop(l), r)
<1> DEFINE t == m[d].slots[1]
           u == TableInsert(t, s, v)
           w == SymbolInsert(m, Oop(d), s, v)
<1>1. /\ IsMemory(m) /\ d \in DOMAIN m /\ 1 \in DOMAIN m[d].slots /\ t \in Tables(Keys, V)
      /\ K \subseteq DOMAIN m /\ D \subseteq DOMAIN m /\ d \notin K
      /\ Closed(m, K, D) /\ Rooted(m, K)
  BY DEF ClassesLaid
<1>2. w = AtPut(m, Oop(d), 1, u)
  BY DEF SymbolInsert, At, Oop
<1>3. /\ u \in Tables(Keys, V) /\ TableLookup(u, s) = v
      /\ \A r \in Keys \ {s} : TableLookup(u, r) = TableLookup(t, r)
  BY <1>1, TableRemembers
<1> HIDE DEF t, u, w
<1>4. /\ IsMemory(w) /\ Len(w) = Len(m) /\ DOMAIN w = DOMAIN m
      /\ \A j \in DOMAIN m : j # d => w[j] = m[j]
      /\ w[d].slots = [m[d].slots EXCEPT ![1] = u]
  BY <1>1, <1>2, Stored
<1>5. /\ \A e \in K \cup D : e # d => w[e] = m[e]
      /\ 1 \in DOMAIN w[d].slots /\ w[d].slots[1] = u
  BY <1>1, <1>4
<1>6. \A l \in K : \A i : At(w, Oop(l), i) = At(m, Oop(l), i)
  BY <1>1, <1>5 DEF At, Oop
<1>7. Closed(w, K, D)
  BY <1>1, <1>6 DEF Closed
<1>8. SameLinks(m, w, K)
  BY <1>1, <1>4, <1>6 DEF SameLinks, Oops, IsMemory
<1>9. Rooted(w, K)
  BY <1>1, <1>8, RootedStays
<1>10. ClassesLaid(w, K, D, Keys, V)
  <2>1. \A l \in K : {SuperClass, Methods} \subseteq DOMAIN w[l].slots
    BY <1>1, <1>5 DEF ClassesLaid
  <2>2. \A e \in D : 1 \in DOMAIN w[e].slots /\ w[e].slots[1] \in Tables(Keys, V)
    BY <1>3, <1>5 DEF ClassesLaid
  <2>3. \A l, j \in K :
            At(w, Oop(l), Methods) = At(w, Oop(j), Methods) =>
                l = j \/ At(w, Oop(l), Methods) = Nil
    BY <1>6 DEF ClassesLaid
  <2>4. K \subseteq DOMAIN w /\ D \subseteq DOMAIN w /\ K \cap D = {}
    BY <1>4 DEF ClassesLaid
  <2> QED BY <1>4, <1>7, <1>9, <2>1, <2>2, <2>3, <2>4 DEF ClassesLaid
<1>11. ASSUME NEW l \in K, NEW r \in Keys
       PROVE  Own(w, Oop(l), r) = IF l = k /\ r = s THEN v ELSE Own(m, Oop(l), r)
  <2>1. At(w, Oop(l), Methods) = At(m, Oop(l), Methods)
    BY <1>6
  <2>2. Oop(d) # Nil
    BY DEF Oop, Nil
  <2>3. CASE l = k
    <3>1. /\ Own(w, Oop(l), r) = SymbolLookup(w, Oop(d), r)
          /\ Own(m, Oop(l), r) = SymbolLookup(m, Oop(d), r)
      BY <2>1, <2>2, <2>3 DEF Own
    <3>2. /\ SymbolLookup(w, Oop(d), r) = TableLookup(u, r)
          /\ SymbolLookup(m, Oop(d), r) = TableLookup(t, r)
      BY <1>5 DEF SymbolLookup, At, Oop, t
    <3> QED BY <1>3, <2>3, <3>1, <3>2
  <2>4. CASE l # k
    <3>1. At(m, Oop(l), Methods) \in Oops(D) \cup {Nil}
      BY <1>1 DEF Closed
    <3>2. At(m, Oop(l), Methods) # Oop(d)
      BY <2>2, <2>4 DEF ClassesLaid
    <3>3. \A y \in Oops(D) : y # Oop(d) =>
              SymbolLookup(w, y, r) = SymbolLookup(m, y, r)
      BY <1>5 DEF SymbolLookup, At, Oops, Oop
    <3> QED BY <2>1, <2>4, <3>1, <3>2, <3>3 DEF Own
  <2> QED BY <2>3, <2>4
<1> QED BY <1>8, <1>10, <1>11 DEF w

(* Where a lookup comes to a class, having found nothing before.           *)
Reaches(m, c, selector, k) ==
    \E n \in 0 .. Len(m) : /\ Lineage(m, c)[n] = k
                          /\ \A i \in 0 .. n - 1 : ~Ends(m, c, selector, i)

LEMMA LookupAfter ==
    ASSUME NEW K, NEW D, NEW m, NEW w, Closed(m, K, D), Rooted(m, K), SameLinks(m, w, K),
           NEW k \in Oops(K), NEW s, NEW v, v # Nil,
           \A x \in Oops(K) : Own(w, x, s) = IF x = k THEN v ELSE Own(m, x, s),
           NEW c \in Oops(K)
    PROVE  LookupMethod(w, c, s)
           = IF Reaches(m, c, s, k) THEN v ELSE LookupMethod(m, c, s)
<1> DEFINE f(n) == Lineage(m, c)[n]
           g(n) == Lineage(w, c)[n]
<1>1. Len(m) \in Nat /\ Len(w) \in Nat /\ Len(m) <= Len(w)
  BY DEF SameLinks
<1>2. \A n \in 0 .. Len(m) :
          /\ g(n) = f(n) /\ f(n) \in Oops(K)
          /\ IsTop(w, f(n)) <=> IsTop(m, f(n))
          /\ Own(w, f(n), s) = IF f(n) = k THEN v ELSE Own(m, f(n), s)
  BY LineageStays, LinksStay
<1>3. \A n \in 0 .. Len(m) : f(n) # k => (Ends(w, c, s, n) <=> Ends(m, c, s, n))
  BY <1>2 DEF Ends
<1>4. \A n \in 0 .. Len(m) : f(n) = k => Ends(w, c, s, n)
  BY <1>2 DEF Ends
<1>5. \A n \in 0 .. Len(m) :
          n \in 0 .. Len(w) /\ \A i \in 0 .. n - 1 : i \in 0 .. Len(m)
  BY <1>1
<1>6. CASE Reaches(m, c, s, k)
  <2> DEFINE T == {n \in 0 .. Len(m) : /\ f(n) = k
                                       /\ \A i \in 0 .. n - 1 : ~Ends(m, c, s, i)}
  <2>1. T \subseteq Nat /\ T # {}
    BY <1>1, <1>6 DEF Reaches
  <2>2. PICK n \in T : \A i \in T : n <= i
    BY <2>1, First
  <2>3. \A i \in 0 .. n - 1 : f(i) # k
    <3> SUFFICES ASSUME NEW i \in 0 .. n - 1, f(i) = k PROVE FALSE
      OBVIOUS
    <3>1. i \in 0 .. Len(m) /\ i < n /\ \A j \in 0 .. i - 1 : j \in 0 .. n - 1
      BY <1>1
    <3>2. i \in T
      BY <3>1
    <3> QED BY <2>2, <3>1, <3>2
  <2>4. \A i \in 0 .. n - 1 : ~Ends(w, c, s, i)
    BY <1>3, <1>5, <2>3
  <2>5. IsFirst(w, c, s, n)
    BY <1>4, <2>4 DEF IsFirst
  <2>6. LookupMethod(w, c, s) = Own(w, g(n), s)
    BY <1>1, <1>5, <2>5, LookupEnds
  <2>7. Own(w, g(n), s) = v
    BY <1>2
  <2> QED BY <1>6, <2>6, <2>7
<1>7. CASE ~Reaches(m, c, s, k)
  <2> DEFINE S == {n \in 0 .. Len(m) : Ends(m, c, s, n)}
  <2>1. S \subseteq Nat /\ S # {}
    BY <1>1 DEF Ends, Rooted
  <2>2. PICK n \in S : \A i \in S : n <= i
    BY <2>1, First
  <2>3. n \in 0 .. Len(m) /\ Ends(m, c, s, n) /\ \A i \in 0 .. n - 1 : ~Ends(m, c, s, i)
    BY <1>1, <2>2
  <2>4. \A i \in 0 .. n : f(i) # k
    <3> SUFFICES ASSUME NEW i \in 0 .. n, f(i) = k PROVE FALSE
      OBVIOUS
    <3>1. i \in 0 .. Len(m) /\ \A j \in 0 .. i - 1 : j \in 0 .. n - 1
      BY <1>1
    <3> QED BY <1>7, <2>3, <3>1 DEF Reaches
  <2>5. IsFirst(m, c, s, n)
    BY <2>3 DEF IsFirst
  <2>6. n \in 0 .. n /\ \A i \in 0 .. n - 1 : i \in 0 .. n
    BY <1>1
  <2>7. IsFirst(w, c, s, n)
    <3>1. Ends(w, c, s, n)
      BY <1>3, <2>3, <2>4, <2>6
    <3>2. \A i \in 0 .. n - 1 : ~Ends(w, c, s, i)
      BY <1>3, <1>5, <2>3, <2>4, <2>6
    <3> QED BY <3>1, <3>2 DEF IsFirst
  <2>8. LookupMethod(m, c, s) = Own(m, f(n), s) /\ LookupMethod(w, c, s) = Own(w, g(n), s)
    BY <1>1, <1>5, <2>3, <2>5, <2>7, LookupEnds
  <2>9. Own(w, g(n), s) = Own(m, f(n), s)
    BY <1>2, <2>3, <2>4, <2>6
  <2> QED BY <1>7, <2>8, <2>9
<1> QED BY <1>6, <1>7

(* THEOREM.  A method that is added to a class is what a lookup of its     *)
(* selector finds from every class for which nothing nearer is found, and  *)
(* nothing else that any lookup finds changes, whatever shares the         *)
(* buckets and however many classes there are; the classes are laid out as *)
(* before.  (addMethod, insert, symbolLookup, lookupMethod.)               *)
THEOREM MethodsAddedAreFound ==
    ASSUME NEW K, NEW D, NEW Keys, NEW V, NEW m, ClassesLaid(m, K, D, Keys, V),
           OwnCodes(Keys), MethodBuckets \in Nat \ {0},
           NEW k \in K, NEW o \in DOMAIN m \ (K \cup D), Oop(o) \in V,
           NEW s \in Keys, At(m, Oop(o), Selector) = Symbol(s)
    PROVE  LET w == AddMethod(m, Oop(k), Oop(o))
           IN  /\ \E E : ClassesLaid(w, K, E, Keys, V)
               /\ \A c \in Oops(K) :
                     LookupMethod(w, c, s)
                     = IF Reaches(m, c, s, Oop(k)) THEN Oop(o) ELSE LookupMethod(m, c, s)
               /\ \A c \in Oops(K) : \A r \in Keys \ {s} :
                     LookupMethod(w, c, r) = LookupMethod(m, c, r)
<1> DEFINE given == IF At(m, Oop(k), Methods) # Nil THEN m
                    ELSE AtPut(NewDictionary(m, MethodBuckets), Oop(k), Methods,
                               Newest(NewDictionary(m, MethodBuckets)))
           dict == At(given, Oop(k), Methods)
           entered == SymbolInsert(given, dict, s, Oop(o))
           w == AtPut(entered, Oop(o), MethodClass, Oop(k))
<1>1. PICK E : /\ ClassesLaid(given, K, E, Keys, V) /\ SameLinks(m, given, K)
               /\ dict \in Oops(E) /\ o \notin K \cup E /\ given[o] = m[o]
               /\ \A x \in Oops(K) : \A r \in Keys : Own(given, x, r) = Own(m, x, r)
  <2>1. CASE At(m, Oop(k), Methods) # Nil
    <3>1. given = m
      BY <2>1
    <3>2. SameLinks(m, m, K)
      BY DEF SameLinks, ClassesLaid, IsMemory
    <3>3. At(m, Oop(k), Methods) \in Oops(D)
      BY <2>1 DEF ClassesLaid, Closed
    <3> QED BY <3>1, <3>2, <3>3
  <2>2. CASE At(m, Oop(k), Methods) = Nil
    <3> HIDE DEF given, dict, entered, w
    <3>1. PICK d, u : /\ d = Len(m) + 1
                      /\ u = AtPut(NewDictionary(m, MethodBuckets), Oop(k), Methods, Oop(d))
      OBVIOUS
    <3>2. GivenDictionary(m, u, K, D, Keys, V, k, d)
      BY <2>2, <3>1, DictionaryGiven
    <3>3. given = u
      BY <2>2, <3>1, <3>2 DEF given, GivenDictionary
    <3>4. o # d
      BY <3>1 DEF ClassesLaid, IsMemory
    <3>5. Oop(d) \in Oops(D \cup {d}) /\ o \notin K \cup (D \cup {d})
      BY <3>4 DEF Oops
    <3> QED BY <3>2, <3>3, <3>5 DEF dict, GivenDictionary
  <2> QED BY <2>1, <2>2
<1>2. At(given, Oop(o), Selector)[2] = s
  BY <1>1 DEF At, Oop, Symbol
<1>3. AddMethod(m, Oop(k), Oop(o)) = w
  BY <1>2 DEF AddMethod
<1> HIDE DEF given
<1>4. PICK d \in E : dict = Oop(d)
  BY <1>1 DEF Oops
<1>5. /\ ClassesLaid(entered, K, E, Keys, V) /\ SameLinks(given, entered, K)
      /\ \A l \in K : \A r \in Keys :
            Own(entered, Oop(l), r)
            = IF l = k /\ r = s THEN Oop(o) ELSE Own(given, Oop(l), r)
  BY <1>1, <1>4, MethodEntered
<1> HIDE DEF entered
<1>6. /\ ClassesLaid(w, K, E, Keys, V) /\ SameLinks(entered, w, K)
      /\ \A x \in Oops(K) : \A r : Own(w, x, r) = Own(entered, x, r)
  <2>1. IsMemory(entered) /\ Closed(entered, K, E) /\ K \cup E \subseteq DOMAIN entered
    BY <1>5 DEF ClassesLaid
  <2>2. PICK new : w = [entered EXCEPT ![Oop(o)[2]] = new] /\ IsObject(new)
    BY <2>1, AtPutReplaces
  <2>3. w = [entered EXCEPT ![o] = new]
    BY <2>2 DEF Oop
  <2> HIDE DEF w
  <2>4. /\ IsMemory(w) /\ Len(w) = Len(entered)
        /\ \A i \in DOMAIN entered : w[i] = IF i = o THEN new ELSE entered[i]
    <3> DEFINE r == [entered EXCEPT ![o] = new]
    <3>1. /\ IsMemory(r) /\ Len(r) = Len(entered)
          /\ \A i \in DOMAIN entered : r[i] = IF i = o THEN new ELSE entered[i]
      BY <2>1, <2>2, Replaced, Zenon
    <3> QED BY <2>3, <3>1
  <2>5. \A i \in K \cup E : w[i] = entered[i]
    BY <1>1, <2>1, <2>4
  <2>6. ClassesLaid(w, K, E, Keys, V) /\ Kept(entered, w, K, E) /\ SameLinks(entered, w, K)
    <3>1. Len(entered) <= Len(w)
      BY <2>4 DEF IsMemory
    <3> QED BY <1>5, <2>4, <2>5, <3>1, LaidStays
  <2> QED BY <2>1, <2>6, KeptIsSame
<1> HIDE DEF w
<1>7. SameLinks(m, w, K)
  BY <1>1, <1>5, <1>6 DEF SameLinks
<1>8. \A x \in Oops(K) : \A r \in Keys :
          Own(w, x, r) = IF x = Oop(k) /\ r = s THEN Oop(o) ELSE Own(m, x, r)
  <2> SUFFICES ASSUME NEW l \in K, NEW r \in Keys
               PROVE  Own(w, Oop(l), r) = IF Oop(l) = Oop(k) /\ r = s THEN Oop(o)
                                          ELSE Own(m, Oop(l), r)
    BY DEF Oops
  <2>1. Oop(l) \in Oops(K) /\ (Oop(l) = Oop(k) <=> l = k)
    BY DEF Oops, Oop
  <2>2. Own(w, Oop(l), r) = Own(entered, Oop(l), r)
    BY <1>6, <2>1
  <2>3. Own(entered, Oop(l), r)
        = IF l = k /\ r = s THEN Oop(o) ELSE Own(given, Oop(l), r)
    BY <1>5
  <2>4. Own(given, Oop(l), r) = Own(m, Oop(l), r)
    BY <1>1, <2>1
  <2> QED BY <2>1, <2>2, <2>3, <2>4
<1>9. Closed(m, K, D) /\ Rooted(m, K) /\ Oop(k) \in Oops(K) /\ Oop(o) # Nil
  BY DEF ClassesLaid, Oops, Oop, Nil
<1>10. \A c \in Oops(K) :
           LookupMethod(w, c, s)
           = IF Reaches(m, c, s, Oop(k)) THEN Oop(o) ELSE LookupMethod(m, c, s)
  <2>1. \A x \in Oops(K) : Own(w, x, s) = IF x = Oop(k) THEN Oop(o) ELSE Own(m, x, s)
    BY <1>8
  <2> QED BY <1>7, <1>9, <2>1, LookupAfter
<1>11. \A c \in Oops(K) : \A r \in Keys \ {s} :
           LookupMethod(w, c, r) = LookupMethod(m, c, r)
  <2> SUFFICES ASSUME NEW c \in Oops(K), NEW r \in Keys \ {s}
               PROVE  LookupMethod(w, c, r) = LookupMethod(m, c, r)
    OBVIOUS
  <2>1. \A x \in Oops(K) : Own(w, x, r) = Own(m, x, r)
    BY <1>8
  <2>2. \E n \in 0 .. Len(m) : IsTop(m, Lineage(m, c)[n])
    BY <1>9 DEF Rooted
  <2> QED BY <1>7, <1>9, <2>1, <2>2, LookupStays
<1> QED BY <1>3, <1>6, <1>10, <1>11
=============================================================================
