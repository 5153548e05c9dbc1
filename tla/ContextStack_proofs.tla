-------------------------- MODULE ContextStack_proofs --------------------------
(***************************************************************************)
(* Proofs about ContextStack, for every size of the stack and all sizes of *)
(* contexts.                                                               *)
(***************************************************************************)
EXTENDS ContextStack, WellFoundedInduction, SequenceTheorems, TLAPS

-----------------------------------------------------------------------------
(* The least and the greatest of some places in the stack.                 *)
LEMMA LeastPlace ==
    ASSUME NEW T, T \subseteq Nat, T # {}
    PROVE  \E m \in T : \A x \in T : m <= x
<1>1. PICK m \in T : \A x \in T : ~(<<x, m>> \in OpToRel(<, Nat))
  BY WFMin, NatLessThanWellFounded
<1>2. \A x \in T : ~(x < m)
  BY <1>1 DEF OpToRel
<1> QED BY <1>2

LEMMA GreatestPlace ==
    ASSUME NEW N \in Nat, NEW T, T \subseteq 0 .. N, T # {}
    PROVE  \E m \in T : \A x \in T : x <= m
<1> DEFINE U == {N - x : x \in T}
<1>1. U \subseteq Nat /\ U # {}
  <2>1. \A x \in T : x \in 0 .. N /\ N - x \in Nat
    OBVIOUS
  <2>2. U \subseteq Nat
    BY <2>1
  <2>3. PICK x \in T : TRUE
    OBVIOUS
  <2>4. N - x \in U
    BY <2>3
  <2> QED BY <2>2, <2>4
<1>2. PICK u \in U : \A x \in U : u <= x
  BY <1>1, LeastPlace
<1>3. PICK m \in T : u = N - m
  OBVIOUS
<1>4. ASSUME NEW x \in T PROVE x <= m
  <2>1. N - x \in U
    OBVIOUS
  <2>2. u <= N - x
    BY <1>2, <2>1
  <2> QED BY <1>3, <2>2
<1> QED BY <1>3, <1>4

LEMMA SizeFacts ==
    /\ StackSize \in Nat /\ StackSize > 3
    /\ \A size \in Sizes : size \in Nat /\ size >= 3 /\ size < StackSize
<1>1. \A size \in Sizes : size \in 3 .. StackSize - 1
  BY SizeAssumption
<1>2. \A size \in Sizes : size \in Nat /\ size >= 3 /\ size < StackSize
  BY <1>1, SizeAssumption
<1>3. PICK size \in Sizes : TRUE
  BY SizeAssumption
<1> QED BY <1>2, <1>3, SizeAssumption

(* chainTo and walkFrom, of any contents of the stack.                     *)
chainBody(w, f, b) ==
    IF b = 0 THEN <<>>
    ELSE IF ~IsContext(w[b]) \/ w[b].prevBP >= b THEN <<b>>
    ELSE Append(f[w[b].prevBP], b)
chainIn(w) == CHOOSE f : f = [b \in 0 .. StackSize |-> chainBody(w, f, b)]

walkBody(w, f, b) ==
    IF b > StackSize \/ ~IsContext(w[b]) THEN {}
    ELSE {b} \cup f[b + w[b].size]
walkIn(w) == CHOOSE f : f = [b \in 1 .. 2 * StackSize |-> walkBody(w, f, b)]

LEMMA ChainOfWord == chainTo = chainIn(word) /\ chainTo' = chainIn(word')
BY DEF chainTo, chainIn, chainBody

LEMMA WalkOfWord == walkFrom = walkIn(word) /\ walkFrom' = walkIn(word')
BY DEF walkFrom, walkIn, walkBody

-----------------------------------------------------------------------------
(* chainTo and walkFrom are defined for every contents: what their         *)
(* recursion says of them holds.                                           *)
Contexts == [kind : {"context"}, size : Sizes, prevBP : 0 .. StackSize,
             isBlock : BOOLEAN, home : 0 .. StackSize, live : BOOLEAN]
FieldWords == {Fields(home) : home \in 0 .. StackSize}
Contents == [Words -> {Nil, Data} \cup FieldWords \cup Contexts]

\* What a function that chainIn is made from says of the first n places.
chainUpTo(w, f, n) ==
    /\ f \in [0 .. n -> Seq(Nat)]
    /\ \A b \in 0 .. n : f[b] = chainBody(w, f, b)

LEMMA ChainExists ==
    ASSUME NEW w \in Contents, NEW n \in 0 .. StackSize
    PROVE  \E f : chainUpTo(w, f, n)
<1> DEFINE T == {m \in 0 .. StackSize : ~ \E f : chainUpTo(w, f, m)}
<1>1. SUFFICES ASSUME T # {} PROVE FALSE
  OBVIOUS
<1>2. PICK m \in T : \A x \in T : m <= x
  <2>1. T \subseteq Nat
    OBVIOUS
  <2> QED BY <1>1, <2>1, LeastPlace
<1>3. CASE m = 0
  <2> DEFINE f == [b \in 0 .. 0 |-> <<>>]
  <2>1. chainUpTo(w, f, 0)
    BY DEF chainUpTo, chainBody
  <2> QED BY <1>2, <1>3, <2>1
<1>4. CASE m # 0
  <2>1. m - 1 \in 0 .. StackSize /\ m \in Nat /\ m - 1 \notin T
    BY <1>2, <1>4, SizeAssumption
  <2>2. PICK f : chainUpTo(w, f, m - 1)
    BY <2>1
  <2> DEFINE g == [b \in 0 .. m |-> IF b = m THEN chainBody(w, f, m) ELSE f[b]]
  <2>3. /\ m \in Words
        /\ IsContext(w[m]) => w[m].prevBP \in 0 .. StackSize
    BY <1>2, <1>4, SizeAssumption DEF Words, Contents, Contexts, IsContext, Nil, Data, FieldWords, Fields
  <2>4. chainBody(w, f, m) \in Seq(Nat)
    <3>1. CASE IsContext(w[m]) /\ w[m].prevBP < m
      <4>1. w[m].prevBP \in 0 .. m - 1
        BY <2>1, <2>3, <3>1
      <4>2. f[w[m].prevBP] \in Seq(Nat)
        BY <2>2, <4>1 DEF chainUpTo
      <4>3. chainBody(w, f, m) = Append(f[w[m].prevBP], m)
        BY <1>4, <3>1, <2>3, <2>1 DEF chainBody
      <4> QED BY <2>1, <4>2, <4>3
    <3>2. CASE ~(IsContext(w[m]) /\ w[m].prevBP < m)
      <4>1. chainBody(w, f, m) = <<m>>
        BY <1>4, <2>1, <2>3, <3>2 DEF chainBody
      <4> QED BY <2>1, <4>1
    <3> QED BY <3>1, <3>2
  <2>5. \A b \in 0 .. m : b # m => b \in 0 .. m - 1 /\ g[b] = f[b]
    BY <2>1
  <2>6. g \in [0 .. m -> Seq(Nat)]
    BY <2>1, <2>2, <2>4, <2>5 DEF chainUpTo
  <2>7. ASSUME NEW b \in 0 .. m PROVE g[b] = chainBody(w, g, b)
    <3>1. chainBody(w, f, b) = chainBody(w, g, b)
      <4>1. CASE b # 0 /\ IsContext(w[b]) /\ w[b].prevBP < b
        <5>1. b \in Words
          BY <2>1, <4>1, SizeAssumption DEF Words
        <5>2. w[b].prevBP \in 0 .. StackSize
          BY <4>1, <5>1 DEF Contents, Contexts, IsContext, Nil, Data, FieldWords, Fields
        <5>3. w[b].prevBP \in 0 .. m /\ w[b].prevBP # m
          BY <2>1, <4>1, <5>2
        <5> QED BY <2>5, <5>3 DEF chainBody
      <4>2. CASE ~(b # 0 /\ IsContext(w[b]) /\ w[b].prevBP < b)
        <5>1. b # 0 /\ IsContext(w[b]) => w[b].prevBP \in 0 .. StackSize
          BY <2>1, SizeAssumption DEF Words, Contents, Contexts, IsContext, Nil, Data, FieldWords, Fields
        <5> QED BY <2>1, <4>2, <5>1 DEF chainBody
      <4> QED BY <4>1, <4>2
    <3>2. CASE b = m
      BY <3>1, <3>2
    <3>3. CASE b # m
      BY <2>2, <2>5, <3>1, <3>3 DEF chainUpTo
    <3> QED BY <3>2, <3>3
  <2>8. chainUpTo(w, g, m)
    BY <2>6, <2>7 DEF chainUpTo
  <2> QED BY <1>2, <2>8
<1> QED BY <1>3, <1>4

LEMMA ChainEquation ==
    ASSUME NEW w \in Contents
    PROVE  chainUpTo(w, chainIn(w), StackSize)
<1>1. PICK f : chainUpTo(w, f, StackSize)
  BY ChainExists, SizeAssumption
<1>2. f = [b \in 0 .. StackSize |-> chainBody(w, f, b)]
  BY <1>1 DEF chainUpTo
<1> DEFINE g == chainIn(w)
<1>3. g = [b \in 0 .. StackSize |-> chainBody(w, g, b)]
  BY <1>2 DEF chainIn
<1> HIDE DEF g
<1>4. \A b \in 0 .. StackSize : g[b] = f[b]
  <2> DEFINE T == {b \in 0 .. StackSize : g[b] # f[b]}
  <2> SUFFICES ASSUME T # {} PROVE FALSE
    OBVIOUS
  <2>1. T \subseteq Nat
    OBVIOUS
  <2>2. PICK m \in T : \A x \in T : m <= x
    BY <2>1, LeastPlace
  <2>3. m \in 0 .. StackSize /\ \A b \in 0 .. StackSize : b < m => g[b] = f[b]
    BY <2>2
  <2>4. chainBody(w, g, m) = chainBody(w, f, m)
    <3>1. CASE m # 0 /\ IsContext(w[m]) /\ w[m].prevBP < m
      <4>1. w[m].prevBP \in 0 .. StackSize
        BY <2>3, <3>1, SizeAssumption DEF Words, Contents, Contexts, IsContext, Nil, Data, FieldWords, Fields
      <4> QED BY <2>3, <3>1, <4>1 DEF chainBody
    <3>2. CASE ~(m # 0 /\ IsContext(w[m]) /\ w[m].prevBP < m)
      <4>1. m # 0 /\ IsContext(w[m]) => w[m].prevBP \in 0 .. StackSize
        BY <2>3, SizeAssumption DEF Words, Contents, Contexts, IsContext, Nil, Data, FieldWords, Fields
      <4> QED BY <2>3, <3>2, <4>1 DEF chainBody
    <3> QED BY <3>1, <3>2
  <2>5. g[m] = f[m]
    BY <1>2, <1>3, <2>3, <2>4
  <2> QED BY <2>2, <2>5
<1>5. g = f
  BY <1>2, <1>3, <1>4
<1> QED BY <1>1, <1>5 DEF g

\* What a function that walkIn is made from says of the places from n on.
walkDownTo(w, f, n) ==
    /\ DOMAIN f = n .. 2 * StackSize
    /\ f = [b \in n .. 2 * StackSize |-> walkBody(w, f, b)]

LEMMA ContextFacts ==
    ASSUME NEW w \in Contents, NEW b \in Words, IsContext(w[b])
    PROVE  /\ w[b] \in Contexts
           /\ w[b].size \in Nat /\ w[b].size >= 3 /\ w[b].size < StackSize
           /\ w[b].prevBP \in 0 .. StackSize
           /\ b + w[b].size \in Nat /\ b + w[b].size > b /\ b + w[b].size <= 2 * StackSize
           /\ b + w[b].size >= 3
<1>1. StackSize \in Nat /\ b \in Nat /\ b >= 1 /\ b <= StackSize
  BY SizeAssumption DEF Words
<1>2. w[b] \in Contexts
  BY DEF Contents, IsContext, Nil, Data, FieldWords, Fields
<1>3. w[b].size \in Sizes /\ w[b].prevBP \in 0 .. StackSize
  BY <1>2 DEF Contexts
<1>4. w[b].size \in Nat /\ w[b].size >= 3 /\ w[b].size < StackSize
  BY <1>3, SizeFacts
<1> QED BY <1>1, <1>2, <1>3, <1>4

LEMMA WalkExists ==
    ASSUME NEW w \in Contents
    PROVE  \E f : walkDownTo(w, f, 1)
<1> DEFINE N == 2 * StackSize
           T == {m \in 1 .. N : ~ \E f : walkDownTo(w, f, m)}
<1>1. N \in Nat /\ StackSize \in Nat /\ 1 \in 1 .. N /\ StackSize < N
  BY SizeFacts
<1> SUFFICES ASSUME T # {} PROVE FALSE
  BY <1>1
<1>2. PICK m \in T : \A x \in T : x <= m
  <2>1. T \subseteq 0 .. N
    BY <1>1
  <2> QED BY <1>1, <2>1, GreatestPlace
<1>3. m \in 1 .. N /\ ~ \E f : walkDownTo(w, f, m)
  OBVIOUS
<1>4. CASE m > StackSize
  <2> DEFINE f == [b \in m .. N |-> {}]
  <2>1. \A b \in m .. N : walkBody(w, f, b) = {}
    BY <1>1, <1>3, <1>4 DEF walkBody
  <2>2. f = [b \in m .. N |-> walkBody(w, f, b)]
    BY <2>1
  <2>3. walkDownTo(w, f, m)
    BY <2>2 DEF walkDownTo
  <2> QED BY <1>3, <2>3
<1>5. CASE m <= StackSize
  <2>1. m + 1 \in 1 .. N /\ m + 1 \notin T /\ m \in Words
    BY <1>1, <1>2, <1>3, <1>5 DEF Words
  <2>2. PICK f : walkDownTo(w, f, m + 1)
    BY <2>1
  <2>3. /\ DOMAIN f = m + 1 .. N
        /\ f = [b \in m + 1 .. N |-> walkBody(w, f, b)]
    BY <2>2 DEF walkDownTo
  <2> DEFINE g == [b \in m .. N |-> IF b = m THEN walkBody(w, f, m) ELSE f[b]]
  <2>4. \A b \in m .. N : b # m => b \in m + 1 .. N /\ g[b] = f[b]
    BY <1>1, <1>3
  <2>5. ASSUME NEW b \in m .. N PROVE walkBody(w, g, b) = walkBody(w, f, b)
    <3>1. CASE ~(b > StackSize) /\ IsContext(w[b])
      <4>1. b \in Words
        BY <1>1, <1>3, <3>1 DEF Words
      <4>2. b + w[b].size \in m .. N /\ b + w[b].size # m
        BY <1>1, <1>3, <3>1, <4>1, ContextFacts
      <4>3. g[b + w[b].size] = f[b + w[b].size]
        BY <2>4, <4>2
      <4> QED BY <4>3 DEF walkBody
    <3>2. CASE b > StackSize \/ ~IsContext(w[b])
      BY <3>2 DEF walkBody
    <3> QED BY <3>1, <3>2
  <2>6. \A b \in m .. N : g[b] = walkBody(w, f, b)
    BY <2>3, <2>4
  <2>7. g = [b \in m .. N |-> walkBody(w, g, b)]
    BY <2>5, <2>6
  <2>8. walkDownTo(w, g, m)
    BY <2>7 DEF walkDownTo
  <2> QED BY <1>3, <2>8
<1> QED BY <1>1, <1>3, <1>4, <1>5

LEMMA WalkEquation ==
    ASSUME NEW w \in Contents
    PROVE  walkDownTo(w, walkIn(w), 1)
<1>1. PICK f : walkDownTo(w, f, 1)
  BY WalkExists
<1>2. f = [b \in 1 .. 2 * StackSize |-> walkBody(w, f, b)]
  BY <1>1 DEF walkDownTo
<1> DEFINE g == walkIn(w)
<1>3. g = [b \in 1 .. 2 * StackSize |-> walkBody(w, g, b)]
  BY <1>2 DEF walkIn
<1> HIDE DEF g
<1>4. DOMAIN g = 1 .. 2 * StackSize
  BY <1>3
<1> QED BY <1>3, <1>4 DEF walkDownTo, g

-----------------------------------------------------------------------------
(* The contexts that a chain of callers consists of, and the ones that a   *)
(* walk visits.                                                            *)
Caller(w, c) == IF IsContext(w[c]) /\ w[c].prevBP < c THEN w[c].prevBP ELSE 0
ActiveIn(w, b) == {chainIn(w)[b][i] : i \in DOMAIN chainIn(w)[b]}

LEMMA RangeOfAppend ==
    ASSUME NEW s \in Seq(Nat), NEW e \in Nat
    PROVE  {Append(s, e)[i] : i \in DOMAIN Append(s, e)} = {s[i] : i \in DOMAIN s} \cup {e}
<1> DEFINE t == Append(s, e)
<1>1. /\ DOMAIN s = 1 .. Len(s) /\ DOMAIN t = 1 .. Len(s) + 1 /\ Len(s) \in Nat
      /\ t[Len(s) + 1] = e /\ \A i \in 1 .. Len(s) : t[i] = s[i]
  OBVIOUS
<1>2. \A i \in DOMAIN t : i = Len(s) + 1 \/ i \in DOMAIN s
  BY <1>1
<1>3. Len(s) + 1 \in DOMAIN t /\ DOMAIN s \subseteq DOMAIN t
  BY <1>1
<1> HIDE DEF t
<1>4. {t[i] : i \in DOMAIN t} = {s[i] : i \in DOMAIN s} \cup {e}
  BY <1>1, <1>2, <1>3
<1> QED BY <1>4 DEF t

LEMMA ActiveUnfolds ==
    ASSUME NEW w \in Contents
    PROVE  /\ ActiveIn(w, 0) = {}
           /\ \A b \in Words : /\ Caller(w, b) \in 0 .. StackSize /\ Caller(w, b) < b
                               /\ ActiveIn(w, b) = {b} \cup ActiveIn(w, Caller(w, b))
<1> DEFINE f == chainIn(w)
<1>1. /\ f \in [0 .. StackSize -> Seq(Nat)]
      /\ \A b \in 0 .. StackSize : f[b] = chainBody(w, f, b)
  BY ChainEquation DEF chainUpTo
<1> HIDE DEF f
<1>2. 0 \in 0 .. StackSize /\ \A b \in Words : b \in 0 .. StackSize /\ b # 0 /\ b \in Nat /\ b > 0
  BY SizeAssumption DEF Words
<1>3. f[0] = <<>>
  BY <1>1, <1>2 DEF chainBody
<1>4. ActiveIn(w, 0) = {}
  BY <1>3 DEF ActiveIn, f
<1>5. ASSUME NEW b \in Words
      PROVE  /\ Caller(w, b) \in 0 .. StackSize /\ Caller(w, b) < b
             /\ ActiveIn(w, b) = {b} \cup ActiveIn(w, Caller(w, b))
  <2>1. IsContext(w[b]) => w[b].prevBP \in 0 .. StackSize
    BY ContextFacts
  <2>2. Caller(w, b) \in 0 .. StackSize /\ Caller(w, b) < b
    BY <1>2, <2>1 DEF Caller
  <2>3. f[b] = Append(f[Caller(w, b)], b)
    <3>1. CASE IsContext(w[b]) /\ w[b].prevBP < b
      <4>1. Caller(w, b) = w[b].prevBP /\ ~(w[b].prevBP >= b)
        BY <1>2, <2>1, <3>1 DEF Caller
      <4>2. f[b] = chainBody(w, f, b) /\ b # 0
        BY <1>1, <1>2
      <4> QED BY <3>1, <4>1, <4>2 DEF chainBody
    <3>2. CASE ~(IsContext(w[b]) /\ w[b].prevBP < b)
      <4>1. Caller(w, b) = 0 /\ f[b] = <<b>>
        BY <1>1, <1>2, <2>1, <3>2 DEF chainBody, Caller
      <4> QED BY <1>3, <4>1
    <3> QED BY <3>1, <3>2
  <2>4. f[Caller(w, b)] \in Seq(Nat)
    BY <1>1, <2>2
  <2>5. {f[b][i] : i \in DOMAIN f[b]}
          = {f[Caller(w, b)][i] : i \in DOMAIN f[Caller(w, b)]} \cup {b}
    <3> DEFINE t == f[Caller(w, b)]
    <3>1. t \in Seq(Nat) /\ f[b] = Append(t, b) /\ b \in Nat
      BY <1>2, <2>3, <2>4
    <3> HIDE DEF t
    <3>2. {Append(t, b)[i] : i \in DOMAIN Append(t, b)} = {t[i] : i \in DOMAIN t} \cup {b}
      BY <3>1, RangeOfAppend
    <3>3. {f[b][i] : i \in DOMAIN f[b]} = {t[i] : i \in DOMAIN t} \cup {b}
      BY ONLY <3>1, <3>2
    <3> QED BY <3>3 DEF t
  <2> QED BY <2>2, <2>5 DEF ActiveIn, f
<1> QED BY <1>4, <1>5

(* A set is the chain of b when it has b, goes on to the callers, and has  *)
(* nothing else.                                                           *)
IsChain(w, b, X) ==
    /\ X \subseteq 1 .. b /\ X \subseteq Words
    /\ b # 0 => b \in X
    /\ \A c \in X : Caller(w, c) \in X \cup {0}
    /\ \A c \in X : c = b \/ \E d \in X : Caller(w, d) = c

LEMMA ActiveIsChain ==
    ASSUME NEW w \in Contents, NEW b \in 0 .. StackSize
    PROVE  IsChain(w, b, ActiveIn(w, b))
<1> DEFINE T == {m \in 0 .. StackSize : ~IsChain(w, m, ActiveIn(w, m))}
<1> SUFFICES ASSUME T # {} PROVE FALSE
  OBVIOUS
<1>1. T \subseteq Nat
  OBVIOUS
<1>2. PICK m \in T : \A x \in T : m <= x
  BY <1>1, LeastPlace
<1>3. m \in 0 .. StackSize /\ ~IsChain(w, m, ActiveIn(w, m))
  OBVIOUS
<1>4. CASE m = 0
  BY <1>3, <1>4, ActiveUnfolds DEF IsChain
<1>5. CASE m # 0
  <2>1. m \in Words /\ m \in Nat
    BY <1>3, <1>5, SizeAssumption DEF Words
  <2> DEFINE c == Caller(w, m)
             Y == ActiveIn(w, c)
             X == ActiveIn(w, m)
  <2>2. c \in 0 .. StackSize /\ c < m /\ X = {m} \cup Y
    BY <2>1, ActiveUnfolds
  <2>3. IsChain(w, c, Y)
    BY <1>2, <2>1, <2>2
  <2>4. /\ Y \subseteq 1 .. c /\ Y \subseteq Words
        /\ c # 0 => c \in Y
        /\ \A d \in Y : Caller(w, d) \in Y \cup {0}
        /\ \A d \in Y : d = c \/ \E e \in Y : Caller(w, e) = d
    BY <2>3 DEF IsChain
  <2>5. X \subseteq 1 .. m /\ X \subseteq Words
    BY <2>1, <2>2, <2>4
  <2>6. \A d \in X : Caller(w, d) \in X \cup {0}
    BY <2>2, <2>4
  <2>7. \A d \in X : d = m \/ \E e \in X : Caller(w, e) = d
    BY <2>2, <2>4
  <2>8. IsChain(w, m, X)
    BY <2>2, <2>5, <2>6, <2>7 DEF IsChain
  <2> QED BY <1>3, <2>8
<1> QED BY <1>4, <1>5

LEMMA ChainIsActive ==
    ASSUME NEW w \in Contents, NEW b \in 0 .. StackSize, NEW X, IsChain(w, b, X)
    PROVE  X = ActiveIn(w, b)
<1> DEFINE Y == ActiveIn(w, b)
<1>1. IsChain(w, b, Y)
  BY ActiveIsChain
<1> HIDE DEF Y
<1>2. ASSUME NEW P, NEW Q, IsChain(w, b, P), IsChain(w, b, Q)
      PROVE  P \subseteq Q
  <2> DEFINE T == P \ Q
  <2> SUFFICES ASSUME T # {} PROVE FALSE
    OBVIOUS
  <2>1. P \subseteq Words /\ T \subseteq 0 .. StackSize /\ StackSize \in Nat
    BY <1>2, SizeAssumption DEF IsChain, Words
  <2>2. PICK m \in T : \A x \in T : x <= m
    BY <2>1, GreatestPlace
  <2>3. m \in P /\ m \notin Q /\ m # 0 /\ m \in Words
    BY <2>1, SizeAssumption DEF Words
  <2>4. b # 0 => b \in Q
    BY <1>2 DEF IsChain
  <2>5. m = b => b # 0
    BY <2>3
  <2>6. PICK d \in P : Caller(w, d) = m
    BY <1>2, <2>3, <2>4, <2>5 DEF IsChain
  <2>7. d \in Words /\ m < d
    BY <2>1, <2>6, ActiveUnfolds
  <2>8. d \in Q
    BY <2>1, <2>2, <2>7 DEF Words
  <2> QED BY <1>2, <2>3, <2>6, <2>8 DEF IsChain
<1> QED BY <1>1, <1>2 DEF Y

(* A set is the walk from m when it has m, goes on to the context after    *)
(* each, and has nothing else.                                             *)
After(w, b) == b + w[b].size
IsWalk(w, m, X) ==
    /\ X \subseteq Words
    /\ \A b \in X : IsContext(w[b])
    /\ m \in Words /\ IsContext(w[m]) => m \in X
    /\ \A b \in X : After(w, b) \in Words /\ IsContext(w[After(w, b)]) => After(w, b) \in X
    /\ \A b \in X : b = m \/ \E c \in X : b = After(w, c)

LEMMA WalkUnfolds ==
    ASSUME NEW w \in Contents, NEW b \in 1 .. 2 * StackSize
    PROVE  walkIn(w)[b] = IF b \in Words /\ IsContext(w[b])
                            THEN {b} \cup walkIn(w)[After(w, b)] ELSE {}
<1> DEFINE f == walkIn(w)
<1>1. f = [d \in 1 .. 2 * StackSize |-> walkBody(w, f, d)]
  BY WalkEquation DEF walkDownTo
<1> HIDE DEF f
<1>2. f[b] = walkBody(w, f, b)
  BY <1>1
<1>3. b \in Words <=> ~(b > StackSize)
  BY SizeFacts DEF Words
<1> QED BY <1>2, <1>3 DEF walkBody, After, f

LEMMA WalkIsWalk ==
    ASSUME NEW w \in Contents, NEW b \in 1 .. 2 * StackSize
    PROVE  IsWalk(w, b, walkIn(w)[b])
<1> DEFINE N == 2 * StackSize
           F(m) == walkIn(w)[m]
           T == {m \in 1 .. N : ~IsWalk(w, m, F(m))}
<1>1. N \in Nat /\ T \subseteq 0 .. N
  BY SizeFacts
<1> SUFFICES ASSUME T # {} PROVE FALSE
  OBVIOUS
<1>2. PICK m \in T : \A x \in T : x <= m
  BY <1>1, GreatestPlace
<1>3. m \in 1 .. N /\ ~IsWalk(w, m, F(m))
  OBVIOUS
<1>4. CASE m \in Words /\ IsContext(w[m])
  <2> DEFINE n == After(w, m)
             X == F(n)
  <2>1. n \in 1 .. N /\ n > m
    BY <1>1, <1>4, ContextFacts, SizeFacts DEF After, Words
  <2>2. IsWalk(w, n, X)
    BY <1>1, <1>2, <1>3, <2>1
  <2>3. F(m) = {m} \cup X
    BY <1>3, <1>4, WalkUnfolds
  <2> HIDE DEF X, F, n
  <2>4. IsWalk(w, m, {m} \cup X)
    <3>1. {m} \cup X \subseteq Words /\ \A d \in {m} \cup X : IsContext(w[d])
      BY <1>4, <2>2 DEF IsWalk
    <3>2. \A d \in {m} \cup X : After(w, d) \in Words /\ IsContext(w[After(w, d)])
                                  => After(w, d) \in {m} \cup X
      BY <2>2 DEF IsWalk, n
    <3>3. \A d \in {m} \cup X : d = m \/ \E c \in {m} \cup X : d = After(w, c)
      BY <2>2 DEF IsWalk, n
    <3> QED BY <3>1, <3>2, <3>3 DEF IsWalk
  <2> QED BY <1>3, <2>3, <2>4
<1>5. CASE ~(m \in Words /\ IsContext(w[m]))
  <2>1. F(m) = {}
    BY <1>3, <1>5, WalkUnfolds
  <2> QED BY <1>3, <1>5, <2>1 DEF IsWalk
<1> QED BY <1>4, <1>5

LEMMA WalkUnique ==
    ASSUME NEW w \in Contents, NEW X, IsWalk(w, 1, X)
    PROVE  X = walkIn(w)[1]
<1> DEFINE Y == walkIn(w)[1]
<1>1. IsWalk(w, 1, Y)
  BY WalkIsWalk, SizeFacts
<1> HIDE DEF Y
<1>2. ASSUME NEW P, NEW Q, IsWalk(w, 1, P), IsWalk(w, 1, Q)
      PROVE  P \subseteq Q
  <2> DEFINE T == P \ Q
  <2> SUFFICES ASSUME T # {} PROVE FALSE
    OBVIOUS
  <2>1. P \subseteq Words /\ Q \subseteq Words /\ T \subseteq Nat
    BY <1>2 DEF IsWalk, Words
  <2>2. PICK m \in T : \A x \in T : m <= x
    BY <2>1, LeastPlace
  <2>3. m \in P /\ m \notin Q /\ m \in Words /\ IsContext(w[m])
    BY <1>2, <2>1 DEF IsWalk
  <2>4. m # 1
    BY <1>2, <2>3 DEF IsWalk
  <2>5. PICK c \in P : m = After(w, c)
    BY <1>2, <2>3, <2>4 DEF IsWalk
  <2>6. c \in Words /\ IsContext(w[c])
    BY <1>2 DEF IsWalk
  <2>7. c < m /\ c \in Nat /\ m \in Nat
    BY <2>5, <2>6, ContextFacts DEF After, Words
  <2>8. c \in Q
    BY <2>2, <2>7
  <2> QED BY <1>2, <2>3, <2>5, <2>8 DEF IsWalk
<1> QED BY <1>1, <1>2 DEF Y

(* Contexts of a walk do not overlap.                                      *)
LEMMA WalkInOrder ==
    ASSUME NEW w \in Contents, NEW X, IsWalk(w, 1, X)
    PROVE  \A c, d \in X : c < d => After(w, c) <= d
<1> DEFINE T == {d \in X : \E c \in X : c < d /\ ~(After(w, c) <= d)}
<1> SUFFICES ASSUME T # {} PROVE FALSE
  OBVIOUS
<1>1. X \subseteq Words /\ X \subseteq Nat /\ T \subseteq Nat
  <2>1. X \subseteq Words
    BY DEF IsWalk
  <2>2. Words \subseteq Nat
    BY SizeFacts DEF Words
  <2> QED BY <2>1, <2>2
<1>2. \A b \in X : /\ IsContext(w[b]) /\ w[b].size \in Nat /\ After(w, b) \in Nat
                   /\ After(w, b) > b
  BY <1>1, ContextFacts DEF IsWalk, After
<1>3. PICK d \in T : \A x \in T : d <= x
  BY <1>1, LeastPlace
<1>4. PICK c \in X : c < d /\ ~(After(w, c) <= d)
  OBVIOUS
<1>5. d \in X /\ d \in Nat /\ c \in Nat /\ c >= 1
  BY <1>1 DEF Words
<1>6. PICK e \in X : d = After(w, e)
  BY <1>4, <1>5 DEF IsWalk
<1>7. e < d /\ e \in Nat
  BY <1>1, <1>2, <1>6
<1>8. CASE c < e
  <2>1. e \notin T
    BY <1>3, <1>5, <1>7
  <2>2. After(w, c) <= e
    BY <1>8, <2>1
  <2> QED BY <1>2, <1>4, <1>5, <1>7, <2>2
<1>9. CASE c = e
  BY <1>4, <1>5, <1>6, <1>9
<1>10. CASE e < c
  <2>1. c \notin T
    BY <1>3, <1>4, <1>5
  <2>2. After(w, e) <= c
    BY <1>10, <2>1
  <2> QED BY <1>4, <1>5, <1>6, <2>2
<1> QED BY <1>5, <1>7, <1>8, <1>9, <1>10

LEMMA ChainInOrder ==
    ASSUME NEW w \in Contents, NEW b \in 0 .. StackSize, NEW X, IsChain(w, b, X)
    PROVE  \A d, e \in X : e < d => e <= Caller(w, d)
<1> DEFINE T == {e \in X : \E d \in X : e < d /\ ~(e <= Caller(w, d))}
<1> SUFFICES ASSUME T # {} PROVE FALSE
  OBVIOUS
<1>1. X \subseteq Words /\ Words \subseteq 0 .. StackSize /\ StackSize \in Nat
  BY SizeFacts DEF IsChain, Words
<1>2. \A c \in X : Caller(w, c) \in 0 .. StackSize /\ Caller(w, c) < c /\ c \in Nat /\ c <= b
  BY <1>1, ActiveUnfolds DEF IsChain
<1>3. PICK e \in T : \A x \in T : x <= e
  <2>1. T \subseteq 0 .. StackSize
    BY <1>1
  <2> QED BY <1>1, <2>1, GreatestPlace
<1>4. PICK d \in X : e < d /\ ~(e <= Caller(w, d))
  OBVIOUS
<1>5. e \in X /\ e # b
  BY <1>2, <1>4
<1>6. PICK g \in X : Caller(w, g) = e
  BY <1>5 DEF IsChain
<1>7. g > e
  BY <1>2, <1>6
<1>8. CASE g < d
  <2>1. g \notin T
    BY <1>2, <1>3, <1>5, <1>7
  <2>2. g <= Caller(w, d)
    BY <1>8, <2>1
  <2> QED BY <1>2, <1>4, <1>5, <1>7, <2>2
<1>9. CASE g = d
  BY <1>2, <1>4, <1>5, <1>6, <1>9
<1>10. CASE d < g
  <2>1. d \notin T
    BY <1>2, <1>3, <1>4, <1>5
  <2>2. d <= Caller(w, g)
    BY <1>10, <2>1
  <2> QED BY <1>2, <1>4, <1>5, <1>6, <2>2
<1> QED BY <1>2, <1>8, <1>9, <1>10

(* The chain of the caller of e is what is below e; and a chain with a     *)
(* context on top of it is that context's chain.                           *)
LEMMA ChainBelow ==
    ASSUME NEW w \in Contents, NEW b \in 0 .. StackSize, NEW X, IsChain(w, b, X),
           NEW e \in X
    PROVE  IsChain(w, Caller(w, e), {c \in X : c < e})
<1> DEFINE p == Caller(w, e)
           Y == {c \in X : c < e}
<1>1. X \subseteq Words /\ \A c \in X : c \in Nat /\ c >= 1
  BY SizeFacts DEF IsChain, Words
<1>2. \A c \in X : Caller(w, c) \in Nat /\ Caller(w, c) < c /\ Caller(w, c) \in X \cup {0}
  BY <1>1, ActiveUnfolds DEF IsChain
<1>3. \A c \in Y : c <= p
  BY ChainInOrder
<1>4. Y \subseteq 1 .. p /\ Y \subseteq Words
  BY <1>1, <1>2, <1>3
<1>5. p # 0 => p \in Y
  BY <1>2
<1>6. \A c \in Y : Caller(w, c) \in Y \cup {0}
  BY <1>1, <1>2
<1>7. ASSUME NEW c \in Y, c # p PROVE \E d \in Y : Caller(w, d) = c
  <2>1. c # b
    BY <1>1 DEF IsChain
  <2>2. PICK d \in X : Caller(w, d) = c
    BY <2>1 DEF IsChain
  <2>3. c < p /\ p \in Y
    BY <1>1, <1>2, <1>3, <1>5, <1>7
  <2>4. ~(e < d)
    <3>1. SUFFICES ASSUME e < d PROVE FALSE
      OBVIOUS
    <3>2. e <= c
      BY <2>2, <3>1, ChainInOrder
    <3> QED BY <1>1, <3>2
  <2>5. d # e
    BY <1>7, <2>2
  <2> QED BY <1>1, <2>2, <2>4, <2>5
<1> QED BY <1>4, <1>5, <1>6, <1>7 DEF IsChain

LEMMA ChainExtends ==
    ASSUME NEW w \in Contents, NEW b \in Words, NEW X, IsChain(w, Caller(w, b), X)
    PROVE  IsChain(w, b, X \cup {b})
<1> DEFINE p == Caller(w, b)
<1>1. p \in Nat /\ p < b /\ b \in Nat /\ b >= 1
  BY ActiveUnfolds, SizeFacts DEF Words
<1>2. /\ X \subseteq 1 .. p /\ X \subseteq Words
      /\ p # 0 => p \in X
      /\ \A c \in X : Caller(w, c) \in X \cup {0}
      /\ \A c \in X : c = p \/ \E d \in X : Caller(w, d) = c
  BY DEF IsChain
<1>3. X \cup {b} \subseteq 1 .. b /\ X \cup {b} \subseteq Words
  BY <1>1, <1>2
<1>4. \A c \in X \cup {b} : Caller(w, c) \in X \cup {b} \cup {0}
  BY <1>2
<1>5. \A c \in X \cup {b} : c = b \/ \E d \in X \cup {b} : Caller(w, d) = c
  BY <1>2
<1> QED BY <1>3, <1>4, <1>5 DEF IsChain

(* What is not written to stays a chain.                                   *)
LEMMA ChainKept ==
    ASSUME NEW w, NEW v, NEW b, NEW X, IsChain(w, b, X), \A c \in X : v[c] = w[c]
    PROVE  IsChain(v, b, X)
<1>1. \A c \in X : Caller(v, c) = Caller(w, c)
  BY DEF Caller
<1> QED BY <1>1 DEF IsChain

-----------------------------------------------------------------------------
(* The inductive invariant.  The contexts of the running activations and   *)
(* the one that is being initialised:                                      *)
Laid == Running \cup ({filling} \ {0})

StackTypeOK ==
    /\ word \in Contents
    /\ bp \in 0 .. StackSize
    /\ filling \in 0 .. StackSize
    /\ phase \in {"run", "allocate", "fill", "end", "abort", "overrun", "wild"}
    /\ blocks \subseteq [home : 0 .. StackSize, live : BOOLEAN]
    /\ filling # 0 <=> phase \in {"allocate", "fill"}
    /\ phase = "run" => bp # 0

(* They lie one above the other and inside the stack.                      *)
LaidApart ==
    /\ \A c \in Laid :
         /\ IsContext(word[c])
         /\ After(word, c) <= StackSize
         /\ word[c].prevBP # 0 =>
              word[c].prevBP \in Laid /\ After(word, word[c].prevBP) <= c
    /\ filling # 0 => filling = bp \/ (word[filling].prevBP = bp /\ bp \in Laid)

(* A block that may yet return from its home method, running or not, knows *)
(* where that is.                                                          *)
HomesKnown ==
    /\ \A c \in Laid : word[c].isBlock /\ word[c].live =>
         word[c].home \in Laid /\ word[c].home < c
    /\ \A block \in blocks : block.live => block.home \in Running

WalkWhole ==
    /\ Laid \subseteq Walk
    /\ \A b \in Walk : After(word, b) \in Words =>
         IsContext(word[After(word, b)]) \/ word[After(word, b)] = Nil

(* A context that has been filled holds its block's home.                  *)
HomesCopied == \A c \in Laid : c # filling => word[c + 1] = Fields(word[c].home)

StackInv == StackTypeOK /\ LaidApart /\ HomesKnown /\ WalkWhole /\ HomesCopied

-----------------------------------------------------------------------------
LEMMA RunningIs == Running = ActiveIn(word, bp) /\ Running' = ActiveIn(word', bp')
BY ChainOfWord DEF Running, Chain, ActiveIn

LEMMA WalkIs == Walk = walkIn(word)[1] /\ Walk' = walkIn(word')[1]
BY WalkOfWord DEF Walk

(* What the invariant says of the chain of contexts and of the walk.       *)
Top == IF filling # 0 THEN filling ELSE bp
LEMMA InvFacts ==
    ASSUME StackInv
    PROVE  /\ word \in Contents /\ StackSize \in Nat
           /\ Top \in 0 .. StackSize /\ IsChain(word, Top, Laid)
           /\ IsChain(word, bp, Running) /\ Running \subseteq Laid
           /\ Laid \subseteq Words /\ Running \subseteq 1 .. bp
           /\ \A c \in Laid : /\ c \in Nat /\ c >= 1 /\ c <= Top
                              /\ Caller(word, c) = word[c].prevBP
                              /\ word[c] \in Contexts /\ IsContext(word[c])
                              /\ word[c].size \in Nat /\ After(word, c) > c
           /\ IsWalk(word, 1, Walk)
           /\ \A c, d \in Walk : c < d => After(word, c) <= d
           /\ \A c \in Walk : /\ c \in Nat /\ c \in Words /\ IsContext(word[c])
                              /\ After(word, c) \in Nat /\ After(word, c) > c
<1>1. /\ word \in Contents /\ StackSize \in Nat
      /\ bp \in 0 .. StackSize /\ Top \in 0 .. StackSize
  BY SizeFacts DEF StackInv, StackTypeOK, Top
<1>2. IsChain(word, bp, Running) /\ Running \subseteq Laid /\ Running \subseteq 1 .. bp
  BY <1>1, ActiveIsChain, RunningIs DEF Laid, IsChain
<1>3. Laid \subseteq Words
  <2>1. filling \in 0 .. StackSize
    BY DEF StackInv, StackTypeOK
  <2> QED BY <1>1, <1>2, <2>1 DEF IsChain, Laid, Words
<1>4. \A c \in Laid : /\ c \in Nat /\ c >= 1
                      /\ word[c] \in Contexts /\ IsContext(word[c])
                      /\ word[c].size \in Nat /\ After(word, c) > c
                      /\ word[c].prevBP \in 0 .. StackSize
  <2> SUFFICES ASSUME NEW c \in Laid
               PROVE  /\ c \in Nat /\ c >= 1
                      /\ word[c] \in Contexts /\ IsContext(word[c])
                      /\ word[c].size \in Nat /\ After(word, c) > c
                      /\ word[c].prevBP \in 0 .. StackSize
    OBVIOUS
  <2>1. c \in Words /\ IsContext(word[c])
    BY <1>3 DEF StackInv, LaidApart
  <2>2. c \in Nat /\ c >= 1
    BY <1>1, <2>1 DEF Words
  <2>3. /\ word[c] \in Contexts /\ word[c].size \in Nat /\ word[c].size >= 3
        /\ word[c].prevBP \in 0 .. StackSize
    BY <1>1, <2>1, ContextFacts
  <2> QED BY <2>1, <2>2, <2>3 DEF After
<1>5. \A c \in Laid : Caller(word, c) = word[c].prevBP
  <2> SUFFICES ASSUME NEW c \in Laid PROVE Caller(word, c) = word[c].prevBP
    OBVIOUS
  <2>1. CASE word[c].prevBP = 0
    BY <1>4, <2>1 DEF Caller
  <2>2. CASE word[c].prevBP # 0
    <3>1. word[c].prevBP \in Laid /\ After(word, word[c].prevBP) <= c
      BY <2>2 DEF StackInv, LaidApart
    <3>2. After(word, word[c].prevBP) \in Nat
      BY <1>4, <3>1 DEF After
    <3>3. word[c].prevBP < c
      BY <1>4, <3>1, <3>2
    <3> QED BY <1>4, <3>3 DEF Caller
  <2> QED BY <2>1, <2>2
<1>6. IsChain(word, Top, Laid)
  <2>1. CASE filling = 0
    BY <1>2, <2>1 DEF Top, Laid
  <2>2. CASE filling # 0 /\ filling = bp
    <3>1. filling \in Running
      BY <1>2, <2>2 DEF IsChain
    <3>2. Laid = Running
      BY <3>1 DEF Laid
    <3> QED BY <1>2, <2>2, <3>2 DEF Top
  <2>3. CASE filling # 0 /\ word[filling].prevBP = bp
    <3>1. filling \in Laid /\ Laid = Running \cup {filling}
      BY <2>3 DEF Laid
    <3>2. Caller(word, filling) = bp /\ filling \in Words
      BY <1>3, <1>5, <2>3, <3>1
    <3> QED BY <1>1, <1>2, <2>3, <3>1, <3>2, ChainExtends DEF Top
  <2> QED BY <2>1, <2>2, <2>3 DEF StackInv, LaidApart
<1>7. \A c \in Laid : c <= Top
  BY <1>6 DEF IsChain
<1>8. IsWalk(word, 1, Walk)
  BY <1>1, WalkIsWalk, WalkIs, SizeFacts
<1>9. \A c, d \in Walk : c < d => After(word, c) <= d
  BY <1>1, <1>8, WalkInOrder
<1>10. \A c \in Walk : /\ c \in Nat /\ c \in Words /\ IsContext(word[c])
                       /\ After(word, c) \in Nat /\ After(word, c) > c
  BY <1>1, <1>8, ContextFacts DEF IsWalk, After, Words
<1> QED BY <1>1, <1>2, <1>3, <1>4, <1>5, <1>6, <1>7, <1>8, <1>9, <1>10

-----------------------------------------------------------------------------
(* A new context is laid after the running one: the walk goes as far as it *)
(* did to the running context, then to the new one, and ends there.        *)
LEMMA LaidOut ==
    ASSUME StackInv, phase = "run", NEW ctx \in Contexts,
           nextBP + ctx.size <= StackSize, lay(nextBP, ctx)
    PROVE  /\ nextBP \in Words /\ bp < nextBP /\ nextBP = After(word, bp)
           /\ bp \in Running /\ Laid = Running
           /\ word' \in Contents /\ word'[nextBP] = ctx
           /\ \A c \in Words : c < nextBP => word'[c] = word[c]
           /\ \A c \in Laid : word'[c + 1] = Fields(word[c].home)
           /\ Walk' = {c \in Walk : c < nextBP} \cup {nextBP}
           /\ \A c \in Walk' : After(word', c) \in Words =>
                IsContext(word'[After(word', c)]) \/ word'[After(word', c)] = Nil
<1> DEFINE b == nextBP
           end == b + ctx.size
           X == {c \in Walk : c < b} \cup {b}
<1>1. bp \in Running /\ Laid = Running
  BY InvFacts DEF StackInv, StackTypeOK, Laid, IsChain
<1>2. bp \in Laid /\ bp \in Walk /\ bp \in Words /\ b = After(word, bp)
  BY <1>1, InvFacts DEF StackInv, WalkWhole, nextBP, After
<1>3. /\ StackSize \in Nat /\ bp \in Nat /\ bp >= 1 /\ b \in Nat /\ b > bp /\ b > 1
      /\ ctx.size \in Nat /\ ctx.size >= 3 /\ IsContext(ctx)
  <2>1. ctx.size \in Sizes /\ IsContext(ctx)
    BY DEF Contexts, IsContext
  <2> QED BY <1>2, <2>1, InvFacts, SizeFacts
<1>4. end \in Words /\ end > b /\ b \in Words /\ end \in b + 2 .. b + ctx.size
  BY <1>3 DEF Words
<1> HIDE DEF b, end
<1>5. word' = [i \in Words |-> IF i = b THEN ctx
                               ELSE IF i \in b + 2 .. b + ctx.size THEN Nil
                               ELSE word[i]]
  BY DEF lay, b
<1>6. word' \in Contents
  <2>1. \A i \in Words : word[i] \in {Nil, Data} \cup FieldWords \cup Contexts
    BY InvFacts DEF Contents
  <2> QED BY <1>5, <2>1 DEF Contents
<1>7. word'[b] = ctx /\ word'[end] = Nil /\ ~IsContext(word'[end])
  BY <1>3, <1>4, <1>5 DEF IsContext, Nil
<1>8. \A c \in Words : c < b => word'[c] = word[c]
  BY <1>3, <1>5 DEF Words
<1>9. After(word', b) = end
  BY <1>7 DEF After, end
<1>10. ASSUME NEW c \in Walk, c < b
       PROVE  /\ word'[c] = word[c] /\ After(word', c) = After(word, c)
              /\ c = bp \/ After(word, c) < b
  <2>1. word'[c] = word[c] /\ After(word', c) = After(word, c)
    BY <1>8, <1>10, InvFacts DEF After
  <2>2. c <= bp
    BY <1>2, <1>3, <1>10, InvFacts
  <2>3. c # bp => After(word, c) <= bp
    BY <1>2, <1>3, <2>2, InvFacts
  <2> QED BY <1>3, <2>1, <2>3, InvFacts
<1>11. X \subseteq Words /\ \A c \in X : IsContext(word'[c])
  BY <1>3, <1>4, <1>7, <1>10, InvFacts
<1>12. 1 \in Words /\ IsContext(word'[1]) => 1 \in X
  <2>1. IsContext(word[1]) /\ 1 \in Words => 1 \in Walk
    BY InvFacts DEF IsWalk
  <2> QED BY <1>3, <1>8, <2>1
<1>13. ASSUME NEW c \in X, After(word', c) \in Words
       PROVE  \/ IsContext(word'[After(word', c)]) /\ After(word', c) \in X
              \/ word'[After(word', c)] = Nil /\ ~IsContext(word'[After(word', c)])
  <2>1. CASE c = b
    BY <1>7, <1>9, <2>1
  <2>2. CASE c = bp
    BY <1>2, <1>3, <1>7, <1>10, <2>2
  <2>3. CASE c # b /\ c # bp
    <3>1. c \in Walk /\ c < b
      BY <2>3
    <3>2. /\ After(word', c) = After(word, c) /\ After(word, c) < b
          /\ After(word, c) \in Words
      BY <1>10, <1>13, <2>3, <3>1
    <3>3. word'[After(word, c)] = word[After(word, c)]
      BY <1>8, <3>2
    <3>4. IsContext(word[After(word, c)]) \/ word[After(word, c)] = Nil
      BY <3>1, <3>2 DEF StackInv, WalkWhole
    <3>5. IsContext(word[After(word, c)]) => After(word, c) \in Walk
      BY <3>1, <3>2, InvFacts DEF IsWalk
    <3> QED BY <3>2, <3>3, <3>4, <3>5 DEF IsContext, Nil
  <2> QED BY <2>1, <2>2, <2>3
<1>14. ASSUME NEW c \in X PROVE c = 1 \/ \E d \in X : c = After(word', d)
  <2>1. CASE c = b
    <3>1. bp \in X /\ b = After(word', bp)
      BY <1>2, <1>3, <1>10
    <3> QED BY <2>1, <3>1
  <2>2. CASE c \in Walk /\ c < b /\ c # 1
    <3>1. PICK d \in Walk : c = After(word, d)
      BY <2>2, InvFacts DEF IsWalk
    <3>2. d < b
      BY <1>3, <2>2, <3>1, InvFacts
    <3> QED BY <1>10, <3>1, <3>2
  <2> QED BY <2>1, <2>2
<1>15. IsWalk(word', 1, X)
  BY <1>11, <1>12, <1>13, <1>14 DEF IsWalk
<1>16. Walk' = X
  BY <1>6, <1>15, WalkUnique, WalkIs
<1>17. ASSUME NEW c \in Laid PROVE word'[c + 1] = Fields(word[c].home)
  <2>1. c \in Nat /\ c \in Words /\ c <= bp /\ filling = 0
    BY InvFacts DEF StackInv, StackTypeOK, Top
  <2>2. bp + 1 < b
    <3>1. word[bp].size >= 3 /\ word[bp].size \in Nat
      BY <1>2, InvFacts, ContextFacts
    <3> QED BY <1>2, <1>3, <3>1 DEF After
  <2>3. c + 1 \in Words /\ c + 1 < b
    BY <1>3, <1>4, <2>1, <2>2 DEF Words
  <2>4. word[c + 1] = Fields(word[c].home)
    <3>1. c # filling
      BY <2>1, SizeFacts DEF Words
    <3> QED BY <3>1 DEF StackInv, HomesCopied
  <2> QED BY <1>8, <2>3, <2>4
<1> QED BY <1>1, <1>2, <1>3, <1>4, <1>6, <1>7, <1>8, <1>13, <1>16, <1>17 DEF b

(* A call of a method.                                                     *)
LEMMA InvNewContext ==
    ASSUME StackInv, NEW size \in Sizes, NEW heapVars \in BOOLEAN,
           newContext(size, heapVars)
    PROVE  StackInv'
<1>1. CASE nextBP > StackSize \/ nextBP + size > StackSize
  <2>1. UNCHANGED <<word, stale, bp, filling, blocks>> /\ phase = "run"
        /\ phase' \in {"abort", "overrun"}
    BY <1>1 DEF newContext, Overrun
  <2>2. Running' = Running /\ Walk' = Walk
    BY <2>1, RunningIs, WalkIs
  <2>3. Laid' = Laid
    BY <2>1, <2>2 DEF Laid
  <2> QED BY <2>1, <2>2, <2>3
       DEF StackInv, StackTypeOK, LaidApart, HomesKnown, WalkWhole, HomesCopied, After
<1>2. CASE ~(nextBP > StackSize \/ nextBP + size > StackSize)
  <2> DEFINE b == nextBP
             ctx == Context(size, bp, FALSE, 0, FALSE)
  <2>1. /\ phase = "run" /\ lay(b, ctx) /\ filling' = b
        /\ phase' \in {"allocate", "fill"} /\ UNCHANGED <<bp, blocks>>
    BY <1>2 DEF newContext
  <2>2. bp \in 0 .. StackSize /\ 0 \in 0 .. StackSize /\ filling = 0 /\ bp # 0
    BY <2>1, SizeFacts DEF StackInv, StackTypeOK
  <2>3. ctx \in Contexts /\ ctx.size = size /\ ctx.prevBP = bp /\ ~ctx.isBlock /\ IsContext(ctx)
    BY <2>2 DEF Context, Contexts, IsContext
  <2>4. b + ctx.size <= StackSize
    <3>1. bp \in Laid
      BY <2>1, <2>2, InvFacts DEF Laid, IsChain
    <3>2. b \in Nat
      BY <3>1, <2>2, InvFacts DEF nextBP
    <3>3. ~(b + size > StackSize) /\ ctx.size = size
      BY <1>2, <2>3
    <3> HIDE DEF b, ctx
    <3> QED BY <3>2, <3>3, SizeFacts
  <2> HIDE DEF ctx, b
  <2>5. /\ b \in Words /\ bp < b /\ b = After(word, bp)
        /\ bp \in Running /\ Laid = Running
        /\ word' \in Contents /\ word'[b] = ctx
        /\ \A c \in Words : c < b => word'[c] = word[c]
        /\ \A c \in Laid : word'[c + 1] = Fields(word[c].home)
        /\ Walk' = {c \in Walk : c < b} \cup {b}
        /\ \A c \in Walk' : After(word', c) \in Words =>
             IsContext(word'[After(word', c)]) \/ word'[After(word', c)] = Nil
    BY <2>1, <2>3, <2>4, LaidOut DEF b
  <2>6. \A c \in Running : c \in Words /\ c < b /\ word'[c] = word[c]
    BY <2>5, InvFacts, SizeFacts DEF Words
  <2>7. Running' = Running
    <3>1. IsChain(word', bp, Running)
      BY <2>6, InvFacts, ChainKept
    <3> QED BY <2>1, <2>2, <2>5, <3>1, ChainIsActive, RunningIs
  <2>8. b # 0 /\ b \in 0 .. StackSize
    BY <2>5, SizeFacts DEF Words
  <2>9. Laid' = Running \cup {b}
    BY <2>1, <2>7, <2>8 DEF Laid
  <2>10. StackTypeOK'
    BY <2>1, <2>2, <2>5, <2>8 DEF StackInv, StackTypeOK
  <2>11. LaidApart'
    <3>1. ASSUME NEW c \in Running
          PROVE  /\ IsContext(word'[c]) /\ After(word', c) <= StackSize
                 /\ word'[c].prevBP # 0 =>
                      word'[c].prevBP \in Laid' /\ After(word', word'[c].prevBP) <= c
      BY <2>5, <2>6, <2>9, InvFacts DEF StackInv, LaidApart, After
    <3>2. /\ IsContext(word'[b]) /\ After(word', b) <= StackSize
          /\ word'[b].prevBP = bp /\ bp \in Laid' /\ After(word', bp) <= b
      <4>1. After(word', bp) = b
        BY <2>5, <2>6 DEF After
      <4> QED BY <2>3, <2>4, <2>5, <2>9, <4>1, SizeFacts DEF After, Words
    <3> QED BY <2>1, <2>9, <3>1, <3>2 DEF LaidApart
  <2>12. HomesKnown'
    BY <2>1, <2>3, <2>5, <2>6, <2>7, <2>9 DEF StackInv, HomesKnown
  <2>13. WalkWhole'
    BY <2>5, <2>6, <2>9 DEF StackInv, WalkWhole
  <2>14. HomesCopied'
    BY <2>1, <2>5, <2>6, <2>9 DEF HomesCopied
  <2> QED BY <2>10, <2>11, <2>12, <2>13, <2>14 DEF StackInv
<1> QED BY <1>1, <1>2

(* The running context stays, and so do its callers, when a context above  *)
(* them is laid.                                                           *)
LEMMA BelowKept ==
    ASSUME StackInv, NEW e \in Laid,
           word' \in Contents, \A c \in Words : c < e => word'[c] = word[c]
    PROVE  /\ {c \in Laid : c < e} = ActiveIn(word', word[e].prevBP)
           /\ word[e].prevBP \in 0 .. StackSize /\ word[e].prevBP < e
           /\ IsChain(word', word[e].prevBP, {c \in Laid : c < e})
<1> DEFINE X == {c \in Laid : c < e}
           p == word[e].prevBP
<1>1. IsChain(word, p, X)
  BY InvFacts, ChainBelow
<1>2. IsChain(word', p, X)
  <2>1. \A c \in X : word'[c] = word[c]
    BY InvFacts
  <2> HIDE DEF X, p
  <2> QED BY <1>1, <2>1, ChainKept
<1>3. p \in 0 .. StackSize /\ p < e
  <2>1. e \in Words /\ Caller(word, e) = p
    BY InvFacts
  <2> QED BY <2>1, InvFacts, ActiveUnfolds
<1> HIDE DEF X, p
<1>4. X = ActiveIn(word', p)
  BY <1>2, <1>3, ChainIsActive
<1> QED BY <1>2, <1>3, <1>4 DEF X, p

(* What the invariant says of the contexts below one of them.              *)
LEMMA LaidBelow ==
    ASSUME StackInv, NEW e \in Laid
    PROVE  /\ word[e].prevBP # 0 => word[e].prevBP \in {c \in Laid : c < e}
           /\ \A c \in Laid : c < e =>
                /\ word[c].prevBP # 0 =>
                     /\ word[c].prevBP \in {d \in Laid : d < e}
                     /\ After(word, word[c].prevBP) <= c
                /\ word[c].isBlock /\ word[c].live =>
                     /\ word[c].home \in {d \in Laid : d < e}
                     /\ word[c].home < c
<1>1. \A c \in Laid : /\ c \in Nat /\ word[c].prevBP \in Nat /\ word[c].prevBP < c
                      /\ word[c].home \in Nat
  <2>1. \A c \in Laid : word[c] \in Contexts /\ c \in Words /\ c \in Nat
                        /\ Caller(word, c) = word[c].prevBP
    BY InvFacts
  <2>2. \A c \in Laid : Caller(word, c) \in 0 .. StackSize /\ Caller(word, c) < c
    BY <2>1, InvFacts, ActiveUnfolds
  <2>3. \A c \in Laid : word[c].home \in 0 .. StackSize
    BY <2>1 DEF Contexts
  <2> QED BY <2>1, <2>2, <2>3, SizeFacts
<1> QED BY <1>1 DEF StackInv, LaidApart, HomesKnown

(* A call of a block.                                                      *)
LEMMA InvExecBlock ==
    ASSUME StackInv, NEW block \in blocks, NEW size \in Sizes, NEW heapVars \in BOOLEAN,
           execBlock(block, size, heapVars)
    PROVE  StackInv'
<1>1. CASE nextBP + size > StackSize
  <2>1. /\ UNCHANGED <<word, stale, bp, filling, blocks>> /\ phase = "run"
        /\ phase' \in {"abort", "overrun"}
    BY <1>1 DEF execBlock, Overrun
  <2>2. Running' = Running /\ Walk' = Walk
    BY <2>1, RunningIs, WalkIs
  <2>3. Laid' = Laid
    BY <2>1, <2>2 DEF Laid
  <2> QED BY <2>1, <2>2, <2>3
       DEF StackInv, StackTypeOK, LaidApart, HomesKnown, WalkWhole, HomesCopied, After
<1>2. CASE ~(nextBP + size > StackSize)
  <2> DEFINE b == nextBP
             p == word[bp].prevBP
             ctx == Context(size, p, TRUE, block.home, block.live)
             X == {c \in Laid : c < bp}
  <2>1. /\ phase = "run" /\ lay(b, ctx) /\ filling' = b /\ bp' = b
        /\ phase' \in {"allocate", "fill"} /\ UNCHANGED blocks
        /\ \A other \in blocks : other.live => other.home # bp
    BY <1>2 DEF execBlock, MayBeValue
  <2>2. /\ bp \in 0 .. StackSize /\ 0 \in 0 .. StackSize /\ filling = 0 /\ bp # 0
        /\ block \in [home : 0 .. StackSize, live : BOOLEAN]
        /\ block.home \in 0 .. StackSize /\ block.live \in BOOLEAN
    BY <2>1, SizeFacts DEF StackInv, StackTypeOK
  <2>3. bp \in Laid /\ bp \in Words /\ word[bp] \in Contexts /\ word[bp].size \in Nat
    BY <2>1, <2>2, InvFacts DEF Laid, IsChain
  <2>4. p \in 0 .. StackSize
    BY <2>3 DEF Contexts
  <2>5. /\ ctx \in Contexts /\ ctx.size = size /\ ctx.prevBP = p /\ IsContext(ctx)
        /\ ctx.home = block.home /\ ctx.live = block.live
    BY <2>2, <2>4 DEF Context, Contexts, IsContext
  <2>6. b + ctx.size <= StackSize
    <3>1. b \in Nat
      BY <2>2, <2>3, SizeFacts DEF nextBP
    <3>2. ~(b + size > StackSize) /\ ctx.size = size
      BY <1>2, <2>5
    <3> HIDE DEF b, ctx
    <3> QED BY <3>1, <3>2, SizeFacts
  <2> HIDE DEF ctx, b
  <2>7. /\ b \in Words /\ bp < b /\ b = After(word, bp)
        /\ bp \in Running /\ Laid = Running
        /\ word' \in Contents /\ word'[b] = ctx
        /\ \A c \in Words : c < b => word'[c] = word[c]
        /\ \A c \in Laid : word'[c + 1] = Fields(word[c].home)
        /\ Walk' = {c \in Walk : c < b} \cup {b}
        /\ \A c \in Walk' : After(word', c) \in Words =>
             IsContext(word'[After(word', c)]) \/ word'[After(word', c)] = Nil
    BY <2>1, <2>5, <2>6, LaidOut DEF b
  <2>8. b \in Nat /\ b # 0 /\ b \in 0 .. StackSize /\ bp \in Nat
    BY <2>2, <2>7, SizeFacts DEF Words
  <2>9. \A c \in Words : c < bp => word'[c] = word[c]
    BY <2>7, <2>8, SizeFacts DEF Words
  <2>10. X = ActiveIn(word', p) /\ p < bp /\ IsChain(word', p, X)
    BY <2>3, <2>7, <2>9, BelowKept
  <2>11. \A c \in X : c \in Laid /\ c \in Words /\ c < bp /\ c < b /\ word'[c] = word[c]
    BY <2>7, <2>8, <2>9, InvFacts
  <2> HIDE DEF X, p
  <2>12. Running' = X \cup {b}
    <3>1. p < b
      BY <2>4, <2>7, <2>8, <2>10
    <3>2. Caller(word', b) = p
      BY <2>5, <2>7, <3>1 DEF Caller
    <3>3. IsChain(word', b, X \cup {b})
      BY <2>7, <2>10, <3>2, ChainExtends
    <3> QED BY <2>1, <2>7, <2>8, <3>3, ChainIsActive, RunningIs
  <2>13. Laid' = X \cup {b}
    BY <2>1, <2>12 DEF Laid
  <2>14. StackTypeOK'
    BY <2>1, <2>2, <2>7, <2>8 DEF StackInv, StackTypeOK
  <2>15. LaidApart'
    <3>1. ASSUME NEW c \in X
          PROVE  /\ IsContext(word'[c]) /\ After(word', c) <= StackSize
                 /\ word'[c].prevBP # 0 =>
                      word'[c].prevBP \in Laid' /\ After(word', word'[c].prevBP) <= c
      <4>1. /\ IsContext(word[c]) /\ After(word, c) <= StackSize
            /\ word[c].prevBP # 0 =>
                 word[c].prevBP \in X /\ After(word, word[c].prevBP) <= c
        BY <2>3, <2>11, LaidBelow DEF X, StackInv, LaidApart
      <4> QED BY <2>11, <2>13, <4>1 DEF After
    <3>2. /\ IsContext(word'[b]) /\ After(word', b) <= StackSize /\ word'[b].prevBP = p
          /\ p # 0 => p \in Laid' /\ After(word', p) <= b
      <4>1. p # 0 => p \in X /\ After(word, p) <= bp
        BY <2>3, LaidBelow DEF X, p, StackInv, LaidApart
      <4>2. p # 0 => After(word', p) = After(word, p) /\ After(word, p) \in Nat
        BY <2>4, <2>11, <4>1, InvFacts DEF After
      <4>3. IsContext(word'[b]) /\ After(word', b) <= StackSize /\ word'[b].prevBP = p
        BY <2>5, <2>6, <2>7 DEF After
      <4>4. p # 0 => p \in Laid' /\ After(word', p) <= b
        BY <2>7, <2>8, <2>13, <4>1, <4>2
      <4> QED BY <4>3, <4>4
    <3> QED BY <2>1, <2>13, <3>1, <3>2 DEF LaidApart
  <2>16. HomesKnown'
    <3>1. \A other \in blocks : other.live => other.home \in X
      <4>1. \A other \in blocks : other.live => other.home \in Laid /\ other.home # bp
        BY <2>1, <2>7 DEF StackInv, HomesKnown
      <4>2. \A c \in Laid : c \in Nat /\ c <= bp
        BY <2>2, InvFacts DEF Top
      <4> QED BY <2>8, <4>1, <4>2 DEF X
    <3>2. \A c \in X : word'[c].isBlock /\ word'[c].live =>
            word'[c].home \in X /\ word'[c].home < c
      BY <2>3, <2>11, LaidBelow DEF X
    <3>3. ctx.live => ctx.home \in X /\ ctx.home < b
      BY <2>5, <2>11, <3>1
    <3> QED BY <2>1, <2>7, <2>12, <2>13, <3>1, <3>2, <3>3 DEF HomesKnown
  <2>17. WalkWhole'
    BY <2>7, <2>11, <2>13 DEF StackInv, WalkWhole
  <2>18. HomesCopied'
    BY <2>1, <2>7, <2>11, <2>13 DEF HomesCopied
  <2> QED BY <2>14, <2>15, <2>16, <2>17, <2>18 DEF StackInv
<1> QED BY <1>1, <1>2

-----------------------------------------------------------------------------
(* The rest of the new context, and its arguments.                         *)
LEMMA InvFill ==
    ASSUME StackInv, Fill
    PROVE  StackInv'
<1> DEFINE f == filling
           rest == f + 1 .. f + word[f].size - 1
<1>1. /\ word' = [i \in Words |-> IF i = f + 1 THEN Fields(word[f].home)
                                  ELSE IF i \in rest THEN Data ELSE word[i]]
      /\ bp' = f /\ filling' = 0 /\ phase' = "run" /\ UNCHANGED blocks
  BY DEF Fill
<1>2. f # 0 /\ f \in 0 .. StackSize
  BY DEF Fill, StackInv, StackTypeOK
<1>3. f \in Laid /\ f \in Walk /\ Top = f
  BY <1>2 DEF Laid, Top, StackInv, WalkWhole
<1>4. /\ f \in Nat /\ f \in Words /\ IsContext(word[f]) /\ word[f].size \in Nat
      /\ After(word, f) = f + word[f].size /\ After(word, f) \in Nat
      /\ word[f].size >= 3 /\ word[f].home \in 0 .. StackSize
  BY <1>3, InvFacts, ContextFacts DEF After, Contexts
<1> HIDE DEF f
<1>5. word' \in Contents
  <2>1. \A i \in Words : word[i] \in {Nil, Data} \cup FieldWords \cup Contexts
    BY InvFacts DEF Contents
  <2>2. Fields(word[f].home) \in FieldWords
    BY <1>4 DEF FieldWords
  <2> QED BY <1>1, <2>1, <2>2 DEF Contents
<1>6. \A i \in Words : i <= f \/ i >= After(word, f) => word'[i] = word[i]
  BY <1>1, <1>4 DEF Words
<1>7. \A c \in Laid : c \in Words /\ word'[c] = word[c]
  BY <1>3, <1>6, InvFacts
<1>8. Running' = Laid /\ Laid' = Laid
  <2>1. IsChain(word', f, Laid)
    BY <1>3, <1>7, InvFacts, ChainKept
  <2>2. Running' = Laid
    BY <1>1, <1>2, <1>5, <2>1, ChainIsActive, RunningIs
  <2> QED BY <1>1, <2>2 DEF Laid
<1>9. ASSUME NEW c \in Walk
      PROVE  /\ word'[c] = word[c] /\ After(word', c) = After(word, c)
             /\ After(word, c) \in Words => word'[After(word, c)] = word[After(word, c)]
  <2>1. c \in Nat /\ c \in Words /\ After(word, c) \in Nat /\ After(word, c) > c
    BY InvFacts
  <2>2. c > f => c >= After(word, f)
    BY <1>3, InvFacts
  <2>3. c < f => After(word, c) <= f
    BY <1>3, InvFacts
  <2>4. word'[c] = word[c]
    BY <1>4, <1>6, <2>1, <2>2
  <2>5. After(word, c) <= f \/ After(word, c) >= After(word, f)
    BY <1>4, <2>1, <2>2, <2>3
  <2> QED BY <1>6, <2>4, <2>5 DEF After
<1>10. Walk' = Walk
  <2>1. IsWalk(word, 1, Walk) /\ 1 \in Words
    BY InvFacts, SizeFacts DEF Words
  <2>2. 1 <= f
    BY <1>2, <1>4
  <2>3. word'[1] = word[1]
    BY <1>6, <2>1, <2>2
  <2>4. IsWalk(word', 1, Walk)
    BY <1>9, <2>1, <2>3 DEF IsWalk
  <2> QED BY <1>5, <2>4, WalkUnique, WalkIs
<1>11. StackTypeOK'
  BY <1>1, <1>2, <1>5, SizeFacts DEF StackInv, StackTypeOK
<1>12. LaidApart'
  BY <1>1, <1>7, <1>8 DEF StackInv, LaidApart, After
<1>13. HomesKnown'
  BY <1>1, <1>7, <1>8, InvFacts DEF StackInv, HomesKnown
<1>14. WalkWhole'
  BY <1>8, <1>9, <1>10 DEF StackInv, WalkWhole
<1>15. HomesCopied'
  <2>1. f + 1 \in Words /\ word'[f + 1] = Fields(word[f].home)
    <3>1. After(word, f) <= StackSize
      BY <1>3 DEF StackInv, LaidApart
    <3>2. f + 1 \in Words
      BY <1>4, <3>1, SizeFacts DEF Words
    <3> QED BY <1>1, <3>2
  <2>2. ASSUME NEW c \in Laid, c # f PROVE word'[c + 1] = Fields(word[c].home)
    <3>1. c \in Nat /\ c < f /\ c \in Words
      BY <1>3, <1>4, <2>2, InvFacts
    <3>2. c + 1 \in Words /\ c + 1 <= f
      BY <1>4, <3>1, SizeFacts DEF Words
    <3>3. word[c + 1] = Fields(word[c].home)
      BY <2>2 DEF StackInv, HomesCopied, f
    <3> QED BY <1>6, <3>2, <3>3
  <2> QED BY <1>7, <1>8, <2>1, <2>2 DEF HomesCopied
<1> QED BY <1>11, <1>12, <1>13, <1>14, <1>15 DEF StackInv

-----------------------------------------------------------------------------
(* The context e has returned, and those above it: what is below it is     *)
(* intact, and the walk stops at e if that was annulled.                   *)
LEMMA Returned ==
    ASSUME StackInv, phase = "run", NEW e \in Laid,
           word' = word \/ word' = [word EXCEPT ![e] = Nil],
           resumeCaller(word[e].prevBP, {b \in Running : b >= e})
    PROVE  StackInv'
<1> DEFINE p == word[e].prevBP
           X == {c \in Laid : c < e}
           Xw == {c \in Walk : c < e}
<1>1. /\ filling = 0 /\ filling' = 0 /\ bp' = p /\ Laid = Running
      /\ phase' = IF p = 0 THEN "end" ELSE "run"
      /\ blocks' = {[b EXCEPT !.live = b.live /\ b.home \notin {c \in Running : c >= e}] :
                      b \in blocks}
  <2>1. filling = 0
    BY DEF StackInv, StackTypeOK
  <2> QED BY <2>1 DEF resumeCaller, Laid
<1>2. e \in Words /\ e \in Walk /\ e \in Nat /\ 1 <= e
  BY InvFacts DEF StackInv, WalkWhole
<1>3. word \in Contents /\ word' \in Contents
  BY <1>2, InvFacts DEF Contents
<1>4. /\ \A c \in Words : c # e => word'[c] = word[c]
      /\ word'[e] = Nil \/ word' = word
  BY <1>2, <1>3 DEF Contents
<1>5. \A c \in Words : c \in Nat /\ (c < e => word'[c] = word[c])
  BY <1>2, <1>4, SizeFacts DEF Words
<1>6. X = ActiveIn(word', p) /\ p \in 0 .. StackSize
  BY <1>3, <1>5, BelowKept
<1>7. Running' = X /\ Laid' = X
  BY <1>1, <1>6, RunningIs DEF Laid
<1>8. \A c \in X : c \in Laid /\ c \in Words /\ c < e /\ word'[c] = word[c]
  BY <1>5, InvFacts
<1>9. \A b \in blocks' : b.live => \E a \in blocks : a.live /\ a.home = b.home
                                       /\ b.home \notin {c \in Running : c >= e}
  <2>1. \A a \in blocks : a \in [home : 0 .. StackSize, live : BOOLEAN]
    BY DEF StackInv, StackTypeOK
  <2> QED BY <1>1, <2>1
<1>10. StackTypeOK'
  <2>1. blocks' \subseteq [home : 0 .. StackSize, live : BOOLEAN]
    <3>1. blocks \subseteq [home : 0 .. StackSize, live : BOOLEAN]
      BY DEF StackInv, StackTypeOK
    <3> QED BY <1>1, <3>1
  <2>2. 0 \in 0 .. StackSize
    BY SizeFacts
  <2> QED BY <1>1, <1>3, <1>6, <2>1, <2>2 DEF StackTypeOK
<1>11. LaidApart'
  <2>1. ASSUME NEW c \in X
        PROVE  /\ IsContext(word'[c]) /\ After(word', c) <= StackSize
               /\ word'[c].prevBP # 0 =>
                    word'[c].prevBP \in X /\ After(word', word'[c].prevBP) <= c
    <3>1. /\ IsContext(word[c]) /\ After(word, c) <= StackSize
          /\ word[c].prevBP # 0 =>
               word[c].prevBP \in X /\ After(word, word[c].prevBP) <= c
      BY <1>8, LaidBelow DEF StackInv, LaidApart
    <3> QED BY <1>8, <3>1 DEF After
  <2> QED BY <1>1, <1>7, <2>1 DEF LaidApart
<1>12. HomesKnown'
  <2>1. \A c \in X : word'[c].isBlock /\ word'[c].live =>
          word'[c].home \in X /\ word'[c].home < c
    BY <1>8, LaidBelow
  <2>2. ASSUME NEW b \in blocks', b.live PROVE b.home \in X
    <3>1. b.home \in Laid /\ b.home \notin {c \in Running : c >= e}
      BY <1>1, <1>9, <2>2 DEF StackInv, HomesKnown
    <3> QED BY <1>1, <1>2, <3>1, InvFacts
  <2> QED BY <1>7, <2>1, <2>2 DEF HomesKnown
<1>15. HomesCopied'
  <2> SUFFICES ASSUME NEW c \in X PROVE word'[c + 1] = Fields(word'[c].home)
    BY <1>7 DEF HomesCopied
  <2>1. /\ c \in Nat /\ c < e /\ word'[c] = word[c]
        /\ word[c + 1] = Fields(word[c].home)
    BY <1>1, <1>5, <1>8, InvFacts DEF StackInv, HomesCopied, StackTypeOK
  <2>2. c + 1 # e
    BY <2>1, InvFacts DEF IsContext, Fields
  <2>3. c + 1 \in Words
    BY <1>2, <2>1, SizeFacts DEF Words
  <2> QED BY <1>4, <2>1, <2>2, <2>3
<1>13. CASE word' = word
  <2>1. Walk' = Walk
    BY <1>13, WalkIs
  <2> QED BY <1>7, <1>8, <1>10, <1>11, <1>12, <1>13, <1>15, <2>1
          DEF StackInv, WalkWhole, After
<1>14. CASE word'[e] = Nil
  <2>1. ASSUME NEW c \in Xw
        PROVE  /\ c \in Words /\ word'[c] = word[c] /\ IsContext(word[c])
               /\ After(word', c) = After(word, c) /\ After(word, c) <= e
    BY <1>2, <1>5, InvFacts DEF After
  <2>2. ~IsContext(word'[e])
    BY <1>14 DEF IsContext, Nil
  <2>3. ASSUME NEW c \in Xw, After(word', c) \in Words
        PROVE  \/ IsContext(word'[After(word', c)]) /\ After(word', c) \in Xw
               \/ word'[After(word', c)] = Nil /\ ~IsContext(word'[After(word', c)])
    <3>1. CASE After(word', c) = e
      BY <1>14, <2>2, <3>1
    <3>2. CASE After(word', c) # e
      <4>1. /\ After(word', c) = After(word, c) /\ After(word, c) < e
            /\ After(word, c) \in Words
        <5>1. After(word', c) = After(word, c) /\ After(word, c) <= e
          BY <2>1
        <5>2. After(word, c) \in Words /\ After(word, c) \in Nat
          BY <1>5, <2>3, <5>1
        <5>3. After(word, c) # e
          BY <3>2, <5>1
        <5> QED BY <1>2, <5>1, <5>2, <5>3
      <4>2. IsContext(word[After(word, c)]) \/ word[After(word, c)] = Nil
        BY <4>1 DEF StackInv, WalkWhole
      <4>3. IsContext(word[After(word, c)]) => After(word, c) \in Walk
        BY <4>1, InvFacts DEF IsWalk
      <4> QED BY <1>5, <4>1, <4>2, <4>3 DEF IsContext, Nil
    <3> QED BY <3>1, <3>2
  <2>4. 1 \in Words /\ IsContext(word'[1]) => 1 \in Xw
    <3>1. IsContext(word[1]) /\ 1 \in Words => 1 \in Walk
      BY InvFacts DEF IsWalk
    <3> QED BY <1>2, <1>4, <2>2, <3>1
  <2>5. ASSUME NEW c \in Xw, c # 1 PROVE \E d \in Xw : c = After(word', d)
    <3>1. PICK d \in Walk : c = After(word, d)
      BY <2>5, InvFacts DEF IsWalk
    <3>2. d < e
      BY <1>2, <3>1, InvFacts
    <3> QED BY <2>1, <3>1, <3>2
  <2>6. IsWalk(word', 1, Xw)
    BY <2>1, <2>3, <2>4, <2>5 DEF IsWalk
  <2>7. Walk' = Xw
    BY <1>3, <2>6, WalkUnique, WalkIs
  <2>8. WalkWhole'
    <3>1. X \subseteq Xw
      BY DEF StackInv, WalkWhole
    <3> QED BY <1>7, <2>3, <2>7, <3>1 DEF WalkWhole
  <2> QED BY <1>10, <1>11, <1>12, <1>15, <2>8 DEF StackInv
<1> QED BY <1>4, <1>13, <1>14

(* The returns.  A block returns from its home, which the invariant finds  *)
(* among the running contexts.                                             *)
LEMMA InvReturns ==
    ASSUME StackInv, opReturn \/ opReturnSelf \/ blockReturn
    PROVE  StackInv'
<1>1. phase = "run"
  BY DEF opReturn, opReturnSelf, blockReturn
<1>2. bp \in Laid /\ bp \in Running /\ Laid = Running /\ bp \in Nat /\ word[bp] \in Contexts
  BY <1>1, InvFacts DEF StackInv, StackTypeOK, Laid, IsChain
<1>3. {bp} = {b \in Running : b >= bp}
  <2>1. bp >= bp
    BY <1>2
  <2>2. \A b \in Running : b >= bp => b = bp
    <3>1. \A b \in Running : b \in Nat /\ b <= bp
      BY <1>2, InvFacts
    <3> QED BY <1>2, <3>1
  <2> QED BY <1>2, <2>1, <2>2
<1>4. CASE opReturn
  BY <1>1, <1>2, <1>3, <1>4, Returned DEF opReturn
<1>5. CASE opReturnSelf
  BY <1>1, <1>2, <1>3, <1>5, Returned DEF opReturnSelf
<1>6. CASE blockReturn /\ word[bp].live
  <2> DEFINE home == word[bp].home
  <2>1. word[bp].isBlock
    BY <1>6 DEF blockReturn
  <2>2. home \in Laid
    BY <1>2, <1>6, <2>1 DEF StackInv, HomesKnown
  <2>3. /\ word' = [word EXCEPT ![home] = Nil]
        /\ resumeCaller(word[home].prevBP, {b \in Running : b >= home})
    BY <1>6 DEF blockReturn
  <2> HIDE DEF home
  <2> QED BY <1>1, <2>2, <2>3, Returned
<1>7. CASE blockReturn /\ ~word[bp].live
  <2>1. phase' = "wild" /\ UNCHANGED <<word, bp, filling, blocks>>
    BY <1>7 DEF blockReturn
  <2>2. Running' = Running /\ Walk' = Walk
    BY <2>1, RunningIs, WalkIs
  <2>3. Laid' = Laid
    BY <2>1, <2>2 DEF Laid
  <2> QED BY <1>1, <2>1, <2>2, <2>3
       DEF StackInv, StackTypeOK, LaidApart, HomesKnown, WalkWhole, HomesCopied, After
<1> QED BY <1>4, <1>5, <1>6, <1>7

(* The steps that do not write to the stack.                               *)
LEMMA InvKeepsStack ==
    ASSUME StackInv, mpsScan \/ ldaBlockCopy \/ UNCHANGED vars
    PROVE  StackInv'
<1>1. UNCHANGED <<word, bp, filling, phase>>
  BY DEF mpsScan, ldaBlockCopy, vars
<1>2. Running' = Running /\ Walk' = Walk
  BY <1>1, RunningIs, WalkIs
<1>3. Laid' = Laid
  BY <1>1, <1>2 DEF Laid
<1>4. /\ blocks' \subseteq [home : 0 .. StackSize, live : BOOLEAN]
      /\ \A block \in blocks' : block.live => block.home \in Running
  <2>1. /\ blocks \subseteq [home : 0 .. StackSize, live : BOOLEAN]
        /\ \A block \in blocks : block.live => block.home \in Running
    BY DEF StackInv, StackTypeOK, HomesKnown
  <2>2. CASE UNCHANGED blocks
    BY <2>1, <2>2
  <2>3. CASE ldaBlockCopy
    <3>1. phase = "run" /\ filling = 0 /\ bp # 0 /\ bp \in 0 .. StackSize
      BY <2>3 DEF ldaBlockCopy, StackInv, StackTypeOK
    <3>2. bp \in Running /\ Laid = Running /\ word[bp] \in Contexts
      BY <3>1, InvFacts DEF Laid, IsChain
    <3>3. /\ word[bp].home \in 0 .. StackSize /\ word[bp].live \in BOOLEAN
          /\ word[bp].isBlock /\ word[bp].live => word[bp].home \in Running
      BY <3>2 DEF Contexts, StackInv, HomesKnown
    <3>4. blocks' = blocks \cup
            {IF word[bp].isBlock
               THEN [home |-> word[bp].home, live |-> word[bp].live]
               ELSE [home |-> bp, live |-> TRUE]}
      <4>1. word[bp + 1] = Fields(word[bp].home)
        BY <3>1, <3>2 DEF StackInv, HomesCopied
      <4>2. word[bp + 1].homeMethodBP = word[bp].home
        BY <4>1 DEF Fields
      <4> QED BY <2>3, <4>2 DEF ldaBlockCopy
    <3>5. CASE word[bp].isBlock
      <4> DEFINE new == [home |-> word[bp].home, live |-> word[bp].live]
      <4>1. blocks' = blocks \cup {new}
        BY <3>4, <3>5
      <4>2. new \in [home : 0 .. StackSize, live : BOOLEAN]
        BY <3>3
      <4>3. new.live => new.home \in Running
        BY <3>3, <3>5
      <4> HIDE DEF new
      <4> QED BY <2>1, <4>1, <4>2, <4>3
    <3>6. CASE ~word[bp].isBlock
      <4> DEFINE new == [home |-> bp, live |-> TRUE]
      <4>1. blocks' = blocks \cup {new}
        BY <3>4, <3>6
      <4>2. new \in [home : 0 .. StackSize, live : BOOLEAN]
        BY <3>1
      <4>3. new.live => new.home \in Running
        BY <3>2
      <4> HIDE DEF new
      <4> QED BY <2>1, <4>1, <4>2, <4>3
    <3> QED BY <3>5, <3>6
  <2> QED BY <2>2, <2>3 DEF mpsScan, vars
<1> QED BY <1>1, <1>2, <1>3, <1>4
     DEF StackInv, StackTypeOK, LaidApart, HomesKnown, WalkWhole, HomesCopied, After

(* A new process.                                                          *)
LEMMA InvInit == Init => StackInv
<1> SUFFICES ASSUME Init PROVE StackInv
  OBVIOUS
<1>1. PICK size \in Sizes :
        word = [i \in Words |->
                  IF i = 1 THEN Context(size, 0, FALSE, 0, FALSE)
                  ELSE IF i = 2 THEN Fields(0)
                  ELSE IF i \in 3 .. size THEN Data ELSE Nil]
  BY DEF Init
<1>2. bp = 1 /\ filling = 0 /\ phase = "run" /\ blocks = {}
  BY DEF Init
<1> DEFINE ctx == Context(size, 0, FALSE, 0, FALSE)
<1>3. /\ StackSize \in Nat /\ size \in Nat /\ size >= 3 /\ size < StackSize
      /\ 0 \in 0 .. StackSize /\ 1 \in 0 .. StackSize /\ 1 \in Words
      /\ size + 1 \in Words /\ size + 1 > 2 /\ size + 1 \notin 3 .. size /\ 2 \in Words
  BY SizeFacts DEF Words
<1>4. /\ ctx \in Contexts /\ ctx.size = size /\ ctx.prevBP = 0 /\ ~ctx.isBlock
      /\ IsContext(ctx)
  BY <1>3 DEF Context, Contexts, IsContext
<1> HIDE DEF ctx
<1>5. word \in Contents
  BY <1>1, <1>3, <1>4 DEF Contents, ctx, FieldWords
<1>6. word[1] = ctx /\ word[size + 1] = Nil /\ ~IsContext(word[size + 1])
  <2>1. word[1] = ctx
    BY <1>1, <1>3 DEF ctx
  <2>2. word[size + 1] = Nil
    <3>1. size + 1 # 1 /\ size + 1 # 2
      BY <1>3
    <3> QED BY <1>1, <1>3, <3>1
  <2> QED BY <2>1, <2>2 DEF IsContext, Nil
<1>7. Caller(word, 1) = 0 /\ After(word, 1) = size + 1
  BY <1>3, <1>4, <1>6 DEF Caller, After
<1>8. Running = {1} /\ Laid = {1}
  <2>1. ActiveIn(word, 1) = {1}
    BY <1>3, <1>5, <1>7, ActiveUnfolds
  <2> QED BY <1>2, <2>1, RunningIs DEF Laid
<1>9. Walk = {1}
  <2>1. IsWalk(word, 1, {1})
    BY <1>3, <1>4, <1>6, <1>7 DEF IsWalk
  <2> QED BY <1>5, <2>1, WalkUnique, WalkIs
<1>10. StackTypeOK
  BY <1>2, <1>3, <1>5 DEF StackTypeOK
<1>11. LaidApart
  BY <1>2, <1>3, <1>4, <1>6, <1>7, <1>8 DEF LaidApart
<1>12. HomesKnown
  BY <1>2, <1>4, <1>6, <1>8 DEF HomesKnown
<1>13. WalkWhole
  BY <1>6, <1>7, <1>8, <1>9 DEF WalkWhole
<1>14. HomesCopied
  <2>1. word[2] = Fields(0)
    BY <1>1, <1>3
  <2>2. word[1].home = 0
    BY <1>6 DEF ctx, Context
  <2> QED BY <1>8, <2>1, <2>2 DEF HomesCopied
<1> QED BY <1>10, <1>11, <1>12, <1>13, <1>14 DEF StackInv

LEMMA InvNext == StackInv /\ [Next]_vars => StackInv'
<1> SUFFICES ASSUME StackInv, [Next]_vars PROVE StackInv'
  OBVIOUS
<1>1. CASE UNCHANGED vars
  BY <1>1, InvKeepsStack
<1>2. ASSUME NEW size \in Sizes, NEW heapVars \in BOOLEAN, newContext(size, heapVars)
      PROVE  StackInv'
  BY <1>2, InvNewContext
<1>3. ASSUME NEW size \in Sizes, NEW heapVars \in BOOLEAN, NEW block \in blocks,
             execBlock(block, size, heapVars)
      PROVE  StackInv'
  BY <1>3, InvExecBlock
<1>4. CASE Fill
  BY <1>4, InvFill
<1>5. CASE mpsScan \/ ldaBlockCopy
  BY <1>5, InvKeepsStack
<1>6. CASE opReturn \/ opReturnSelf \/ blockReturn
  BY <1>6, InvReturns
<1> QED BY <1>1, <1>2, <1>3, <1>4, <1>5, <1>6 DEF Next

-----------------------------------------------------------------------------
(* The invariant holds for every size of the stack, all sizes of contexts  *)
(* and every program.                                                      *)
THEOREM StackInvariant == Spec => []StackInv
<1>1. Init => StackInv
  BY InvInit
<1>2. StackInv /\ [Next]_vars => StackInv'
  BY InvNext
<1> QED BY <1>1, <1>2, PTL DEF Spec

(* Every caller is a whole context when it is returned to: calls of        *)
(* methods and blocks, returns and non-local returns, in any order, leave  *)
(* the running contexts one above the other.                               *)
THEOREM RunningContextsApart == Spec => []ContextsApart
<1>1. StackInv => ContextsApart
  <2> SUFFICES ASSUME StackInv, NEW b \in Laid
               PROVE  /\ IsContext(word[b])
                      /\ b + word[b].size <= StackSize
                      /\ word[b].prevBP # 0 =>
                           /\ word[b].prevBP \in Running
                           /\ word[b].prevBP + word[word[b].prevBP].size <= b
    BY DEF ContextsApart, Laid
  <2>1. /\ IsContext(word[b]) /\ After(word, b) <= StackSize
        /\ word[b].prevBP # 0 =>
             word[b].prevBP \in Laid /\ After(word, word[b].prevBP) <= b
    BY DEF StackInv, LaidApart
  <2>2. ASSUME word[b].prevBP # 0 PROVE word[b].prevBP \in Running
    <3>1. word[b].prevBP \in Running \/ (word[b].prevBP = filling /\ filling # 0)
      BY <2>1, <2>2 DEF Laid
    <3>2. word[b].prevBP < b /\ b <= Top
      <4>1. b \in Words /\ Caller(word, b) = word[b].prevBP
        BY InvFacts
      <4> QED BY <4>1, InvFacts, ActiveUnfolds
    <3>3. ~(word[b].prevBP = filling /\ filling # 0)
      BY <3>2, <2>1, InvFacts DEF Top
    <3> QED BY <3>1, <3>3
  <2> QED BY <2>1, <2>2 DEF After
<1> QED BY <1>1, StackInvariant, PTL

(* The collector's walk over the stack visits every running context and    *)
(* the one that is being initialised.                                      *)
THEOREM ScanVisitsRunning == Spec => []ScanReachesRunning
<1>1. StackInv => ScanReachesRunning
  BY DEF StackInv, WalkWhole, ScanReachesRunning, Laid
<1> QED BY <1>1, StackInvariant, PTL

(* The walk ends at a word that was annulled, or at the end of the stack.  *)
THEOREM WalkStopsAtNil == Spec => []WalkEndsAtNil
<1>1. StackInv => WalkEndsAtNil
  BY DEF StackInv, WalkWhole, WalkEndsAtNil, After
<1> QED BY <1>1, StackInvariant, PTL


-----------------------------------------------------------------------------
(***************************************************************************)
(* The contexts in the stack of a process implement the activations of     *)
(* CallStack, for every size of the stack and all sizes of contexts.       *)
(*                                                                         *)
(* IsStack says that a sequence of contexts is linked by prevBP, IsCalls   *)
(* that a sequence of indices tells their homes.  Each determines its      *)
(* sequence, so a step of the mapped variable follows from the two facts   *)
(* about the sequence that the step should lead to.                        *)
(***************************************************************************)
(* The k-th context of a stack, nil below the first.                       *)
Item(s, k) == IF k \in 1 .. Len(s) THEN s[k] ELSE 0

IsStack(w, b, s) ==
    /\ s \in Seq(Words)
    /\ b = Item(s, Len(s))
    /\ \A i \in 1 .. Len(s) : Caller(w, s[i]) = Item(s, i - 1)

IsCalls(w, s, c) ==
    /\ c \in Seq(Nat) /\ Len(c) = Len(s)
    /\ \A i \in 1 .. Len(s) :
         IF w[s[i]].live THEN c[i] \in 1 .. i - 1 /\ s[c[i]] = w[s[i]].home
                         ELSE c[i] = 0

\* The mapped variable of ContextStack.
callsBar ==
    [i \in DOMAIN Chain |->
       IF word[Chain[i]].live THEN indexOf(word[Chain[i]].home) ELSE 0]

-----------------------------------------------------------------------------
LEMMA StackFacts ==
    ASSUME NEW s \in Seq(Words)
    PROVE  /\ Len(s) \in Nat /\ DOMAIN s = 1 .. Len(s)
           /\ \A i \in 1 .. Len(s) : /\ s[i] \in Words /\ s[i] # 0 /\ s[i] \in Nat
                                     /\ s[i] \in 0 .. StackSize
           /\ \A k : Item(s, k) \in 0 .. StackSize
           /\ StackSize \in Nat
<1>1. Len(s) \in Nat /\ DOMAIN s = 1 .. Len(s) /\ \A i \in 1 .. Len(s) : s[i] \in Words
  OBVIOUS
<1>2. StackSize \in Nat /\ 0 \in 0 .. StackSize
      /\ \A x \in Words : x # 0 /\ x \in Nat /\ x \in 0 .. StackSize
  BY SizeFacts DEF Words
<1> QED BY <1>1, <1>2 DEF Item

LEMMA AppendFacts ==
    ASSUME NEW S, NEW s \in Seq(S), NEW x \in S
    PROVE  /\ Append(s, x) \in Seq(S) /\ Len(Append(s, x)) = Len(s) + 1
           /\ \A i \in 1 .. Len(s) : Append(s, x)[i] = s[i]
           /\ Append(s, x)[Len(s) + 1] = x
           /\ Len(s) \in Nat
           /\ \A i \in 1 .. Len(s) + 1 : i \in 1 .. Len(s) \/ i = Len(s) + 1
BY AppendProperties

LEMMA FrontFacts ==
    ASSUME NEW S, NEW s \in Seq(S), NEW k \in 0 .. Len(s)
    PROVE  /\ SubSeq(s, 1, k) \in Seq(S) /\ Len(SubSeq(s, 1, k)) = k
           /\ \A i \in 1 .. k : SubSeq(s, 1, k)[i] = s[i] /\ i \in 1 .. Len(s)
<1>1. Len(s) \in Nat /\ DOMAIN s = 1 .. Len(s)
  OBVIOUS
<1>2. SubSeq(s, 1, k) = [i \in 1 .. k |-> s[i]]
  BY <1>1
<1>3. \A i \in 1 .. k : i \in 1 .. Len(s)
  BY <1>1
<1>4. SubSeq(s, 1, k) \in Seq(S)
  BY <1>1, <1>2, <1>3
<1> QED BY <1>1, <1>2, <1>3, <1>4

LEMMA SameSeq ==
    ASSUME NEW S, NEW s \in Seq(S), NEW t \in Seq(S), Len(s) = Len(t),
           \A i \in 1 .. Len(s) : s[i] = t[i]
    PROVE  s = t
OBVIOUS

LEMMA ChainUnfolds ==
    ASSUME NEW w \in Contents
    PROVE  /\ chainIn(w)[0] = <<>>
           /\ \A b \in 0 .. StackSize : chainIn(w)[b] \in Seq(Nat)
           /\ \A b \in Words : chainIn(w)[b] = Append(chainIn(w)[Caller(w, b)], b)
<1> DEFINE f == chainIn(w)
<1>1. /\ f \in [0 .. StackSize -> Seq(Nat)]
      /\ \A b \in 0 .. StackSize : f[b] = chainBody(w, f, b)
  BY ChainEquation DEF chainUpTo
<1> HIDE DEF f
<1>2. 0 \in 0 .. StackSize /\ \A b \in Words : b \in 0 .. StackSize /\ b # 0 /\ b \in Nat /\ b > 0
  BY SizeAssumption DEF Words
<1>3. f[0] = <<>>
  BY <1>1, <1>2 DEF chainBody
<1>4. ASSUME NEW b \in Words PROVE f[b] = Append(f[Caller(w, b)], b)
  <2>1. IsContext(w[b]) => w[b].prevBP \in 0 .. StackSize
    BY ContextFacts
  <2>2. f[b] = chainBody(w, f, b) /\ b # 0
    BY <1>1, <1>2
  <2>3. CASE IsContext(w[b]) /\ w[b].prevBP < b
    <3>1. Caller(w, b) = w[b].prevBP /\ ~(w[b].prevBP >= b)
      BY <1>2, <2>1, <2>3 DEF Caller
    <3> QED BY <2>2, <2>3, <3>1 DEF chainBody
  <2>4. CASE ~(IsContext(w[b]) /\ w[b].prevBP < b)
    <3>1. Caller(w, b) = 0 /\ f[b] = <<b>>
      BY <1>2, <2>1, <2>2, <2>4 DEF chainBody, Caller
    <3> QED BY <1>3, <3>1
  <2> QED BY <2>3, <2>4
<1> QED BY <1>1, <1>3, <1>4 DEF f

-----------------------------------------------------------------------------
(* The chain is a stack, and the only one.                                 *)
LEMMA StackGrows ==
    ASSUME NEW w, NEW b \in 0 .. StackSize, NEW s, IsStack(w, b, s),
           NEW e \in Words, Caller(w, e) = b
    PROVE  IsStack(w, e, Append(s, e))
<1> DEFINE t == Append(s, e)
           n == Len(s)
<1>1. s \in Seq(Words) /\ b = Item(s, n) /\ \A i \in 1 .. n : Caller(w, s[i]) = Item(s, i - 1)
  BY DEF IsStack
<1>2. /\ t \in Seq(Words) /\ Len(t) = n + 1 /\ n \in Nat /\ t[n + 1] = e
      /\ \A i \in 1 .. n : t[i] = s[i]
      /\ \A i \in 1 .. n + 1 : i \in 1 .. n \/ i = n + 1
  BY <1>1, AppendFacts
<1> HIDE DEF t, n
<1>3. e = Item(t, Len(t))
  BY <1>2 DEF Item
<1>4. \A k \in 0 .. n : Item(t, k) = Item(s, k)
  BY <1>2 DEF Item, n
<1>5. ASSUME NEW i \in 1 .. n + 1 PROVE Caller(w, t[i]) = Item(t, i - 1)
  <2>1. i - 1 \in 0 .. n
    BY <1>2
  <2>2. CASE i \in 1 .. n
    BY <1>1, <1>2, <1>4, <2>1, <2>2
  <2>3. CASE i = n + 1
    <3>1. i - 1 = n
      BY <1>2, <2>3
    <3> QED BY <1>1, <1>2, <1>4, <2>1, <2>3, <3>1
  <2> QED BY <1>2, <2>2, <2>3
<1>6. IsStack(w, e, t)
  BY <1>2, <1>3, <1>5 DEF IsStack
<1> QED BY <1>6 DEF t

LEMMA StackShrinks ==
    ASSUME NEW w, NEW b, NEW s, IsStack(w, b, s), NEW k \in 1 .. Len(s)
    PROVE  /\ IsStack(w, Caller(w, s[k]), SubSeq(s, 1, k - 1))
           /\ k - 1 \in 0 .. Len(s)
<1> DEFINE n == Len(s)
           t == SubSeq(s, 1, k - 1)
<1>1. s \in Seq(Words) /\ n \in Nat /\ \A i \in 1 .. n : Caller(w, s[i]) = Item(s, i - 1)
  BY DEF IsStack
<1>2. k - 1 \in 0 .. n
  BY <1>1
<1>3. t \in Seq(Words) /\ Len(t) = k - 1 /\ \A i \in 1 .. k - 1 : t[i] = s[i] /\ i \in 1 .. n
  BY <1>1, <1>2, FrontFacts
<1> HIDE DEF n, t
<1>4. \A i \in 0 .. k - 1 : Item(t, i) = Item(s, i)
  BY <1>1, <1>2, <1>3 DEF Item, n
<1>5. k - 1 \in 0 .. k - 1 /\ \A i \in 1 .. k - 1 : i - 1 \in 0 .. k - 1
  BY <1>1, <1>2
<1>6. Caller(w, s[k]) = Item(t, Len(t))
  BY <1>1, <1>3, <1>4, <1>5 DEF n
<1>7. \A i \in 1 .. Len(t) : Caller(w, t[i]) = Item(t, i - 1)
  BY <1>1, <1>3, <1>4, <1>5
<1> QED BY <1>2, <1>3, <1>6, <1>7 DEF IsStack, n, t

LEMMA ChainIsStack ==
    ASSUME NEW w \in Contents, NEW b \in 0 .. StackSize
    PROVE  IsStack(w, b, chainIn(w)[b])
<1> DEFINE F(m) == chainIn(w)[m]
           T == {m \in 0 .. StackSize : ~IsStack(w, m, F(m))}
<1> SUFFICES ASSUME T # {} PROVE FALSE
  OBVIOUS
<1>1. T \subseteq Nat
  OBVIOUS
<1>2. PICK m \in T : \A x \in T : m <= x
  BY <1>1, LeastPlace
<1>3. m \in 0 .. StackSize /\ ~IsStack(w, m, F(m)) /\ StackSize \in Nat
  BY SizeFacts
<1>4. CASE m = 0
  <2>1. F(m) = <<>>
    BY <1>4, ChainUnfolds
  <2>2. IsStack(w, 0, <<>>)
    BY DEF IsStack, Item
  <2> QED BY <1>3, <1>4, <2>1, <2>2
<1>5. CASE m # 0
  <2>1. m \in Words
    BY <1>3, <1>5 DEF Words
  <2>2. Caller(w, m) \in 0 .. StackSize /\ Caller(w, m) < m
    BY <2>1, ActiveUnfolds
  <2>3. IsStack(w, Caller(w, m), F(Caller(w, m)))
    BY <1>2, <1>3, <2>2
  <2>4. F(m) = Append(F(Caller(w, m)), m)
    BY <2>1, ChainUnfolds
  <2> HIDE DEF F
  <2>5. IsStack(w, m, Append(F(Caller(w, m)), m))
    BY <2>1, <2>2, <2>3, StackGrows
  <2> QED BY <1>3, <2>4, <2>5
<1> QED BY <1>4, <1>5

LEMMA StackIsChain ==
    ASSUME NEW w \in Contents, NEW b, NEW s, IsStack(w, b, s)
    PROVE  s = chainIn(w)[b]
<1> DEFINE f == chainIn(w)
           n == Len(s)
           T == {k \in 0 .. n : SubSeq(s, 1, k) # f[Item(s, k)]}
<1>1. /\ s \in Seq(Words) /\ n \in Nat /\ b = Item(s, n)
      /\ \A i \in 1 .. n : Caller(w, s[i]) = Item(s, i - 1)
  BY DEF IsStack
<1>2. f[0] = <<>> /\ \A e \in Words : f[e] = Append(f[Caller(w, e)], e)
  BY ChainUnfolds
<1>3. SubSeq(s, 1, n) = s
  <2>1. n \in 0 .. n
    BY <1>1
  <2>2. /\ SubSeq(s, 1, n) \in Seq(Words) /\ Len(SubSeq(s, 1, n)) = n
        /\ \A i \in 1 .. n : SubSeq(s, 1, n)[i] = s[i]
    BY <1>1, <2>1, FrontFacts
  <2> QED BY <1>1, <2>2, SameSeq
<1> HIDE DEF f
<1>4. T = {}
  <2> SUFFICES ASSUME T # {} PROVE FALSE
    OBVIOUS
  <2>1. T \subseteq Nat
    OBVIOUS
  <2>2. PICK k \in T : \A x \in T : k <= x
    BY <2>1, LeastPlace
  <2>3. k \in 0 .. n /\ SubSeq(s, 1, k) # f[Item(s, k)]
    OBVIOUS
  <2>4. CASE k = 0
    <3>1. Item(s, 0) = 0 /\ SubSeq(s, 1, 0) = <<>>
      BY <1>1 DEF Item
    <3> QED BY <1>2, <2>3, <2>4, <3>1
  <2>5. CASE k # 0
    <3>1. k \in 1 .. n /\ k - 1 \in 0 .. n /\ ~(k <= k - 1)
      BY <1>1, <2>3, <2>5
    <3>2. SubSeq(s, 1, k - 1) = f[Item(s, k - 1)]
      BY <2>2, <3>1
    <3>3. Item(s, k) = s[k] /\ s[k] \in Words /\ Caller(w, s[k]) = Item(s, k - 1)
      BY <1>1, <3>1 DEF Item
    <3>4. SubSeq(s, 1, k) = Append(SubSeq(s, 1, k - 1), s[k])
      <4> DEFINE u == SubSeq(s, 1, k - 1)
                 t == SubSeq(s, 1, k)
      <4>1. u \in Seq(Words) /\ Len(u) = k - 1 /\ \A i \in 1 .. k - 1 : u[i] = s[i]
        BY <1>1, <3>1, FrontFacts
      <4>2. t \in Seq(Words) /\ Len(t) = k /\ \A i \in 1 .. k : t[i] = s[i]
        BY <1>1, <2>3, FrontFacts
      <4> HIDE DEF u, t
      <4>3. /\ Append(u, s[k]) \in Seq(Words) /\ Len(Append(u, s[k])) = Len(u) + 1
            /\ \A i \in 1 .. Len(u) : Append(u, s[k])[i] = u[i]
            /\ Append(u, s[k])[Len(u) + 1] = s[k]
            /\ \A i \in 1 .. Len(u) + 1 : i \in 1 .. Len(u) \/ i = Len(u) + 1
        BY <3>3, <4>1, AppendFacts
      <4>4. Len(u) + 1 = k
        BY <1>1, <3>1, <4>1
      <4>5. \A i \in 1 .. k : t[i] = Append(u, s[k])[i]
        BY <4>1, <4>2, <4>3, <4>4
      <4>6. t = Append(u, s[k])
        BY <4>2, <4>3, <4>4, <4>5, SameSeq
      <4> QED BY <4>6 DEF u, t
    <3> QED BY <1>2, <2>3, <3>2, <3>3, <3>4
  <2> QED BY <2>4, <2>5
<1>5. n \in 0 .. n
  BY <1>1
<1>6. s = f[b]
  BY <1>1, <1>3, <1>4, <1>5
<1> QED BY <1>6 DEF f

(* Callers come first, so no context is in a stack twice.                  *)
LEMMA StackInOrder ==
    ASSUME NEW w \in Contents, NEW b, NEW s, IsStack(w, b, s)
    PROVE  /\ \A j \in 1 .. Len(s) : \A i \in 1 .. j - 1 : s[i] < s[j]
           /\ \A i, j \in 1 .. Len(s) : s[i] = s[j] => i = j
<1> DEFINE n == Len(s)
           T == {j \in 1 .. n : \E i \in 1 .. j - 1 : ~(s[i] < s[j])}
<1>1. /\ s \in Seq(Words) /\ n \in Nat
      /\ \A i \in 1 .. n : Caller(w, s[i]) = Item(s, i - 1)
  BY DEF IsStack
<1>2. \A i \in 1 .. n : s[i] \in Nat /\ Caller(w, s[i]) < s[i]
  BY <1>1, StackFacts, ActiveUnfolds
<1>3. \A j \in 2 .. n : j \in 1 .. n /\ j - 1 \in 1 .. n /\ s[j - 1] < s[j]
  BY <1>1, <1>2 DEF Item
<1>4. T = {}
  <2> SUFFICES ASSUME T # {} PROVE FALSE
    OBVIOUS
  <2>1. T \subseteq Nat
    OBVIOUS
  <2>2. PICK j \in T : \A x \in T : j <= x
    BY <2>1, LeastPlace
  <2>3. PICK i \in 1 .. j - 1 : ~(s[i] < s[j])
    OBVIOUS
  <2>4. j \in 2 .. n /\ i \in 1 .. n /\ j - 1 \in Nat /\ ~(j <= j - 1)
    BY <1>1, <2>3
  <2>5. i # j - 1
    BY <1>3, <2>3, <2>4
  <2>6. i \in 1 .. (j - 1) - 1 /\ j - 1 \in 1 .. n
    BY <2>3, <2>4, <2>5
  <2>7. s[i] < s[j - 1]
    BY <2>2, <2>4, <2>6
  <2>8. s[j - 1] < s[j] /\ s[i] \in Nat /\ s[j - 1] \in Nat /\ s[j] \in Nat
    BY <1>2, <1>3, <2>4, <2>6
  <2> QED BY <2>3, <2>7, <2>8
<1>5. \A j \in 1 .. n : \A i \in 1 .. j - 1 : s[i] < s[j]
  BY <1>4
<1>6. ASSUME NEW i \in 1 .. n, NEW j \in 1 .. n, s[i] = s[j] PROVE i = j
  <2>1. i < j => i \in 1 .. j - 1
    BY <1>1
  <2>2. j < i => j \in 1 .. i - 1
    BY <1>1
  <2> QED BY <1>1, <1>2, <1>5, <1>6, <2>1, <2>2
<1> QED BY <1>5, <1>6

(* The steps of the indices of the homes.                                  *)
LEMMA CallsGrow ==
    ASSUME NEW w, NEW s \in Seq(Words), NEW c, IsCalls(w, s, c),
           NEW e \in Words, NEW x \in Nat,
           IF w[e].live THEN x \in 1 .. Len(s) /\ s[x] = w[e].home ELSE x = 0
    PROVE  IsCalls(w, Append(s, e), Append(c, x))
<1> DEFINE t == Append(s, e)
           d == Append(c, x)
           n == Len(s)
<1>1. /\ t \in Seq(Words) /\ Len(t) = n + 1 /\ n \in Nat /\ t[n + 1] = e
      /\ \A i \in 1 .. n : t[i] = s[i]
      /\ \A i \in 1 .. n + 1 : i \in 1 .. n \/ i = n + 1
  BY AppendFacts
<1>2. c \in Seq(Nat) /\ Len(c) = n
  BY DEF IsCalls
<1>3. /\ d \in Seq(Nat) /\ Len(d) = n + 1 /\ d[n + 1] = x
      /\ \A i \in 1 .. n : d[i] = c[i]
  BY <1>2, AppendFacts
<1>4. \A i \in 1 .. n :
         IF w[s[i]].live THEN c[i] \in 1 .. i - 1 /\ s[c[i]] = w[s[i]].home
                         ELSE c[i] = 0
  BY DEF IsCalls
<1>5. IF w[e].live THEN x \in 1 .. n /\ s[x] = w[e].home ELSE x = 0
  OBVIOUS
<1> HIDE DEF t, d, n
<1>6. ASSUME NEW i \in 1 .. n + 1
      PROVE  IF w[t[i]].live THEN d[i] \in 1 .. i - 1 /\ t[d[i]] = w[t[i]].home
                             ELSE d[i] = 0
  <2>1. CASE i \in 1 .. n
    <3>1. \A k \in 1 .. i - 1 : k \in 1 .. n
      BY <1>1, <2>1
    <3> QED BY <1>1, <1>3, <1>4, <2>1, <3>1
  <2>2. CASE i = n + 1
    <3>1. i - 1 = n
      BY <1>1, <2>2
    <3> QED BY <1>1, <1>3, <1>5, <2>2, <3>1
  <2> QED BY <1>1, <2>1, <2>2
<1>7. IsCalls(w, t, d)
  BY <1>1, <1>3, <1>6 DEF IsCalls
<1> QED BY <1>7 DEF t, d

LEMMA CallsShrink ==
    ASSUME NEW w, NEW v, NEW s \in Seq(Words), NEW c, IsCalls(w, s, c),
           NEW k \in 0 .. Len(s), \A i \in 1 .. k : v[s[i]] = w[s[i]]
    PROVE  IsCalls(v, SubSeq(s, 1, k), SubSeq(c, 1, k))
<1> DEFINE t == SubSeq(s, 1, k)
           d == SubSeq(c, 1, k)
<1>1. /\ t \in Seq(Words) /\ Len(t) = k
      /\ \A i \in 1 .. k : t[i] = s[i] /\ i \in 1 .. Len(s)
  BY FrontFacts
<1>2. c \in Seq(Nat) /\ Len(c) = Len(s)
  BY DEF IsCalls
<1>3. d \in Seq(Nat) /\ Len(d) = k /\ \A i \in 1 .. k : d[i] = c[i]
  BY <1>2, FrontFacts
<1>4. \A i \in 1 .. Len(s) :
         IF w[s[i]].live THEN c[i] \in 1 .. i - 1 /\ s[c[i]] = w[s[i]].home
                         ELSE c[i] = 0
  BY DEF IsCalls
<1> HIDE DEF t, d
<1>5. ASSUME NEW i \in 1 .. k
      PROVE  IF v[t[i]].live THEN d[i] \in 1 .. i - 1 /\ t[d[i]] = v[t[i]].home
                             ELSE d[i] = 0
  <2>1. \A j \in 1 .. i - 1 : j \in 1 .. k
    BY <1>1
  <2> QED BY <1>1, <1>3, <1>4, <2>1
<1>6. IsCalls(v, t, d)
  BY <1>1, <1>3, <1>5 DEF IsCalls
<1> QED BY <1>6 DEF t, d

-----------------------------------------------------------------------------
(* The mapped variable, of any contents of the stack.                      *)
barOf(w, s) ==
    [i \in DOMAIN s |->
       IF w[s[i]].live
         THEN IF w[s[i]].home \in {s[j] : j \in DOMAIN s}
                THEN CHOOSE j \in DOMAIN s : s[j] = w[s[i]].home ELSE 0
         ELSE 0]

LEMMA BarIs == callsBar = barOf(word, Chain) /\ callsBar' = barOf(word', Chain')
BY DEF callsBar, barOf, indexOf, Running

LEMMA ChainIs == Chain = chainIn(word)[bp] /\ Chain' = chainIn(word')[bp']
BY ChainOfWord DEF Chain

LEMMA CallsAreBar ==
    ASSUME NEW w \in Contents, NEW b, NEW s, IsStack(w, b, s), NEW c, IsCalls(w, s, c)
    PROVE  barOf(w, s) = c
<1>1. /\ s \in Seq(Words) /\ Len(s) \in Nat /\ DOMAIN s = 1 .. Len(s)
      /\ \A i, j \in 1 .. Len(s) : s[i] = s[j] => i = j
  BY StackInOrder DEF IsStack
<1>2. /\ c \in Seq(Nat) /\ Len(c) = Len(s)
      /\ \A i \in 1 .. Len(s) :
           IF w[s[i]].live THEN c[i] \in 1 .. i - 1 /\ s[c[i]] = w[s[i]].home
                           ELSE c[i] = 0
  BY DEF IsCalls
<1>3. ASSUME NEW i \in 1 .. Len(s) PROVE barOf(w, s)[i] = c[i]
  <2>1. CASE ~w[s[i]].live
    BY <1>1, <1>2, <2>1 DEF barOf
  <2>2. CASE w[s[i]].live
    <3> DEFINE home == w[s[i]].home
    <3>1. c[i] \in DOMAIN s /\ s[c[i]] = home
      <4>1. \A j \in 1 .. i - 1 : j \in 1 .. Len(s)
        BY <1>1
      <4> QED BY <1>1, <1>2, <2>2, <4>1
    <3>2. barOf(w, s)[i] = CHOOSE j \in DOMAIN s : s[j] = home
      BY <1>1, <2>2, <3>1 DEF barOf
    <3>3. \A j \in DOMAIN s : s[j] = home => j = c[i]
      BY <1>1, <3>1
    <3> HIDE DEF home
    <3>4. (CHOOSE j \in DOMAIN s : s[j] = home) = c[i]
      BY <3>1, <3>3
    <3> QED BY <3>2, <3>4
  <2> QED BY <2>1, <2>2
<1>4. DOMAIN barOf(w, s) = 1 .. Len(s) /\ barOf(w, s) = [i \in 1 .. Len(s) |-> barOf(w, s)[i]]
  BY <1>1 DEF barOf
<1>5. c = [i \in 1 .. Len(s) |-> c[i]]
  BY <1>1, <1>2
<1> QED BY <1>3, <1>4, <1>5

(* What a step of the mapped variable follows from.                        *)
LEMMA NextCalls ==
    ASSUME word' \in Contents, NEW t, IsStack(word', bp', t),
           NEW d, IsCalls(word', t, d)
    PROVE  Chain' = t /\ callsBar' = d
<1>1. Chain' = t
  BY StackIsChain, ChainIs
<1>2. barOf(word', t) = d
  BY CallsAreBar
<1> QED BY <1>1, <1>2, BarIs

-----------------------------------------------------------------------------
(* Only a block has a home to return from, and what is being initialised   *)
(* above the running context is a method.                                  *)
MethodsEndThemselves ==
    /\ \A c \in Laid : word[c].live => word[c].isBlock
    /\ filling # 0 /\ filling # bp => ~word[filling].isBlock

(* The running contexts and their homes, seen as sequences.                *)
LEMMA CallsNow ==
    ASSUME StackInv, MethodsEndThemselves
    PROVE  /\ word \in Contents /\ bp \in 0 .. StackSize
           /\ IsStack(word, bp, Chain) /\ IsCalls(word, Chain, callsBar)
           /\ Chain \in Seq(Words) /\ callsBar \in Seq(Nat) /\ Len(callsBar) = Len(Chain)
           /\ \A i \in 1 .. Len(Chain) : Chain[i] \in Running /\ Chain[i] \in Laid
           /\ \A c \in Running : \E i \in 1 .. Len(Chain) : Chain[i] = c
           /\ bp # 0 => Len(Chain) \in 1 .. Len(Chain) /\ Chain[Len(Chain)] = bp
           /\ bp = 0 => Len(Chain) = 0
<1> DEFINE n == Len(Chain)
<1>1. word \in Contents /\ bp \in 0 .. StackSize
  BY DEF StackInv, StackTypeOK
<1>2. IsStack(word, bp, Chain)
  BY <1>1, ChainIsStack, ChainIs
<1>3. Chain \in Seq(Words) /\ n \in Nat /\ DOMAIN Chain = 1 .. n /\ bp = Item(Chain, n)
  BY <1>2, StackFacts DEF IsStack
<1>4. /\ \A i \in 1 .. n : Chain[i] \in Running /\ Chain[i] \in Laid /\ Chain[i] \in Words
      /\ \A c \in Running : \E i \in 1 .. n : Chain[i] = c
  BY <1>3 DEF Running, Laid
<1>5. /\ bp # 0 => n \in 1 .. n /\ Chain[n] = bp
      /\ bp = 0 => n = 0
  <2>1. n # 0 => n \in 1 .. n /\ Chain[n] # 0
    BY <1>3, StackFacts
  <2>2. n = 0 => bp = 0
    BY <1>3 DEF Item
  <2> QED BY <1>3, <2>1, <2>2 DEF Item
<1>6. /\ \A j \in 1 .. n : \A i \in 1 .. j - 1 : Chain[i] < Chain[j]
      /\ \A i, j \in 1 .. n : Chain[i] = Chain[j] => i = j
  BY <1>1, <1>2, StackInOrder
<1>7. ASSUME NEW i \in 1 .. n, word[Chain[i]].live
      PROVE  \E j \in 1 .. i - 1 : Chain[j] = word[Chain[i]].home
  <2> DEFINE home == word[Chain[i]].home
  <2>1. home \in Laid /\ home < Chain[i]
    BY <1>4, <1>7 DEF StackInv, HomesKnown, MethodsEndThemselves
  <2>2. home \in Running
    <3>1. home \in Running \/ (home = filling /\ filling # 0 /\ Top = filling)
      BY <2>1 DEF Laid, Top
    <3>2. Chain[i] <= Top /\ Chain[i] \in Nat /\ home \in Nat
      BY <1>4, <2>1, InvFacts
    <3> HIDE DEF home
    <3> QED BY <2>1, <3>1, <3>2
  <2>3. PICK j \in 1 .. n : Chain[j] = home
    BY <1>4, <2>2
  <2>4. ~(i = j) /\ ~(i \in 1 .. j - 1)
    <3>1. Chain[i] \in Nat /\ Chain[j] \in Nat /\ Chain[j] < Chain[i]
      BY <1>3, <2>1, <2>3, StackFacts
    <3> QED BY <1>6, <3>1
  <2>5. j \in 1 .. i - 1
    BY <1>3, <2>4
  <2> QED BY <2>3, <2>5
<1>8. ASSUME NEW i \in 1 .. n
      PROVE  IF word[Chain[i]].live
               THEN /\ callsBar[i] \in 1 .. i - 1
                    /\ Chain[callsBar[i]] = word[Chain[i]].home
               ELSE callsBar[i] = 0
  <2>1. CASE ~word[Chain[i]].live
    BY <1>3, <2>1 DEF callsBar
  <2>2. CASE word[Chain[i]].live
    <3> DEFINE home == word[Chain[i]].home
    <3>1. PICK j \in 1 .. i - 1 : Chain[j] = home
      BY <1>7, <2>2
    <3>2. j \in DOMAIN Chain
      BY <1>3
    <3>3. callsBar[i] = CHOOSE k \in DOMAIN Chain : Chain[k] = home
      BY <1>3, <2>2, <3>1, <3>2 DEF callsBar, indexOf, Running
    <3>4. \A k \in DOMAIN Chain : Chain[k] = home => k = j
      BY <1>3, <1>6, <3>1, <3>2
    <3> HIDE DEF home
    <3>5. (CHOOSE k \in DOMAIN Chain : Chain[k] = home) = j
      BY <3>1, <3>2, <3>4
    <3>6. callsBar[i] \in 1 .. i - 1 /\ Chain[callsBar[i]] = home
      BY <3>1, <3>3, <3>5
    <3> QED BY <2>2, <3>6 DEF home
  <2> QED BY <2>1, <2>2
<1>9. callsBar \in Seq(Nat) /\ Len(callsBar) = n
  <2>1. \A i \in 1 .. n : callsBar[i] \in Nat
    <3>1. \A i \in 1 .. n : \A x \in 1 .. i - 1 : x \in Nat
      BY <1>3
    <3> QED BY <1>8, <3>1
  <2>2. callsBar = [i \in 1 .. n |-> callsBar[i]]
    BY <1>3 DEF callsBar
  <2>3. callsBar \in [1 .. n -> Nat]
    BY <2>1, <2>2
  <2> HIDE DEF n
  <2> QED BY <1>3, <2>3
<1>10. IsCalls(word, Chain, callsBar)
  BY <1>8, <1>9 DEF IsCalls
<1> QED BY <1>1, <1>2, <1>3, <1>4, <1>5, <1>9, <1>10

LEMMA StackKept ==
    ASSUME NEW w, NEW v, NEW b, NEW s, IsStack(w, b, s),
           \A i \in 1 .. Len(s) : v[s[i]] = w[s[i]]
    PROVE  IsStack(v, b, s)
<1>1. \A i \in 1 .. Len(s) : Caller(v, s[i]) = Caller(w, s[i])
  BY DEF Caller
<1> QED BY <1>1 DEF IsStack

-----------------------------------------------------------------------------
(* A step that neither writes to a running context nor leaves it.          *)
LEMMA CallsStay ==
    ASSUME StackInv, MethodsEndThemselves, word' \in Contents, bp' = bp,
           \A c \in Running : word'[c] = word[c]
    PROVE  Running' = Running /\ callsBar' = callsBar
<1>1. /\ IsStack(word, bp, Chain) /\ IsCalls(word, Chain, callsBar)
      /\ \A i \in 1 .. Len(Chain) : word'[Chain[i]] = word[Chain[i]]
  BY CallsNow
<1>2. IsStack(word', bp', Chain)
  BY <1>1, StackKept
<1>3. IsCalls(word', Chain, callsBar)
  BY <1>1 DEF IsCalls
<1>4. Chain' = Chain /\ callsBar' = callsBar
  BY <1>2, <1>3, NextCalls
<1> QED BY <1>4 DEF Running

(* Its steps, in terms of the mapped variable.                             *)
BarCall == callsBar # <<>> /\ callsBar' = Append(callsBar, 0)
BarRunBlock ==
    /\ callsBar # <<>> /\ callsBar[Len(callsBar)] = 0
    /\ \E home \in 0 .. Len(callsBar) - 1 :
         callsBar' = Append(SubSeq(callsBar, 1, Len(callsBar) - 1), home)
BarReturn == callsBar # <<>> /\ callsBar' = SubSeq(callsBar, 1, Len(callsBar) - 1)
BarNonLocalReturn ==
    /\ callsBar # <<>> /\ callsBar[Len(callsBar)] # 0
    /\ callsBar' = SubSeq(callsBar, 1, callsBar[Len(callsBar)] - 1)
BarStep ==
    BarCall \/ BarRunBlock \/ BarReturn \/ BarNonLocalReturn \/ callsBar' = callsBar

LEMMA BarStepIsAbstract == BarStep <=> [Abstract!Next]_callsBar
BY DEF BarStep, BarCall, BarRunBlock, BarReturn, BarNonLocalReturn, callsBar,
       Abstract!Next, Abstract!Call, Abstract!RunBlock, Abstract!Return,
       Abstract!NonLocalReturn, Abstract!Top, Abstract!Below

(* A call of a method.  The callee is running once its context is filled.  *)
LEMMA NewContextStays ==
    ASSUME StackInv, MethodsEndThemselves, NEW size \in Sizes, NEW heapVars \in BOOLEAN,
           newContext(size, heapVars)
    PROVE  MethodsEndThemselves' /\ BarStep
<1>1. bp \in Nat /\ filling = 0 /\ bp # 0 /\ bp' = bp
  <2>1. phase = "run" /\ bp' = bp
    BY DEF newContext, Overrun
  <2> QED BY <2>1, SizeFacts DEF StackInv, StackTypeOK
<1>2. CASE nextBP > StackSize \/ nextBP + size > StackSize
  <2>1. UNCHANGED <<word, bp, filling>>
    BY <1>2 DEF newContext, Overrun
  <2>2. word' \in Contents /\ Running' = Running /\ callsBar' = callsBar
    BY <2>1, CallsStay, InvFacts
  <2> QED BY <2>1, <2>2 DEF MethodsEndThemselves, Laid, BarStep
<1>3. CASE ~(nextBP > StackSize \/ nextBP + size > StackSize)
  <2> DEFINE b == nextBP
             ctx == Context(size, bp, FALSE, 0, FALSE)
  <2>1. phase = "run" /\ lay(b, ctx) /\ filling' = b
    BY <1>3 DEF newContext
  <2>2. ctx \in Contexts /\ ctx.size = size /\ ~ctx.isBlock /\ ~ctx.live
    BY <1>1, SizeFacts DEF Context, Contexts, StackInv, StackTypeOK
  <2>3. b + ctx.size <= StackSize
    <3>1. bp \in Laid
      BY <1>1, InvFacts DEF Laid, IsChain
    <3>2. b \in Nat
      BY <1>1, <3>1, InvFacts DEF nextBP
    <3>3. ~(b + size > StackSize) /\ ctx.size = size
      BY <1>3, <2>2
    <3> HIDE DEF b, ctx
    <3> QED BY <3>2, <3>3, SizeFacts
  <2> HIDE DEF ctx, b
  <2>4. /\ b \in Words /\ bp < b /\ Laid = Running /\ b = After(word, bp)
        /\ word' \in Contents /\ word'[b] = ctx
        /\ \A c \in Words : c < b => word'[c] = word[c]
    BY <2>1, <2>2, <2>3, LaidOut DEF b
  <2>5. \A c \in Running : word'[c] = word[c]
    BY <1>1, <2>4, InvFacts, SizeFacts DEF Words
  <2>6. Running' = Running /\ callsBar' = callsBar
    BY <1>1, <2>4, <2>5, CallsStay
  <2>7. Laid' = Running \cup {b}
    BY <2>1, <2>4, <2>6, SizeFacts DEF Laid, Words
  <2>8. MethodsEndThemselves'
    BY <2>1, <2>2, <2>4, <2>5, <2>7 DEF MethodsEndThemselves
  <2> QED BY <2>6, <2>8 DEF BarStep
<1> QED BY <1>2, <1>3

LEMMA FillCalls ==
    ASSUME StackInv, MethodsEndThemselves, Fill
    PROVE  MethodsEndThemselves' /\ BarStep
<1> DEFINE f == filling
           rest == f + 1 .. f + word[f].size - 1
<1>1. /\ word' = [i \in Words |-> IF i = f + 1 THEN Fields(word[f].home)
                                  ELSE IF i \in rest THEN Data ELSE word[i]]
      /\ bp' = f /\ filling' = 0
  BY DEF Fill
<1>2. f # 0 /\ f \in Laid /\ Top = f /\ f \in Words /\ f \in Nat /\ word[f].size \in Nat
  <2>1. f # 0 /\ f \in Laid /\ Top = f
    BY DEF Fill, StackInv, StackTypeOK, Laid, Top
  <2> QED BY <2>1, InvFacts
<1>3. StackInv' /\ word' \in Contents
  <2>1. StackInv'
    BY InvFill
  <2> QED BY <2>1 DEF StackInv, StackTypeOK
<1>4. \A c \in Laid : c \in Words /\ word'[c] = word[c]
  <2>1. \A c \in Laid : c \in Nat /\ c <= f /\ c \in Words
    BY <1>2, InvFacts
  <2> HIDE DEF f
  <2>2. \A c \in Laid : c \notin rest /\ c # f + 1
    BY <1>2, <2>1
  <2> HIDE DEF rest
  <2> QED BY <1>1, <2>1, <2>2
<1> HIDE DEF rest
<1>5. CASE f = bp
  <2>1. Running' = Running /\ callsBar' = callsBar
    BY <1>1, <1>3, <1>4, <1>5, CallsStay DEF Laid
  <2>2. Laid' \subseteq Laid
    BY <1>1, <2>1 DEF Laid
  <2> QED BY <1>1, <1>4, <2>1, <2>2 DEF MethodsEndThemselves, BarStep
<1>6. CASE f # bp
  <2>1. /\ word[f].prevBP = bp /\ bp \in Laid /\ Caller(word, f) = bp
        /\ ~word[f].live /\ bp # 0 /\ bp \in 0 .. StackSize
    <3>1. word[f].prevBP = bp /\ bp \in Laid
      BY <1>2, <1>6 DEF StackInv, LaidApart
    <3>2. ~word[f].live
      BY <1>2, <1>6 DEF MethodsEndThemselves
    <3>3. Caller(word, f) = word[f].prevBP /\ bp \in Nat /\ bp >= 1 /\ bp \in 0 .. StackSize
      BY <1>2, <3>1, InvFacts DEF StackInv, StackTypeOK
    <3> QED BY <3>1, <3>2, <3>3
  <2>2. /\ IsStack(word, bp, Chain) /\ IsCalls(word, Chain, callsBar)
        /\ Chain \in Seq(Words) /\ callsBar \in Seq(Nat) /\ Len(callsBar) = Len(Chain)
        /\ \A i \in 1 .. Len(Chain) : Chain[i] \in Laid
        /\ Len(Chain) \in 1 .. Len(Chain)
    BY <2>1, CallsNow
  <2>3. IsStack(word', bp, Chain) /\ IsCalls(word', Chain, callsBar)
    <3>1. \A i \in 1 .. Len(Chain) : word'[Chain[i]] = word[Chain[i]]
      BY <1>4, <2>2
    <3>2. IsStack(word', bp, Chain)
      BY <2>2, <3>1, StackKept
    <3> QED BY <2>2, <3>1, <3>2 DEF IsCalls
  <2>4. Caller(word', f) = bp /\ ~word'[f].live
    BY <1>2, <1>4, <2>1 DEF Caller
  <2> HIDE DEF f
  <2>5. IsStack(word', bp', Append(Chain, f))
    BY <1>1, <1>2, <2>1, <2>3, <2>4, StackGrows
  <2>6. IsCalls(word', Append(Chain, f), Append(callsBar, 0))
    BY <1>2, <2>2, <2>3, <2>4, CallsGrow
  <2>7. Chain' = Append(Chain, f) /\ callsBar' = Append(callsBar, 0)
    BY <1>3, <2>5, <2>6, NextCalls
  <2>8. callsBar # <<>>
    BY <2>2
  <2>9. Laid' \subseteq Laid
    <3>1. Running' \subseteq Laid
      <4>1. \A i \in 1 .. Len(Chain) + 1 : Append(Chain, f)[i] \in Laid
        BY <1>2, <2>2, AppendFacts
      <4>2. DOMAIN Append(Chain, f) = 1 .. Len(Chain) + 1
        BY <1>2, <2>2, AppendFacts
      <4>3. Running' = {Append(Chain, f)[i] : i \in DOMAIN Append(Chain, f)}
        BY <2>7 DEF Running
      <4> QED BY <4>1, <4>2, <4>3
    <3> QED BY <1>1, <3>1 DEF Laid
  <2> QED BY <1>1, <1>4, <2>7, <2>8, <2>9 DEF MethodsEndThemselves, BarStep, BarCall
<1> QED BY <1>5, <1>6

(* A call of a block.  The context of value gives way to the block's, with *)
(* the same caller; the block's home is running still, below value.        *)
LEMMA ExecBlockRuns ==
    ASSUME StackInv, MethodsEndThemselves, NEW block \in blocks,
           NEW size \in Sizes, NEW heapVars \in BOOLEAN,
           execBlock(block, size, heapVars)
    PROVE  MethodsEndThemselves' /\ BarStep
<1>1. bp \in Nat /\ filling = 0 /\ bp # 0
  <2>1. phase = "run"
    BY DEF execBlock
  <2> QED BY <2>1, SizeFacts DEF StackInv, StackTypeOK
<1>2. CASE nextBP + size > StackSize
  <2>1. UNCHANGED <<word, bp, filling>>
    BY <1>2 DEF execBlock, Overrun
  <2>2. word' \in Contents /\ Running' = Running /\ callsBar' = callsBar
    BY <2>1, CallsStay, InvFacts
  <2> QED BY <2>1, <2>2 DEF MethodsEndThemselves, Laid, BarStep
<1>3. CASE ~(nextBP + size > StackSize)
  <2> DEFINE b == nextBP
             p == word[bp].prevBP
             ctx == Context(size, p, TRUE, block.home, block.live)
             n == Len(Chain)
             front == SubSeq(Chain, 1, n - 1)
             below == SubSeq(callsBar, 1, n - 1)
  <2>1. /\ phase = "run" /\ lay(b, ctx) /\ filling' = b /\ bp' = b
        /\ ~word[bp].isBlock /\ (block.live => block.home # bp)
    BY <1>3 DEF execBlock, MayBeValue
  <2>2. /\ bp \in Laid /\ bp \in Words /\ word[bp] \in Contexts /\ word[bp].size \in Nat
        /\ Caller(word, bp) = p
    BY <1>1, InvFacts DEF Laid, IsChain
  <2>3. p \in 0 .. StackSize /\ p < bp
    BY <2>2, InvFacts, ActiveUnfolds
  <2>4. block.home \in 0 .. StackSize /\ block.live \in BOOLEAN
    BY DEF StackInv, StackTypeOK
  <2>5. /\ ctx \in Contexts /\ ctx.size = size /\ ctx.prevBP = p /\ ctx.isBlock
        /\ ctx.home = block.home /\ ctx.live = block.live /\ IsContext(ctx)
    BY <2>3, <2>4 DEF Context, Contexts, IsContext
  <2>6. b + ctx.size <= StackSize
    <3>1. b \in Nat
      BY <1>1, <2>2 DEF nextBP
    <3>2. ~(b + size > StackSize) /\ ctx.size = size
      BY <1>3, <2>5
    <3> HIDE DEF b, ctx
    <3> QED BY <3>1, <3>2, SizeFacts
  <2> HIDE DEF ctx, b
  <2>7. /\ b \in Words /\ bp < b /\ Laid = Running
        /\ word' \in Contents /\ word'[b] = ctx
        /\ \A c \in Words : c < b => word'[c] = word[c]
    BY <2>1, <2>5, <2>6, LaidOut DEF b
  <2>8. \A c \in Laid : word'[c] = word[c]
    <3>1. \A c \in Laid : c \in Words /\ c \in Nat /\ c <= bp
      BY <1>1, InvFacts DEF Top
    <3> QED BY <1>1, <2>7, <3>1, SizeFacts DEF Words
  <2>9. /\ IsStack(word, bp, Chain) /\ IsCalls(word, Chain, callsBar)
        /\ Chain \in Seq(Words) /\ callsBar \in Seq(Nat) /\ Len(callsBar) = n
        /\ \A i \in 1 .. n : Chain[i] \in Laid
        /\ \A c \in Running : \E i \in 1 .. n : Chain[i] = c
        /\ n \in 1 .. n /\ Chain[n] = bp /\ n \in Nat
    BY <1>1, CallsNow
  <2>10. n - 1 \in 0 .. n /\ n - 1 \in Nat /\ \A i \in 1 .. n - 1 : i \in 1 .. n
    BY <2>9
  <2>11. /\ front \in Seq(Words) /\ Len(front) = n - 1
         /\ \A i \in 1 .. n - 1 : front[i] = Chain[i]
    BY <2>9, <2>10, FrontFacts
  <2>12. IsStack(word', p, front)
    <3>1. IsStack(word, p, front)
      BY <2>2, <2>9, StackShrinks
    <3>2. \A i \in 1 .. Len(front) : word'[front[i]] = word[front[i]]
      BY <2>8, <2>9, <2>10, <2>11
    <3> HIDE DEF front, p
    <3> QED BY <3>1, <3>2, StackKept
  <2>13. IsCalls(word', front, below)
    <3>1. \A i \in 1 .. n - 1 : word'[Chain[i]] = word[Chain[i]]
      BY <2>8, <2>9, <2>10
    <3> QED BY <2>9, <2>10, <3>1, CallsShrink
  <2>14. PICK x \in 0 .. n - 1 :
           IF block.live THEN x \in 1 .. n - 1 /\ Chain[x] = block.home ELSE x = 0
    <3>1. CASE ~block.live
      <4>1. 0 \in 0 .. n - 1
        BY <2>10
      <4> QED BY <3>1, <4>1
    <3>2. CASE block.live
      <4>1. block.home \in Running /\ block.home # bp
        BY <2>1, <3>2 DEF StackInv, HomesKnown
      <4>2. PICK i \in 1 .. n : Chain[i] = block.home
        BY <2>9, <4>1
      <4>3. i # n
        BY <2>9, <4>1, <4>2
      <4>4. i \in 1 .. n - 1 /\ i \in 0 .. n - 1
        BY <2>9, <4>3
      <4> QED BY <3>2, <4>2, <4>4
    <3> QED BY <3>1, <3>2
  <2> HIDE DEF p, n, front, below
  <2>15. Caller(word', b) = p
    <3>1. p < b /\ IsContext(word'[b]) /\ word'[b].prevBP = p
      <4>1. p \in Nat /\ b \in Nat
        BY <2>3, <2>7, SizeFacts DEF Words
      <4> QED BY <1>1, <2>3, <2>5, <2>7, <4>1
    <3> QED BY <3>1 DEF Caller
  <2>16. IsStack(word', bp', Append(front, b))
    BY <2>1, <2>3, <2>7, <2>12, <2>15, StackGrows
  <2>17. IsCalls(word', Append(front, b), Append(below, x))
    <3>1. IF word'[b].live THEN x \in 1 .. Len(front) /\ front[x] = word'[b].home
                           ELSE x = 0
      BY <2>5, <2>7, <2>11, <2>14
    <3>2. x \in Nat
      BY <2>10, <2>14
    <3> QED BY <2>7, <2>11, <2>13, <3>1, <3>2, CallsGrow
  <2>18. Chain' = Append(front, b) /\ callsBar' = Append(below, x)
    BY <2>7, <2>16, <2>17, NextCalls
  <2>19. callsBar # <<>> /\ callsBar[n] = 0
    <3>1. ~word[Chain[n]].live
      BY <2>1, <2>2, <2>9 DEF MethodsEndThemselves
    <3> QED BY <2>9, <3>1 DEF IsCalls
  <2>20. BarRunBlock
    BY <2>9, <2>14, <2>18, <2>19 DEF BarRunBlock, below
  <2>21. Running' \subseteq Laid \cup {b}
    <3>1. /\ \A i \in 1 .. Len(front) + 1 : Append(front, b)[i] \in Laid \cup {b}
          /\ DOMAIN Append(front, b) = 1 .. Len(front) + 1
      <4>1. \A i \in 1 .. Len(front) : front[i] \in Laid
        BY <2>9, <2>10, <2>11
      <4> QED BY <2>7, <2>11, <4>1, AppendFacts
    <3>2. Running' = {Append(front, b)[i] : i \in DOMAIN Append(front, b)}
      BY <2>18 DEF Running
    <3> QED BY <3>1, <3>2
  <2>22. \A c \in Laid' : c \in Laid \/ c = b
    BY <2>1, <2>21 DEF Laid
  <2>23. MethodsEndThemselves'
    BY <2>1, <2>5, <2>7, <2>8, <2>22 DEF MethodsEndThemselves
  <2> QED BY <2>20, <2>23 DEF BarStep
<1> QED BY <1>2, <1>3

(* The contexts from the k-th on have returned.                            *)
LEMMA ReturnedTo ==
    ASSUME StackInv, MethodsEndThemselves, phase = "run",
           NEW k \in 1 .. Len(Chain), NEW e, e = Chain[k],
           word' = word \/ word' = [word EXCEPT ![e] = Nil],
           bp' = word[e].prevBP, filling' = filling
    PROVE  /\ MethodsEndThemselves'
           /\ callsBar' = SubSeq(callsBar, 1, k - 1)
<1> DEFINE n == Len(Chain)
           front == SubSeq(Chain, 1, k - 1)
           below == SubSeq(callsBar, 1, k - 1)
<1>1. /\ word \in Contents /\ IsStack(word, bp, Chain) /\ IsCalls(word, Chain, callsBar)
      /\ Chain \in Seq(Words) /\ \A i \in 1 .. n : Chain[i] \in Laid
      /\ n \in Nat
  BY CallsNow
<1>2. filling = 0 /\ filling' = 0
  BY DEF StackInv, StackTypeOK
<1>3. e \in Laid /\ e \in Words /\ Caller(word, e) = word[e].prevBP
  BY <1>1, InvFacts
<1>4. word' \in Contents /\ \A c \in Words : c # e => word'[c] = word[c]
  BY <1>1, <1>3 DEF Contents
<1>5. k - 1 \in 0 .. n /\ \A i \in 1 .. k - 1 : i \in 1 .. n /\ i # k
  BY <1>1
<1>6. \A i \in 1 .. k - 1 : Chain[i] \in Words /\ word'[Chain[i]] = word[Chain[i]]
  <2>1. \A i, j \in 1 .. n : Chain[i] = Chain[j] => i = j
    BY <1>1, StackInOrder
  <2>2. \A i \in 1 .. k - 1 : Chain[i] \in Words /\ Chain[i] # e
    BY <1>1, <1>5, <2>1, InvFacts
  <2> QED BY <1>4, <2>2
<1>7. front \in Seq(Words) /\ Len(front) = k - 1 /\ \A i \in 1 .. k - 1 : front[i] = Chain[i]
  BY <1>1, <1>5, FrontFacts
<1>8. IsStack(word', bp', front)
  <2>1. IsStack(word, bp', front)
    BY <1>1, <1>3, StackShrinks
  <2>2. \A i \in 1 .. Len(front) : word'[front[i]] = word[front[i]]
    BY <1>6, <1>7
  <2> HIDE DEF front
  <2> QED BY <2>1, <2>2, StackKept
<1>9. IsCalls(word', front, below)
  BY <1>1, <1>5, <1>6, CallsShrink
<1>10. Chain' = front /\ callsBar' = below
  BY <1>4, <1>8, <1>9, NextCalls
<1> HIDE DEF front
<1>11. \A c \in Laid' : c \in Laid /\ word'[c] = word[c]
  <2>1. DOMAIN front = 1 .. k - 1
    BY <1>7
  <2>2. Running' = {front[i] : i \in DOMAIN front}
    BY <1>10 DEF Running
  <2>3. Laid' = Running'
    BY <1>2 DEF Laid
  <2> QED BY <1>1, <1>5, <1>6, <1>7, <2>1, <2>2, <2>3
<1>12. MethodsEndThemselves'
  BY <1>2, <1>11 DEF MethodsEndThemselves
<1> QED BY <1>10, <1>12

(* The returns.                                                            *)
LEMMA ReturnsReturn ==
    ASSUME StackInv, MethodsEndThemselves, opReturn \/ opReturnSelf \/ blockReturn
    PROVE  MethodsEndThemselves' /\ BarStep
<1> DEFINE n == Len(Chain)
<1>1. phase = "run" /\ bp # 0
  <2>1. phase = "run"
    BY DEF opReturn, opReturnSelf, blockReturn
  <2> QED BY <2>1 DEF StackInv, StackTypeOK
<1>2. /\ IsCalls(word, Chain, callsBar)
      /\ callsBar \in Seq(Nat) /\ Len(callsBar) = n /\ n \in 1 .. n /\ Chain[n] = bp
      /\ bp \in Laid /\ word \in Contents
  BY <1>1, CallsNow
<1>3. callsBar # <<>> /\ n \in Nat
  BY <1>2
<1>4. CASE opReturn \/ opReturnSelf
  <2>1. /\ word' = word \/ word' = [word EXCEPT ![bp] = Nil]
        /\ bp' = word[bp].prevBP /\ filling' = filling
    BY <1>4 DEF opReturn, opReturnSelf, resumeCaller
  <2>2. MethodsEndThemselves' /\ callsBar' = SubSeq(callsBar, 1, n - 1)
    BY <1>1, <1>2, <2>1, ReturnedTo
  <2> QED BY <1>2, <1>3, <2>2 DEF BarStep, BarReturn
<1>5. CASE blockReturn /\ word[bp].live
  <2> DEFINE home == word[bp].home
             k == callsBar[n]
  <2>1. k \in 1 .. n - 1 /\ Chain[k] = home
    BY <1>2, <1>5 DEF IsCalls
  <2>2. k \in 1 .. n /\ k # 0
    BY <1>3, <2>1
  <2>3. /\ word' = [word EXCEPT ![home] = Nil]
        /\ bp' = word[home].prevBP /\ filling' = filling
    BY <1>5 DEF blockReturn, resumeCaller
  <2> HIDE DEF home, k
  <2>4. MethodsEndThemselves' /\ callsBar' = SubSeq(callsBar, 1, k - 1)
    BY <1>1, <2>1, <2>2, <2>3, ReturnedTo
  <2> QED BY <1>2, <1>3, <2>2, <2>4 DEF BarStep, BarNonLocalReturn, k
<1>6. CASE blockReturn /\ ~word[bp].live
  <2>1. UNCHANGED <<word, bp, filling>>
    BY <1>6 DEF blockReturn
  <2>2. Running' = Running /\ callsBar' = callsBar
    BY <1>2, <2>1, CallsStay
  <2> QED BY <2>1, <2>2 DEF MethodsEndThemselves, Laid, BarStep
<1> QED BY <1>4, <1>5, <1>6

-----------------------------------------------------------------------------
LEMMA CallsInit ==
    ASSUME Init
    PROVE  MethodsEndThemselves /\ callsBar = <<0>>
<1>1. StackInv
  BY InvInit
<1>2. PICK size \in Sizes :
        word = [i \in Words |->
                  IF i = 1 THEN Context(size, 0, FALSE, 0, FALSE)
                  ELSE IF i = 2 THEN Fields(0)
                  ELSE IF i \in 3 .. size THEN Data ELSE Nil]
  BY DEF Init
<1>3. bp = 1 /\ filling = 0 /\ 1 \in Words /\ word \in Contents
  BY <1>1, SizeFacts DEF Init, Words, StackInv, StackTypeOK
<1>4. word[1] = Context(size, 0, FALSE, 0, FALSE)
  BY <1>2, <1>3
<1>5. ~word[1].live /\ Caller(word, 1) = 0
  BY <1>4 DEF Context, Caller, IsContext
<1>6. Chain = <<1>>
  <2>1. Chain = Append(<<>>, 1)
    BY <1>3, <1>5, ChainUnfolds, ChainIs
  <2> QED BY <2>1
<1>7. callsBar = <<0>>
  <2>1. DOMAIN Chain = 1 .. 1 /\ Chain[1] = 1
    BY <1>6
  <2>2. callsBar = [i \in 1 .. 1 |-> 0]
    BY <1>5, <2>1 DEF callsBar
  <2> QED BY <2>2
<1>8. Laid = {1}
  <2>1. Running = {1}
    BY <1>6 DEF Running
  <2> QED BY <1>3, <2>1 DEF Laid
<1> QED BY <1>3, <1>5, <1>7, <1>8 DEF MethodsEndThemselves

LEMMA CallsStep ==
    StackInv /\ MethodsEndThemselves /\ [Next]_vars => MethodsEndThemselves' /\ BarStep
<1> SUFFICES ASSUME StackInv, MethodsEndThemselves, [Next]_vars
             PROVE  MethodsEndThemselves' /\ BarStep
  OBVIOUS
<1>1. ASSUME NEW size \in Sizes, NEW heapVars \in BOOLEAN, newContext(size, heapVars)
      PROVE  MethodsEndThemselves' /\ BarStep
  BY <1>1, NewContextStays
<1>2. ASSUME NEW size \in Sizes, NEW heapVars \in BOOLEAN, NEW block \in blocks,
             execBlock(block, size, heapVars)
      PROVE  MethodsEndThemselves' /\ BarStep
  BY <1>2, ExecBlockRuns
<1>3. CASE Fill
  BY <1>3, FillCalls
<1>4. CASE mpsScan \/ ldaBlockCopy \/ UNCHANGED vars
  <2>1. UNCHANGED <<word, bp, filling>>
    BY <1>4 DEF mpsScan, ldaBlockCopy, vars
  <2>2. word' \in Contents /\ Running' = Running /\ callsBar' = callsBar
    BY <2>1, CallsStay, InvFacts
  <2> QED BY <2>1, <2>2 DEF MethodsEndThemselves, Laid, BarStep
<1>5. CASE opReturn \/ opReturnSelf \/ blockReturn
  BY <1>5, ReturnsReturn
<1> QED BY <1>1, <1>2, <1>3, <1>4, <1>5 DEF Next

(* The process sees the activations of a programmer's model: methods and   *)
(* blocks called, returns to the caller, and a ^ in a block that ends the  *)
(* method in which it was written with all above it.  Nothing else that    *)
(* happens in the stack shows: the initialisation of a context above the   *)
(* running one, collections, what older contexts have left.                *)
THEOREM StackIsCalls == Spec => ImplementsCallStack
<1>1. Init => StackInv /\ MethodsEndThemselves
  BY InvInit, CallsInit
<1>2. StackInv /\ MethodsEndThemselves /\ [Next]_vars => StackInv' /\ MethodsEndThemselves'
  BY InvNext, CallsStep
<1>3. Init => Abstract!Init
  BY CallsInit DEF callsBar, Abstract!Init
<1>4. StackInv /\ MethodsEndThemselves /\ [Next]_vars => [Abstract!Next]_callsBar
  BY CallsStep, BarStepIsAbstract
<1> QED BY <1>1, <1>2, <1>3, <1>4, PTL DEF Spec, ImplementsCallStack, Abstract!Spec, callsBar

=============================================================================
