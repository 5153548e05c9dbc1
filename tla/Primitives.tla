----------------------------- MODULE Primitives -----------------------------
(***************************************************************************)
(* The table of primitives and the arithmetic of small integers            *)
(* (Primitive.cc, Oops.hh).  A small integer is a word whose low TagBits   *)
(* bits say that it is one, so it has TagBits fewer bits than the word in  *)
(* which the primitives compute.                                           *)
(***************************************************************************)
EXTENDS Integers, Sequences

CONSTANTS
    WordBits,   \* bits of intptr_t (64)
    TagBits     \* VT_tagBits (3)

ASSUME BitsAssumption ==
    WordBits \in Nat /\ TagBits \in Nat /\ 2 <= WordBits - TagBits

SmiBits == WordBits - TagBits

(* n as a signed number of so many bits.                                   *)
Truncate(n, bits) ==
    LET half == 2 ^ (bits - 1) IN ((n + half) % (2 * half)) - half
Fits(n, bits) == LET half == 2 ^ (bits - 1) IN -half <= n /\ n < half
IntMax == 2 ^ (WordBits - 1) - 1

(* Values: small integers and references, nil being the null pointer.      *)
Smi(n) == <<"smi", Truncate(n, SmiBits)>>
Nil == <<"nil", 0>>
Oop(i) == <<"oop", i>>
IsSmi(v) == v[1] = "smi"

(* The well known objects true and false.                                  *)
True == Oop(1)
False == Oop(2)
Truth(b) == IF b THEN True ELSE False

(* Division of C: the quotient is truncated, the remainder has the sign of *)
(* the dividend.                                                           *)
Magnitude(n) == IF n < 0 THEN -n ELSE n
Quotient(a, b) ==
    LET q == Magnitude(a) \div Magnitude(b)
    IN  IF (a < 0) = (b < 0) THEN q ELSE -q
Remainder(a, b) == a - b * Quotient(a, b)

(* A bit of a number, the number of so many bits, and the operations on    *)
(* each of the bits of two.                                                *)
Bit(n, i) == (n \div 2 ^ i) % 2
FromBits(bits) ==
    LET low[i \in 0 .. WordBits] ==
            IF i = 0 THEN 0 ELSE low[i - 1] + 2 ^ (i - 1) * bits[i - 1]
    IN  Truncate(low[WordBits], WordBits)
BitAnd(a, b) == FromBits([i \in 0 .. WordBits - 1 |-> Bit(a, i) * Bit(b, i)])
BitXor(a, b) == FromBits([i \in 0 .. WordBits - 1 |-> (Bit(a, i) + Bit(b, i)) % 2])

(* The result of the test that the primitives make for overflow.           *)
Bounded(r) ==
    LET long == Truncate(r, WordBits)
    IN  IF long < IntMax \div 2 THEN Smi(long) ELSE Nil

(* The first thirteen primitives, by index from 1: they fail, answering    *)
(* nil, unless both arguments are small integers.                          *)
SmiPrimitive(op, x, y) ==
    LET a == x[2]
        b == y[2]
    IN  IF ~IsSmi(x) \/ ~IsSmi(y) THEN Nil
        ELSE CASE op = 1  -> Bounded(a + b)
               [] op = 2  -> Bounded(a - b)
               [] op = 3  -> Truth(a < b)
               [] op = 4  -> Truth(a > b)
               [] op = 5  -> Truth(a <= b)
               [] op = 6  -> Truth(a >= b)
               [] op = 7  -> Truth(a = b)
               [] op = 8  -> Truth(a # b)
               [] op = 9  -> Bounded(a * b)
               [] op = 10 -> IF b = 0 THEN Nil ELSE Smi(Quotient(a, b))
               [] op = 11 -> IF b = 0 THEN Nil ELSE Smi(Remainder(a, b))
               [] op = 12 -> Smi(BitAnd(a, b))
               [] op = 13 -> Smi(BitXor(a, b))

(* Shifting by a number of bits less than the word's.                      *)
BitShift(x, y) ==
    IF ~IsSmi(x) \/ ~IsSmi(y) THEN Nil
    ELSE IF y[2] < 0 THEN Smi(x[2] \div 2 ^ (-y[2]))
    ELSE Smi(Truncate(x[2] * 2 ^ y[2], WordBits))

-----------------------------------------------------------------------------
(* The binary operators, in the order of the first primitives (binOpStr).  *)
BinOps == <<"+", "-", "<", ">", "<=", ">=", "=", "~=", "*", "quo:", "rem:",
            "bitAnd:", "bitXor:">>
BinOpIndex(sel) ==
    IF \E i \in DOMAIN BinOps : BinOps[i] = sel
    THEN CHOOSE i \in DOMAIN BinOps : BinOps[i] = sel ELSE 0

(* The table, in its order, with how each is called: "old" with an array   *)
(* of arguments, "many" with a count, or with that number of them.  Those  *)
(* of the file stream, of floats and of diagnostics are left out.          *)
Table == <<
    <<"smiAdd", "2">>, <<"smiSub", "2">>, <<"smi<", "2">>, <<"smi>", "2">>,
    <<"smi<=", "2">>, <<"smi>=", "2">>, <<"smiEq", "2">>, <<"smiNeq", "2">>,
    <<"smiMul", "2">>, <<"smiQuo", "2">>, <<"smiRem", "2">>,
    <<"smiBitAnd", "2">>, <<"smiBitXor", "2">>, <<"smiBitShift", "old">>,
    <<"class", "old">>, <<"size", "1">>, <<"oopEq", "old">>,
    <<"classOfPut", "2">>, <<"basicAt", "2">>, <<"byteAt", "2">>,
    <<"basicAtPut", "3">>, <<"byteAtPut", "3">>, <<"stringSize", "old">>,
    <<"stringCat", "old">>, <<"copyFromTo", "old">>,
    <<"symbolAssign", "old">>, <<"newOops", "1">>, <<"newBytes", "1">>,
    <<"execBlock", "many">>, <<"fatal", "old">>,
    <<"disableInterrupts", "0">>, <<"enableInterrupts", "0">> >>

PrimIndex(name) ==
    LET S == {i \in DOMAIN Table : Table[i][1] = name}
    IN  IF S = {} THEN 0 ELSE CHOOSE i \in S : TRUE
PrimName(i) == Table[i][1]
PrimCall(i) == Table[i][2]
=============================================================================
