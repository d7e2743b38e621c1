----------------------------- MODULE DebugProofs -----------------------------
(***************************************************************************)
(* Proofs about itoa(): a buffer of one character more than a value has    *)
(* bits is large enough for its digits, its sign and the terminator, for   *)
(* every width, base and value.                                            *)
(***************************************************************************)
EXTENDS Debug, FiniteSetTheorems, TLAPS

USE WidthAssumption

-----------------------------------------------------------------------------
(* Powers of two, which count subsets.                                     *)

LEMMA PowerCounts ==
  ASSUME NEW k \in Nat
  PROVE  /\ IsFiniteSet(SUBSET (1 .. k))
         /\ 2 ^ k = Cardinality(SUBSET (1 .. k)) /\ 2 ^ k \in Nat \ {0}
<1>1. IsFiniteSet(1 .. k) /\ Cardinality(1 .. k) = k
  BY FS_Interval
<1>2. IsFiniteSet(SUBSET (1 .. k)) /\ Cardinality(SUBSET (1 .. k)) = 2 ^ Cardinality(1 .. k)
  BY <1>1, FS_SUBSET
<1>3. SUBSET (1 .. k) # {}
  OBVIOUS
<1>4. Cardinality(SUBSET (1 .. k)) \in Nat /\ Cardinality(SUBSET (1 .. k)) # 0
  BY <1>2, <1>3, FS_CardinalityType, FS_EmptySet
<1> QED
  BY <1>1, <1>2, <1>4

LEMMA PowerOfZero == 2 ^ 0 = 1
<1>1. SUBSET (1 .. 0) = {{}}
  OBVIOUS
<1>2. Cardinality({{}}) = 1
  BY FS_Singleton
<1> QED
  BY <1>1, <1>2, PowerCounts

(* The subsets of 1 .. k + 1 without the last number are as many as those  *)
(* with it.                                                                *)
LEMMA PowerDoubles ==
  ASSUME NEW k \in Nat
  PROVE  2 ^ (k + 1) = 2 * 2 ^ k
<1> DEFINE S == SUBSET (1 .. k)
           T == {B \cup {k + 1} : B \in S}
           f == [B \in S |-> B \cup {k + 1}]
<1>1. SUBSET (1 .. (k + 1)) = S \cup T
  <2>1. S \cup T \subseteq SUBSET (1 .. (k + 1))
    <3>1. 1 .. k \subseteq 1 .. (k + 1) /\ k + 1 \in 1 .. (k + 1)
      OBVIOUS
    <3> QED
      BY <3>1, Zenon
  <2>2. ASSUME NEW C \in SUBSET (1 .. (k + 1)) PROVE C \in S \cup T
    <3>1. CASE k + 1 \in C
      <4>1. C \ {k + 1} \in S /\ C = (C \ {k + 1}) \cup {k + 1}
        BY <2>2, <3>1
      <4> QED
        BY <4>1
    <3>2. CASE k + 1 \notin C
      BY <2>2, <3>2
    <3> QED
      BY <3>1, <3>2
  <2> QED
    BY <2>1, <2>2
<1>2. S \cap T = {}
  OBVIOUS
<1>3. IsFiniteSet(S) /\ Cardinality(S) = 2 ^ k
  BY PowerCounts
<1>4. IsFiniteSet(T) /\ Cardinality(T) = Cardinality(S)
  <2>1. f \in Surjection(S, T)
    BY DEF Surjection
  <2>2. \A B, C \in S : f[B] = f[C] => B = C
    OBVIOUS
  <2>3. f \in Injection(S, T)
    BY <2>2 DEF Injection, IsInjective
  <2> HIDE DEF f, S, T
  <2> QED
    BY <1>3, <2>1, <2>3, FS_Surjection
<1>5. Cardinality(S \cup T) = Cardinality(S) + Cardinality(T) - Cardinality(S \cap T)
  <2> HIDE DEF S, T
  <2> QED
    BY <1>3, <1>4, FS_Union
<1>6. Cardinality(S \cap T) = 0
  <2> HIDE DEF S, T
  <2> QED
    BY <1>2, FS_EmptySet
<1>7. 2 ^ (k + 1) = Cardinality(SUBSET (1 .. (k + 1)))
  <2> HIDE DEF S, T, f
  <2>1. PICK m \in Nat : m = k + 1
    OBVIOUS
  <2>2. 2 ^ m = Cardinality(SUBSET (1 .. m))
    BY PowerCounts, Zenon
  <2> QED
    BY <2>1, <2>2, Zenon
<1>8. 2 ^ k \in Nat
  BY PowerCounts
<1> HIDE DEF S, T, f
<1>9. PICK x \in Nat : x = 2 ^ k
  BY <1>8
<1>10. Cardinality(S \cup T) = 2 * x
  BY <1>3, <1>4, <1>5, <1>6, <1>9
<1> QED
  BY <1>1, <1>7, <1>9, <1>10, Zenon

LEMMA PowerHalves ==
  ASSUME NEW k \in Nat \ {0}
  PROVE  k - 1 \in Nat /\ 2 ^ (k - 1) \in Nat \ {0} /\ 2 ^ k = 2 * 2 ^ (k - 1)
<1>1. PICK m \in Nat : m = k - 1 /\ k = m + 1
  OBVIOUS
<1>2. 2 ^ (m + 1) = 2 * 2 ^ m /\ 2 ^ m \in Nat \ {0}
  BY PowerCounts, PowerDoubles
<1> QED
  BY <1>1, <1>2

(* A division by a base takes at least a bit off; one by ten takes more.   *)
LEMMA DivisionHalves ==
  ASSUME NEW a \in Nat, NEW b \in Nat, b >= 2, NEW x \in Nat
  PROVE  /\ a \div b \in Nat
         /\ a < 2 * x => a \div b < x
         /\ b = 10 /\ x # 0 /\ a <= 2 * x => a \div b < x
<1> DEFINE q == a \div b
<1>1. q \in Nat /\ b * q <= a
  BY b \in Nat \ {0}
<1> HIDE DEF q
<1>2. 2 * q <= a
  <2>1. b * q = 2 * q + (b - 2) * q /\ (b - 2) * q >= 0
    BY <1>1
  <2> QED
    BY <1>1, <2>1
<1>3. a < 2 * x => q < x
  BY <1>1, <1>2
<1>4. b = 10 /\ x # 0 /\ a <= 2 * x => q < x
  BY <1>1
<1> QED
  BY <1>1, <1>3, <1>4 DEF q

-----------------------------------------------------------------------------
(* The inductive invariant.                                                *)

(* The digits written and the bits that are left of the value are no more  *)
(* than the bits of a value; one less of each if it is negative.           *)
BitsLeft ==
  /\ n \in 0 .. WideBits /\ val \in Nat /\ sign \in BOOLEAN
  /\ ~sign => val < 2 ^ (WideBits - n)
  /\ sign =>
       /\ conv.base = 10 /\ n <= WideBits - 1
       /\ IF n = 0 THEN val <= 2 ^ (WideBits - 1) ELSE val < 2 ^ (WideBits - 1 - n)

EndFits == r \in Nat /\ n \in Int /\ r < BufferSize /\ n < r

BufInv ==
  /\ conv.base \in Nat /\ conv.base >= 2
  /\ pc = "digits" => BitsLeft
  /\ pc = "reverse" => EndFits

(* itoa() is given a word. *)
WordGiven == pc = "itoa" => val \in 0 .. (Wide - 1)

(* Called directly it is given the value, and is called once. *)
Direct == call.prog = "itoa"
DirectInv ==
  Direct => /\ pc \in {"itoa", "digits", "reverse", "put", "done"}
            /\ WordGiven

LEMMA BitsOfWord == WideBits \in Nat /\ WideBits >= 2
OBVIOUS

(* While there are digits left, there is a place for the next. *)
LEMMA DigitFits ==
  ASSUME BitsLeft
  PROVE  /\ val # 0 => n < WideBits
         /\ val # 0 /\ sign => n < WideBits - 1
<1>1. n \in Nat /\ WideBits \in Nat /\ WideBits >= 2
  BY BitsOfWord DEF BitsLeft
<1>2. ASSUME val # 0, n = WideBits PROVE FALSE
  <2>1. WideBits - n = 0 /\ ~sign
    BY <1>1, <1>2 DEF BitsLeft
  <2>2. val < 1
    BY <2>1, PowerOfZero DEF BitsLeft
  <2> QED
    BY <1>2, <2>2 DEF BitsLeft
<1>3. ASSUME val # 0, sign, n = WideBits - 1 PROVE FALSE
  <2>1. WideBits - 1 - n = 0 /\ n # 0
    BY <1>1, <1>3
  <2>2. val < 1
    BY <1>3, <2>1, PowerOfZero DEF BitsLeft
  <2> QED
    BY <1>3, <2>2 DEF BitsLeft
<1> QED
  BY <1>1, <1>2, <1>3 DEF BitsLeft

LEMMA SignBits ==
  ASSUME BufInv, WordGiven, Sign
  PROVE  BitsLeft'
<1>1. /\ val \in 0 .. (Wide - 1) /\ n' = 0 /\ sign' = Negative /\ conv' = conv
      /\ val' = IF Negative THEN (Wide - val) % Wide ELSE val
  BY DEF Sign, WordGiven, scan
<1>2. PICK h \in Nat \ {0} : h = 2 ^ (WideBits - 1) /\ Wide = 2 * h
  BY BitsOfWord, PowerHalves DEF Wide
<1>3. CASE Negative
  <2>1. conv.base = 10 /\ val >= h
    <3>1. (2 * h) \div 2 = h
      OBVIOUS
    <3> QED
      BY <1>2, <1>3, <3>1 DEF Negative
  <2>2. Wide - val \in 0 .. (Wide - 1) /\ Wide - val <= h
    BY <1>1, <1>2, <2>1
  <2>3. (Wide - val) % Wide = Wide - val
    BY <1>2, <2>2
  <2> QED
    BY <1>1, <1>2, <1>3, <2>1, <2>2, <2>3, BitsOfWord DEF BitsLeft
<1>4. CASE ~Negative
  <2>1. WideBits - n' = WideBits /\ n' \in 0 .. WideBits
    BY <1>1, BitsOfWord
  <2>2. val' \in Nat /\ val' < 2 ^ WideBits
    BY <1>1, <1>2, <1>4 DEF Wide
  <2>3. sign' = FALSE
    BY <1>1, <1>4
  <2> QED
    BY <2>1, <2>2, <2>3 DEF BitsLeft
<1> QED
  BY <1>3, <1>4

LEMMA DigitBits ==
  ASSUME BufInv, BitsLeft, Digit
  PROVE  BitsLeft'
<1>1. /\ val # 0 /\ val' = val \div conv.base /\ n' = n + 1 /\ sign' = sign /\ conv' = conv
      /\ conv.base \in Nat /\ conv.base >= 2
  BY DEF Digit, BufInv, scan
<1>2. n \in Nat /\ val \in Nat /\ WideBits \in Nat /\ WideBits >= 2 /\ sign \in BOOLEAN
  BY BitsOfWord DEF BitsLeft
<1>3. val' \in Nat
  BY <1>1, <1>2, DivisionHalves
<1>4. CASE ~sign
  <2>1. n < WideBits
    BY <1>1, DigitFits
  <2>2. PICK k \in Nat \ {0} : k = WideBits - n /\ k - 1 = WideBits - (n + 1)
    <3>1. WideBits - n \in Nat \ {0} /\ (WideBits - n) - 1 = WideBits - (n + 1)
      BY <1>2, <2>1
    <3> QED
      BY <3>1, Zenon
  <2>3. PICK x \in Nat \ {0} : x = 2 ^ (k - 1) /\ 2 ^ k = 2 * x
    BY PowerHalves
  <2>4. val < 2 * x
    BY <1>4, <2>2, <2>3 DEF BitsLeft
  <2>5. val' < 2 ^ (WideBits - (n + 1))
    BY <1>1, <1>2, <2>2, <2>3, <2>4, DivisionHalves
  <2> QED
    BY <1>1, <1>2, <1>3, <1>4, <2>1, <2>5 DEF BitsLeft
<1>5. CASE sign
  <2>1. n < WideBits - 1 /\ conv.base = 10
    BY <1>1, <1>5, DigitFits DEF BitsLeft
  <2>2. PICK k \in Nat \ {0} : k = WideBits - 1 - n /\ k - 1 = WideBits - 1 - (n + 1)
    BY <1>2, <2>1
  <2>3. PICK x \in Nat \ {0} : x = 2 ^ (k - 1) /\ 2 ^ k = 2 * x
    BY PowerHalves
  <2>4. val <= 2 * x
    <3>1. CASE n = 0
      <4>1. k = WideBits - 1
        BY <1>2, <2>2, <3>1
      <4> QED
        BY <1>5, <2>3, <3>1, <4>1 DEF BitsLeft
    <3>2. CASE n # 0
      BY <1>2, <1>5, <2>2, <2>3, <3>2 DEF BitsLeft
    <3> QED
      BY <3>1, <3>2
  <2>5. val' < 2 ^ (WideBits - 1 - (n + 1))
    BY <1>1, <1>2, <2>1, <2>2, <2>3, <2>4, DivisionHalves
  <2> QED
    BY <1>1, <1>2, <1>3, <1>5, <2>1, <2>5 DEF BitsLeft
<1> QED
  BY <1>2, <1>4, <1>5

LEMMA TurnFits ==
  ASSUME BitsLeft, Turn
  PROVE  EndFits'
<1>1. n \in 0 .. WideBits /\ sign \in BOOLEAN /\ (sign => n <= WideBits - 1)
  BY DEF BitsLeft
<1>2. r' = (IF sign THEN n + 1 ELSE n) /\ n' = (IF sign THEN n ELSE n - 1)
  BY DEF Turn
<1> QED
  BY <1>1, <1>2, BitsOfWord DEF EndFits, BufferSize

(* The base of every conversion that vprintf() makes *)
LEMMA BaseOfNumber ==
  ASSUME PrintNumber
  PROVE  conv'.base \in {10, 16}
<1> DEFINE c == Numbers(call.prog)[Letter]
<1>1. Letter \in DOMAIN Numbers(call.prog)
  BY DEF PrintNumber
<1>2. c.base \in {10, 16}
  <2>1. CASE call.prog = "kernel"
    BY <1>1, <2>1 DEF Numbers, KernelNumbers, Conv
  <2>2. CASE call.prog # "kernel"
    BY <1>1, <2>2 DEF Numbers, LoaderNumbers, Conv
  <2> QED
    BY <2>1, <2>2
<1> QED
  BY <1>2 DEF PrintNumber

LEMMA BufInit == Init => BufInv /\ DirectInv
<1> SUFFICES ASSUME Init PROVE BufInv /\ DirectInv
  OBVIOUS
<1>1. call \in Calls /\ val = call.value /\ conv.base = call.base
  BY DEF Init, Conv
<1>2. pc = (CASE call.prog = "itoa" -> "itoa" [] call.prog = "str" -> "str" [] OTHER -> "scan")
  BY DEF Init
<1>3. pc \in {"itoa", "str", "scan"} /\ (call.prog = "itoa" => pc = "itoa")
  BY <1>2
<1> QED
  BY <1>1, <1>3, CallsAssumption DEF BufInv, DirectInv, Direct, WordGiven

LEMMA BufStep == BufInv /\ WordGiven /\ [Next]_vars => BufInv'
<1> SUFFICES ASSUME BufInv, WordGiven, [Next]_vars PROVE BufInv'
  OBVIOUS
<1>1. CASE PrintNumber
  BY <1>1, BaseOfNumber DEF PrintNumber, BufInv
<1>2. CASE Sign
  BY <1>2, SignBits DEF Sign, BufInv, scan
<1>3. CASE Digit
  <2>1. BitsLeft'
    BY <1>3, DigitBits DEF Digit, BufInv
  <2> QED
    BY <1>3, <2>1 DEF Digit, BufInv, scan
<1>4. CASE Turn
  <2>1. EndFits'
    BY <1>4, TurnFits DEF Turn, BufInv
  <2> QED
    BY <1>4, <2>1 DEF Turn, BufInv, scan
<1>5. CASE Swap
  BY <1>5 DEF Swap, BufInv, EndFits, scan
<1>6. CASE Zero \/ Terminate \/ Put
  BY <1>6 DEF Zero, Terminate, Put, BufInv, scan
<1>7. CASE EndOfFormat \/ Text \/ PrintString \/ PrintOther
  BY <1>7 DEF EndOfFormat, Text, PrintString, PrintOther, Conversion, Reading, BufInv, scan
<1>8. CASE Slice \/ PrintStr \/ Compare
  BY <1>8 DEF Slice, PrintStr, Compare, BufInv, scan
<1>9. CASE UNCHANGED vars
  BY <1>9 DEF vars, scan, itoavars, BufInv, BitsLeft, EndFits
<1> QED
  BY <1>1, <1>2, <1>3, <1>4, <1>5, <1>6, <1>7, <1>8, <1>9 DEF Next, Ended

LEMMA DirectStep == DirectInv /\ [Next]_vars => DirectInv'
<1> SUFFICES ASSUME DirectInv, [Next]_vars, Direct' PROVE DirectInv'
  BY DEF DirectInv
<1>1. call' = call
  BY DEF Next, EndOfFormat, Text, PrintNumber, PrintString, PrintOther, Zero, Sign, Digit, Turn, Swap,
         Terminate, Put, Slice, PrintStr, Compare, Ended, scan, vars
<1>2. pc \in {"itoa", "digits", "reverse", "put", "done"} /\ WordGiven /\ call.prog = "itoa"
  BY <1>1 DEF DirectInv, Direct
<1>3. CASE Zero \/ Sign \/ Digit \/ Turn \/ Swap \/ Terminate \/ Put
  BY <1>2, <1>3 DEF Zero, Sign, Digit, Turn, Swap, Terminate, Put, DirectInv, WordGiven
<1>4. CASE UNCHANGED vars
  BY <1>2, <1>4 DEF vars, itoavars, DirectInv, WordGiven
<1> QED
  BY <1>2, <1>3, <1>4
     DEF Next, EndOfFormat, Text, PrintNumber, PrintString, PrintOther, Conversion, Reading, Slice,
         PrintStr, Compare, Ended

LEMMA BufInBuffer == BufInv => StaysInBuffer
<1> SUFFICES ASSUME BufInv PROVE StaysInBuffer
  OBVIOUS
<1>1. ASSUME pc = "digits", val # 0 \/ sign PROVE n < BufferSize
  <2>1. BitsLeft
    BY <1>1 DEF BufInv
  <2> QED
    BY <2>1, BitsOfWord DEF BitsLeft, BufferSize
<1> QED
  BY <1>1 DEF BufInv, EndFits, StaysInBuffer

LEMMA DirectInit == Init => (Direct => TypeOK)
<1> SUFFICES ASSUME Init, Direct PROVE TypeOK
  OBVIOUS
<1>1. /\ call \in Calls /\ val = call.value /\ at = 1 /\ n = 0 /\ j = 0 /\ r = 0 /\ sign = FALSE
      /\ pc = (CASE call.prog = "itoa" -> "itoa" [] call.prog = "str" -> "str" [] OTHER -> "scan")
  BY DEF Init
<1>2. pc = "itoa"
  BY <1>1 DEF Direct
<1>3. val \in 0 .. (Wide - 1)
  BY <1>1, CallsAssumption
<1>4. n \in -1 .. WideBits /\ j \in 0 .. WideBits /\ r \in 0 .. WideBits
  BY <1>1, BitsOfWord
<1>5. at \in Nat \ {0} /\ sign \in BOOLEAN
  <2>1. at = 1 /\ sign = FALSE
    BY Zenon DEF Init
  <2> QED
    BY <2>1, FALSE \in BOOLEAN, 1 \in Nat \ {0}, Zenon
<1>6. pc \in {"scan", "itoa", "digits", "reverse", "put", "str", "compare", "done"}
  BY <1>2
<1> QED
  BY <1>3, <1>4, <1>5, <1>6 DEF TypeOK

LEMMA DirectTypeStep ==
  ASSUME DirectInv, BufInv, TypeOK, [Next]_vars, Direct'
  PROVE  TypeOK'
<1>1. /\ WideBits \in Nat /\ WideBits >= 2 /\ Wide \in Nat \ {0} /\ val \in 0 .. (Wide - 1)
      /\ at \in Nat \ {0} /\ n \in -1 .. WideBits /\ j \in 0 .. WideBits /\ r \in 0 .. WideBits
      /\ sign \in BOOLEAN
  BY BitsOfWord, PowerCounts DEF Wide, TypeOK
<1>2. call' = call
  BY DEF Next, EndOfFormat, Text, PrintNumber, PrintString, PrintOther, Zero, Sign, Digit, Turn, Swap,
         Terminate, Put, Slice, PrintStr, Compare, Ended, scan, vars
<1>3. pc \in {"itoa", "digits", "reverse", "put", "done"} /\ WordGiven /\ call.prog = "itoa"
  BY <1>2 DEF DirectInv, Direct
<1>4. CASE Zero \/ Terminate \/ Put
  BY <1>3, <1>4 DEF Zero, Terminate, Put, itoavars, TypeOK
<1>5. CASE Sign
  <2>1. BitsLeft'
    BY <1>3, <1>5, SignBits
  <2>2. PICK h \in Nat \ {0} : h = 2 ^ (WideBits - 1) /\ Wide = 2 * h
    BY BitsOfWord, PowerHalves DEF Wide
  <2>3. n' = 0 /\ WideBits - n' = WideBits
    BY <1>1, <1>5 DEF Sign
  <2>4. val' \in 0 .. (Wide - 1)
    BY <2>1, <2>2, <2>3 DEF BitsLeft, Wide
  <2> QED
    BY <1>1, <1>5, <2>1, <2>3, <2>4 DEF Sign, TypeOK, BitsLeft
<1>6. CASE Digit
  <2>1. BitsLeft /\ val # 0 /\ conv.base \in Nat /\ conv.base >= 2
    BY <1>6 DEF Digit, BufInv
  <2>2. n < WideBits /\ n \in Nat
    BY <2>1, DigitFits DEF BitsLeft
  <2>3. val \in Nat /\ val < 2 * val
    BY <1>1, <2>1
  <2>4. val \div conv.base \in Nat /\ val \div conv.base < val
    BY <2>1, <2>3, DivisionHalves
  <2> QED
    BY <1>1, <1>6, <2>2, <2>4 DEF Digit, TypeOK
<1>7. CASE Turn
  <2>1. BitsLeft
    BY <1>7 DEF Turn, BufInv
  <2>2. r' = (IF sign THEN n + 1 ELSE n) /\ n' = (IF sign THEN n ELSE n - 1) /\ j' = 0
    BY <1>7 DEF Turn
  <2>3. n \in 0 .. WideBits /\ (sign => n <= WideBits - 1)
    BY <2>1 DEF BitsLeft
  <2>4. r' \in 0 .. WideBits /\ n' \in -1 .. WideBits
    BY <1>1, <2>2, <2>3
  <2> QED
    BY <1>1, <1>7, <2>2, <2>4 DEF Turn, TypeOK
<1>8. CASE Swap
  <2>1. n' \in -1 .. WideBits /\ j' \in 0 .. WideBits
    BY <1>1, <1>8 DEF Swap
  <2> QED
    BY <1>1, <1>8, <2>1 DEF Swap, TypeOK
<1>9. CASE UNCHANGED vars
  BY <1>9 DEF vars, itoavars, TypeOK
<1> QED
  BY <1>3, <1>4, <1>5, <1>6, <1>7, <1>8, <1>9
     DEF Next, EndOfFormat, Text, PrintNumber, PrintString, PrintOther, Conversion, Reading, Slice,
         PrintStr, Compare, Ended

(***************************************************************************)
(* DirectCallsTyped: itoa() works on words, and its indices do not leave   *)
(* the buffer by more than the one before it, for every width, value and   *)
(* base: negating the least signed value yields a word (itoa.hpp:20-60).   *)
(***************************************************************************)
THEOREM DirectCallsTyped == Spec => [](call.prog = "itoa" => TypeOK)
<1> DEFINE I == DirectInv /\ (Direct => BufInv /\ TypeOK)
<1>1. Init => I
  BY BufInit, DirectInit
<1>2. I /\ [Next]_vars => I'
  <2>1. [Next]_vars => (Direct' => Direct)
    BY DEF Next, EndOfFormat, Text, PrintNumber, PrintString, PrintOther, Zero, Sign, Digit, Turn, Swap,
           Terminate, Put, Slice, PrintStr, Compare, Ended, scan, vars, Direct
  <2> QED
    BY <2>1, DirectStep, BufStep, DirectTypeStep DEF DirectInv
<1>3. I => (call.prog = "itoa" => TypeOK)
  BY DEF Direct
<1> HIDE DEF I
<1> QED
  BY <1>1, <1>2, <1>3, PTL DEF Spec

(***************************************************************************)
(* DirectCallsFit: itoa() stays in its buffer, for every width of a word,  *)
(* every value and every base, the least signed value and base 2 included, *)
(* which need one place more than others (itoa.hpp:9, :20-60).             *)
(***************************************************************************)
THEOREM DirectCallsFit == Spec => [](call.prog = "itoa" => StaysInBuffer)
<1>1. Init => DirectInv /\ (Direct => BufInv)
  BY BufInit
<1>2. DirectInv /\ (Direct => BufInv) /\ [Next]_vars => DirectInv' /\ (Direct' => BufInv')
  <2>1. [Next]_vars => (Direct' => Direct)
    BY DEF Next, EndOfFormat, Text, PrintNumber, PrintString, PrintOther, Zero, Sign, Digit, Turn, Swap,
           Terminate, Put, Slice, PrintStr, Compare, Ended, scan, vars, Direct
  <2> QED
    BY <2>1, DirectStep, BufStep DEF DirectInv
<1>3. Spec => [](DirectInv /\ (Direct => BufInv))
  BY <1>1, <1>2, PTL DEF Spec
<1>4. DirectInv /\ (Direct => BufInv) => (call.prog = "itoa" => StaysInBuffer)
  BY BufInBuffer DEF Direct
<1> QED
  BY <1>3, <1>4, PTL

(***************************************************************************)
(* ConversionsFit: the same of every conversion of vprintf(), in the       *)
(* buffer that they share, as long as what va_arg() yields for a number is *)
(* a word, whatever was in the buffer and in itoa()'s locals before        *)
(* (debug.cpp:50-125).                                                     *)
(***************************************************************************)
THEOREM ConversionsFit == Spec /\ []WordGiven => []StaysInBuffer
<1>1. Init => BufInv
  BY BufInit
<1> QED
  BY <1>1, BufStep, BufInBuffer, PTL DEF Spec
=============================================================================
