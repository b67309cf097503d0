-------------------------------- MODULE Powers --------------------------------
(***************************************************************************)
(* The powers of two of src/include/math.hpp, on words of BITS bits.  A    *)
(* word is the set of the numbers of its bits that are 1, so that 2 ^ k is *)
(* {k} and 0 is {}.                                                        *)
(***************************************************************************)
EXTENDS Integers, FiniteSetsExt, SequencesExt

CONSTANTS BITS,             \* of a u64 and a usize
          INT               \* of an int

ASSUME BitsAssumption == BITS \in Nat /\ INT \in 1 .. BITS

Bits == 0 .. BITS - 1

(* Both wrap around.                                                       *)
Decrement(w) == IF w = {} THEN Bits ELSE (w \ {Min(w)}) \cup 0 .. Min(w) - 1
Increment(w) == Bits \ Decrement(Bits \ w)

ShiftRight(w, k) == {b - k : b \in {c \in w : c >= k}}

IsPowerOfTwo(x) == x \cap Decrement(x) = {} /\ x # {}

(* Mutation: the shifts reach over an int only.                            *)
UpperPowerOfTwoOfInt(x) ==
    LET or(y, k) == y \cup ShiftRight(y, k)
    IN  Increment(FoldLeft(or, Decrement(x), <<1, 2, 4, 8, 16>>))

(* Every bit below the highest one of x - 1 is set, then 1 is added.       *)
UpperPowerOfTwo(x) ==
    LET or(y, k) == y \cup ShiftRight(y, k)
    IN  Increment(FoldLeft(or, Decrement(x), <<1, 2, 4, 8, 16, 32>>))

(* __builtin_ctz looks at an int's bits; of none of them its answer is     *)
(* undefined.                                                              *)
GetPowerOfTwo(num) == Min({b \in num : b < INT})

(* The 1 that is shifted is an int, which is sign-extended; a shift by INT *)
(* or more is undefined.                                                   *)
ElevatePowerOfTwo(exp) == IF exp = INT - 1 THEN exp .. BITS - 1 ELSE {exp}

=============================================================================
