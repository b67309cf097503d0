------------------------------- MODULE Strings -------------------------------
(***************************************************************************)
(* The functions on memory and strings of src/generic/string.cpp, and the  *)
(* formatting of src/generic/printk.cpp.                                   *)
(*                                                                         *)
(* mem is a function from addresses to characters, which are their codes;  *)
(* a function that writes returns the memory it leaves.  What is formatted *)
(* is a sequence of characters, and an integer has WIDTH bits.             *)
(***************************************************************************)
EXTENDS Integers, Sequences, SequencesExt

CONSTANTS NULL,             \* the pointer to nothing
          WIDTH             \* bits of a long long int

ASSUME WidthAssumption == WIDTH \in Nat \ {0, 1}

NUL == 0
Percent == 37
Minus == 45
Zero == 48
UpperA == 65
LowerA == 97
Lowerx == 120

Unsigned(d) == d % (2 ^ WIDTH)

Signed(u) ==
    IF Unsigned(u) < 2 ^ (WIDTH - 1) THEN Unsigned(u) ELSE Unsigned(u) - (2 ^ WIDTH)

-----------------------------------------------------------------------------

RECURSIVE Strnlen(_, _, _)
Strnlen(mem, str, maxLength) ==
    IF maxLength = 0 \/ mem[str] = NUL THEN 0
    ELSE 1 + Strnlen(mem, str + 1, maxLength - 1)

RECURSIVE Strncpy(_, _, _, _)
Strncpy(mem, dest, src, maxLength) ==
    IF maxLength = 0 \/ NULL \in {dest, src} THEN mem
    ELSE LET copied == [mem EXCEPT ![dest] = mem[src]]
         IN  IF mem[src] = NUL THEN copied
             ELSE Strncpy(copied, dest + 1, src + 1, maxLength - 1)

(* Mutation: the end of the second string is not looked at.                *)
RECURSIVE StrncmpOfPrefix(_, _, _, _)
StrncmpOfPrefix(mem, first, second, maxLength) ==
    IF maxLength = 0 \/ mem[first] = NUL THEN 0
    ELSE IF mem[second] > mem[first] THEN -1
    ELSE IF mem[first] > mem[second] THEN 1
    ELSE StrncmpOfPrefix(mem, first + 1, second + 1, maxLength - 1)

(* After maxLength equal characters the next one of second decides.        *)
RECURSIVE Strncmp(_, _, _, _)
Strncmp(mem, first, second, maxLength) ==
    IF maxLength = 0 \/ mem[first] = NUL
    THEN IF mem[second] # NUL THEN -1 ELSE 0
    ELSE IF mem[second] > mem[first] THEN -1
    ELSE IF mem[first] > mem[second] THEN 1
    ELSE Strncmp(mem, first + 1, second + 1, maxLength - 1)

RECURSIVE IsDelim(_, _, _)
IsDelim(mem, c, delim) ==
    mem[delim] # NUL /\ (c = mem[delim] \/ IsDelim(mem, c, delim + 1))

RECURSIVE Strcspn(_, _, _)
Strcspn(mem, s1, s2) ==
    IF mem[s1] = NUL \/ IsDelim(mem, mem[s1], s2) THEN 0
    ELSE 1 + Strcspn(mem, s1 + 1, s2)

RECURSIVE Strspn(_, _, _)
Strspn(mem, s1, s2) ==
    IF mem[s1] = NUL \/ ~IsDelim(mem, mem[s1], s2) THEN 0
    ELSE 1 + Strspn(mem, s1 + 1, s2)

(* string NULL means: go on where the call before it left off.             *)
Strtok(mem, string, delim, savePtr) ==
    LET from == IF string = NULL THEN savePtr ELSE string
        start == from + Strspn(mem, from, delim)
        end == start + Strcspn(mem, start, delim)
    IN  IF mem[start] = NUL THEN [mem |-> mem, token |-> NULL, savePtr |-> start]
        ELSE IF mem[end] = NUL THEN [mem |-> mem, token |-> start, savePtr |-> end]
        ELSE [mem |-> [mem EXCEPT ![end] = NUL], token |-> start, savePtr |-> end + 1]

RECURSIVE Memcmp(_, _, _, _)
Memcmp(mem, buf1, buf2, count) ==
    IF count = 0 THEN 0
    ELSE IF count = 1 \/ mem[buf1] # mem[buf2] THEN mem[buf1] - mem[buf2]
    ELSE Memcmp(mem, buf1 + 1, buf2 + 1, count - 1)

(* The bytes offset .. n - 1, in this order.                               *)
RECURSIVE CopyUp(_, _, _, _, _)
CopyUp(mem, dest, src, offset, n) ==
    IF offset = n THEN mem
    ELSE CopyUp([mem EXCEPT ![dest + offset] = mem[src + offset]], dest, src, offset + 1, n)

(* The bytes n - 1 .. 0, in this order.                                    *)
RECURSIVE CopyDown(_, _, _, _)
CopyDown(mem, dest, src, n) ==
    IF n = 0 THEN mem
    ELSE CopyDown([mem EXCEPT ![dest + n - 1] = mem[src + n - 1]], dest, src, n - 1)

Memcpy(mem, dest, src, n) == CopyUp(mem, dest, src, 0, n)

(* Mutation: the order does not depend on where the buffers are.           *)
MemmoveUp(mem, dest, src, n) == Memcpy(mem, dest, src, n)

Memmove(mem, dest, src, n) ==
    IF src > dest THEN CopyUp(mem, dest, src, 0, n)
    ELSE IF src < dest THEN CopyDown(mem, dest, src, n)
    ELSE mem

Memset(mem, start, value, num) ==
    [a \in DOMAIN mem |-> IF a \in start .. start + num - 1 THEN value ELSE mem[a]]

-----------------------------------------------------------------------------

(* The digits of ud, the lowest first: do ... while (ud /= divisor).       *)
RECURSIVE Digits(_, _)
Digits(ud, divisor) ==
    LET remainder == ud % divisor
        digit == IF remainder < 10 THEN remainder + Zero ELSE remainder + UpperA - 10
    IN  <<digit>> \o (IF ud \div divisor = 0 THEN <<>> ELSE Digits(ud \div divisor, divisor))

(* A negative number has a sign in base 'd' only.                          *)
Itoa(base, d) ==
    IF base = "d" /\ d < 0 THEN <<Minus>> \o Reverse(Digits(Unsigned(-d), 10))
    ELSE Reverse(Digits(Unsigned(d), IF base = "x" THEN 16 ELSE 10))

(* The value of a character, digit or not.                                 *)
DigitValue(c, base) ==
    IF base = 16 /\ c \in UpperA .. UpperA + 5 THEN c - UpperA + 10
    ELSE IF base = 16 /\ c \in LowerA .. LowerA + 5 THEN c - LowerA + 10
    ELSE c - Zero

(* "0x" in front means base 16; a sign means nothing.                      *)
Atoi(str) ==
    LET hexadecimal == Len(str) >= 2 /\ str[1] = Zero /\ str[2] = Lowerx
        base == IF hexadecimal THEN 16 ELSE 10
        digits == IF hexadecimal THEN SubSeq(str, 3, Len(str)) ELSE str
    IN  FoldLeft(LAMBDA res, c : Signed((res * base) + DigitValue(c, base)), 0, digits)

(* A format is a sequence of pairs, <<"%", letter>> for a conversion and   *)
(* <<"char", c>> for itself.  An unknown letter prints nothing and takes   *)
(* no argument.                                                            *)
Conversion(letter, arg) ==
    CASE letter = "s" -> arg
      [] letter \in {"d", "u"} -> Itoa("d", arg)
      [] letter = "x" -> Itoa("x", arg)
      [] letter = "c" -> <<arg>>

RECURSIVE VPrintK(_, _)
VPrintK(format, ap) ==
    IF format = <<>> THEN <<>>
    ELSE LET kind == Head(format)[1]
             value == Head(format)[2]
             rest == Tail(format)
         IN  IF kind = "char" THEN <<value>> \o VPrintK(rest, ap)
             ELSE IF value = "%" THEN <<Percent>> \o VPrintK(rest, ap)
             ELSE IF value \in {"s", "d", "u", "x", "c"}
                  THEN Conversion(value, Head(ap)) \o VPrintK(rest, Tail(ap))
             ELSE VPrintK(rest, ap)

(* Only messages that begin with SOH and one of these levels are printed:  *)
(* not those of PRINTK_NORMAL, "4".  "NUL" is the end of the string: the   *)
(* format of such a message is what lies behind it in memory.              *)
Levels == {"0", "1", "2", "3", "5", "6", "c", "NUL"}

PrintK(level, format, ap) == IF level \in Levels THEN VPrintK(format, ap) ELSE <<>>

-----------------------------------------------------------------------------

RECURSIVE POW(_, _)
POW(num, pow) == IF pow = 0 THEN Unsigned(1) ELSE Unsigned(num * POW(num, pow - 1))

=============================================================================
