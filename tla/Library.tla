------------------------------- MODULE Library -------------------------------
(***************************************************************************)
(* Clients of string.cpp and printk.cpp: one that copies, fills and takes  *)
(* apart the strings in a buffer, in any order, and one that prints.       *)
(*                                                                         *)
(* The buffer begins at address 0 and ends with a NUL nobody overwrites;   *)
(* the strings of delimiters lie behind it.  A client that takes a string  *)
(* apart writes nothing before Strtok has answered NULL.                   *)
(***************************************************************************)
EXTENDS Strings, Powers

CONSTANTS Size,             \* bytes of the buffer
          Chars,            \* what is written to it
          Delimiters,       \* the strings of delimiters, each with its NUL
          Messages          \* what is printed: [level, format, args]

VARIABLES mem,
          savePtr,          \* of the string being taken apart
          token,            \* what Strtok has returned, a pointer
          call              \* the call that is about to return, and its arguments

vars == <<mem, savePtr, token, call>>

Buffer == 0 .. Size - 1

(* The strings of delimiters, one after the other.                         *)
RoData == FlattenSeq(SetToSeq(Delimiters))

Memory(buffer) ==
    [a \in 0 .. Size + Len(RoData) - 1 |->
        IF a \in Buffer THEN buffer[a] ELSE RoData[a - Size + 1]]

DelimiterStrings ==
    {a \in Size .. Size + Len(RoData) - 1 : a = Size \/ RoData[a - Size] = NUL}

Init ==
    /\ mem = Memory([a \in Buffer |-> NUL])
    /\ savePtr = Size - 1
    /\ token = NULL
    /\ call = [op |-> "None"]

Idle == call.op = "None"

Write(after, c) ==
    /\ Idle /\ token = NULL
    /\ mem' = after
    /\ call' = c
    /\ UNCHANGED <<savePtr, token>>

Fits(address, n) == address + n <= Size - 1

(* Copies in ascending order: the source must not be overwritten before    *)
(* it is read.                                                             *)
CallMemcpy(dest, src, n) ==
    /\ Fits(dest, n) /\ src + n <= Size
    /\ dest <= src \/ src + n <= dest
    /\ Write(Memcpy(mem, dest, src, n), [op |-> "Memcpy", dest |-> dest, src |-> src, n |-> n])

CallMemmove(dest, src, n) ==
    /\ Fits(dest, n) /\ src + n <= Size
    /\ Write(Memmove(mem, dest, src, n), [op |-> "Memmove", dest |-> dest, src |-> src, n |-> n])

CallStrncpy(dest, src, n) ==
    /\ Fits(dest, n)
    /\ dest <= src \/ src + Strnlen(mem, src, Size) < dest
    /\ Write(Strncpy(mem, dest, src, n), [op |-> "Strncpy", dest |-> dest, src |-> src, n |-> n])

CallMemset(start, value, n) ==
    /\ Fits(start, n)
    /\ Write(Memset(mem, start, value, n),
             [op |-> "Memset", dest |-> start, value |-> value, n |-> n])

CallStrtok(string, delim) ==
    LET result == Strtok(mem, string, delim, savePtr)
    IN  /\ Idle
        /\ string = NULL <=> token # NULL
        /\ mem' = result.mem
        /\ token' = result.token
        /\ savePtr' = IF result.token = NULL THEN Size - 1 ELSE result.savePtr
        /\ call' = [op |-> "Strtok", continued |-> string = NULL,
                    src |-> IF string = NULL THEN savePtr ELSE string,
                    delims |-> {c \in Chars : IsDelim(mem, c, delim)}]

CallPrintK(message) ==
    /\ Idle /\ token = NULL
    /\ call' = [op |-> "PrintK", message |-> message,
                out |-> PrintK(message.level, message.format, message.args)]
    /\ UNCHANGED <<mem, savePtr, token>>

Return ==
    /\ ~Idle
    /\ call' = [op |-> "None"]
    /\ UNCHANGED <<mem, savePtr, token>>

Next ==
    \/ \E dest, src \in Buffer, n \in 0 .. Size :
         CallMemcpy(dest, src, n) \/ CallMemmove(dest, src, n) \/ CallStrncpy(dest, src, n)
    \/ \E start \in Buffer, value \in Chars, n \in 0 .. Size : CallMemset(start, value, n)
    \/ \E string \in Buffer \cup {NULL}, delim \in DelimiterStrings : CallStrtok(string, delim)
    \/ \E message \in Messages : CallPrintK(message)
    \/ Return

Spec == Init /\ [][Next]_vars

-----------------------------------------------------------------------------

(* The string at p, or nothing.                                            *)
Text(p) ==
    IF p = NULL THEN <<>>
    ELSE LET end == CHOOSE k \in p .. Size - 1 :
                      mem[k] = NUL /\ \A j \in p .. k - 1 : mem[j] # NUL
         IN  [i \in 1 .. end - p |-> mem[p + i - 1]]

Client == INSTANCE Buffers WITH
    bytes <- [a \in Buffer |-> mem[a]],
    rest <- IF token = NULL THEN <<>> ELSE Text(savePtr),
    token <- Text(token)

(* The functions that write keep the promises of module Buffers, for every *)
(* pair of overlapping buffers, for strings cut off at every length, and   *)
(* for delimiters that change from one call of Strtok to the next.         *)
ImplementsBuffers == Client!Spec

(* The order of two strings or buffers: 0 if they are the same, else the   *)
(* sign of the difference where they differ first, an end being smallest.  *)
Order(s, t) ==
    LET same == {k \in 0 .. Min({Len(s), Len(t)}) : SubSeq(s, 1, k) = SubSeq(t, 1, k)}
        k == Max(same) + 1
    IN  IF s = t THEN 0
        ELSE IF k > Len(s) THEN -1
        ELSE IF k > Len(t) THEN 1
        ELSE IF s[k] < t[k] THEN -1 ELSE 1

Sign(n) == IF n < 0 THEN -1 ELSE IF n > 0 THEN 1 ELSE 0

Bytes(p, n) == [i \in 1 .. n |-> mem[p + i - 1]]

(* The words of a line, which ends with a space.                           *)
Space == 32
FirstWord(line) == SubSeq(line, 1, SelectInSeq(line, LAMBDA c : c = Space) - 1)
Others(line) == SubSeq(line, Len(FirstWord(line)) + 2, Len(line))

(* Words with two bits at most and their neighbours: every edge at which a *)
(* borrow, a carry or a shift begins or ends.                              *)
Words ==
    LET sparse == {{}} \cup {{a, b} : a, b \in Bits}
    IN  sparse \cup {Decrement(w) : w \in sparse} \cup {Increment(w) : w \in sparse}

(* Powers of two are recognised; the next one is found as long as it is a  *)
(* number, and above the last one the answer is 0.  The generic code asks  *)
(* for the exponent of a power it has rounded up to (memory.cpp:112-113):  *)
(* as long as that fits an unsigned int the two undo each other, and a     *)
(* power is made of its exponent as long as it is a positive int.  For     *)
(* POW, the answer is the power modulo the width.                          *)
PowersAreTrue ==
    /\ \A x \in Words :
         LET above == {k \in Bits : x \subseteq 0 .. k - 1 \/ x = {k}}
             upper == IF above = {} THEN {} ELSE {Min(above)}
         IN  /\ IsPowerOfTwo(x) <=> \E k \in Bits : x = {k}
             /\ x # {} => UpperPowerOfTwo(x) = upper
             /\ x # {} /\ upper # {} /\ upper \subseteq 0 .. INT - 1 =>
                  upper = {GetPowerOfTwo(UpperPowerOfTwo(x))}
    /\ \A k \in 0 .. INT - 2 : ElevatePowerOfTwo(k) = {k}
    /\ \A n \in 1 .. 2 ^ WIDTH - 1, p \in 0 .. 4 : POW(n, p) = Unsigned(n ^ p)

(* What the functions answer is true of the words and of the strings: the  *)
(* powers of two, lengths, spans and orders, where Strncmp sees the end of *)
(* one of the two or a difference, as it does in the names of sections.    *)
(* And a number that is printed, in base 10 or 16, is read back as the     *)
(* same number, its sign apart, unless the message has no format of its    *)
(* own.                                                                    *)
AnswersAreTrue ==
    /\ PowersAreTrue
    /\ \A p \in Buffer, n \in 0 .. Size :
         Strnlen(mem, p, n) = Min({Len(Text(p)), n})
    /\ \A p, q \in Buffer, n \in 0 .. Size :
         LET s == Text(p)
             t == Text(q)
         IN  /\ (\/ Min({Len(s), Len(t)}) < n
                 \/ SubSeq(s, 1, n) # SubSeq(t, 1, n)) => Strncmp(mem, p, q, n) = Order(s, t)
             /\ Max({p, q}) + n <= Size =>
                  Sign(Memcmp(mem, p, q, n)) = Order(Bytes(p, n), Bytes(q, n))
    /\ \A p \in Buffer, d \in DelimiterStrings :
         LET s == Text(p)
             in == {i \in DOMAIN s : IsDelim(mem, s[i], d)}
         IN  /\ Strspn(mem, p, d) = Min((1 .. Len(s) + 1) \ in) - 1
             /\ Strcspn(mem, p, d) = Min(in \cup {Len(s) + 1}) - 1
    /\ (call.op = "PrintK" /\ call.message.level \in Levels \ {"NUL"}) =>
         LET d == call.message.args[1]
             decimal == FirstWord(Others(call.out))
         IN  /\ Atoi(FirstWord(call.out)) = d
             /\ IF d < 0 THEN decimal[1] = Minus /\ Signed(-Atoi(Tail(decimal))) = d
                ELSE Atoi(decimal) = d

=============================================================================
