------------------------------- MODULE Buffers -------------------------------
(***************************************************************************)
(* What the writing functions of string.cpp promise of the bytes of a      *)
(* buffer: a copy is what the source held before, also where the two       *)
(* overlap, and nothing else changes; and the tokens of a string come in   *)
(* its order, each one as long as it can be, the delimiters of each call   *)
(* taken away.                                                             *)
(***************************************************************************)
EXTENDS Integers, Sequences

VARIABLES bytes,            \* the buffer, a function from addresses
          rest,             \* what Strtok has still to look at
          token,            \* what it returned last, <<>> for NULL
          call              \* the call, or none

(* The sequence of the bytes from p on up to the first 0.                  *)
StringAt(p) ==
    LET end == CHOOSE k \in DOMAIN bytes :
                 k >= p /\ bytes[k] = 0 /\ \A j \in p .. k - 1 : bytes[j] # 0
    IN  [i \in 1 .. end - p |-> bytes[p + i - 1]]

Copy(dest, src, n) ==
    /\ bytes' = [a \in DOMAIN bytes |->
                   IF a \in dest .. dest + n - 1 THEN bytes[src + a - dest] ELSE bytes[a]]
    /\ UNCHANGED <<rest, token>>

(* With its 0 if that is among the first n bytes.                          *)
CopyString(dest, src, n) ==
    LET size == Len(StringAt(src)) + 1
    IN  Copy(dest, src, IF size < n THEN size ELSE n)

Fill(start, value, n) ==
    /\ bytes' = [a \in DOMAIN bytes |-> IF a \in start .. start + n - 1 THEN value ELSE bytes[a]]
    /\ UNCHANGED <<rest, token>>

(* The next token of the string that begins at p.  The delimiter right     *)
(* behind it becomes its 0 and is skipped; nothing else changes.           *)
Token(p, string, delims) ==
    LET skipped == CHOOSE k \in 0 .. Len(string) :
                     /\ \A i \in 1 .. k : string[i] \in delims
                     /\ k < Len(string) => string[k + 1] \notin delims
        length == CHOOSE l \in 0 .. Len(string) - skipped :
                    /\ \A i \in 1 .. l : string[skipped + i] \notin delims
                    /\ skipped + l < Len(string) => string[skipped + l + 1] \in delims
        end == p + skipped + length
    IN  /\ token' = SubSeq(string, skipped + 1, skipped + length)
        /\ rest' = SubSeq(string, skipped + length + 2, Len(string))
        /\ bytes' = IF length = 0 THEN bytes ELSE [bytes EXCEPT ![end] = 0]

Next ==
    LET c == call'
    IN  \/ c.op \in {"Memcpy", "Memmove"} /\ Copy(c.dest, c.src, c.n)
        \/ c.op = "Strncpy" /\ CopyString(c.dest, c.src, c.n)
        \/ c.op = "Memset" /\ Fill(c.dest, c.value, c.n)
        \/ c.op = "Strtok" /\ Token(c.src, IF c.continued THEN rest ELSE StringAt(c.src), c.delims)
        \/ c.op \in {"PrintK", "None"} /\ UNCHANGED <<bytes, rest, token>>

Spec == [][Next]_<<bytes, rest, token, call>>

=============================================================================
