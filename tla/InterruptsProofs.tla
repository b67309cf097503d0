--------------------------- MODULE InterruptsProofs ---------------------------
(***************************************************************************)
(* An interruption is invisible to what it interrupts, also when it is     *)
(* interrupted itself: proofs of the properties of module Interrupts for   *)
(* every set of vectors and contexts and every depth.                      *)
(*                                                                         *)
(* The argument gives every instruction of a stub a phase, 1 to 34, which  *)
(* fixes how deep the stack is there, which cells of it lie in use and     *)
(* which registers hold again what the interrupted code had in them.       *)
(***************************************************************************)
EXTENDS Interrupts, TLAPS

-----------------------------------------------------------------------------
(* The code of the stubs.                                                  *)

(* The instruction of each phase, for a stub that has them all.            *)
Instruction(v, s) ==
    IF s = 1 THEN [op |-> "push", value |-> <<"number", 0>>]
    ELSE IF s = 2 THEN [op |-> "push", value |-> <<"number", v>>]
    ELSE IF s \in 3 .. 16 THEN [op |-> "pushreg", reg |-> PushOrder[s - 2]]
    ELSE IF s = 17 THEN [op |-> "call"]
    ELSE IF s = 18 THEN [op |-> "mov"]
    ELSE IF s \in 19 .. 32 THEN [op |-> "pop", reg |-> PopOrder[s - 18]]
    ELSE IF s = 33 THEN [op |-> "add"]
    ELSE [op |-> "iret"]

Phase(a) ==
    IF a.code = "load" THEN a.n + 18
    ELSE IF a.vector \in ErrStubs THEN a.n + 1 ELSE a.n

(* c is s followed by t.                                                   *)
Joined(S, s, t, c) ==
    /\ c \in Seq(S) /\ Len(c) = Len(s) + Len(t)
    /\ \A i \in 1 .. Len(s) : c[i] = s[i]
    /\ \A i \in 1 .. Len(t) : c[Len(s) + i] = t[i]

(* A concatenation holds the one sequence and then the other.              *)
LEMMA Concatenation ==
    ASSUME NEW S, NEW s \in Seq(S), NEW t \in Seq(S)
    PROVE  Joined(S, s, t, s \o t)
  BY DEF Joined

(* The sequences of up to two elements.                                    *)
LEMMA ShortSequences ==
    ASSUME NEW S, NEW a \in S, NEW b \in S
    PROVE  /\ <<a>> \in Seq(S) /\ Len(<<a>>) = 1 /\ <<a>>[1] = a
           /\ <<a, b>> \in Seq(S) /\ Len(<<a, b>>) = 2
           /\ <<a, b>>[1] = a /\ <<a, b>>[2] = b
           /\ <<>> \in Seq(S) /\ Len(<<>>) = 0
  OBVIOUS

(* A function on 1 .. 14 is a sequence: the pushes and the pops of a       *)
(* stub.                                                                   *)
LEMMA LongSequence ==
    ASSUME NEW S, NEW e(_), \A k \in 1 .. 14 : e(k) \in S
    PROVE  /\ [k \in 1 .. 14 |-> e(k)] \in Seq(S)
           /\ Len([k \in 1 .. 14 |-> e(k)]) = 14
  OBVIOUS

(* Pop order is push order read backwards, and each names every register.  *)
LEMMA Orders ==
    /\ DOMAIN PushOrder = 1 .. 14 /\ DOMAIN PopOrder = 1 .. 14
    /\ Len(PushOrder) = 14
    /\ \A k \in 1 .. 14 : PopOrder[k] = PushOrder[15 - k]
    /\ Registers = {PushOrder[k] : k \in 1 .. 14}
    /\ Registers = {PopOrder[k] : k \in 1 .. 14}
    /\ PopOrder[12] = "RAX"
<1>1. /\ DOMAIN PushOrder = 1 .. 14 /\ DOMAIN PopOrder = 1 .. 14 /\ Len(PushOrder) = 14
      /\ PopOrder[12] = "RAX"
  BY DEF PushOrder, PopOrder
<1>2. \A k \in 1 .. 14 : PopOrder[k] = PushOrder[15 - k]
  BY DEF PushOrder, PopOrder
<1>3. Registers = {PushOrder[k] : k \in 1 .. 14}
  BY <1>1 DEF Registers, ToSet
<1>4. Registers = {PopOrder[k] : k \in 1 .. 14}
  <2>1. \A k \in 1 .. 14 : 15 - k \in 1 .. 14 /\ PushOrder[k] = PopOrder[15 - k]
    BY <1>2
  <2> QED
    BY <1>2, <1>3, <2>1
<1> QED
  BY <1>1, <1>2, <1>3, <1>4

(* The instruction of each phase, one by one.                              *)
LEMMA Instructions ==
    ASSUME NEW v
    PROVE  /\ Instruction(v, 1) = [op |-> "push", value |-> <<"number", 0>>]
           /\ Instruction(v, 2) = [op |-> "push", value |-> <<"number", v>>]
           /\ \A k \in 1 .. 14 : Instruction(v, k + 2) = [op |-> "pushreg", reg |-> PushOrder[k]]
           /\ Instruction(v, 17) = [op |-> "call"]
           /\ Instruction(v, 18) = [op |-> "mov"]
           /\ \A k \in 1 .. 14 : Instruction(v, k + 18) = [op |-> "pop", reg |-> PopOrder[k]]
           /\ Instruction(v, 33) = [op |-> "add"]
           /\ Instruction(v, 34) = [op |-> "iret"]
<1>1. ASSUME NEW k \in 1 .. 14
      PROVE  Instruction(v, k + 2) = [op |-> "pushreg", reg |-> PushOrder[k]]
  <2>1. k + 2 # 1 /\ k + 2 # 2 /\ k + 2 \in 3 .. 16 /\ (k + 2) - 2 = k
    OBVIOUS
  <2> QED
    BY <2>1 DEF Instruction
<1>2. ASSUME NEW k \in 1 .. 14
      PROVE  Instruction(v, k + 18) = [op |-> "pop", reg |-> PopOrder[k]]
  <2>1. /\ k + 18 # 1 /\ k + 18 # 2 /\ k + 18 \notin 3 .. 16 /\ k + 18 # 17 /\ k + 18 # 18
        /\ k + 18 \in 19 .. 32 /\ (k + 18) - 18 = k
    OBVIOUS
  <2> QED
    BY <2>1 DEF Instruction
<1>3. /\ 17 \notin 3 .. 16 /\ 18 \notin 3 .. 16 /\ 33 \notin 3 .. 16 /\ 34 \notin 3 .. 16
      /\ 33 \notin 19 .. 32 /\ 34 \notin 19 .. 32
  OBVIOUS
<1> QED
  BY <1>1, <1>2, <1>3 DEF Instruction

(* The pieces the code is put together from.                               *)
Pushes == [k \in DOMAIN PushOrder |-> [op |-> "pushreg", reg |-> PushOrder[k]]]
Calls == <<[op |-> "call"], [op |-> "mov"]>>
Pops == [k \in DOMAIN PopOrder |-> [op |-> "pop", reg |-> PopOrder[k]]]
Ends == <<[op |-> "add"], [op |-> "iret"]>>

StubInstructions(v) == {Instruction(v, s) : s \in 1 .. 34}

(* The parts a stub is put together from.                                  *)
LEMMA Pieces ==
    ASSUME NEW v
    PROVE  /\ Pushes \in Seq(StubInstructions(v)) /\ Len(Pushes) = 14
           /\ \A k \in 1 .. 14 : Pushes[k] = Instruction(v, k + 2)
           /\ Calls \in Seq(StubInstructions(v)) /\ Len(Calls) = 2
           /\ Calls[1] = Instruction(v, 17) /\ Calls[2] = Instruction(v, 18)
           /\ Pops \in Seq(StubInstructions(v)) /\ Len(Pops) = 14
           /\ \A k \in 1 .. 14 : Pops[k] = Instruction(v, k + 18)
           /\ Ends \in Seq(StubInstructions(v)) /\ Len(Ends) = 2
           /\ Ends[1] = Instruction(v, 33) /\ Ends[2] = Instruction(v, 34)
<1>1. \A s \in 1 .. 34 : Instruction(v, s) \in StubInstructions(v)
  BY DEF StubInstructions
<1>2. /\ [op |-> "call"] \in StubInstructions(v) /\ [op |-> "mov"] \in StubInstructions(v)
      /\ [op |-> "add"] \in StubInstructions(v) /\ [op |-> "iret"] \in StubInstructions(v)
  <2>1. /\ Instruction(v, 17) \in StubInstructions(v) /\ Instruction(v, 18) \in StubInstructions(v)
        /\ Instruction(v, 33) \in StubInstructions(v) /\ Instruction(v, 34) \in StubInstructions(v)
    BY <1>1
  <2>2. /\ Instruction(v, 17) = [op |-> "call"] /\ Instruction(v, 18) = [op |-> "mov"]
        /\ Instruction(v, 33) = [op |-> "add"] /\ Instruction(v, 34) = [op |-> "iret"]
    BY Instructions
  <2> QED
    BY <2>1, <2>2
<1>3. /\ Calls \in Seq(StubInstructions(v)) /\ Len(Calls) = 2
      /\ Calls[1] = Instruction(v, 17) /\ Calls[2] = Instruction(v, 18)
  BY <1>2, ShortSequences, Instructions DEF Calls
<1>4. /\ Ends \in Seq(StubInstructions(v)) /\ Len(Ends) = 2
      /\ Ends[1] = Instruction(v, 33) /\ Ends[2] = Instruction(v, 34)
  BY <1>2, ShortSequences, Instructions DEF Ends
<1>5. /\ Pushes \in Seq(StubInstructions(v)) /\ Len(Pushes) = 14
      /\ \A k \in 1 .. 14 : Pushes[k] = Instruction(v, k + 2)
  <2> DEFINE e(k) == Instruction(v, k + 2)
  <2>1. Pushes = [k \in 1 .. 14 |-> e(k)]
    BY Orders, Instructions DEF Pushes
  <2>2. \A k \in 1 .. 14 : e(k) \in StubInstructions(v)
    BY <1>1
  <2>3. \A k \in 1 .. 14 : Pushes[k] = Instruction(v, k + 2)
    BY <2>1
  <2> HIDE DEF e
  <2>4. [k \in 1 .. 14 |-> e(k)] \in Seq(StubInstructions(v)) /\ Len([k \in 1 .. 14 |-> e(k)]) = 14
    BY <2>2, LongSequence
  <2> QED
    BY <2>1, <2>3, <2>4
<1>6. /\ Pops \in Seq(StubInstructions(v)) /\ Len(Pops) = 14
      /\ \A k \in 1 .. 14 : Pops[k] = Instruction(v, k + 18)
  <2> DEFINE e(k) == Instruction(v, k + 18)
  <2>1. Pops = [k \in 1 .. 14 |-> e(k)]
    BY Orders, Instructions DEF Pops
  <2>2. \A k \in 1 .. 14 : e(k) \in StubInstructions(v)
    BY <1>1
  <2>3. \A k \in 1 .. 14 : Pops[k] = Instruction(v, k + 18)
    BY <2>1
  <2> HIDE DEF e
  <2>4. [k \in 1 .. 14 |-> e(k)] \in Seq(StubInstructions(v)) /\ Len([k \in 1 .. 14 |-> e(k)]) = 14
    BY <2>2, LongSequence
  <2> QED
    BY <2>1, <2>3, <2>4
<1> QED
  BY <1>3, <1>4, <1>5, <1>6

(* LoadSchedulerContext ends as a stub does, from phase 19 on.             *)
LEMMA LoadCodeIs ==
    ASSUME NEW v
    PROVE  \A n \in 1 .. 16 : LoadCode[n] = Instruction(v, n + 18)
<1>1. LoadCode = Pops \o Ends
  BY DEF LoadCode, Pops, Ends
<1>2. /\ \A i \in 1 .. 14 : LoadCode[i] = Pops[i]
      /\ \A i \in 1 .. 2 : LoadCode[14 + i] = Ends[i]
  <2>1. /\ Pops \in Seq(StubInstructions(v)) /\ Len(Pops) = 14
        /\ Ends \in Seq(StubInstructions(v)) /\ Len(Ends) = 2
    BY Pieces
  <2>2. Joined(StubInstructions(v), Pops, Ends, LoadCode)
    BY <1>1, <2>1, Concatenation
  <2> QED
    BY <2>1, <2>2 DEF Joined
<1>3. LoadCode[15] = Ends[1] /\ LoadCode[16] = Ends[2]
  BY <1>2, 14 + 1 = 15, 14 + 2 = 16
<1> QED
  <2>1. ASSUME NEW n \in 1 .. 16 PROVE LoadCode[n] = Instruction(v, n + 18)
    <3>1. CASE n \in 1 .. 14
      BY <3>1, <1>2, Pieces
    <3>2. CASE n = 15
      BY <3>2, <1>3, Pieces
    <3>3. CASE n = 16
      BY <3>3, <1>3, Pieces
    <3> QED
      BY <3>1, <3>2, <3>3
  <2> QED
    BY <2>1

(* The n-th instruction of a stub is that of phase n, of phase n + 1 in    *)
(* the stub of a vector whose error code the processor pushes.             *)
LEMMA StubIs ==
    ASSUME NEW v, NEW s \in 1 .. 34, NEW n, n >= 1,
           n = IF v \in ErrStubs THEN s - 1 ELSE s
    PROVE  Stub(v)[n] = Instruction(v, s)
<1> DEFINE S == StubInstructions(v)
           first == IF v \in ErrStubs THEN <<>> ELSE <<[op |-> "push", value |-> <<"number", 0>>]>>
           vector == <<[op |-> "push", value |-> <<"number", v>>]>>
           N == IF v \in ErrStubs THEN 0 ELSE 1
           a == first \o vector
           b == a \o Pushes
           c == b \o Calls
           d == c \o Pops
<1>1. Stub(v) = d \o Ends
  BY DEF Stub, Pushes, Calls, Pops, Ends
<1>2. Instruction(v, 1) \in S /\ Instruction(v, 2) \in S
  BY DEF StubInstructions
<1>3. vector \in Seq(S) /\ Len(vector) = 1 /\ vector[1] = Instruction(v, 2)
  BY <1>2, Instructions, ShortSequences
<1>4. /\ first \in Seq(S) /\ Len(first) = N
      /\ N = 1 => first[1] = Instruction(v, 1)
  <2>1. CASE v \in ErrStubs
    BY <1>2, <2>1, ShortSequences
  <2>2. CASE v \notin ErrStubs
    BY <1>2, <2>2, Instructions, ShortSequences
  <2> QED
    BY <2>1, <2>2
<1>5. N \in 0 .. 1 /\ (N = 0 <=> v \in ErrStubs)
  OBVIOUS
<1>p. /\ Pushes \in Seq(S) /\ Len(Pushes) = 14 /\ Calls \in Seq(S) /\ Len(Calls) = 2
      /\ Pops \in Seq(S) /\ Len(Pops) = 14 /\ Ends \in Seq(S) /\ Len(Ends) = 2
  BY Pieces
<1> HIDE DEF S, first, vector, N
<1>6. /\ a \in Seq(S) /\ Len(a) = N + 1
      /\ \A i \in 1 .. N : a[i] = first[i]
      /\ \A i \in 1 .. 1 : a[N + i] = vector[i]
  <2>1. Joined(S, first, vector, a)
    BY <1>3, <1>4, Concatenation
  <2> HIDE DEF a
  <2> QED
    BY <2>1, <1>3, <1>4, <1>5 DEF Joined
<1> HIDE DEF a
<1>7. /\ b \in Seq(S) /\ Len(b) = N + 15
      /\ \A i \in 1 .. N + 1 : b[i] = a[i]
      /\ \A i \in 1 .. 14 : b[N + 1 + i] = Pushes[i]
  <2>1. Joined(S, a, Pushes, b)
    BY <1>6, <1>p, Concatenation
  <2> HIDE DEF b
  <2> QED
    BY <1>5, <1>6, <1>p, <2>1 DEF Joined
<1> HIDE DEF b
<1>8. /\ c \in Seq(S) /\ Len(c) = N + 17
      /\ \A i \in 1 .. N + 15 : c[i] = b[i]
      /\ \A i \in 1 .. 2 : c[N + 15 + i] = Calls[i]
  <2>1. Joined(S, b, Calls, c)
    BY <1>7, <1>p, Concatenation
  <2> HIDE DEF c
  <2> QED
    BY <1>5, <1>7, <1>p, <2>1 DEF Joined
<1> HIDE DEF c
<1>9. /\ d \in Seq(S) /\ Len(d) = N + 31
      /\ \A i \in 1 .. N + 17 : d[i] = c[i]
      /\ \A i \in 1 .. 14 : d[N + 17 + i] = Pops[i]
  <2>1. Joined(S, c, Pops, d)
    BY <1>8, <1>p, Concatenation
  <2> HIDE DEF d
  <2> QED
    BY <1>5, <1>8, <1>p, <2>1 DEF Joined
<1> HIDE DEF d
<1>10. /\ \A i \in 1 .. N + 31 : Stub(v)[i] = d[i]
       /\ \A i \in 1 .. 2 : Stub(v)[N + 31 + i] = Ends[i]
  <2>1. Joined(S, d, Ends, Stub(v))
    BY <1>1, <1>9, <1>p, Concatenation
  <2> QED
    BY <2>1, <1>5, <1>9, <1>p DEF Joined
<1>c. ASSUME NEW i \in 1 .. N + 17 PROVE Stub(v)[i] = c[i]
  <2>1. i \in 1 .. N + 31
    BY <1>5
  <2> QED
    BY <2>1, <1>9, <1>10
<1>b. ASSUME NEW i \in 1 .. N + 15 PROVE Stub(v)[i] = b[i]
  <2>1. i \in 1 .. N + 17
    BY <1>5
  <2> QED
    BY <2>1, <1>8, <1>c
<1>a. ASSUME NEW i \in 1 .. N + 1 PROVE Stub(v)[i] = a[i]
  <2>1. i \in 1 .. N + 15
    BY <1>5
  <2> QED
    BY <2>1, <1>7, <1>b
<1>11. n = s - 1 + N /\ n \in Int
  BY <1>5
<1>12. Stub(v)[n] = Instruction(v, s)
  <2>1. CASE s = 1
    <3>1. N = 1 /\ n = 1 /\ n \in 1 .. N + 1 /\ n \in 1 .. N
      BY <1>5, <1>11, <2>1
    <3>2. Stub(v)[n] = a[n] /\ a[n] = first[n]
      BY <3>1, <1>6, <1>a
    <3> QED
      BY <3>1, <3>2, <2>1, <1>4
  <2>2. CASE s = 2
    <3>1. n = N + 1 /\ n \in 1 .. N + 1
      BY <1>5, <1>11, <2>2
    <3>2. Stub(v)[n] = a[n] /\ a[N + 1] = vector[1]
      BY <3>1, <1>6, <1>a
    <3> QED
      BY <3>1, <3>2, <2>2, <1>3
  <2>3. CASE s \in 3 .. 16
    <3>1. PICK k \in 1 .. 14 : s = k + 2
      <4>1. s - 2 \in 1 .. 14 /\ s = (s - 2) + 2
        BY <2>3
      <4> QED
        BY <4>1
    <3>2. n = N + 1 + k /\ n \in 1 .. N + 15
      BY <1>5, <1>11, <3>1
    <3>3. Stub(v)[n] = b[n] /\ b[N + 1 + k] = Pushes[k]
      BY <3>2, <1>7, <1>b
    <3> QED
      BY <3>1, <3>2, <3>3, Pieces
  <2>4. CASE s \in {17, 18}
    <3>1. PICK k \in 1 .. 2 : s = k + 16
      <4>1. 17 = 1 + 16 /\ 18 = 2 + 16
        OBVIOUS
      <4> QED
        BY <2>4, <4>1
    <3>2. n = N + 15 + k /\ n \in 1 .. N + 17
      BY <1>5, <1>11, <3>1
    <3>3. Stub(v)[n] = c[n] /\ c[N + 15 + k] = Calls[k]
      BY <3>2, <1>8, <1>c
    <3>4. CASE s = 17
      <4>1. k = 1
        BY <3>1, <3>4
      <4> QED
        BY <3>2, <3>3, <3>4, <4>1, Pieces
    <3>5. CASE s = 18
      <4>1. k = 2
        BY <3>1, <3>5
      <4> QED
        BY <3>2, <3>3, <3>5, <4>1, Pieces
    <3> QED
      BY <2>4, <3>4, <3>5
  <2>5. CASE s \in 19 .. 32
    <3>1. PICK k \in 1 .. 14 : s = k + 18
      <4>1. s - 18 \in 1 .. 14 /\ s = (s - 18) + 18
        BY <2>5
      <4> QED
        BY <4>1
    <3>2. n = N + 17 + k /\ n \in 1 .. N + 31
      BY <1>5, <1>11, <3>1
    <3>3. Stub(v)[n] = d[n] /\ d[N + 17 + k] = Pops[k]
      BY <3>2, <1>9, <1>10
    <3> QED
      BY <3>1, <3>2, <3>3, Pieces
  <2>6. CASE s \in {33, 34}
    <3>1. PICK k \in 1 .. 2 : s = k + 32
      <4>1. 33 = 1 + 32 /\ 34 = 2 + 32
        OBVIOUS
      <4> QED
        BY <2>6, <4>1
    <3>2. n = N + 31 + k
      BY <1>5, <1>11, <3>1
    <3>3. Stub(v)[N + 31 + k] = Ends[k]
      BY <1>10
    <3>4. CASE s = 33
      <4>1. k = 1
        BY <3>1, <3>4
      <4> QED
        BY <3>2, <3>3, <3>4, <4>1, Pieces
    <3>5. CASE s = 34
      <4>1. k = 2
        BY <3>1, <3>5
      <4> QED
        BY <3>2, <3>3, <3>5, <4>1, Pieces
    <3> QED
      BY <2>6, <3>4, <3>5
  <2> QED
    BY <2>1, <2>2, <2>3, <2>4, <2>5, <2>6
<1> QED
  BY <1>12

-----------------------------------------------------------------------------
(* The descriptors lead to the stubs they are meant for.                   *)

(* The three pieces of a descriptor are the address it was set to.         *)
LEMMA DescriptorIsWhole ==
    ASSUME NEW isr \in Nat
    PROVE  Entry(IDTSetDescriptor(isr)) = isr
<1> DEFINE q == isr \div B
           h == q \div B
           l == isr % B
           m == q % B
<1>1. \A x \in Nat : x \div B \in Nat /\ x = (B * (x \div B)) + (x % B) /\ x % B \in Nat
  BY AddressesAssumption
<1>2. isr = (B * q) + l /\ q \in Nat /\ l \in Nat
  BY <1>1
<1>3. q = (B * h) + m /\ h \in Nat /\ m \in Nat
  BY <1>1, <1>2
<1>4. Entry(IDTSetDescriptor(isr)) = l + B * m + B * B * h
  BY DEF Entry, IDTSetDescriptor
<1> HIDE DEF q, h, l, m
<1>5. B * ((B * h) + m) = (B * B * h) + (B * m)
  BY <1>3, AddressesAssumption
<1>6. B * m \in Nat /\ B * B * h \in Nat
  BY <1>3, AddressesAssumption
<1> QED
  BY <1>2, <1>3, <1>4, <1>5, <1>6

(* No two stubs have the same address.                                     *)
LEMMA StubsDiffer ==
    ASSUME NEW v \in 0 .. 255, NEW w \in 0 .. 255, ISRStubTable[v] = ISRStubTable[w]
    PROVE  v = w
<1> DEFINE K == B * B + B + 1
<1>1. K \in Nat /\ K > 0
  <2>1. B * B \in Nat
    BY AddressesAssumption
  <2> QED
    BY <2>1, AddressesAssumption
<1>2. ISRStubTable[v] = K * (v + 1) /\ ISRStubTable[w] = K * (w + 1)
  BY DEF ISRStubTable
<1> HIDE DEF K
<1>3. ASSUME NEW a \in Nat, NEW b \in Nat, a < b PROVE K * a < K * b
  <2>1. K * (b - a) = (K * b) - (K * a) /\ K * a \in Nat /\ K * b \in Nat
    BY <1>1
  <2>2. K * (b - a) > 0
    BY <1>1, <1>3
  <2> QED
    BY <2>1, <2>2
<1>4. K * (v + 1) \in Nat /\ K * (w + 1) \in Nat
  BY <1>1
<1> QED
  <2> DEFINE a == v + 1
             b == w + 1
  <2>0. K * (v + 1) = K * (w + 1)
    BY <1>2
  <2>1. a \in Nat /\ b \in Nat /\ K * a = K * b
    BY <2>0
  <2>2. a = b
    <3> HIDE DEF a, b
    <3>1. K * a \in Nat /\ K * b \in Nat
      BY <1>1, <2>1
    <3>2. ~(a < b) /\ ~(b < a)
      BY <1>3, <2>1, <3>1
    <3> QED
      BY <2>1, <3>2
  <2> QED
    BY <2>2

(* The processor enters the stub of the vector, or of the general          *)
(* protection fault, with an error code exactly where the stub expects it. *)
LEMMA EnteredIs ==
    ASSUME NEW v \in Vectors \cup NMI
    PROVE  /\ Entered(v) \in 0 .. 255
           /\ Entered(v) \in HasErrorCode <=> Entered(v) \in ErrStubs
<1>1. v \in 0 .. 255 /\ v \notin {21, 29}
  BY VectorsAssumption
<1>2. CASE v \in 0 .. 31
  <2>1. v \in DOMAIN IDT /\ IDT[v] = IDTSetDescriptor(ISRStubTable[v])
    BY <1>2 DEF IDT
  <2>2. ISRStubTable[v] \in Nat
    <3>1. B * B \in Nat /\ B * B + B + 1 \in Nat
      BY AddressesAssumption
    <3>2. ISRStubTable[v] = (B * B + B + 1) * (v + 1)
      BY <1>1 DEF ISRStubTable
    <3> HIDE DEF ISRStubTable
    <3> QED
      BY <3>1, <3>2, <1>1
  <2>3. Entry(IDT[v]) = ISRStubTable[v]
    BY <2>1, <2>2, DescriptorIsWhole
  <2>4. Entered(v) = CHOOSE w \in 0 .. 255 : ISRStubTable[w] = ISRStubTable[v]
    BY <2>1, <2>3 DEF Entered
  <2>5. Entered(v) = v
    BY <2>4, <1>1, StubsDiffer
  <2> QED
    BY <2>5, <1>1 DEF HasErrorCode, ErrStubs
<1>3. CASE v \notin 0 .. 31
  <2>1. Entered(v) = 13
    BY <1>3 DEF Entered, IDT
  <2> QED
    BY <2>1 DEF HasErrorCode, ErrStubs
<1> QED
  BY <1>2, <1>3

-----------------------------------------------------------------------------
(* The invariant.                                                          *)

Points ==
    [code : {"kernel", "stub", "load", "panic"}, vector : 0 .. 255, n : Int]

(* How far below its base the stack is before the instruction of a phase.  *)
Depth(s) ==
    IF s <= 17 THEN s + 4 ELSE IF s = 18 THEN 21 ELSE IF s = 34 THEN 5 ELSE 40 - s

(* A cell of the stack of the interruption p, by its distance to the base; *)
(* those of SS and CS are not restored.                                    *)
Shown == {2, 3, 5, 6, 7} \cup 8 .. 21

Cell(p, d) ==
    IF d = 2 THEN <<"RSP", p.rsp>>
    ELSE IF d = 3 THEN <<"RFLAGS", p.flags>>
    ELSE IF d = 5 THEN <<"RIP", p.at>>
    ELSE IF d = 6 THEN p.code
    ELSE IF d = 7 THEN <<"number", p.vector>>
    ELSE p.regs[PushOrder[d - 7]]

Base(p, a) == IF a.code = "load" THEN p.rsp ELSE p.rsp - (p.rsp % 2)

(* The cells of the stack that a phase finds in use.                       *)
Laid(p, a, s, m) ==
    \A d \in Shown :
        d <= Depth(s) => Base(p, a) - d \in DOMAIN m /\ m[Base(p, a) - d] = Cell(p, d)

(* The interruption p has got to the instruction a, of phase s, with the   *)
(* registers g, the stack pointer r and the stack m.                       *)
HandledAt(p, a, s, g, r, m) ==
    /\ a \in Points /\ a.code \in {"stub", "load"}
    /\ s \in 1 .. 34
    /\ a.code = "stub" => a.vector = p.vector
    /\ a.code = "stub" => IF a.vector \in ErrStubs THEN s >= 2 ELSE p.code = <<"number", 0>>
    /\ a.code = "load" => s >= 19
    /\ r = Base(p, a) - Depth(s)
    /\ Laid(p, a, s, m)
    /\ s <= 17 => g = p.regs
    /\ s = 18 => g["RAX"] = <<"RSP", r>>
    /\ \A k \in 1 .. 14 : k + 18 < s => g[PopOrder[k]] = p.regs[PopOrder[k]]

Handled(p, a, g, r, m) == HandledAt(p, a, Phase(a), g, r, m)

IsRegisters(g) == g = [r \in Registers |-> g[r]]

IsContext(p) ==
    p.vector \in 0 .. 255 /\ p.rsp \in Int /\ IsRegisters(p.regs) /\ p.at \in Points

(* Each pending interruption is handled as far as the next one on top of   *)
(* it has seen, and the stack of each lies above those of later ones.      *)
Pending(ps, r, m) ==
    /\ \A k \in 1 .. Len(ps) : IsContext(ps[k]) /\ r <= ps[k].rsp
    /\ \A j, k \in 1 .. Len(ps) : j < k => ps[j].rsp <= ps[k].rsp
    /\ \A k \in 1 .. Len(ps) - 1 :
         Handled(ps[k + 1], ps[k].at, ps[k].regs, ps[k].rsp, m)
    /\ Len(ps) > 0 => ps[Len(ps)].at \in KernelPoints

Sequential == \E S : pending \in Seq(S)

StackInv ==
    /\ at \in Points /\ rsp \in Int /\ IsRegisters(regs) /\ Sequential
    /\ at.code = "kernel" => pending = <<>> /\ at \in KernelPoints
    /\ at.code \in {"stub", "load"} =>
         /\ Len(pending) > 0
         /\ Handled(Head(pending), at, regs, rsp, mem)
    /\ at.code # "panic" => Pending(pending, rsp, mem)

(* The instruction the processor is at.                                    *)
LEMMA InsnIs ==
    ASSUME NEW p, NEW g, NEW r, NEW m, Handled(p, at, g, r, m)
    PROVE  Insn = Instruction(at.vector, Phase(at))
<1> DEFINE s == Phase(at)
<1>1. at \in Points /\ at.code \in {"stub", "load"} /\ s \in 1 .. 34
  BY DEF Handled, HandledAt
<1>2. at.vector \in 0 .. 255 /\ at.n \in Int
  BY <1>1 DEF Points
<1>3. CASE at.code = "load"
  <2>1. s = at.n + 18 /\ s >= 19
    BY <1>3 DEF Phase, Handled, HandledAt
  <2>2. at.n \in 1 .. 16
    BY <2>1, <1>1, <1>2
  <2>3. Insn = LoadCode[at.n]
    BY <1>3 DEF Insn
  <2> QED
    BY <2>1, <2>2, <2>3, LoadCodeIs
<1>4. CASE at.code = "stub"
  <2>1. /\ at.vector \in ErrStubs => s = at.n + 1 /\ s >= 2
        /\ at.vector \notin ErrStubs => s = at.n
    BY <1>4 DEF Phase, Handled, HandledAt
  <2>2. Insn = Stub(at.vector)[at.n]
    BY <1>2, <1>4 DEF Insn, Code
  <2> HIDE DEF s
  <2>3. at.n >= 1 /\ at.n = IF at.vector \in ErrStubs THEN s - 1 ELSE s
    BY <1>1, <1>2, <2>1
  <2>4. Stub(at.vector)[at.n] = Instruction(at.vector, s)
    BY <1>1, <2>3, StubIs
  <2> QED
    BY <2>2, <2>4 DEF s
<1> QED
  BY <1>1, <1>3, <1>4

(* Which phases have which instruction.                                    *)
OpOf(s, op) ==
    /\ op \in {"push", "pushreg"} => s \in 1 .. 16
    /\ op = "call" <=> s = 17
    /\ op = "mov" <=> s = 18
    /\ op = "pop" <=> s \in 19 .. 32
    /\ op = "add" <=> s = 33
    /\ op = "iret" <=> s = 34

(* Which instruction the processor executes says in which phase it is.     *)
LEMMA PhaseOf ==
    ASSUME NEW v, NEW s \in 1 .. 34
    PROVE  OpOf(s, Instruction(v, s).op)
<1>1. CASE s \in {1, 2}
  <2>1. Instruction(v, s).op = "push"
    <3>1. Instruction(v, 1) = [op |-> "push", value |-> <<"number", 0>>]
      BY Instructions
    <3>2. Instruction(v, 2) = [op |-> "push", value |-> <<"number", v>>]
      BY Instructions
    <3>3. Instruction(v, 1).op = "push"
      BY <3>1
    <3>4. Instruction(v, 2).op = "push"
      BY <3>2
    <3> QED
      BY <1>1, <3>3, <3>4
  <2> QED
    BY <1>1, <2>1 DEF OpOf
<1>2. CASE s \in 3 .. 16
  <2>1. Instruction(v, s).op = "pushreg"
    BY <1>2 DEF Instruction
  <2> QED
    BY <1>2, <2>1 DEF OpOf
<1>3. CASE s = 17
  <2>1. Instruction(v, s).op = "call"
    <3>1. Instruction(v, 17) = [op |-> "call"]
      BY Instructions
    <3>2. Instruction(v, 17).op = "call"
      BY <3>1
    <3> QED
      BY <1>3, <3>2
  <2>2. 17 \notin 1 .. 16 /\ 17 \notin 19 .. 32
    OBVIOUS
  <2> QED
    BY <1>3, <2>1, <2>2 DEF OpOf
<1>4. CASE s = 18
  <2>1. Instruction(v, s).op = "mov"
    <3>1. Instruction(v, 18) = [op |-> "mov"]
      BY Instructions
    <3>2. Instruction(v, 18).op = "mov"
      BY <3>1
    <3> QED
      BY <1>4, <3>2
  <2>2. 18 \notin 1 .. 16 /\ 18 \notin 19 .. 32
    OBVIOUS
  <2> QED
    BY <1>4, <2>1, <2>2 DEF OpOf
<1>5. CASE s \in 19 .. 32
  <2>1. Instruction(v, s).op = "pop"
    BY <1>5 DEF Instruction
  <2> QED
    BY <1>5, <2>1 DEF OpOf
<1>6. CASE s = 33
  <2>1. Instruction(v, s).op = "add"
    <3>1. Instruction(v, 33) = [op |-> "add"]
      BY Instructions
    <3>2. Instruction(v, 33).op = "add"
      BY <3>1
    <3> QED
      BY <1>6, <3>2
  <2>2. 33 \notin 1 .. 16 /\ 33 \notin 19 .. 32
    OBVIOUS
  <2> QED
    BY <1>6, <2>1, <2>2 DEF OpOf
<1>7. CASE s = 34
  <2>1. Instruction(v, s).op = "iret"
    <3>1. Instruction(v, 34) = [op |-> "iret"]
      BY Instructions
    <3>2. Instruction(v, 34).op = "iret"
      BY <3>1
    <3> QED
      BY <1>7, <3>2
  <2>2. 34 \notin 1 .. 16 /\ 34 \notin 19 .. 32
    OBVIOUS
  <2> QED
    BY <1>7, <2>1, <2>2 DEF OpOf
<1>8. s \in {1, 2} \/ s \in 3 .. 16 \/ s = 17 \/ s = 18 \/ s \in 19 .. 32 \/ s = 33 \/ s = 34
  OBVIOUS
<1> QED
  BY <1>1, <1>2, <1>3, <1>4, <1>5, <1>6, <1>7, <1>8

-----------------------------------------------------------------------------
(* What is pending stays as it is when the stack changes below it.         *)

(* n holds what m holds from r upwards.                                    *)
Above(r, m, n) == \A x \in Int : x >= r /\ x \in DOMAIN m => x \in DOMAIN n /\ n[x] = m[x]

(* Aligning the stack pointer does not raise it.                           *)
LEMMA BaseIs ==
    ASSUME NEW p, IsContext(p), NEW a
    PROVE  Base(p, a) \in Int /\ Base(p, a) <= p.rsp
<1>1. p.rsp \in Int /\ p.rsp % 2 \in 0 .. 1
  BY DEF IsContext
<1> QED
  BY <1>1 DEF Base

(* A stub uses 21 cells of the stack at most, and 5 when it returns.       *)
LEMMA DepthIs ==
    ASSUME NEW s \in 1 .. 34
    PROVE  Depth(s) \in 5 .. 21
  BY DEF Depth

(* What has been handled of an interruption stays so when the stack        *)
(* changes below its stack pointer.                                        *)
LEMMA HandledBelow ==
    ASSUME NEW p, IsContext(p), NEW a, NEW g, NEW r, NEW m, NEW n,
           Handled(p, a, g, r, m), Above(r, m, n)
    PROVE  Handled(p, a, g, r, n) /\ r \in Int /\ r <= p.rsp
<1> DEFINE b == Base(p, a)
           s == Phase(a)
           e == Depth(s)
<1>1. b \in Int /\ b <= p.rsp /\ e \in 5 .. 21 /\ r = b - e /\ Laid(p, a, s, m)
  BY BaseIs, DepthIs DEF Handled, HandledAt
<1>2. \A d \in Shown : d <= e => b - d \in DOMAIN m /\ m[b - d] = Cell(p, d)
  BY <1>1 DEF Laid
<1>3. Shown \subseteq Int
  BY DEF Shown
<1> HIDE DEF b, e, s
<1>4. \A d \in Shown : d <= e => b - d \in Int /\ b - d >= r
  BY <1>1, <1>3
<1>5. \A d \in Shown : d <= e => b - d \in DOMAIN n /\ n[b - d] = Cell(p, d)
  BY <1>2, <1>4 DEF Above
<1>6. r \in Int /\ r <= p.rsp
  BY <1>1 DEF IsContext
<1>7. Laid(p, a, s, n)
  BY <1>5 DEF Laid, b, e
<1> QED
  BY <1>6, <1>7 DEF Handled, HandledAt, s

(* What is pending stays so when the stack changes below the stack         *)
(* pointer.                                                                *)
LEMMA PendingBelow ==
    ASSUME NEW ps, Len(ps) \in Nat, NEW r \in Int, NEW m, NEW q \in Int, NEW n,
           Pending(ps, r, m), q <= r, Above(r, m, n)
    PROVE  Pending(ps, q, n)
<1>1. \A k \in 1 .. Len(ps) : IsContext(ps[k]) /\ q <= ps[k].rsp
  BY DEF Pending, IsContext
<1>2. ASSUME NEW k \in 1 .. Len(ps) - 1
      PROVE  Handled(ps[k + 1], ps[k].at, ps[k].regs, ps[k].rsp, n)
  <2>1. k \in 1 .. Len(ps) /\ k + 1 \in 1 .. Len(ps)
    OBVIOUS
  <2>2. /\ IsContext(ps[k]) /\ IsContext(ps[k + 1]) /\ r <= ps[k].rsp
        /\ Handled(ps[k + 1], ps[k].at, ps[k].regs, ps[k].rsp, m)
    BY <2>1 DEF Pending
  <2>3. Above(ps[k].rsp, m, n)
    BY <2>2 DEF Above, IsContext
  <2> QED
    BY <2>2, <2>3, HandledBelow
<1> QED
  BY <1>1, <1>2 DEF Pending

(* What is pending stays so when the stack pointer stays below the last    *)
(* interrupted one.                                                        *)
LEMMA PendingAbove ==
    ASSUME NEW ps, Len(ps) \in Nat \ {0}, NEW r, NEW m, Pending(ps, r, m),
           NEW q \in Int, q <= ps[1].rsp
    PROVE  Pending(ps, q, m)
<1>1. ASSUME NEW k \in 1 .. Len(ps) PROVE IsContext(ps[k]) /\ q <= ps[k].rsp
  <2>1. 1 \in 1 .. Len(ps) /\ IsContext(ps[k]) /\ IsContext(ps[1])
    BY DEF Pending
  <2>2. k # 1 => ps[1].rsp <= ps[k].rsp
    BY <2>1 DEF Pending
  <2> QED
    BY <2>1, <2>2 DEF IsContext
<1> QED
  BY <1>1 DEF Pending

(* m with the cells pushed from the address on.                            *)
HasPushed(cells, from, m, n) ==
    /\ \A x \in from - Len(cells) .. from - 1 : x \in DOMAIN n /\ n[x] = cells[from - x]
    /\ Above(from, m, n)

(* Pushing writes the cells below an address and none above it.            *)
LEMMA PushedIs ==
    ASSUME NEW cells, Len(cells) \in Nat, NEW from \in Int
    PROVE  HasPushed(cells, from, mem, Pushed(cells, from))
<1> DEFINE A == from - Len(cells) .. from - 1
           n == Pushed(cells, from)
<1>1. n = [a \in DOMAIN mem \cup A |-> IF a \in A THEN cells[from - a] ELSE mem[a]]
  BY DEF Pushed
<1>2. \A x \in A : x \in DOMAIN n /\ n[x] = cells[from - x]
  BY <1>1
<1>3. \A x \in Int : x >= from => x \notin A
  OBVIOUS
<1> HIDE DEF A
<1>4. \A x \in Int : x >= from /\ x \in DOMAIN mem => x \in DOMAIN n /\ n[x] = mem[x]
  BY <1>1, <1>3
<1> QED
  BY <1>2, <1>4 DEF HasPushed, Above, A

-----------------------------------------------------------------------------
(* One lemma for each action.                                              *)

(* Nothing is pending in the beginning.                                    *)
LEMMA InitHolds == Init => StackInv
<1> SUFFICES ASSUME Init PROVE StackInv
  OBVIOUS
<1>1. at \in Points /\ at \in KernelPoints /\ at.code = "kernel"
  BY DEF Init, Points, KernelPoints
<1>2. rsp \in Int /\ IsRegisters(regs)
  BY AddressesAssumption DEF Init, IsRegisters
<1>3. pending = <<>> /\ Sequential /\ Len(pending) = 0
  <2>1. <<>> \in Seq({}) /\ Len(<<>>) = 0
    OBVIOUS
  <2> QED
    BY <2>1 DEF Init, Sequential
<1>4. Pending(pending, rsp, mem)
  BY <1>3 DEF Pending
<1> QED
  BY <1>1, <1>2, <1>3, <1>4 DEF StackInv

(* The kernel works only while nothing is pending.                         *)
LEMMA WorkKeeps == StackInv /\ Work => StackInv'
<1> SUFFICES ASSUME StackInv, Work PROVE StackInv'
  OBVIOUS
<1>1. at \in KernelPoints /\ at.code = "kernel" /\ pending = <<>>
  BY DEF StackInv, Work
<1>2. at' \in KernelPoints /\ at' \in Points /\ at'.code = "kernel"
  BY <1>1 DEF Work, KernelPoints, Points
<1>3. IsRegisters(regs')
  <2>1. PICK v : regs' = [regs EXCEPT !["RAX"] = v]
    BY Zenon DEF Work
  <2> QED
    BY <2>1 DEF StackInv, IsRegisters
<1>4. rsp' = rsp /\ mem' = mem /\ pending' = pending
  BY DEF Work
<1> QED
  BY <1>1, <1>2, <1>3, <1>4 DEF StackInv, Sequential

(* In a stub the interruption on top is the one being handled.             *)
InHandler(p, s) ==
    /\ at \in Points /\ at.code \in {"stub", "load"}
    /\ Len(pending) \in Nat \ {0} /\ p = pending[1] /\ p = Head(pending)
    /\ IsContext(p) /\ HandledAt(p, at, s, regs, rsp, mem)
    /\ s = Phase(at) /\ s \in 1 .. 34 /\ rsp \in Int
    /\ Insn = Instruction(at.vector, s) /\ OpOf(s, Insn.op)
    /\ Pending(pending, rsp, mem) /\ Sequential /\ IsRegisters(regs)

(* What the invariant says of a processor inside of a stub.                *)
LEMMA StubIsHandled ==
    ASSUME StackInv, at.code \in {"stub", "load"}
    PROVE  InHandler(Head(pending), Phase(at))
<1>1. PICK S : pending \in Seq(S)
  BY DEF StackInv, Sequential
<1>2. Len(pending) \in Nat \ {0} /\ Head(pending) = pending[1]
  BY <1>1 DEF StackInv
<1>3. at \in Points /\ Handled(Head(pending), at, regs, rsp, mem)
  BY DEF StackInv
<1>4. Pending(pending, rsp, mem)
  BY DEF StackInv
<1>5. IsContext(pending[1])
  BY <1>2, <1>4 DEF Pending
<1>6. Phase(at) \in 1 .. 34
  BY <1>3 DEF Handled, HandledAt
<1>7. Insn = Instruction(at.vector, Phase(at)) /\ OpOf(Phase(at), Insn.op)
  BY <1>3, <1>6, InsnIs, PhaseOf
<1> QED
  BY <1>2, <1>3, <1>4, <1>5, <1>6, <1>7 DEF InHandler, StackInv, Handled

(* The next instruction.                                                   *)
LEMMA Advances ==
    ASSUME at \in Points, at.code \in {"stub", "load"}, Advance
    PROVE  /\ at' \in Points /\ at'.code = at.code /\ at'.vector = at.vector
           /\ Phase(at') = Phase(at) + 1
           /\ \A p : Base(p, at') = Base(p, at)
<1>1. at' \in Points /\ at'.code = at.code /\ at'.vector = at.vector /\ at'.n = at.n + 1
  BY DEF Points, Advance
<1>2. at.n \in Int
  BY DEF Points
<1>3. Phase(at') = Phase(at) + 1
  BY <1>1, <1>2 DEF Phase
<1>4. \A p : Base(p, at') = Base(p, at)
  BY <1>1 DEF Base
<1> QED
  BY <1>1, <1>3, <1>4

(* What is left to show of an instruction that stays in the stub.          *)
LEMMA StaysInStub ==
    ASSUME NEW p, NEW s, InHandler(p, s), Advance, pending' = pending,
           IsRegisters(regs'), HandledAt(p, at', s + 1, regs', rsp', mem'),
           Above(rsp, mem, mem')
    PROVE  StackInv'
<1>1. /\ at' \in Points /\ at'.code \in {"stub", "load"}
      /\ Handled(p, at', regs', rsp', mem')
  BY Advances DEF InHandler, Handled
<1>2. IsContext(p) /\ p = pending[1] /\ Len(pending) \in Nat \ {0} /\ rsp \in Int
  BY DEF InHandler
<1>3. Above(rsp', mem', mem')
  BY DEF Above
<1>4. rsp' \in Int /\ rsp' <= p.rsp
  BY <1>1, <1>2, <1>3, HandledBelow
<1>5. Pending(pending, rsp, mem')
  BY <1>2, PendingBelow DEF InHandler
<1>6. Pending(pending', rsp', mem')
  BY <1>2, <1>4, <1>5, PendingAbove
<1>7. Sequential'
  BY DEF InHandler, Sequential
<1>8. Len(pending') > 0 /\ Head(pending') = p
  BY DEF InHandler
<1> QED
  BY <1>1, <1>4, <1>6, <1>7, <1>8 DEF StackInv

(* A push lays the cell that its phase lays.                               *)
LEMMA PushKeeps == StackInv /\ Push => StackInv'
<1> SUFFICES ASSUME StackInv, Push PROVE StackInv'
  OBVIOUS
<1> DEFINE p == Head(pending)
           s == Phase(at)
           b == Base(p, at)
           c == IF Insn.op = "push" THEN Insn.value ELSE regs[Insn.reg]
<1>1. at.code \in {"stub", "load"} /\ Insn.op \in {"push", "pushreg"}
  BY DEF Push, InStub
<1>2. InHandler(p, s)
  BY <1>1, StubIsHandled
<1>3. /\ s \in 1 .. 16 /\ at.code = "stub" /\ regs = p.regs
      /\ rsp = b - (s + 4) /\ Laid(p, at, s, mem)
      /\ at.vector = p.vector
      /\ IF at.vector \in ErrStubs THEN s >= 2 ELSE p.code = <<"number", 0>>
  <2> HIDE DEF p, s
  <2>1. s \in 1 .. 16
    BY <1>1, <1>2 DEF InHandler, OpOf
  <2>2. Depth(s) = s + 4
    BY <2>1 DEF Depth
  <2>3. HandledAt(p, at, s, regs, rsp, mem)
    BY <1>2 DEF InHandler
  <2> QED
    BY <1>1, <2>1, <2>2, <2>3 DEF HandledAt
<1>4. c = Cell(p, s + 5)
  <2> HIDE DEF p, s
  <2>0. Insn = Instruction(at.vector, s)
    BY <1>2 DEF InHandler
  <2>1. CASE s = 1
    <3>1. Insn = [op |-> "push", value |-> <<"number", 0>>]
      BY <2>0, <2>1, Instructions
    <3>2. c = <<"number", 0>>
      BY <3>1
    <3> QED
      BY <1>3, <2>1, <3>2 DEF Cell
  <2>2. CASE s = 2
    <3>1. Insn = [op |-> "push", value |-> <<"number", at.vector>>]
      BY <2>0, <2>2, Instructions
    <3>2. c = <<"number", at.vector>>
      BY <3>1
    <3> QED
      BY <1>3, <2>2, <3>2 DEF Cell
  <2>3. CASE s \in 3 .. 16
    <3>1. PICK k \in 1 .. 14 : s = k + 2
      <4>1. s - 2 \in 1 .. 14 /\ s = (s - 2) + 2
        BY <2>3
      <4> QED
        BY <4>1
    <3>2. Insn = [op |-> "pushreg", reg |-> PushOrder[k]]
      BY <2>0, <3>1, Instructions
    <3>3. c = regs[PushOrder[k]]
      BY <3>2
    <3>4. (s + 5) - 7 = k /\ s + 5 \notin {2, 3, 5, 6, 7}
      BY <3>1
    <3> QED
      BY <1>3, <3>3, <3>4 DEF Cell
  <2> QED
    BY <1>3, <2>1, <2>2, <2>3
<1>5. /\ at' \in Points /\ at'.code = at.code /\ at'.vector = at.vector
      /\ Phase(at') = s + 1 /\ Base(p, at') = b
  BY <1>1, <1>2, Advances DEF InHandler, Push
<1>6. b \in Int /\ rsp \in Int
  BY <1>2, BaseIs DEF InHandler
<1>7. /\ mem' = Pushed(<<c>>, rsp) /\ rsp' = rsp - 1 /\ regs' = regs /\ pending' = pending
  BY DEF Push
<1> HIDE DEF p, s, b, c
<1>8. /\ rsp - 1 \in DOMAIN mem' /\ mem'[rsp - 1] = c /\ Above(rsp, mem, mem')
  <2>1. Len(<<c>>) = 1 /\ <<c>>[1] = c
    OBVIOUS
  <2>2. HasPushed(<<c>>, rsp, mem, mem')
    BY <1>6, <1>7, <2>1, PushedIs
  <2>3. rsp - 1 \in rsp - 1 .. rsp - 1 /\ rsp - (rsp - 1) = 1
    BY <1>6
  <2> QED
    BY <2>1, <2>2, <2>3 DEF HasPushed
<1>9. Laid(p, at', s + 1, mem')
  <2>1. Depth(s) = s + 4 /\ Depth(s + 1) = s + 5
    BY <1>3 DEF Depth
  <2>2. ASSUME NEW d \in Shown, d <= s + 5
        PROVE  b - d \in DOMAIN mem' /\ mem'[b - d] = Cell(p, d)
    <3>1. d \in Int
      BY DEF Shown
    <3>2. CASE d = s + 5
      <4>1. b - d = rsp - 1
        BY <1>3, <1>6, <3>2
      <4> QED
        BY <1>4, <1>8, <3>2, <4>1
    <3>3. CASE d # s + 5
      <4>1. d <= s + 4 /\ b - d >= rsp /\ b - d \in Int
        BY <1>3, <1>6, <2>2, <3>1, <3>3
      <4>2. b - d \in DOMAIN mem /\ mem[b - d] = Cell(p, d)
        BY <1>3, <2>1, <4>1 DEF Laid, b
      <4> QED
        BY <1>8, <4>1, <4>2 DEF Above
    <3> QED
      BY <3>2, <3>3
  <2> QED
    BY <1>5, <2>1, <2>2 DEF Laid
<1>10. HandledAt(p, at', s + 1, regs', rsp', mem')
  <2>1. /\ s + 1 \in 1 .. 34 /\ s + 1 <= 17 /\ ~(s + 1 = 18)
        /\ \A k \in 1 .. 14 : ~(k + 18 < s + 1)
    BY <1>3
  <2>2. rsp' = b - Depth(s + 1)
    <3>1. Depth(s + 1) = s + 5
      BY <1>3 DEF Depth
    <3> QED
      BY <1>3, <1>6, <1>7, <3>1
  <2>3. /\ at' \in Points /\ at'.code = "stub" /\ at'.vector = p.vector
        /\ Phase(at') = s + 1 /\ Base(p, at') = b
        /\ IF at'.vector \in ErrStubs THEN s + 1 >= 2 ELSE p.code = <<"number", 0>>
    BY <1>3, <1>5
  <2>4. regs' = p.regs
    BY <1>3, <1>7
  <2> QED
    BY <1>9, <2>1, <2>2, <2>3, <2>4 DEF HandledAt
<1> QED
  BY <1>2, <1>7, <1>8, <1>10, StaysInStub DEF Push, InHandler

(* The handler finds in its argument what the processor and the stub have  *)
(* put there.                                                              *)
Position(f) == CHOOSE k \in DOMAIN InterruptStatus : InterruptStatus[k] = f

(* Where the fields of InterruptStatus lie.                                *)
LEMMA Positions ==
    /\ Position("VectorNumber") = 15 /\ Position("ErrorCode") = 16
    /\ Position("IretRIP") = 17 /\ Position("IretRFLAGS") = 19 /\ Position("IretRSP") = 20
    /\ \A k \in 1 .. 14 : Position(PushOrder[k]) = 15 - k
<1>1. DOMAIN InterruptStatus = 1 .. 21
  BY DEF InterruptStatus
<1>2. \A k \in 1 .. 21 : InterruptStatus[k] = "VectorNumber" <=> k = 15
  BY DEF InterruptStatus
<1>3. \A k \in 1 .. 21 : InterruptStatus[k] = "ErrorCode" <=> k = 16
  BY DEF InterruptStatus
<1>4. \A k \in 1 .. 21 : InterruptStatus[k] = "IretRIP" <=> k = 17
  BY DEF InterruptStatus
<1>5. \A k \in 1 .. 21 : InterruptStatus[k] = "IretRFLAGS" <=> k = 19
  BY DEF InterruptStatus
<1>6. \A k \in 1 .. 21 : InterruptStatus[k] = "IretRSP" <=> k = 20
  BY DEF InterruptStatus
<1>7. \A k \in 1 .. 14 : \A i \in 1 .. 21 : InterruptStatus[i] = PushOrder[k] <=> i = 15 - k
  BY DEF InterruptStatus, PushOrder
<1>8. \A k \in 1 .. 14 : Position(PushOrder[k]) = 15 - k
  <2>1. ASSUME NEW k \in 1 .. 14 PROVE Position(PushOrder[k]) = 15 - k
    <3>1. 15 - k \in 1 .. 21
      OBVIOUS
    <3> QED
      BY <1>1, <1>7, <3>1 DEF Position
  <2> QED
    BY <2>1
<1> QED
  BY <1>1, <1>2, <1>3, <1>4, <1>5, <1>6, <1>8 DEF Position

(* What InterruptHandler reads when it is called is the interruption on    *)
(* top.                                                                    *)
LEMMA ContextIsLaid ==
    ASSUME NEW p, InHandler(p, 17)
    PROVE  /\ Context("VectorNumber") = <<"number", p.vector>>
           /\ Context("ErrorCode") = p.code
           /\ \A r \in Registers : Context(r) = p.regs[r]
           /\ Context("IretRIP") = <<"RIP", p.at>>
           /\ Context("IretRSP") = <<"RSP", p.rsp>>
           /\ Context("IretRFLAGS") = <<"RFLAGS", p.flags>>
<1> DEFINE b == Base(p, at)
<1>1. Depth(17) = 21 /\ b \in Int /\ rsp = b - 21
  BY BaseIs DEF InHandler, HandledAt, Depth
<1>2. \A d \in Shown : d <= 21 => mem[b - d] = Cell(p, d)
  BY <1>1 DEF InHandler, HandledAt, Laid
<1>3. \A f : Context(f) = mem[rsp + Position(f) - 1]
  BY DEF Context, Position
<1> HIDE DEF b
<1>4. ASSUME NEW f, NEW d \in Shown, d <= 21, Position(f) = 22 - d
      PROVE  Context(f) = Cell(p, d)
  <2>1. d \in Int
    BY DEF Shown
  <2>2. rsp + Position(f) - 1 = b - d
    BY <1>1, <1>4, <2>1
  <2> QED
    BY <1>2, <1>3, <1>4, <2>2
<1>5. /\ 2 \in Shown /\ 3 \in Shown /\ 5 \in Shown /\ 6 \in Shown /\ 7 \in Shown
      /\ \A k \in 1 .. 14 : k + 7 \in Shown /\ 15 - k = 22 - (k + 7) /\ k + 7 <= 21
  BY DEF Shown
<1>6. /\ Context("VectorNumber") = Cell(p, 7) /\ Context("ErrorCode") = Cell(p, 6)
      /\ Context("IretRIP") = Cell(p, 5) /\ Context("IretRFLAGS") = Cell(p, 3)
      /\ Context("IretRSP") = Cell(p, 2)
  BY <1>4, <1>5, Positions
<1>7. ASSUME NEW r \in Registers PROVE Context(r) = p.regs[r]
  <2>1. PICK k \in 1 .. 14 : r = PushOrder[k]
    BY Orders
  <2>2. Context(r) = Cell(p, k + 7)
    BY <1>4, <1>5, <2>1, Positions
  <2>3. k + 7 \notin {2, 3, 5, 6, 7} /\ (k + 7) - 7 = k
    OBVIOUS
  <2> QED
    BY <2>1, <2>2, <2>3 DEF Cell
<1> QED
  BY <1>6, <1>7 DEF Cell

(* InterruptHandler panics or returns with the stack as it was.            *)
LEMMA HandlerKeeps == StackInv /\ InterruptHandler => StackInv'
<1> SUFFICES ASSUME StackInv, InterruptHandler PROVE StackInv'
  OBVIOUS
<1> DEFINE p == Head(pending)
           s == Phase(at)
<1>1. at.code \in {"stub", "load"} /\ Insn.op = "call"
  BY DEF InterruptHandler, InStub
<1>2. InHandler(p, s)
  BY <1>1, StubIsHandled
<1> HIDE DEF p, s
<1>3. s = 17
  BY <1>1, <1>2 DEF InHandler, OpOf
<1>4. rsp' = rsp /\ flags' = flags /\ mem' = mem /\ pending' = pending
  BY DEF InterruptHandler
<1>5. CASE Context("VectorNumber")[2] \in Panics
  <2>1. at' = [code |-> "panic", vector |-> 0, n |-> 0] /\ regs' = regs
    BY <1>5 DEF InterruptHandler
  <2>2. at' \in Points /\ at'.code = "panic"
    BY <2>1 DEF Points
  <2> QED
    BY <1>4, <2>1, <2>2 DEF StackInv, Sequential
<1>6. CASE Context("VectorNumber")[2] \notin Panics
  <2>1. /\ Advance
        /\ regs' = [r \in Registers |-> IF r = "RAX" THEN <<"RSP", rsp>>
                                        ELSE IF r \in CallerSaved THEN <<"handler", r>>
                                        ELSE regs[r]]
    BY <1>6 DEF InterruptHandler
  <2>2. IsRegisters(regs')
    BY <2>1 DEF IsRegisters
  <2>3. regs'["RAX"] = <<"RSP", rsp>>
    <3>1. "RAX" \in Registers
      BY Orders, 12 \in 1 .. 14
    <3> QED
      BY <2>1, <3>1
  <2>4. /\ at' \in Points /\ at'.code = at.code /\ at'.vector = at.vector
        /\ Base(p, at') = Base(p, at)
    BY <1>1, <1>2, <2>1, Advances DEF InHandler
  <2>5. Depth(17) = 21 /\ Depth(18) = 21
    BY DEF Depth
  <2>6. HandledAt(p, at, 17, regs, rsp, mem)
    BY <1>2, <1>3 DEF InHandler
  <2>7. Laid(p, at', 18, mem')
    BY <1>4, <2>4, <2>5, <2>6 DEF Laid, HandledAt
  <2>8. /\ at.code = "stub" /\ at.vector = p.vector
        /\ IF at.vector \in ErrStubs THEN 18 >= 2 ELSE p.code = <<"number", 0>>
    BY <2>6 DEF HandledAt
  <2>9. rsp' = Base(p, at') - Depth(18)
    BY <1>4, <2>4, <2>5, <2>6 DEF HandledAt
  <2>10. 18 \in 1 .. 34 /\ ~(18 <= 17) /\ \A k \in 1 .. 14 : ~(k + 18 < 18)
    OBVIOUS
  <2>11. HandledAt(p, at', 18, regs', rsp', mem')
    BY <1>4, <2>3, <2>4, <2>7, <2>8, <2>9, <2>10 DEF HandledAt
  <2>12. HandledAt(p, at', s + 1, regs', rsp', mem')
    BY <1>3, <2>11
  <2>13. Above(rsp, mem, mem')
    BY <1>4 DEF Above
  <2> QED
    BY <1>2, <1>4, <2>1, <2>2, <2>12, <2>13, StaysInStub
<1> QED
  BY <1>5, <1>6

(* From the handler on, an instruction changes no memory.                  *)
LEMMA ReturnsFurther ==
    ASSUME NEW p, NEW s, InHandler(p, s), s >= 18, s <= 33, Advance,
           pending' = pending, mem' = mem, IsRegisters(regs'),
           rsp' = Base(p, at) - Depth(s + 1), Depth(s + 1) <= Depth(s),
           \A k \in 1 .. 14 : k + 18 < s + 1 => regs'[PopOrder[k]] = p.regs[PopOrder[k]]
    PROVE  StackInv'
<1>1. /\ at' \in Points /\ at'.code = at.code /\ at'.vector = at.vector
      /\ Base(p, at') = Base(p, at)
  BY Advances DEF InHandler
<1>2. s \in 1 .. 34 /\ s + 1 \in 1 .. 34 /\ ~(s + 1 <= 17) /\ ~(s + 1 = 18) /\ s + 1 >= 19
  <2>1. s \in 1 .. 34
    BY DEF InHandler
  <2> QED
    BY <2>1
<1>3. HandledAt(p, at, s, regs, rsp, mem)
  BY DEF InHandler
<1>4. Laid(p, at', s + 1, mem')
  <2>1. Depth(s) \in Int /\ Depth(s + 1) \in Int
    BY <1>2, DepthIs
  <2>2. \A d \in Shown : d <= Depth(s + 1) => d <= Depth(s)
    BY <2>1 DEF Shown
  <2> QED
    BY <1>1, <1>3, <2>2 DEF HandledAt, Laid
<1>5. /\ at.code \in {"stub", "load"}
      /\ at.code = "stub" => at.vector = p.vector
      /\ at.code = "stub" => IF at.vector \in ErrStubs THEN s + 1 >= 2 ELSE p.code = <<"number", 0>>
  BY <1>2, <1>3 DEF HandledAt
<1>6. HandledAt(p, at', s + 1, regs', rsp', mem')
  BY <1>1, <1>2, <1>4, <1>5 DEF HandledAt
<1>7. Above(rsp, mem, mem')
  BY DEF Above
<1> QED
  BY <1>6, <1>7, StaysInStub

(* The stack pointer InterruptHandler returns is the one it was called     *)
(* with.                                                                   *)
LEMMA SwitchKeeps == StackInv /\ SwitchStack => StackInv'
<1> SUFFICES ASSUME StackInv, SwitchStack PROVE StackInv'
  OBVIOUS
<1> DEFINE p == Head(pending)
           s == Phase(at)
<1>1. at.code \in {"stub", "load"} /\ Insn.op = "mov"
  BY DEF SwitchStack, InStub
<1>2. InHandler(p, s)
  BY <1>1, StubIsHandled
<1> HIDE DEF p, s
<1>3. s = 18
  BY <1>1, <1>2 DEF InHandler, OpOf
<1>4. HandledAt(p, at, 18, regs, rsp, mem) /\ IsRegisters(regs)
  BY <1>2, <1>3 DEF InHandler
<1>5. regs["RAX"] = <<"RSP", rsp>> /\ rsp = Base(p, at) - Depth(18)
  BY <1>4 DEF HandledAt
<1>6. /\ Advance /\ regs' = regs /\ mem' = mem /\ pending' = pending
      /\ rsp' = regs["RAX"][2]
  BY DEF SwitchStack
<1>7. rsp' = rsp
  BY <1>5, <1>6
<1>8. Depth(18) = 21 /\ Depth(18 + 1) = 21
  BY DEF Depth
<1>9. IsRegisters(regs')
  BY <1>4, <1>6 DEF IsRegisters
<1>10. \A k \in 1 .. 14 : ~(k + 18 < 18 + 1)
  OBVIOUS
<1>11. /\ 18 >= 18 /\ 18 <= 33 /\ Depth(18 + 1) <= Depth(18)
       /\ rsp' = Base(p, at) - Depth(18 + 1)
  BY <1>5, <1>7, <1>8
<1> QED
  BY <1>2, <1>3, <1>6, <1>9, <1>10, <1>11, ReturnsFurther

(* A pop restores the register of its phase.                               *)
LEMMA PopKeeps == StackInv /\ Pop => StackInv'
<1> SUFFICES ASSUME StackInv, Pop PROVE StackInv'
  OBVIOUS
<1> DEFINE p == Head(pending)
           s == Phase(at)
<1>1. at.code \in {"stub", "load"} /\ Insn.op = "pop"
  BY DEF Pop, InStub
<1>2. InHandler(p, s)
  BY <1>1, StubIsHandled
<1> HIDE DEF p, s
<1>3. s \in 19 .. 32
  BY <1>1, <1>2 DEF InHandler, OpOf
<1>4. PICK k \in 1 .. 14 : s = k + 18
  <2>1. s - 18 \in 1 .. 14 /\ s = (s - 18) + 18
    BY <1>3
  <2> QED
    BY <2>1
<1>5. Insn = [op |-> "pop", reg |-> PopOrder[k]]
  BY <1>2, <1>4, Instructions DEF InHandler
<1>6. /\ Advance /\ mem' = mem /\ pending' = pending /\ rsp' = rsp + 1
      /\ regs' = [regs EXCEPT ![PopOrder[k]] = mem[rsp]]
  <2>1. Insn.reg = PopOrder[k]
    BY <1>5
  <2> QED
    BY <2>1 DEF Pop
<1>7. HandledAt(p, at, s, regs, rsp, mem) /\ IsRegisters(regs) /\ IsContext(p)
  BY <1>2 DEF InHandler
<1>8. Base(p, at) \in Int /\ rsp = Base(p, at) - Depth(s)
  BY <1>7, BaseIs DEF HandledAt
<1>9. Depth(s) = 40 - s /\ Depth(s + 1) = (IF s = 33 THEN 5 ELSE 39 - s)
  BY <1>3 DEF Depth
<1>10. mem[rsp] = p.regs[PopOrder[k]]
  <2> DEFINE d == 40 - s
  <2>1. d \in Shown /\ d <= Depth(s) /\ d - 7 = 15 - k /\ d \notin {2, 3, 5, 6, 7}
    BY <1>3, <1>4, <1>9 DEF Shown
  <2>2. mem[Base(p, at) - d] = Cell(p, d)
    BY <1>7, <2>1 DEF HandledAt, Laid
  <2>3. rsp = Base(p, at) - d
    BY <1>8, <1>9
  <2>4. Cell(p, d) = p.regs[PushOrder[15 - k]]
    BY <2>1 DEF Cell
  <2> HIDE DEF d
  <2> QED
    BY <2>2, <2>3, <2>4, Orders
<1>11. PopOrder[k] \in Registers /\ IsRegisters(regs')
  BY <1>6, <1>7, Orders DEF IsRegisters
<1>12. \A i \in 1 .. 14 : i + 18 < s + 1 => regs'[PopOrder[i]] = p.regs[PopOrder[i]]
  <2>1. ASSUME NEW i \in 1 .. 14, i + 18 < s + 1
        PROVE  regs'[PopOrder[i]] = p.regs[PopOrder[i]]
    <3>1. PopOrder[i] \in Registers
      BY Orders
    <3>2. CASE PopOrder[i] = PopOrder[k]
      BY <1>6, <1>7, <1>10, <1>11, <3>2 DEF IsRegisters
    <3>3. CASE PopOrder[i] # PopOrder[k]
      <4>1. i + 18 < s
        <5>1. i # k
          BY <3>3
        <5> QED
          BY <1>4, <2>1, <5>1
      <4>2. regs[PopOrder[i]] = p.regs[PopOrder[i]]
        BY <1>7, <4>1 DEF HandledAt
      <4> QED
        BY <1>6, <1>7, <3>1, <3>3, <4>2 DEF IsRegisters
    <3> QED
      BY <3>2, <3>3
  <2> QED
    BY <2>1
<1>13. /\ s >= 18 /\ s <= 33 /\ Depth(s + 1) <= Depth(s)
       /\ rsp' = Base(p, at) - Depth(s + 1)
  BY <1>3, <1>6, <1>8, <1>9
<1> QED
  BY <1>2, <1>6, <1>11, <1>12, <1>13, ReturnsFurther

(* Dropping the vector and the error code leaves the frame on top.         *)
LEMMA DropKeeps == StackInv /\ DropVector => StackInv'
<1> SUFFICES ASSUME StackInv, DropVector PROVE StackInv'
  OBVIOUS
<1> DEFINE p == Head(pending)
           s == Phase(at)
<1>1. at.code \in {"stub", "load"} /\ Insn.op = "add"
  BY DEF DropVector, InStub
<1>2. InHandler(p, s)
  BY <1>1, StubIsHandled
<1> HIDE DEF p, s
<1>3. s = 33
  BY <1>1, <1>2 DEF InHandler, OpOf
<1>4. HandledAt(p, at, 33, regs, rsp, mem) /\ IsRegisters(regs) /\ IsContext(p)
  BY <1>2, <1>3 DEF InHandler
<1>5. Base(p, at) \in Int /\ rsp = Base(p, at) - Depth(33)
  BY <1>4, BaseIs DEF HandledAt
<1>6. Advance /\ regs' = regs /\ mem' = mem /\ pending' = pending /\ rsp' = rsp + 2
  BY DEF DropVector
<1>7. Depth(33) = 7 /\ Depth(33 + 1) = 5
  BY DEF Depth
<1>8. IsRegisters(regs')
  BY <1>4, <1>6 DEF IsRegisters
<1>9. \A k \in 1 .. 14 : k + 18 < 33 + 1 => regs'[PopOrder[k]] = p.regs[PopOrder[k]]
  <2>1. \A k \in 1 .. 14 : k + 18 < 33
    OBVIOUS
  <2> QED
    BY <1>4, <1>6, <2>1 DEF HandledAt
<1>10. /\ 33 >= 18 /\ 33 <= 33 /\ Depth(33 + 1) <= Depth(33)
       /\ rsp' = Base(p, at) - Depth(33 + 1)
  BY <1>5, <1>6, <1>7
<1> QED
  BY <1>2, <1>3, <1>6, <1>8, <1>9, <1>10, ReturnsFurther

(* The return restores what the interruption found.                        *)
LEMMA IretRestores ==
    ASSUME StackInv, Iret
    PROVE  LET p == Head(pending)
           IN  /\ InHandler(p, Phase(at))
               /\ at' = p.at /\ flags' = p.flags /\ rsp' = p.rsp
               /\ regs' = p.regs /\ pending' = Tail(pending)
               /\ mem' = [a \in {b \in DOMAIN mem : b >= p.rsp} |-> mem[a]]
<1> DEFINE p == Head(pending)
           s == Phase(at)
<1>1. at.code \in {"stub", "load"} /\ Insn.op = "iret"
  BY DEF Iret, InStub
<1>2. InHandler(p, s)
  BY <1>1, StubIsHandled
<1> HIDE DEF p, s
<1>3. s = 34
  BY <1>1, <1>2 DEF InHandler, OpOf
<1>4. HandledAt(p, at, 34, regs, rsp, mem) /\ IsRegisters(regs) /\ IsContext(p)
  BY <1>2, <1>3 DEF InHandler
<1>5. Base(p, at) \in Int /\ rsp = Base(p, at) - 5 /\ Depth(34) = 5
  BY <1>4, BaseIs DEF HandledAt, Depth
<1>6. \A d \in {2, 3, 5} : mem[Base(p, at) - d] = Cell(p, d)
  BY <1>4, <1>5 DEF HandledAt, Laid, Shown
<1>7. mem[rsp] = <<"RIP", p.at>> /\ mem[rsp + 2] = <<"RFLAGS", p.flags>>
      /\ mem[rsp + 3] = <<"RSP", p.rsp>>
  <2>1. /\ rsp = Base(p, at) - 5 /\ rsp + 2 = Base(p, at) - 3 /\ rsp + 3 = Base(p, at) - 2
    BY <1>5
  <2> QED
    BY <1>6, <2>1 DEF Cell
<1>8. regs = p.regs
  <2>1. \A k \in 1 .. 14 : k + 18 < 34
    OBVIOUS
  <2>2. \A k \in 1 .. 14 : regs[PopOrder[k]] = p.regs[PopOrder[k]]
    BY <1>4, <2>1 DEF HandledAt
  <2>3. \A r \in Registers : regs[r] = p.regs[r]
    BY <2>2, Orders
  <2> QED
    BY <1>4, <2>3 DEF IsRegisters, IsContext
<1>9. /\ at' = mem[rsp][2] /\ flags' = mem[rsp + 2][2] /\ rsp' = mem[rsp + 3][2]
      /\ mem' = [a \in {b \in DOMAIN mem : b >= rsp'} |-> mem[a]]
      /\ pending' = Tail(pending) /\ regs' = regs
  BY DEF Iret
<1>10. at' = p.at /\ flags' = p.flags /\ rsp' = p.rsp
  BY <1>7, <1>9
<1> QED
  BY <1>2, <1>8, <1>9, <1>10 DEF p, s

(* The tail of a sequence.                                                 *)
LEMMA TailIs ==
    ASSUME NEW S, NEW s \in Seq(S), Len(s) >= 1
    PROVE  /\ Tail(s) \in Seq(S) /\ Len(Tail(s)) = Len(s) - 1
           /\ \A k \in 1 .. Len(Tail(s)) : Tail(s)[k] = s[k + 1]
           /\ Len(Tail(s)) > 0 => Head(Tail(s)) = Tail(s)[1]
           /\ Len(Tail(s)) = 0 => Tail(s) = <<>>
<1>1. Tail(s) \in Seq(S) /\ Len(Tail(s)) = Len(s) - 1
  OBVIOUS
<1>2. \A k \in 1 .. Len(Tail(s)) : Tail(s)[k] = s[k + 1]
  OBVIOUS
<1> DEFINE t == Tail(s)
<1> HIDE DEF t
<1>3. \A u \in Seq(S) : (Len(u) > 0 => Head(u) = u[1]) /\ (Len(u) = 0 => u = <<>>)
  OBVIOUS
<1> QED
  BY <1>1, <1>2, <1>3

(* After the return the next interruption goes on from where it was        *)
(* interrupted.                                                            *)
LEMMA IretKeeps == StackInv /\ Iret => StackInv'
<1> SUFFICES ASSUME StackInv, Iret PROVE StackInv'
  OBVIOUS
<1> DEFINE p == Head(pending)
           ps == pending
           qs == Tail(pending)
<1>1. /\ InHandler(p, Phase(at))
      /\ at' = p.at /\ rsp' = p.rsp /\ regs' = p.regs /\ pending' = qs
      /\ mem' = [a \in {b \in DOMAIN mem : b >= p.rsp} |-> mem[a]]
  BY IretRestores
<1> HIDE DEF p
<1>2. /\ Len(ps) \in Nat \ {0} /\ p = ps[1] /\ IsContext(p) /\ Pending(ps, rsp, mem)
  BY <1>1 DEF InHandler
<1>3. PICK S : ps \in Seq(S)
  BY DEF StackInv, Sequential
<1>4. /\ qs \in Seq(S) /\ Len(qs) = Len(ps) - 1
      /\ \A k \in 1 .. Len(qs) : qs[k] = ps[k + 1]
      /\ Len(qs) > 0 => Head(qs) = qs[1]
      /\ Len(qs) = 0 => qs = <<>>
  <2>1. pending \in Seq(S) /\ Len(pending) >= 1
    BY <1>2, <1>3
  <2> QED
    BY <2>1, TailIs
<1> HIDE DEF qs, ps
<1>5. at' \in Points /\ rsp' \in Int /\ IsRegisters(regs') /\ Sequential'
  <2>1. Sequential'
    BY <1>1, <1>4 DEF Sequential
  <2> QED
    BY <1>1, <1>2, <2>1 DEF IsContext, IsRegisters
<1>6. Above(p.rsp, mem, mem')
  BY <1>1 DEF Above
<1>7. CASE Len(qs) = 0
  <2>1. at' \in KernelPoints
    <3>1. Len(ps) = 1
      BY <1>2, <1>4, <1>7
    <3> QED
      BY <1>1, <1>2, <3>1 DEF Pending
  <2>2. at'.code = "kernel"
    BY <2>1 DEF KernelPoints
  <2>3. Pending(qs, rsp', mem')
    BY <1>7 DEF Pending
  <2> QED
    BY <1>1, <1>4, <1>5, <1>7, <2>1, <2>2, <2>3 DEF StackInv
<1>8. CASE Len(qs) > 0
  <2>1. 1 \in 1 .. Len(ps) - 1 /\ 1 + 1 = 2 /\ 2 \in 1 .. Len(ps) /\ 1 \in 1 .. Len(ps) /\ 1 < 2
    BY <1>2, <1>4, <1>8
  <2>2. Handled(ps[2], p.at, p.regs, p.rsp, mem) /\ IsContext(ps[2])
    BY <1>2, <2>1 DEF Pending
  <2>3. Handled(ps[2], p.at, p.regs, p.rsp, mem')
    BY <1>6, <2>2, HandledBelow
  <2>4. Head(qs) = ps[2]
    BY <1>4, <1>8, <2>1
  <2>5. Pending(qs, p.rsp, mem)
    <3>1. ASSUME NEW k \in 1 .. Len(qs)
          PROVE  IsContext(qs[k]) /\ p.rsp <= qs[k].rsp
      <4>1. k + 1 \in 1 .. Len(ps) /\ 1 < k + 1
        BY <1>2, <1>4
      <4> QED
        BY <1>2, <1>4, <2>1, <4>1 DEF Pending
    <3>2. ASSUME NEW j \in 1 .. Len(qs), NEW k \in 1 .. Len(qs), j < k
          PROVE  qs[j].rsp <= qs[k].rsp
      <4>1. j + 1 \in 1 .. Len(ps) /\ k + 1 \in 1 .. Len(ps) /\ j + 1 < k + 1
        BY <1>2, <1>4, <3>2
      <4> QED
        BY <1>2, <1>4, <4>1 DEF Pending
    <3>3. ASSUME NEW k \in 1 .. Len(qs) - 1
          PROVE  Handled(qs[k + 1], qs[k].at, qs[k].regs, qs[k].rsp, mem)
      <4>1. /\ k + 1 \in 1 .. Len(ps) - 1 /\ k \in 1 .. Len(qs) /\ k + 1 \in 1 .. Len(qs)
        BY <1>2, <1>4
      <4>2. qs[k] = ps[k + 1] /\ qs[k + 1] = ps[(k + 1) + 1]
        BY <1>4, <4>1
      <4> QED
        BY <1>2, <4>1, <4>2 DEF Pending
    <3>4. qs[Len(qs)].at \in KernelPoints
      <4>1. Len(qs) \in 1 .. Len(qs) /\ Len(qs) + 1 = Len(ps)
        BY <1>2, <1>4, <1>8
      <4> QED
        BY <1>2, <1>4, <4>1 DEF Pending
    <3> QED
      BY <3>1, <3>2, <3>3, <3>4 DEF Pending
  <2>6. Pending(qs, rsp', mem')
    <3>1. p.rsp \in Int /\ Len(qs) \in Nat
      BY <1>2, <1>4 DEF IsContext
    <3> QED
      BY <1>1, <1>6, <2>5, <3>1, PendingBelow
  <2>7. at'.code \in {"stub", "load"}
    BY <1>1, <2>2 DEF Handled, HandledAt
  <2> QED
    BY <1>1, <1>5, <1>8, <2>3, <2>4, <2>6, <2>7 DEF StackInv
<1> QED
  BY <1>2, <1>4, <1>7, <1>8

(* A sequence with one element put before it.                              *)
LEMMA OneMore ==
    ASSUME NEW S, NEW s \in Seq(S), NEW e
    PROVE  /\ <<e>> \o s \in Seq(S \cup {e}) /\ Len(<<e>> \o s) = Len(s) + 1
           /\ (<<e>> \o s)[1] = e /\ Head(<<e>> \o s) = e
           /\ \A k \in 1 .. Len(s) : (<<e>> \o s)[k + 1] = s[k]
<1> DEFINE T == S \cup {e}
           c == <<e>> \o s
<1>1. <<e>> \in Seq(T) /\ Len(<<e>>) = 1 /\ <<e>>[1] = e
  OBVIOUS
<1>2. s \in Seq(T) /\ Len(s) \in Nat
  OBVIOUS
<1> HIDE DEF T
<1>3. Joined(T, <<e>>, s, c)
  BY <1>1, <1>2, Concatenation
<1> HIDE DEF c
<1>4. c \in Seq(T) /\ Len(c) = Len(s) + 1
  BY <1>1, <1>2, <1>3 DEF Joined
<1>5. c[1] = e /\ \A k \in 1 .. Len(s) : c[k + 1] = s[k]
  <2>1. c[1] = <<e>>[1]
    BY <1>1, <1>3 DEF Joined
  <2>2. ASSUME NEW k \in 1 .. Len(s) PROVE c[k + 1] = s[k]
    <3>1. c[1 + k] = s[k]
      BY <1>1, <1>3 DEF Joined
    <3>2. 1 + k = k + 1
      OBVIOUS
    <3> QED
      BY <3>1, <3>2
  <2> QED
    BY <1>1, <2>1, <2>2
<1>6. Head(c) = e
  BY <1>2, <1>4, <1>5
<1> QED
  BY <1>4, <1>5, <1>6 DEF c, T

(* A new interruption on top of what is pending.                           *)
LEMMA OneMorePending ==
    ASSUME NEW e, IsContext(e), NEW r \in Int, NEW m, NEW S, NEW ps \in Seq(S),
           Pending(ps, e.rsp, m), r <= e.rsp,
           IF ps = <<>> THEN e.at \in KernelPoints
           ELSE Handled(Head(ps), e.at, e.regs, e.rsp, m)
    PROVE  Pending(<<e>> \o ps, r, m)
<1> DEFINE qs == <<e>> \o ps
<1>1. /\ Len(qs) = Len(ps) + 1 /\ qs[1] = e /\ Len(ps) \in Nat
      /\ \A k \in 1 .. Len(ps) : qs[k + 1] = ps[k]
  BY OneMore
<1>2. (Len(ps) = 0 => ps = <<>>) /\ (Len(ps) > 0 => ps # <<>> /\ Head(ps) = ps[1])
  OBVIOUS
<1> HIDE DEF qs
<1>3. ASSUME NEW k \in 2 .. Len(qs)
      PROVE  /\ k - 1 \in 1 .. Len(ps) /\ qs[k] = ps[k - 1]
             /\ IsContext(qs[k]) /\ e.rsp <= qs[k].rsp
  <2> DEFINE j == k - 1
  <2>1. j \in 1 .. Len(ps) /\ k = j + 1
    BY <1>1
  <2> HIDE DEF j
  <2>2. qs[k] = ps[j]
    BY <1>1, <2>1
  <2>3. IsContext(ps[j]) /\ e.rsp <= ps[j].rsp
    BY <2>1 DEF Pending
  <2> QED
    BY <2>1, <2>2, <2>3 DEF j
<1>4. \A k \in 1 .. Len(qs) : k = 1 \/ k \in 2 .. Len(qs)
  OBVIOUS
<1>5. ASSUME NEW k \in 1 .. Len(qs) PROVE IsContext(qs[k]) /\ r <= qs[k].rsp
  <2>1. CASE k = 1
    BY <1>1, <2>1
  <2>2. CASE k \in 2 .. Len(qs)
    BY <1>3, <2>2 DEF IsContext
  <2> QED
    BY <1>4, <2>1, <2>2
<1>6. ASSUME NEW j \in 1 .. Len(qs), NEW k \in 1 .. Len(qs), j < k
      PROVE  qs[j].rsp <= qs[k].rsp
  <2>1. k \in 2 .. Len(qs)
    BY <1>6
  <2>2. CASE j = 1
    BY <1>1, <1>3, <2>1, <2>2
  <2>3. CASE j \in 2 .. Len(qs)
    <3>1. j - 1 \in 1 .. Len(ps) /\ k - 1 \in 1 .. Len(ps) /\ j - 1 < k - 1
      BY <1>3, <1>6, <2>1, <2>3
    <3>2. ps[j - 1].rsp <= ps[k - 1].rsp
      BY <3>1 DEF Pending
    <3> QED
      BY <1>3, <2>1, <2>3, <3>2
  <2> QED
    BY <1>4, <2>2, <2>3
<1>7. ASSUME NEW k \in 1 .. Len(qs) - 1
      PROVE  Handled(qs[k + 1], qs[k].at, qs[k].regs, qs[k].rsp, m)
  <2>1. k \in 1 .. Len(ps) /\ qs[k + 1] = ps[k]
    BY <1>1
  <2>2. CASE k = 1
    <3>1. Len(ps) > 0 /\ qs[2] = ps[1]
      BY <2>1, <2>2
    <3>2. Handled(ps[1], e.at, e.regs, e.rsp, m)
      BY <1>2, <3>1
    <3> QED
      BY <1>1, <2>1, <2>2, <3>2
  <2>3. CASE k # 1
    <3> DEFINE j == k - 1
    <3>1. j \in 1 .. Len(ps) - 1 /\ k = j + 1 /\ j \in 1 .. Len(ps)
      BY <2>1, <2>3
    <3> HIDE DEF j
    <3>2. qs[k] = ps[j]
      BY <1>1, <3>1
    <3>3. Handled(ps[j + 1], ps[j].at, ps[j].regs, ps[j].rsp, m)
      BY <3>1 DEF Pending
    <3> QED
      BY <2>1, <3>1, <3>2, <3>3
  <2> QED
    BY <2>2, <2>3
<1>8. qs[Len(qs)].at \in KernelPoints
  <2>1. CASE Len(ps) = 0
    BY <1>1, <1>2, <2>1
  <2>2. CASE Len(ps) # 0
    <3>1. Len(ps) \in 1 .. Len(ps)
      BY <1>1, <2>2
    <3>2. qs[Len(qs)] = ps[Len(ps)]
      BY <1>1, <3>1
    <3> QED
      BY <1>1, <2>2, <3>2 DEF Pending
  <2> QED
    BY <2>1, <2>2
<1> QED
  BY <1>1, <1>5, <1>6, <1>7, <1>8 DEF Pending, qs

(* What the processor pushes.                                              *)
LEMMA FrameIs ==
    ASSUME NEW a, NEW b, NEW c, NEW d, NEW e, NEW t, NEW w, NEW W, NEW f,
           f = <<a, b, c, d, e>> \o (IF w \in W THEN <<t>> ELSE <<>>)
    PROVE  /\ Len(f) = IF w \in W THEN 6 ELSE 5
           /\ f[2] = b /\ f[3] = c /\ f[5] = e
           /\ w \in W => f[6] = t
<1> DEFINE S == {a, b, c, d, e, t}
           g == <<a, b, c, d, e>>
           h == IF w \in W THEN <<t>> ELSE <<>>
<1>1. g \in Seq(S) /\ Len(g) = 5 /\ g[2] = b /\ g[3] = c /\ g[5] = e
  OBVIOUS
<1>2. /\ h \in Seq(S) /\ Len(h) = (IF w \in W THEN 1 ELSE 0)
      /\ w \in W => h[1] = t
  <2>1. /\ <<t>> \in Seq(S) /\ Len(<<t>>) = 1 /\ <<t>>[1] = t
        /\ <<>> \in Seq(S) /\ Len(<<>>) = 0
    OBVIOUS
  <2> HIDE DEF S
  <2> QED
    BY <2>1
<1> HIDE DEF S, g, h
<1>3. Joined(S, g, h, f)
  <2>1. f = g \o h
    BY DEF g, h
  <2> QED
    BY <1>1, <1>2, <2>1, Concatenation
<1>4. f[2] = g[2] /\ f[3] = g[3] /\ f[5] = g[5]
  BY <1>1, <1>3 DEF Joined
<1>5. w \in W => f[6] = h[1]
  <2>1. 5 + 1 = 6
    OBVIOUS
  <2> QED
    BY <1>1, <1>2, <1>3, <2>1 DEF Joined
<1> QED
  BY <1>1, <1>2, <1>3, <1>4, <1>5 DEF Joined

(* The processor pushes the frame of a new interruption below the others.  *)
LEMMA RaiseKeeps == StackInv /\ Raise => StackInv'
<1> SUFFICES ASSUME StackInv, Raise PROVE StackInv'
  OBVIOUS
<1>1. PICK v \in IF at.code = "kernel" THEN Vectors
                 ELSE IF \E k \in DOMAIN pending : pending[k].vector \in NMI THEN {}
                 ELSE NMI :
         LET w == Entered(v)
             code == <<"number", 8 * v + 2>>
             aligned == rsp - (rsp % 2)
             frame == <<<<"SS", 48>>, <<"RSP", rsp>>, <<"RFLAGS", flags>>, <<"CS", 40>>, <<"RIP", at>>>>
                      \o (IF w \in HasErrorCode THEN <<code>> ELSE <<>>)
         IN  /\ mem' = Pushed(frame, aligned)
             /\ rsp' = aligned - Len(frame)
             /\ at' = [code |-> "stub", vector |-> w, n |-> 1]
             /\ pending' = <<[vector |-> w, code |-> IF w \in HasErrorCode THEN code ELSE <<"number", 0>>,
                              at |-> at, regs |-> regs, rsp |-> rsp, flags |-> flags]>>
                           \o pending
  BY Zenon DEF Raise
<1> DEFINE w == Entered(v)
           code == <<"number", 8 * v + 2>>
           aligned == rsp - (rsp % 2)
           frame == <<<<"SS", 48>>, <<"RSP", rsp>>, <<"RFLAGS", flags>>, <<"CS", 40>>, <<"RIP", at>>>>
                    \o (IF w \in HasErrorCode THEN <<code>> ELSE <<>>)
           e == [vector |-> w, code |-> IF w \in HasErrorCode THEN code ELSE <<"number", 0>>,
                 at |-> at, regs |-> regs, rsp |-> rsp, flags |-> flags]
<1>2. /\ mem' = Pushed(frame, aligned) /\ rsp' = aligned - Len(frame)
      /\ at' = [code |-> "stub", vector |-> w, n |-> 1]
      /\ pending' = <<e>> \o pending
  BY <1>1
<1>3. at.code # "panic" /\ regs' = regs
  BY DEF Raise
<1>4. v \in Vectors \cup NMI
  <2>1. CASE at.code = "kernel"
    BY <2>1
  <2>2. CASE at.code # "kernel" /\ \E k \in DOMAIN pending : pending[k].vector \in NMI
    BY <2>2
  <2>3. CASE at.code # "kernel" /\ ~\E k \in DOMAIN pending : pending[k].vector \in NMI
    BY <2>3
  <2> QED
    BY <2>1, <2>2, <2>3
<1>5. w \in 0 .. 255 /\ (w \in HasErrorCode <=> w \in ErrStubs)
  BY <1>4, EnteredIs
<1>6. rsp \in Int /\ aligned \in Int /\ aligned <= rsp
  BY DEF StackInv
<1>7. /\ Len(frame) = (IF w \in HasErrorCode THEN 6 ELSE 5)
      /\ frame[2] = <<"RSP", rsp>> /\ frame[3] = <<"RFLAGS", flags>> /\ frame[5] = <<"RIP", at>>
      /\ w \in HasErrorCode => frame[6] = code
  <2> HIDE DEF w, code
  <2> DEFINE f == frame
             c1 == <<"SS", 48>>
             c2 == <<"RSP", rsp>>
             c3 == <<"RFLAGS", flags>>
             c4 == <<"CS", 40>>
             c5 == <<"RIP", at>>
  <2>1. f = <<c1, c2, c3, c4, c5>> \o (IF w \in HasErrorCode THEN <<code>> ELSE <<>>)
    OBVIOUS
  <2>2. frame = f /\ c2 = <<"RSP", rsp>> /\ c3 = <<"RFLAGS", flags>> /\ c5 = <<"RIP", at>>
    OBVIOUS
  <2> HIDE DEF f, frame, c1, c2, c3, c4, c5
  <2>3. /\ Len(f) = (IF w \in HasErrorCode THEN 6 ELSE 5)
        /\ f[2] = c2 /\ f[3] = c3 /\ f[5] = c5
        /\ w \in HasErrorCode => f[6] = code
    BY <2>1, FrameIs
  <2> QED
    BY <2>2, <2>3
<1>8. /\ e.vector = w /\ e.at = at /\ e.regs = regs /\ e.rsp = rsp /\ e.flags = flags
      /\ e.code = IF w \in HasErrorCode THEN code ELSE <<"number", 0>>
  OBVIOUS
<1> HIDE DEF w, code, frame, e
<1>9. IsContext(e)
  BY <1>5, <1>6, <1>8 DEF IsContext, StackInv
<1>10. /\ at'.code = "stub" /\ at'.vector = w /\ at'.n = 1 /\ at' \in Points
       /\ Base(e, at') = aligned
  <2>1. at'.code = "stub" /\ at'.vector = w /\ at'.n = 1 /\ at' \in Points
    BY <1>2, <1>5 DEF Points
  <2> QED
    BY <1>8, <2>1 DEF Base
<1> HIDE DEF aligned
<1>11. HasPushed(frame, aligned, mem, mem')
  <2>1. Len(frame) \in Nat
    BY <1>7
  <2> QED
    BY <1>2, <1>6, <2>1, PushedIs
<1>12. Above(rsp, mem, mem')
  BY <1>6, <1>11 DEF HasPushed, Above
<1>13. \A d \in 1 .. Len(frame) : aligned - d \in DOMAIN mem' /\ mem'[aligned - d] = frame[d]
  <2>1. ASSUME NEW d \in 1 .. Len(frame)
        PROVE  aligned - d \in DOMAIN mem' /\ mem'[aligned - d] = frame[d]
    <3>1. Len(frame) \in Nat
      BY <1>7
    <3>2. aligned - d \in aligned - Len(frame) .. aligned - 1 /\ aligned - (aligned - d) = d
      BY <1>6, <3>1
    <3> QED
      BY <1>11, <3>2 DEF HasPushed
  <2> QED
    BY <2>1
<1>14. Handled(e, at', regs', rsp', mem')
  <2> DEFINE s == Phase(at')
  <2>1. s = IF w \in ErrStubs THEN 2 ELSE 1
    BY <1>10 DEF Phase
  <2>2. Depth(s) = Len(frame)
    BY <1>5, <1>7, <2>1 DEF Depth
  <2> HIDE DEF s
  <2>3. Laid(e, at', s, mem')
    <3>1. ASSUME NEW d \in Shown, d <= Depth(s)
          PROVE  aligned - d \in DOMAIN mem' /\ mem'[aligned - d] = Cell(e, d)
      <4>1. d \in {2, 3, 5} \/ (d = 6 /\ w \in HasErrorCode)
        BY <1>7, <2>2, <3>1 DEF Shown
      <4>2. d \in 1 .. Len(frame)
        BY <1>7, <4>1
      <4>3. frame[d] = Cell(e, d)
        BY <1>7, <1>8, <4>1 DEF Cell
      <4> QED
        BY <1>13, <4>2, <4>3
    <3> QED
      BY <1>10, <3>1 DEF Laid
  <2>4. /\ s \in 1 .. 34 /\ s <= 17 /\ ~(s = 18) /\ \A k \in 1 .. 14 : ~(k + 18 < s)
        /\ IF at'.vector \in ErrStubs THEN s >= 2 ELSE e.code = <<"number", 0>>
    BY <1>5, <1>8, <1>10, <2>1
  <2>5. rsp' = Base(e, at') - Depth(s)
    BY <1>2, <1>10, <2>2
  <2>6. regs' = e.regs /\ at'.vector = e.vector
    BY <1>3, <1>8, <1>10
  <2> QED
    BY <1>10, <2>3, <2>4, <2>5, <2>6 DEF Handled, HandledAt, s
<1>15. PICK S : pending \in Seq(S)
  BY DEF StackInv, Sequential
<1>16. Pending(pending, e.rsp, mem')
  <2>1. Pending(pending, rsp, mem)
    BY <1>3 DEF StackInv
  <2>2. Len(pending) \in Nat
    BY <1>15
  <2>3. rsp \in Int /\ rsp <= rsp
    BY <1>6
  <2>4. Pending(pending, rsp, mem')
    BY <1>12, <2>1, <2>2, <2>3, PendingBelow
  <2> QED
    BY <1>8, <2>4
<1>17. IF pending = <<>> THEN e.at \in KernelPoints
       ELSE Handled(Head(pending), e.at, e.regs, e.rsp, mem')
  <2>1. CASE pending = <<>>
    <3>1. Len(pending) = 0
      BY <2>1
    <3>2. at.code \notin {"stub", "load"}
      BY <3>1 DEF StackInv
    <3>3. at.code = "kernel"
      BY <1>3, <3>2 DEF StackInv, Points
    <3> QED
      BY <1>8, <2>1, <3>3 DEF StackInv
  <2>2. CASE pending # <<>>
    <3>1. at.code \in {"stub", "load"}
      BY <1>3, <2>2 DEF StackInv, Points
    <3>2. /\ Handled(Head(pending), at, regs, rsp, mem)
          /\ IsContext(Head(pending))
      BY <3>1, StubIsHandled DEF InHandler, Handled
    <3> QED
      BY <1>8, <1>12, <2>2, <3>2, HandledBelow
  <2> QED
    BY <2>1, <2>2
<1>18. rsp' \in Int /\ rsp' <= e.rsp
  BY <1>2, <1>6, <1>7, <1>8
<1>19. Pending(pending', rsp', mem')
  BY <1>2, <1>9, <1>15, <1>16, <1>17, <1>18, OneMorePending
<1>20. Sequential' /\ Len(pending') > 0 /\ Head(pending') = e
  <2>1. /\ pending' \in Seq(S \cup {e}) /\ Len(pending') = Len(pending) + 1
        /\ Head(pending') = e /\ Len(pending) \in Nat
    BY <1>2, <1>15, OneMore
  <2> QED
    BY <2>1 DEF Sequential
<1>21. IsRegisters(regs')
  BY <1>3 DEF StackInv
<1> QED
  BY <1>10, <1>14, <1>18, <1>19, <1>20, <1>21 DEF StackInv

(* The frame and the registers LoadSchedulerContext writes.                *)
LEMMA ContextIs ==
    ASSUME NEW a, NEW b, NEW c, NEW d, NEW e, NEW g, NEW h, NEW x(_), NEW f,
           f = <<a, b, c, d, e, g, h>> \o [k \in 1 .. 14 |-> x(k)]
    PROVE  /\ Len(f) = 21 /\ f[2] = b /\ f[3] = c /\ f[5] = e /\ f[6] = g /\ f[7] = h
           /\ \A k \in 1 .. 14 : f[7 + k] = x(k)
<1> DEFINE S == {a, b, c, d, e, g, h} \cup {x(k) : k \in 1 .. 14}
           s == <<a, b, c, d, e, g, h>>
           t == [k \in 1 .. 14 |-> x(k)]
<1>1. /\ s \in Seq(S) /\ Len(s) = 7 /\ s[2] = b /\ s[3] = c /\ s[5] = e
      /\ s[6] = g /\ s[7] = h
  OBVIOUS
<1>2. \A k \in 1 .. 14 : x(k) \in S
  OBVIOUS
<1>3. \A k \in 1 .. 14 : t[k] = x(k)
  OBVIOUS
<1> HIDE DEF S, s
<1>4. t \in Seq(S) /\ Len(t) = 14
  BY <1>2, LongSequence
<1> HIDE DEF t
<1>5. Joined(S, s, t, f)
  <2>1. f = s \o t
    BY DEF s, t
  <2> QED
    BY <1>1, <1>4, <2>1, Concatenation
<1>6. /\ Len(f) = 21 /\ \A i \in 1 .. 7 : f[i] = s[i]
      /\ \A i \in 1 .. 14 : f[7 + i] = t[i]
  BY <1>1, <1>4, <1>5 DEF Joined
<1> QED
  BY <1>1, <1>3, <1>6

(* LoadSchedulerContext lays the frame and the registers of the context.   *)
LEMMA LoadKeeps == StackInv /\ LoadSchedulerContext => StackInv'
<1> SUFFICES ASSUME StackInv, LoadSchedulerContext PROVE StackInv'
  OBVIOUS
<1>1. PICK context \in Contexts :
         /\ mem' = Pushed(<<<<"SS", 0>>, <<"RSP", context.SP>>, <<"RFLAGS", context.RFLAGS>>,
                            <<"CS", IF context.InKernel THEN 40 ELSE 56>>, <<"RIP", context.IP>>,
                            <<"number", 0>>, <<"number", 0>>>>
                          \o [k \in DOMAIN PushOrder |-> context.Registers[PushOrder[k]]], context.SP)
         /\ rsp' = context.SP - 7 - Len(PushOrder)
         /\ pending' = <<[vector |-> 0, code |-> <<"number", 0>>, at |-> context.IP,
                          regs |-> context.Registers, rsp |-> context.SP,
                          flags |-> context.RFLAGS]>>
  BY DEF LoadSchedulerContext
<1> DEFINE SP == context.SP
           zero == <<"number", 0>>
           X(k) == context.Registers[PushOrder[k]]
           cells == <<<<"SS", 0>>, <<"RSP", SP>>, <<"RFLAGS", context.RFLAGS>>,
                      <<"CS", IF context.InKernel THEN 40 ELSE 56>>, <<"RIP", context.IP>>,
                      zero, zero>>
                    \o [k \in 1 .. 14 |-> X(k)]
           e == [vector |-> 0, code |-> zero, at |-> context.IP,
                 regs |-> context.Registers, rsp |-> SP, flags |-> context.RFLAGS]
<1>2. DOMAIN PushOrder = 1 .. 14 /\ Len(PushOrder) = 14
  BY Orders
<1>3. mem' = Pushed(cells, SP) /\ rsp' = SP - 7 - 14 /\ pending' = <<e>>
  BY <1>1, <1>2
<1>4. IsRegisters(context.Registers) /\ context.IP \in KernelPoints /\ SP \in Int
  BY ContextsAssumption DEF IsRegisters
<1>5. /\ e.vector = 0 /\ e.code = zero /\ e.at = context.IP /\ e.rsp = SP
      /\ e.regs = context.Registers /\ e.flags = context.RFLAGS
  OBVIOUS
<1>6. /\ Len(cells) = 21 /\ cells[2] = <<"RSP", SP>> /\ cells[3] = <<"RFLAGS", context.RFLAGS>>
      /\ cells[5] = <<"RIP", context.IP>> /\ cells[6] = zero /\ cells[7] = zero
      /\ \A k \in 1 .. 14 : cells[7 + k] = X(k)
  <2> DEFINE f == cells
             c1 == <<"SS", 0>>
             c2 == <<"RSP", SP>>
             c3 == <<"RFLAGS", context.RFLAGS>>
             c4 == <<"CS", IF context.InKernel THEN 40 ELSE 56>>
             c5 == <<"RIP", context.IP>>
  <2>1. f = <<c1, c2, c3, c4, c5, zero, zero>> \o [k \in 1 .. 14 |-> X(k)]
    OBVIOUS
  <2>2. cells = f /\ c2 = <<"RSP", SP>> /\ c3 = <<"RFLAGS", context.RFLAGS>>
        /\ c5 = <<"RIP", context.IP>>
    OBVIOUS
  <2> HIDE DEF f, cells, c1, c2, c3, c4, c5, zero, X
  <2>3. /\ Len(f) = 21 /\ f[2] = c2 /\ f[3] = c3 /\ f[5] = c5 /\ f[6] = zero /\ f[7] = zero
        /\ \A k \in 1 .. 14 : f[7 + k] = X(k)
    BY <2>1, ContextIs
  <2> QED
    BY <2>2, <2>3
<1>7. zero = <<"number", 0>> /\ \A k \in 1 .. 14 : X(k) = e.regs[PushOrder[k]]
  BY <1>5
<1> HIDE DEF cells, zero, X, e, SP
<1>8. HasPushed(cells, SP, mem, mem')
  <2>1. Len(cells) \in Nat
    BY <1>6
  <2> QED
    BY <1>3, <1>4, <2>1, PushedIs
<1>9. \A d \in 1 .. 21 : SP - d \in DOMAIN mem' /\ mem'[SP - d] = cells[d]
  <2>1. ASSUME NEW d \in 1 .. 21
        PROVE  SP - d \in DOMAIN mem' /\ mem'[SP - d] = cells[d]
    <3>1. SP - d \in SP - 21 .. SP - 1 /\ SP - (SP - d) = d
      BY <1>4
    <3> QED
      BY <1>6, <1>8, <3>1 DEF HasPushed
  <2> QED
    BY <2>1
<1>10. /\ at' = [code |-> "load", vector |-> 0, n |-> 1] /\ regs' = regs
  BY DEF LoadSchedulerContext
<1>11. at' \in Points /\ at'.code = "load" /\ at'.n = 1
  BY <1>10 DEF Points
<1>12. IsContext(e)
  <2>1. context.IP \in Points
    BY <1>4 DEF KernelPoints, Points
  <2> QED
    BY <1>4, <1>5, <2>1 DEF IsContext
<1>13. Phase(at') = 19 /\ Depth(19) = 21 /\ Base(e, at') = SP
  BY <1>5, <1>11 DEF Phase, Depth, Base
<1>14. Laid(e, at', 19, mem')
  <2>1. ASSUME NEW d \in Shown
        PROVE  SP - d \in DOMAIN mem' /\ mem'[SP - d] = Cell(e, d)
    <3>1. d \in 1 .. 21
      BY DEF Shown
    <3>2. cells[d] = Cell(e, d)
      <4>1. CASE d \in {2, 3, 5, 6, 7}
        BY <1>5, <1>6, <1>7, <4>1 DEF Cell
      <4>2. CASE d \in 8 .. 21
        <5>1. PICK k \in 1 .. 14 : d = 7 + k
          <6>1. d - 7 \in 1 .. 14 /\ d = 7 + (d - 7)
            BY <4>2
          <6> QED
            BY <6>1
        <5>2. d \notin {2, 3, 5, 6, 7} /\ d - 7 = k
          BY <5>1
        <5>3. cells[d] = e.regs[PushOrder[k]]
          BY <1>6, <1>7, <5>1
        <5> QED
          BY <5>2, <5>3 DEF Cell
      <4> QED
        BY <4>1, <4>2 DEF Shown
    <3> QED
      BY <1>9, <3>1, <3>2
  <2> QED
    BY <1>13, <2>1 DEF Laid
<1>15. Handled(e, at', regs', rsp', mem')
  <2>1. rsp' = Base(e, at') - Depth(19)
    BY <1>3, <1>4, <1>13
  <2>2. at'.code # "stub" /\ at'.code \in {"stub", "load"}
    BY <1>11
  <2>3. 19 \in 1 .. 34 /\ 19 >= 19 /\ ~(19 <= 17) /\ ~(19 = 18) /\ \A k \in 1 .. 14 : ~(k + 18 < 19)
    OBVIOUS
  <2>4. HandledAt(e, at', 19, regs', rsp', mem')
    BY <1>11, <1>14, <2>1, <2>2, <2>3 DEF HandledAt
  <2> QED
    BY <1>13, <2>4 DEF Handled
<1>16. /\ Sequential' /\ Len(pending') = 1 /\ Head(pending') = e /\ pending'[1] = e
  <2>1. /\ <<e>> \in Seq({e}) /\ Len(<<e>>) = 1 /\ Head(<<e>>) = e /\ <<e>>[1] = e
    OBVIOUS
  <2> QED
    BY <1>3, <2>1 DEF Sequential
<1>17. rsp' \in Int /\ rsp' <= e.rsp
  BY <1>3, <1>4, <1>5
<1>18. Pending(pending', rsp', mem')
  <2>1. \A k \in 1 .. Len(pending') : k = 1
    BY <1>16
  <2>2. 1 .. Len(pending') - 1 = {}
    BY <1>16
  <2>3. e.rsp <= e.rsp
    BY <1>12 DEF IsContext
  <2>4. e.at \in KernelPoints
    BY <1>4, <1>5
  <2> QED
    BY <1>12, <1>16, <1>17, <2>1, <2>2, <2>3, <2>4 DEF Pending
<1>19. IsRegisters(regs')
  BY <1>10 DEF StackInv
<1> QED
  BY <1>11, <1>15, <1>16, <1>17, <1>18, <1>19 DEF StackInv

-----------------------------------------------------------------------------
(* The theorems.                                                           *)

(* A step that changes nothing.                                            *)
LEMMA StutterKeeps == StackInv /\ UNCHANGED vars => StackInv'
  BY DEF StackInv, vars, Sequential

(* Whatever is raised, at any instruction of a stub too, the stack holds   *)
(* the frame of every interruption that has not returned, each below the   *)
(* one before it, as far as the stub has got.                              *)
THEOREM StackIsKept == Spec => []StackInv
<1>1. StackInv /\ [Next]_vars => StackInv'
  BY WorkKeeps, LoadKeeps, RaiseKeeps, PushKeeps, HandlerKeeps, SwitchKeeps, PopKeeps,
     DropKeeps, IretKeeps, StutterKeeps DEF Next, Execute
<1> QED
  BY InitHolds, <1>1, PTL DEF Spec

(* InterruptHandler is always shown the vector, the error code, the        *)
(* registers and the return frame of the interruption it is called for:    *)
(* the stubs of the vectors with and without an error code lay the same    *)
(* InterruptStatus.                                                        *)
THEOREM ContextIsShown == Spec => []ContextIsTrue
<1>1. StackInv => ContextIsTrue
  <2> SUFFICES ASSUME StackInv, InStub("call") PROVE ContextIsTrue
    BY DEF ContextIsTrue
  <2>1. at.code \in {"stub", "load"} /\ Insn.op = "call"
    BY DEF InStub
  <2> DEFINE p == Head(pending)
             s == Phase(at)
  <2>2. InHandler(p, s)
    BY <2>1, StubIsHandled
  <2>3. s = 17
    BY <2>1, <2>2 DEF InHandler, OpOf
  <2> HIDE DEF p, s
  <2>4. InHandler(p, 17)
    BY <2>2, <2>3
  <2> QED
    BY <2>4, ContextIsLaid DEF ContextIsTrue, p
<1> QED
  BY StackIsKept, <1>1, PTL

(* Only the return from a stub ends an interruption.                       *)
LEMMA OnlyIretReturns ==
    ASSUME StackInv, [Next]_vars, Len(pending') < Len(pending)
    PROVE  Iret
<1>1. PICK S : pending \in Seq(S)
  BY DEF StackInv, Sequential
<1>2. Len(pending) \in Nat
  BY <1>1
<1>3. pending' # pending
  BY <1>2
<1>4. ~LoadSchedulerContext
  <2>1. ASSUME LoadSchedulerContext PROVE FALSE
    <3>1. pending = <<>>
      BY <2>1 DEF LoadSchedulerContext, StackInv
    <3>2. Len(pending) = 0
      BY <3>1
    <3>3. PICK e : pending' = <<e>>
      BY <2>1, Zenon DEF LoadSchedulerContext
    <3>4. Len(pending') = 1
      BY <3>3
    <3> QED
      BY <3>2, <3>4
  <2> QED
    BY <2>1
<1>5. ~Raise
  <2>1. ASSUME Raise PROVE FALSE
    <3>1. PICK e : pending' = <<e>> \o pending
      BY <2>1, Zenon DEF Raise
    <3>2. Len(pending') = Len(pending) + 1
      BY <1>1, <3>1, OneMore
    <3> QED
      BY <1>2, <3>2
  <2> QED
    BY <2>1
<1> QED
  BY <1>3, <1>4, <1>5
     DEF Next, Execute, Work, Push, InterruptHandler, SwitchStack, Pop, DropVector, vars

(* An interruption that returns leaves the interrupted code, a stub too,   *)
(* where it was, with its registers, flags and stack pointer, and loading  *)
(* a scheduler context ends with what the context says.                    *)
THEOREM InterruptsAreTransparent == Spec => Transparent
<1>1. StackInv /\ [Next]_vars =>
        (Len(pending') < Len(pending) =>
           LET last == Head(pending)
           IN  at' = last.at /\ regs' = last.regs /\ flags' = last.flags /\ rsp' = last.rsp)
  BY OnlyIretReturns, IretRestores
<1> QED
  BY StackIsKept, <1>1, PTL DEF Spec, Transparent

=============================================================================
