-------------------------- MODULE LinkedListProofs --------------------------
(***************************************************************************)
(* Lemmas about the list functions of module LinkedList, for any set of    *)
(* elements and lists: the fields keep their types, and appending an       *)
(* element or removing the first or last one does to a chain what its name *)
(* says and leaves the other chains alone.  Called as LinkedListSpec calls *)
(* them, they keep the lists well formed, leave no link in what they let   *)
(* go, and are the sequence operations of ListContents.                    *)
(***************************************************************************)
EXTENDS LinkedListSpec, SequenceTheorems, FiniteSetTheorems, WellFoundedInduction, TLAPS

(* The heaps whose fields only lead to elements of N.                      *)
Heaps(E, N, L) ==
    [Next : [E -> N \cup {NULL}], Previous : [E -> N \cup {NULL}],
     Head : [L -> N \cup {NULL}], Tail : [L -> N \cup {NULL}],
     Fault : BOOLEAN]

-----------------------------------------------------------------------------

(* Writing List::Head keeps the fields typed.                              *)
LEMMA SetHeadType ==
    ASSUME NEW E, NEW N, NEW L, NEW h \in Heaps(E, N, L),
           NEW l \in L, NEW e \in N \cup {NULL}
    PROVE  SetHead(h, l, e) \in Heaps(E, N, L)
BY DEF Heaps, SetHead

(* Writing List::Tail keeps the fields typed.                              *)
LEMMA SetTailType ==
    ASSUME NEW E, NEW N, NEW L, NEW h \in Heaps(E, N, L),
           NEW l \in L, NEW e \in N \cup {NULL}
    PROVE  SetTail(h, l, e) \in Heaps(E, N, L)
BY DEF Heaps, SetTail

(* Writing ListHead::Next, or faulting on NULL, keeps the fields typed.    *)
LEMMA SetNextType ==
    ASSUME NEW E, NEW N, NEW L, NEW h \in Heaps(E, N, L),
           NEW e \in E \cup {NULL}, NEW v \in N \cup {NULL}
    PROVE  SetNext(h, e, v) \in Heaps(E, N, L)
BY DEF Heaps, SetNext

(* Writing ListHead::Previous, or faulting on NULL, keeps them typed.      *)
LEMMA SetPreviousType ==
    ASSUME NEW E, NEW N, NEW L, NEW h \in Heaps(E, N, L),
           NEW e \in E \cup {NULL}, NEW v \in N \cup {NULL}
    PROVE  SetPrevious(h, e, v) \in Heaps(E, N, L)
BY DEF Heaps, SetPrevious

(* Every field of a typed heap leads to an element of N or nowhere.        *)
LEMMA FieldsType ==
    ASSUME NEW E, NEW N, NEW L, NEW h \in Heaps(E, N, L), NEW l \in L, NEW e \in E
    PROVE  /\ h.Head[l] \in N \cup {NULL}
           /\ h.Tail[l] \in N \cup {NULL}
           /\ h.Next[e] \in N \cup {NULL}
           /\ h.Previous[e] \in N \cup {NULL}
BY DEF Heaps

(* AddElementToList leads to no element that was not there or added.       *)
LEMMA AddElementType ==
    ASSUME NEW E, NEW N \in SUBSET E, NEW L, NEW h \in Heaps(E, N, L),
           NEW l \in L, NEW e \in N
    PROVE  AddElementToList(h, e, l) \in Heaps(E, N, L)
<1> DEFINE g == IF h.Head[l] = NULL THEN SetPrevious(SetHead(h, l, e), e, NULL) ELSE h
<1>1. g \in Heaps(E, N, L)
  BY SetHeadType, SetPreviousType
<1> HIDE DEF g
<1>2. g.Tail[l] \in N \cup {NULL}
  BY <1>1, FieldsType, e \in E
<1>3. SetNext(SetTail(g, l, e), e, NULL) \in Heaps(E, N, L)
  BY <1>1, SetTailType, SetNextType
<1>4. SetTail(SetPrevious(SetNext(g, g.Tail[l], e), e, g.Tail[l]), l, e) \in Heaps(E, N, L)
  BY <1>1, <1>2, SetTailType, SetNextType, SetPreviousType
<1> QED
  BY <1>3, <1>4 DEF AddElementToList, g

(* RemoveElementFromList leads to no element that was not there.           *)
LEMMA RemoveElementType ==
    ASSUME NEW E, NEW N \in SUBSET E, NEW L, NEW h \in Heaps(E, N, L),
           NEW l \in L, NEW e \in E
    PROVE  RemoveElementFromList(h, e, l) \in Heaps(E, N, L)
<1> DEFINE g == IF e = h.Head[l]
                THEN SetPrevious(SetHead(h, l, h.Next[e]), h.Next[e], NULL)
                ELSE IF e = h.Tail[l]
                THEN SetNext(SetTail(h, l, h.Previous[e]), h.Previous[e], NULL)
                ELSE h
<1>1. SetTail(SetHead(h, l, NULL), l, NULL) \in Heaps(E, N, L)
  BY SetHeadType, SetTailType
<1>2. SetPrevious(SetHead(h, l, h.Next[e]), h.Next[e], NULL) \in Heaps(E, N, L)
  <2>1. /\ h.Next[e] \in N \cup {NULL}
        /\ h.Next[e] \in E \cup {NULL}
    BY FieldsType
  <2>2. SetHead(h, l, h.Next[e]) \in Heaps(E, N, L)
    BY <2>1, SetHeadType
  <2> QED
    BY <2>1, <2>2, SetPreviousType
<1>3. SetNext(SetTail(h, l, h.Previous[e]), h.Previous[e], NULL) \in Heaps(E, N, L)
  <2>1. /\ h.Previous[e] \in N \cup {NULL}
        /\ h.Previous[e] \in E \cup {NULL}
    BY FieldsType
  <2>2. SetTail(h, l, h.Previous[e]) \in Heaps(E, N, L)
    BY <2>1, SetTailType
  <2> QED
    BY <2>1, <2>2, SetNextType
<1>4. g \in Heaps(E, N, L)
  BY <1>2, <1>3
<1> HIDE DEF g
<1>5. SetNext(SetPrevious(g, e, NULL), e, NULL) \in Heaps(E, N, L)
  BY <1>4, SetPreviousType, SetNextType
<1> QED
  BY <1>1, <1>5 DEF RemoveElementFromList, g

-----------------------------------------------------------------------------

Distinct(s) == \A i, j \in 1 .. Len(s) : s[i] = s[j] => i = j

Items(s) == {s[i] : i \in 1 .. Len(s)}

(* Writing List::Head changes nothing else.                                *)
LEMMA SetHeadEffect ==
    ASSUME NEW E, NEW N, NEW L, NEW h \in Heaps(E, N, L), NEW l \in L, NEW v
    PROVE  /\ \A m \in L : SetHead(h, l, v).Head[m] = IF m = l THEN v ELSE h.Head[m]
           /\ SetHead(h, l, v).Tail = h.Tail
           /\ SetHead(h, l, v).Next = h.Next
           /\ SetHead(h, l, v).Previous = h.Previous
           /\ SetHead(h, l, v).Fault = h.Fault
BY DEF SetHead, Heaps

(* Writing List::Tail changes nothing else.                                *)
LEMMA SetTailEffect ==
    ASSUME NEW E, NEW N, NEW L, NEW h \in Heaps(E, N, L), NEW l \in L, NEW v
    PROVE  /\ SetTail(h, l, v).Head = h.Head
           /\ \A m \in L : SetTail(h, l, v).Tail[m] = IF m = l THEN v ELSE h.Tail[m]
           /\ SetTail(h, l, v).Next = h.Next
           /\ SetTail(h, l, v).Previous = h.Previous
           /\ SetTail(h, l, v).Fault = h.Fault
BY DEF SetTail, Heaps

(* Writing ListHead::Next changes nothing else.                            *)
LEMMA SetNextEffect ==
    ASSUME NEW E, NEW N, NEW L, NEW h \in Heaps(E, N, L), NEW e \in E, e # NULL, NEW v
    PROVE  /\ SetNext(h, e, v).Head = h.Head
           /\ SetNext(h, e, v).Tail = h.Tail
           /\ \A x \in E : SetNext(h, e, v).Next[x] = IF x = e THEN v ELSE h.Next[x]
           /\ SetNext(h, e, v).Previous = h.Previous
           /\ SetNext(h, e, v).Fault = h.Fault
BY DEF SetNext, Heaps

(* Writing ListHead::Previous changes nothing else.                        *)
LEMMA SetPreviousEffect ==
    ASSUME NEW E, NEW N, NEW L, NEW h \in Heaps(E, N, L), NEW e \in E, e # NULL, NEW v
    PROVE  /\ SetPrevious(h, e, v).Head = h.Head
           /\ SetPrevious(h, e, v).Tail = h.Tail
           /\ SetPrevious(h, e, v).Next = h.Next
           /\ \A x \in E : SetPrevious(h, e, v).Previous[x] = IF x = e THEN v ELSE h.Previous[x]
           /\ SetPrevious(h, e, v).Fault = h.Fault
BY DEF SetPrevious, Heaps

(* What AddElementToList does to the fields, for an empty list and for one *)
(* with a last element.                                                    *)
LEMMA AddElementEffect ==
    ASSUME NEW E, NEW L, NEW h \in Heaps(E, E, L), NULL \notin E,
           NEW l \in L, NEW e \in E,
           NEW a, a = AddElementToList(h, e, l)
    PROVE  /\ h.Head[l] = NULL /\ h.Tail[l] = NULL =>
                /\ \A m \in L : a.Head[m] = IF m = l THEN e ELSE h.Head[m]
                /\ \A m \in L : a.Tail[m] = IF m = l THEN e ELSE h.Tail[m]
                /\ \A x \in E : a.Next[x] = IF x = e THEN NULL ELSE h.Next[x]
                /\ \A x \in E : a.Previous[x] = IF x = e THEN NULL ELSE h.Previous[x]
                /\ a.Fault = h.Fault
           /\ h.Head[l] # NULL /\ h.Tail[l] # NULL =>
                /\ a.Head = h.Head
                /\ \A m \in L : a.Tail[m] = IF m = l THEN e ELSE h.Tail[m]
                /\ \A x \in E : a.Next[x] = IF x = h.Tail[l] THEN e ELSE h.Next[x]
                /\ \A x \in E : a.Previous[x] = IF x = e THEN h.Tail[l] ELSE h.Previous[x]
                /\ a.Fault = h.Fault
<1>1. e # NULL
  OBVIOUS
<1>2. ASSUME h.Head[l] = NULL, h.Tail[l] = NULL
      PROVE  /\ \A m \in L : a.Head[m] = IF m = l THEN e ELSE h.Head[m]
             /\ \A m \in L : a.Tail[m] = IF m = l THEN e ELSE h.Tail[m]
             /\ \A x \in E : a.Next[x] = IF x = e THEN NULL ELSE h.Next[x]
             /\ \A x \in E : a.Previous[x] = IF x = e THEN NULL ELSE h.Previous[x]
             /\ a.Fault = h.Fault
  <2> DEFINE h1 == SetHead(h, l, e)
             h2 == SetPrevious(h1, e, NULL)
             h3 == SetTail(h2, l, e)
  <2>1. h1 \in Heaps(E, E, L)
    BY SetHeadType
  <2>2. h2 \in Heaps(E, E, L)
    BY <2>1, SetPreviousType
  <2>3. h3 \in Heaps(E, E, L)
    BY <2>2, SetTailType
  <2>4. h2.Tail = h.Tail
    BY <1>1, <2>1, SetHeadEffect, SetTailEffect, SetNextEffect, SetPreviousEffect
  <2>5. a = SetNext(h3, e, NULL)
    BY <1>2, <2>4 DEF AddElementToList
  <2> QED
    BY <1>1, <2>1, <2>2, <2>3, <2>5, SetHeadEffect, SetTailEffect, SetNextEffect, SetPreviousEffect
<1>3. ASSUME h.Head[l] # NULL, h.Tail[l] # NULL
      PROVE  /\ a.Head = h.Head
             /\ \A m \in L : a.Tail[m] = IF m = l THEN e ELSE h.Tail[m]
             /\ \A x \in E : a.Next[x] = IF x = h.Tail[l] THEN e ELSE h.Next[x]
             /\ \A x \in E : a.Previous[x] = IF x = e THEN h.Tail[l] ELSE h.Previous[x]
             /\ a.Fault = h.Fault
  <2> DEFINE t == h.Tail[l]
             h1 == SetNext(h, t, e)
             h2 == SetPrevious(h1, e, t)
  <2>0. t \in E
    BY <1>3, FieldsType
  <2>1. h1 \in Heaps(E, E, L)
    BY <2>0, SetNextType
  <2>2. h2 \in Heaps(E, E, L)
    BY <2>0, <2>1, SetPreviousType
  <2>3. a = SetTail(h2, l, e)
    BY <1>3 DEF AddElementToList
  <2> QED
    BY <1>1, <1>3, <2>0, <2>1, <2>2, <2>3, SetHeadEffect, SetTailEffect, SetNextEffect, SetPreviousEffect
<1> QED
  BY <1>2, <1>3

(* What RemoveElementFromList does to the fields when the list has one     *)
(* element, and when e is its first or its last of several.                *)
LEMMA RemoveElementEffect ==
    ASSUME NEW E, NEW L, NEW h \in Heaps(E, E, L), NULL \notin E,
           NEW l \in L, NEW e \in E,
           NEW r, r = RemoveElementFromList(h, e, l)
    PROVE  /\ h.Head[l] = h.Tail[l] =>
                /\ \A m \in L : r.Head[m] = IF m = l THEN NULL ELSE h.Head[m]
                /\ \A m \in L : r.Tail[m] = IF m = l THEN NULL ELSE h.Tail[m]
                /\ r.Next = h.Next
                /\ r.Previous = h.Previous
                /\ r.Fault = h.Fault
           /\ h.Head[l] # h.Tail[l] /\ e = h.Head[l] /\ h.Next[e] # NULL =>
                /\ \A m \in L : r.Head[m] = IF m = l THEN h.Next[e] ELSE h.Head[m]
                /\ r.Tail = h.Tail
                /\ \A x \in E : r.Next[x] = IF x = e THEN NULL ELSE h.Next[x]
                /\ \A x \in E : r.Previous[x] = IF x \in {h.Next[e], e} THEN NULL ELSE h.Previous[x]
                /\ r.Fault = h.Fault
           /\ h.Head[l] # h.Tail[l] /\ e = h.Tail[l] /\ h.Previous[e] # NULL =>
                /\ r.Head = h.Head
                /\ \A m \in L : r.Tail[m] = IF m = l THEN h.Previous[e] ELSE h.Tail[m]
                /\ \A x \in E : r.Next[x] = IF x \in {h.Previous[e], e} THEN NULL ELSE h.Next[x]
                /\ \A x \in E : r.Previous[x] = IF x = e THEN NULL ELSE h.Previous[x]
                /\ r.Fault = h.Fault
<1>1. e # NULL
  OBVIOUS
<1>2. ASSUME h.Head[l] = h.Tail[l]
      PROVE  /\ \A m \in L : r.Head[m] = IF m = l THEN NULL ELSE h.Head[m]
             /\ \A m \in L : r.Tail[m] = IF m = l THEN NULL ELSE h.Tail[m]
             /\ r.Next = h.Next
             /\ r.Previous = h.Previous
             /\ r.Fault = h.Fault
  <2>1. SetHead(h, l, NULL) \in Heaps(E, E, L)
    BY SetHeadType
  <2>2. r = SetTail(SetHead(h, l, NULL), l, NULL)
    BY <1>2 DEF RemoveElementFromList
  <2> QED
    BY <1>1, <2>1, <2>2, SetHeadEffect, SetTailEffect, SetNextEffect, SetPreviousEffect
<1>3. ASSUME h.Head[l] # h.Tail[l], e = h.Head[l], h.Next[e] # NULL
      PROVE  /\ \A m \in L : r.Head[m] = IF m = l THEN h.Next[e] ELSE h.Head[m]
             /\ r.Tail = h.Tail
             /\ \A x \in E : r.Next[x] = IF x = e THEN NULL ELSE h.Next[x]
             /\ \A x \in E : r.Previous[x] = IF x \in {h.Next[e], e} THEN NULL ELSE h.Previous[x]
             /\ r.Fault = h.Fault
  <2> DEFINE n == h.Next[e]
             h1 == SetHead(h, l, n)
             h2 == SetPrevious(h1, n, NULL)
             h3 == SetPrevious(h2, e, NULL)
  <2>0. n \in E
    BY <1>3, FieldsType
  <2>1. h1 \in Heaps(E, E, L)
    BY <2>0, SetHeadType
  <2>2. h2 \in Heaps(E, E, L)
    BY <2>0, <2>1, SetPreviousType
  <2>3. h3 \in Heaps(E, E, L)
    BY <2>2, SetPreviousType
  <2>4. r = SetNext(h3, e, NULL)
    BY <1>3 DEF RemoveElementFromList
  <2> QED
    BY <1>1, <1>3, <2>0, <2>1, <2>2, <2>3, <2>4, SetHeadEffect, SetTailEffect, SetNextEffect, SetPreviousEffect
<1>4. ASSUME h.Head[l] # h.Tail[l], e = h.Tail[l], h.Previous[e] # NULL
      PROVE  /\ r.Head = h.Head
             /\ \A m \in L : r.Tail[m] = IF m = l THEN h.Previous[e] ELSE h.Tail[m]
             /\ \A x \in E : r.Next[x] = IF x \in {h.Previous[e], e} THEN NULL ELSE h.Next[x]
             /\ \A x \in E : r.Previous[x] = IF x = e THEN NULL ELSE h.Previous[x]
             /\ r.Fault = h.Fault
  <2> DEFINE p == h.Previous[e]
             h1 == SetTail(h, l, p)
             h2 == SetNext(h1, p, NULL)
             h3 == SetPrevious(h2, e, NULL)
  <2>0. p \in E
    BY <1>4, FieldsType
  <2>1. h1 \in Heaps(E, E, L)
    BY <2>0, SetTailType
  <2>2. h2 \in Heaps(E, E, L)
    BY <2>0, <2>1, SetNextType
  <2>3. h3 \in Heaps(E, E, L)
    BY <2>2, SetPreviousType
  <2>4. r = SetNext(h3, e, NULL)
    BY <1>4 DEF RemoveElementFromList
  <2> QED
    BY <1>1, <1>4, <2>0, <2>1, <2>2, <2>3, <2>4, SetHeadEffect, SetTailEffect, SetNextEffect, SetPreviousEffect
<1> QED
  BY <1>2, <1>3, <1>4

-----------------------------------------------------------------------------

(* An element at an end of a chain is on it.                               *)
LEMMA EndIsItem ==
    ASSUME NEW E, NEW L, NEW h, NULL \notin E, NEW l \in L, NEW e \in E,
           NEW s \in Seq(E), IsChain(h, l, s), e \in {h.Head[l], h.Tail[l]}
    PROVE  /\ Len(s) \in Nat \ {0}
           /\ e = h.Head[l] => e = s[1]
           /\ e = h.Tail[l] => e = s[Len(s)]
           /\ e \in Items(s)
<1>1. s # <<>>
  BY DEF IsChain
<1>2. Len(s) \in Nat \ {0}
  BY <1>1, EmptySeq, LenProperties
<1> QED
  BY <1>1, <1>2 DEF IsChain, Items

(* Appending an unlinked element to a chain.                               *)
LEMMA AppendChain ==
    ASSUME NEW E, NEW L, NEW h \in Heaps(E, E, L), NULL \notin E,
           NEW l \in L, NEW e \in E, h.Next[e] = NULL,
           NEW s \in Seq(E), Distinct(s), IsChain(h, l, s), e \notin Items(s)
    PROVE  /\ Append(s, e) \in Seq(E)
           /\ Distinct(Append(s, e))
           /\ Items(Append(s, e)) = Items(s) \cup {e}
           /\ IsChain(AddElementToList(h, e, l), l, Append(s, e))
<1> DEFINE a == AddElementToList(h, e, l)
           t == Append(s, e)
           n == Len(s)
<1>1. /\ n \in Nat
      /\ t \in Seq(E) /\ t # <<>>
      /\ Len(t) = n + 1
      /\ \A i \in 1 .. n : t[i] = s[i] /\ s[i] \in E /\ s[i] # e
      /\ t[n + 1] = e
  BY AppendProperties, LenProperties, ElementOfSeq DEF Items
<1> HIDE DEF t, n
<1>2. Distinct(t) /\ Items(t) = Items(s) \cup {e}
  BY <1>1 DEF Distinct, Items, n
<1>3. CASE n = 0
  <2>1. s = <<>> /\ h.Head[l] = NULL /\ h.Tail[l] = NULL
    BY <1>3, EmptySeq DEF IsChain, n
  <2>2. a.Head[l] = e /\ a.Tail[l] = e /\ a.Next[e] = NULL /\ a.Previous[e] = NULL
    BY <2>1, AddElementEffect
  <2>3. Len(t) = 1 /\ t[1] = e
    BY <1>1, <1>3
  <2>4. IsChain(a, l, t)
    BY <1>1, <2>2, <2>3 DEF IsChain
  <2> QED
    BY <1>1, <1>2, <2>4 DEF t
<1>4. CASE n # 0
  <2>1. /\ s # <<>> /\ n \in 1 .. n
        /\ h.Head[l] = s[1] /\ h.Tail[l] = s[n]
        /\ \A i \in 1 .. n : h.Next[s[i]] = IF i = n THEN NULL ELSE s[i + 1]
        /\ \A i \in 1 .. n : h.Previous[s[i]] = IF i = 1 THEN NULL ELSE s[i - 1]
        /\ \A i, j \in 1 .. n : s[i] = s[j] => i = j
    BY <1>1, <1>4, EmptySeq DEF IsChain, n, Distinct
  <2>2. h.Head[l] # NULL /\ h.Tail[l] # NULL
    BY <1>1, <2>1
  <2>3. /\ a.Head[l] = s[1] /\ a.Tail[l] = e
        /\ \A x \in E : a.Next[x] = IF x = s[n] THEN e ELSE h.Next[x]
        /\ \A x \in E : a.Previous[x] = IF x = e THEN s[n] ELSE h.Previous[x]
    BY <2>1, <2>2, AddElementEffect
  <2> HIDE DEF a
  <2>4. a.Head[l] = t[1] /\ a.Tail[l] = t[n + 1]
    BY <1>1, <1>4, <2>3
  <2>5. ASSUME NEW i \in 1 .. n + 1
        PROVE  /\ a.Next[t[i]] = IF i = n + 1 THEN NULL ELSE t[i + 1]
               /\ a.Previous[t[i]] = IF i = 1 THEN NULL ELSE t[i - 1]
    <3>1. CASE i = n + 1
      BY <1>1, <1>4, <2>1, <2>3, <3>1
    <3>2. CASE i \in 1 .. n
      <4>1. t[i] = s[i] /\ s[i] \in E /\ s[i] # e /\ (s[i] = s[n] <=> i = n)
        BY <1>1, <2>1, <3>2
      <4>2. /\ i = n => t[i + 1] = e
            /\ i # n => i + 1 \in 1 .. n
            /\ i # 1 => i - 1 \in 1 .. n
        BY <1>1, <3>2
      <4>3. /\ i # n => t[i + 1] = s[i + 1]
            /\ i # 1 => t[i - 1] = s[i - 1]
        BY <1>1, <4>2
      <4>4. a.Next[s[i]] = IF i = n THEN e ELSE s[i + 1]
        BY <2>1, <2>3, <3>2, <4>1
      <4>5. a.Previous[s[i]] = IF i = 1 THEN NULL ELSE s[i - 1]
        BY <2>1, <2>3, <3>2, <4>1
      <4>6. i # n + 1
        BY <1>1, <3>2
      <4> QED
        BY <4>1, <4>2, <4>3, <4>4, <4>5, <4>6
    <3> QED
      BY <1>1, <3>1, <3>2
  <2>6. IsChain(a, l, t)
    BY <1>1, <2>4, <2>5 DEF IsChain
  <2> QED
    BY <1>1, <1>2, <2>6 DEF t, a
<1> QED
  BY <1>1, <1>3, <1>4 DEF n

(* A chain stays one as long as its ends and the links of its elements     *)
(* are left alone.                                                         *)
LEMMA SameChain ==
    ASSUME NEW h, NEW a, NEW m, NEW t, IsChain(h, m, t),
           a.Head[m] = h.Head[m], a.Tail[m] = h.Tail[m],
           \A i \in 1 .. Len(t) : /\ a.Next[t[i]] = h.Next[t[i]]
                                 /\ a.Previous[t[i]] = h.Previous[t[i]]
    PROVE  IsChain(a, m, t)
BY DEF IsChain

(* The other chains do not notice.                                         *)
LEMMA AppendFrame ==
    ASSUME NEW E, NEW L, NEW h \in Heaps(E, E, L), NULL \notin E,
           NEW l \in L, NEW e \in E, NEW s \in Seq(E), IsChain(h, l, s),
           NEW m \in L \ {l}, NEW t \in Seq(E), IsChain(h, m, t),
           e \notin Items(t), Items(s) \cap Items(t) = {}
    PROVE  IsChain(AddElementToList(h, e, l), m, t)
<1> DEFINE a == AddElementToList(h, e, l)
<1>1. \A i \in 1 .. Len(t) : t[i] \in E /\ t[i] # e /\ t[i] \notin Items(s)
  BY ElementOfSeq DEF Items
<1>2. CASE s = <<>>
  <2>1. h.Head[l] = NULL /\ h.Tail[l] = NULL
    BY <1>2 DEF IsChain
  <2>2. /\ a.Head[m] = h.Head[m] /\ a.Tail[m] = h.Tail[m]
        /\ \A x \in E \ {e} : a.Next[x] = h.Next[x] /\ a.Previous[x] = h.Previous[x]
    BY <2>1, AddElementEffect
  <2> HIDE DEF a
  <2> QED
    BY <1>1, <2>2, SameChain DEF a
<1>3. CASE s # <<>>
  <2>1. Len(s) \in Nat \ {0} /\ s[1] \in E /\ s[Len(s)] \in E
    BY <1>3, EmptySeq, LenProperties, ElementOfSeq
  <2>2. h.Head[l] # NULL /\ h.Tail[l] # NULL /\ h.Tail[l] \in Items(s)
    BY <1>3, <2>1 DEF IsChain, Items
  <2>3. /\ a.Head[m] = h.Head[m] /\ a.Tail[m] = h.Tail[m]
        /\ \A x \in E \ {e, h.Tail[l]} :
              a.Next[x] = h.Next[x] /\ a.Previous[x] = h.Previous[x]
    BY <2>2, AddElementEffect
  <2> HIDE DEF a
  <2> QED
    BY <1>1, <2>2, <2>3, SameChain DEF a
<1> QED
  BY <1>2, <1>3

(* A sequence without its first element loses just that element.           *)
LEMMA TailItems ==
    ASSUME NEW E, NEW s \in Seq(E), Distinct(s), s # <<>>
    PROVE  /\ Distinct(Tail(s))
           /\ Items(Tail(s)) = Items(s) \ {s[1]}
<1> DEFINE t == Tail(s)
           n == Len(s)
<1>1. /\ n \in Nat \ {0}
      /\ Len(t) = n - 1
      /\ \A i \in 1 .. n - 1 : t[i] = s[i + 1]
  BY HeadTailProperties, EmptySeq
<1> HIDE DEF t, n
<1>2. Distinct(t)
  BY <1>1 DEF Distinct, n
<1>3. ASSUME NEW i \in 1 .. n, s[i] # s[1]
      PROVE  s[i] \in Items(t)
  <2>1. i - 1 \in 1 .. n - 1 /\ (i - 1) + 1 = i
    BY <1>1, <1>3
  <2> QED
    BY <1>1, <2>1 DEF Items
<1>4. ASSUME NEW i \in 1 .. n - 1
      PROVE  t[i] \in Items(s) \ {s[1]}
  BY <1>1 DEF Items, Distinct, n
<1>5. Items(t) = Items(s) \ {s[1]}
  <2>1. Items(t) \subseteq Items(s) \ {s[1]}
    BY <1>1, <1>4 DEF Items
  <2>2. Items(s) \ {s[1]} \subseteq Items(t)
    BY <1>3 DEF Items, n
  <2> QED
    BY <2>1, <2>2
<1> QED
  BY <1>2, <1>5 DEF t

(* A sequence without its last element loses just that element.            *)
LEMMA FrontItems ==
    ASSUME NEW E, NEW s \in Seq(E), Distinct(s), s # <<>>,
           NEW t, t = SubSeq(s, 1, Len(s) - 1)
    PROVE  /\ t \in Seq(E)
           /\ Len(t) = Len(s) - 1
           /\ \A i \in 1 .. Len(s) - 1 : t[i] = s[i]
           /\ Distinct(t)
           /\ Items(t) = Items(s) \ {s[Len(s)]}
<1> DEFINE n == Len(s)
<1>1. n \in Nat \ {0} /\ n \in 1 .. n
  BY EmptySeq
<1> HIDE DEF n
<1>2. \A i \in 1 .. n - 1 : s[i] \in E
  BY <1>1, ElementOfSeq DEF n
<1>3. /\ t \in Seq(E)
      /\ Len(t) = n - 1
      /\ \A i \in 1 .. n - 1 : t[i] = s[i]
  <2>1. /\ t \in Seq(E)
        /\ Len(t) = IF 1 <= n - 1 THEN (n - 1) - 1 + 1 ELSE 0
        /\ \A i \in 1 .. (n - 1) - 1 + 1 : t[i] = s[1 + i - 1]
    BY <1>1, <1>2, SubSeqProperties DEF n
  <2>2. /\ (n - 1) - 1 + 1 = n - 1
        /\ 1 <= n - 1 \/ n - 1 = 0
        /\ \A i \in 1 .. n - 1 : 1 + i - 1 = i
    BY <1>1
  <2> QED
    BY <2>1, <2>2
<1>4. Distinct(t)
  BY <1>1, <1>3 DEF Distinct, n
<1>5. ASSUME NEW i \in 1 .. n, s[i] # s[n]
      PROVE  s[i] \in Items(t)
  <2>1. i \in 1 .. n - 1
    BY <1>1, <1>5
  <2> QED
    BY <1>3, <2>1 DEF Items
<1>6. ASSUME NEW i \in 1 .. n - 1
      PROVE  t[i] \in Items(s) \ {s[n]}
  BY <1>1, <1>3 DEF Items, Distinct, n
<1> QED
  BY <1>3, <1>4, <1>5, <1>6 DEF Items, n

(* The chain s without e, which is its first or its last element.          *)
WithoutEnd(s, e, t) ==
    \/ e = s[1] /\ t = Tail(s)
    \/ e = s[Len(s)] /\ t = SubSeq(s, 1, Len(s) - 1)

(* RemoveElementFromList takes the first or the last element off a chain   *)
(* and leaves it unlinked.                                                 *)
LEMMA RemoveChain ==
    ASSUME NEW E, NEW L, NEW h \in Heaps(E, E, L), NULL \notin E,
           NEW l \in L, NEW e \in E, e \in {h.Head[l], h.Tail[l]},
           NEW s \in Seq(E), Distinct(s), IsChain(h, l, s)
    PROVE  /\ RemoveElementFromList(h, e, l).Next[e] = NULL
           /\ \E t \in Seq(E) :
                /\ WithoutEnd(s, e, t)
                /\ Distinct(t)
                /\ Items(t) = Items(s) \ {e}
                /\ IsChain(RemoveElementFromList(h, e, l), l, t)
<1> DEFINE r == RemoveElementFromList(h, e, l)
           n == Len(s)
<1>1. /\ n \in Nat \ {0} /\ 1 \in 1 .. n /\ n \in 1 .. n /\ s # <<>>
      /\ e = h.Head[l] => e = s[1]
      /\ e = h.Tail[l] => e = s[n]
  BY EndIsItem, EmptySeq
<1> HIDE DEF n
<1>2. /\ h.Head[l] = s[1] /\ h.Tail[l] = s[n]
      /\ \A i \in 1 .. n : h.Next[s[i]] = IF i = n THEN NULL ELSE s[i + 1]
      /\ \A i \in 1 .. n : h.Previous[s[i]] = IF i = 1 THEN NULL ELSE s[i - 1]
      /\ \A i, j \in 1 .. n : s[i] = s[j] => i = j
      /\ \A i \in 1 .. n : s[i] \in E
  BY <1>1, ElementOfSeq DEF IsChain, Distinct, n
<1>3. CASE n = 1
  <2>1. r.Head[l] = NULL /\ r.Tail[l] = NULL /\ r.Next = h.Next
    BY <1>2, <1>3, RemoveElementEffect
  <2>2. Tail(s) \in Seq(E) /\ Len(Tail(s)) = 0
    BY <1>1, <1>3, HeadTailProperties DEF n
  <2>3. Tail(s) = <<>>
    BY <2>2, EmptySeq
  <2>4. IsChain(r, l, <<>>)
    BY <2>1, <2>2, <2>3 DEF IsChain
  <2>5. r.Next[e] = NULL /\ e = s[1]
    BY <1>1, <1>2, <1>3, <2>1
  <2> QED
    BY <1>1, <2>2, <2>3, <2>4, <2>5, TailItems DEF WithoutEnd
<1>4. CASE n # 1 /\ e = h.Head[l]
  <2> DEFINE t == Tail(s)
  <2>1. h.Head[l] # h.Tail[l] /\ e = s[1] /\ h.Next[e] = s[2] /\ s[2] \in E /\ 2 \in 1 .. n
    <3>1. 2 \in 1 .. n /\ 1 + 1 = 2
      BY <1>1, <1>4
    <3>2. h.Next[s[1]] = s[2] /\ s[1] # s[n]
      BY <1>1, <1>2, <1>4, <3>1
    <3> QED
      BY <1>1, <1>2, <1>4, <3>1, <3>2
  <2>2. /\ r.Head[l] = s[2]
        /\ r.Tail[l] = s[n]
        /\ \A x \in E : r.Next[x] = IF x = e THEN NULL ELSE h.Next[x]
        /\ \A x \in E : r.Previous[x] = IF x \in {s[2], e} THEN NULL ELSE h.Previous[x]
    BY <1>2, <1>4, <2>1, RemoveElementEffect
  <2>3. /\ t \in Seq(E) /\ Len(t) = n - 1 /\ t # <<>>
        /\ \A i \in 1 .. n - 1 : t[i] = s[i + 1]
    <3>1. /\ t \in Seq(E) /\ Len(t) = n - 1
          /\ \A i \in 1 .. Len(t) : t[i] = s[i + 1]
      BY <1>1, HeadTailProperties DEF n
    <3>2. Len(t) # 0
      BY <1>1, <1>4, <3>1
    <3> HIDE DEF t
    <3> QED
      BY <3>1, <3>2, EmptySeq
  <2> HIDE DEF t, r
  <2>4. r.Head[l] = t[1] /\ r.Tail[l] = t[n - 1]
    BY <1>1, <1>4, <2>2, <2>3
  <2>5. ASSUME NEW i \in 1 .. n - 1
        PROVE  /\ r.Next[t[i]] = IF i = n - 1 THEN NULL ELSE t[i + 1]
               /\ r.Previous[t[i]] = IF i = 1 THEN NULL ELSE t[i - 1]
    <3>1. t[i] = s[i + 1] /\ i + 1 \in 1 .. n /\ i + 1 # 1 /\ (i + 1) - 1 = i
      BY <1>1, <2>3
    <3>2. t[i] \in E /\ t[i] # e /\ (t[i] = s[2] <=> i = 1)
      BY <1>1, <1>2, <2>1, <3>1
    <3>3. /\ i # n - 1 => t[i + 1] = s[i + 2] /\ (i + 1) + 1 = i + 2
          /\ i # 1 => t[i - 1] = s[i]
          /\ i = n - 1 <=> i + 1 = n
      <4>1. i # n - 1 => i + 1 \in 1 .. n - 1 /\ (i + 1) + 1 = i + 2
        BY <1>1
      <4>2. i # 1 => i - 1 \in 1 .. n - 1 /\ (i - 1) + 1 = i
        BY <1>1
      <4> QED
        BY <1>1, <2>3, <4>1, <4>2
    <3>4. h.Next[t[i]] = IF i + 1 = n THEN NULL ELSE s[(i + 1) + 1]
      BY <1>2, <3>1
    <3>5. h.Previous[t[i]] = s[i]
      BY <1>2, <3>1
    <3> QED
      BY <2>2, <3>1, <3>2, <3>3, <3>4, <3>5
  <2>6. IsChain(r, l, t)
    BY <2>3, <2>4, <2>5 DEF IsChain
  <2>7. r.Next[e] = NULL
    BY <2>2
  <2> QED
    BY <1>1, <2>1, <2>3, <2>6, <2>7, TailItems DEF t, r, WithoutEnd
<1>5. CASE n # 1 /\ e = h.Tail[l]
  <2> DEFINE t == SubSeq(s, 1, n - 1)
  <2>1. /\ h.Head[l] # h.Tail[l] /\ e = s[n] /\ n - 1 \in 1 .. n
        /\ h.Previous[e] = s[n - 1] /\ s[n - 1] \in E
    <3>1. n - 1 \in 1 .. n /\ n # 1 /\ n - 1 # n
      BY <1>1, <1>5
    <3>2. h.Previous[s[n]] = s[n - 1] /\ s[1] # s[n]
      BY <1>1, <1>2, <3>1
    <3> QED
      BY <1>1, <1>2, <1>5, <3>1, <3>2
  <2>2. /\ r.Head[l] = s[1]
        /\ r.Tail[l] = s[n - 1]
        /\ \A x \in E : r.Next[x] = IF x \in {s[n - 1], e} THEN NULL ELSE h.Next[x]
        /\ \A x \in E : r.Previous[x] = IF x = e THEN NULL ELSE h.Previous[x]
    BY <1>2, <1>5, <2>1, RemoveElementEffect
  <2>3. /\ t \in Seq(E) /\ Len(t) = n - 1
        /\ \A i \in 1 .. n - 1 : t[i] = s[i]
        /\ Distinct(t) /\ Items(t) = Items(s) \ {s[n]}
    BY <1>1, FrontItems DEF n
  <2> HIDE DEF t, r
  <2>4. /\ r.Head[l] = t[1] /\ r.Tail[l] = t[n - 1]
        /\ t # <<>>
    BY <1>1, <1>5, <2>2, <2>3, EmptySeq
  <2>5. ASSUME NEW i \in 1 .. n - 1
        PROVE  /\ r.Next[t[i]] = IF i = n - 1 THEN NULL ELSE t[i + 1]
               /\ r.Previous[t[i]] = IF i = 1 THEN NULL ELSE t[i - 1]
    <3>1. t[i] = s[i] /\ i \in 1 .. n /\ i # n
      BY <1>1, <2>3
    <3>2. t[i] \in E /\ t[i] # e /\ (t[i] = s[n - 1] <=> i = n - 1)
      BY <1>1, <1>2, <2>1, <3>1
    <3>3. /\ i # n - 1 => t[i + 1] = s[i + 1]
          /\ i # 1 => t[i - 1] = s[i - 1]
      <4>1. i # n - 1 => i + 1 \in 1 .. n - 1
        BY <1>1
      <4>2. i # 1 => i - 1 \in 1 .. n - 1
        BY <1>1
      <4> QED
        BY <2>3, <4>1, <4>2
    <3>4. h.Next[t[i]] = s[i + 1]
      BY <1>2, <3>1
    <3>5. h.Previous[t[i]] = IF i = 1 THEN NULL ELSE s[i - 1]
      BY <1>2, <3>1
    <3> QED
      BY <2>2, <3>1, <3>2, <3>3, <3>4, <3>5
  <2>6. IsChain(r, l, t)
    BY <2>3, <2>4, <2>5 DEF IsChain
  <2>7. r.Next[e] = NULL
    BY <2>2
  <2> QED
    BY <2>1, <2>3, <2>6, <2>7 DEF r, t, n, WithoutEnd
<1> QED
  BY <1>1, <1>3, <1>4, <1>5

(* Again, the other chains do not notice.                                  *)
LEMMA RemoveFrame ==
    ASSUME NEW E, NEW L, NEW h \in Heaps(E, E, L), NULL \notin E,
           NEW l \in L, NEW e \in E, e \in {h.Head[l], h.Tail[l]},
           NEW s \in Seq(E), Distinct(s), IsChain(h, l, s),
           NEW m \in L \ {l}, NEW t \in Seq(E), IsChain(h, m, t),
           Items(s) \cap Items(t) = {}
    PROVE  IsChain(RemoveElementFromList(h, e, l), m, t)
<1> DEFINE r == RemoveElementFromList(h, e, l)
           n == Len(s)
<1>1. \A i \in 1 .. Len(t) : t[i] \in E /\ t[i] \notin Items(s)
  BY ElementOfSeq DEF Items
<1>2. n \in Nat \ {0} /\ s # <<>> /\ e \in Items(s)
      /\ (e = h.Head[l] => e = s[1]) /\ (e = h.Tail[l] => e = s[n])
  BY EndIsItem, EmptySeq
<1> HIDE DEF n
<1>3. /\ h.Head[l] = s[1] /\ h.Tail[l] = s[n]
      /\ \A i \in 1 .. n : s[i] \in Items(s) /\ s[i] \in E
      /\ \A i \in 1 .. n : h.Next[s[i]] = IF i = n THEN NULL ELSE s[i + 1]
      /\ \A i \in 1 .. n : h.Previous[s[i]] = IF i = 1 THEN NULL ELSE s[i - 1]
  <2>1. /\ h.Head[l] = s[1] /\ h.Tail[l] = s[n]
        /\ \A i \in 1 .. n : h.Next[s[i]] = IF i = n THEN NULL ELSE s[i + 1]
        /\ \A i \in 1 .. n : h.Previous[s[i]] = IF i = 1 THEN NULL ELSE s[i - 1]
    BY <1>2 DEF IsChain, n
  <2>2. \A i \in 1 .. n : s[i] \in Items(s) /\ s[i] \in E
    BY ElementOfSeq DEF Items, n
  <2> QED
    BY <2>1, <2>2
<1>4. /\ r.Head[m] = h.Head[m] /\ r.Tail[m] = h.Tail[m]
      /\ \A x \in E \ Items(s) : r.Next[x] = h.Next[x] /\ r.Previous[x] = h.Previous[x]
  <2>1. CASE h.Head[l] = h.Tail[l]
    BY <2>1, RemoveElementEffect
  <2>2. CASE h.Head[l] # h.Tail[l] /\ e = h.Head[l]
    <3>1. h.Next[e] = s[2] /\ s[2] \in Items(s) /\ s[2] \in E
      BY <1>2, <1>3, <2>2
    <3> QED
      BY <1>2, <2>2, <3>1, RemoveElementEffect
  <2>3. CASE h.Head[l] # h.Tail[l] /\ e = h.Tail[l]
    <3>1. /\ n # 1 /\ h.Previous[e] = s[n - 1]
          /\ s[n - 1] \in Items(s) /\ s[n - 1] \in E
      BY <1>2, <1>3, <2>3
    <3> QED
      BY <1>2, <2>3, <3>1, RemoveElementEffect
  <2> QED
    BY <2>1, <2>2, <2>3
<1> HIDE DEF r
<1>5. \A i \in 1 .. Len(t) :
        r.Next[t[i]] = h.Next[t[i]] /\ r.Previous[t[i]] = h.Previous[t[i]]
  BY <1>1, <1>4
<1>6. IsChain(r, m, t)
  BY <1>4, <1>5 DEF IsChain
<1> QED
  BY <1>6 DEF r

-----------------------------------------------------------------------------

(* A nonempty set of naturals has a least element.                         *)
LEMMA LeastElement ==
    ASSUME NEW S \in SUBSET Nat, S # {}
    PROVE  \E x \in S : \A y \in S : x <= y
<1>1. PICK x \in S : \A y \in S : <<y, x>> \notin OpToRel(<, Nat)
  BY NatLessThanWellFounded, WFMin
<1>2. \A y \in S : ~(y < x)
  BY <1>1 DEF OpToRel
<1> QED
  BY <1>2

(* A chain is no longer than the set its distinct elements come from.      *)
LEMMA ChainIsBounded ==
    ASSUME NEW E, NEW N, IsFiniteSet(N), NEW s \in Seq(E), Distinct(s), Items(s) \subseteq N
    PROVE  /\ s \in [1 .. Len(s) -> N]
           /\ Len(s) \in 0 .. Cardinality(N)
<1> DEFINE n == Len(s)
<1>1. n \in Nat /\ s \in [1 .. n -> N]
  BY LenProperties DEF Items
<1> HIDE DEF n
<1>2. s \in Injection(1 .. n, N)
  BY <1>1 DEF Distinct, Injection, IsInjective, n
<1>3. Cardinality(1 .. n) <= Cardinality(N)
  BY <1>2, FS_Injection
<1>4. Cardinality(1 .. n) = n
  BY <1>1, FS_Interval
<1> QED
  BY <1>1, <1>3, <1>4, FS_CardinalityType DEF n

(* Head and Next determine what is on a list: it is one chain at most.     *)
LEMMA ChainIsUnique ==
    ASSUME NEW E, NULL \notin E, NEW h, NEW l, NEW s \in Seq(E), NEW t \in Seq(E),
           IsChain(h, l, s), IsChain(h, l, t)
    PROVE  s = t
<1>1. ASSUME NEW u \in Seq(E), NEW v \in Seq(E), IsChain(h, l, u), IsChain(h, l, v)
      PROVE  \A i \in 1 .. Len(u) : i \in 1 .. Len(v) /\ v[i] = u[i]
  <2> DEFINE B == {i \in 1 .. Len(u) : ~(i \in 1 .. Len(v) /\ v[i] = u[i])}
  <2>1. Len(u) \in Nat /\ Len(v) \in Nat /\ B \in SUBSET Nat
    BY LenProperties
  <2>2. SUFFICES ASSUME B # {} PROVE FALSE
    OBVIOUS
  <2>3. PICK k \in B : \A j \in B : k <= j
    <3> HIDE DEF B
    <3> QED
      BY <2>1, <2>2, LeastElement
  <2>4. k \in 1 .. Len(u) /\ u[k] \in E /\ u[k] # NULL /\ ~(k \in 1 .. Len(v) /\ v[k] = u[k])
    BY <2>3, ElementOfSeq
  <2>5. CASE k = 1
    <3>1. u # <<>> /\ h.Head[l] = u[1]
      BY <1>1, <2>4, EmptySeq DEF IsChain
    <3>2. v # <<>> /\ h.Head[l] = v[1]
      BY <1>1, <2>4, <2>5, <3>1 DEF IsChain
    <3>3. 1 \in 1 .. Len(v)
      BY <3>2, EmptySeq
    <3> QED
      BY <2>4, <2>5, <3>1, <3>2, <3>3
  <2>6. CASE k # 1
    <3> DEFINE j == k - 1
    <3>1. j \in 1 .. Len(u) /\ j + 1 = k /\ j # Len(u) /\ ~(k <= j)
      BY <2>1, <2>4, <2>6
    <3> HIDE DEF j
    <3>2. j \in 1 .. Len(v) /\ v[j] = u[j]
      BY <2>3, <3>1
    <3> HIDE DEF B
    <3>3. h.Next[u[j]] = u[k]
      <4>1. \A i \in 1 .. Len(u) : h.Next[u[i]] = IF i = Len(u) THEN NULL ELSE u[i + 1]
        BY <1>1 DEF IsChain
      <4> QED
        BY <3>1, <4>1
    <3>4. j # Len(v) /\ h.Next[v[j]] = v[j + 1]
      <4>1. \A i \in 1 .. Len(v) : h.Next[v[i]] = IF i = Len(v) THEN NULL ELSE v[i + 1]
        BY <1>1 DEF IsChain
      <4> QED
        BY <2>4, <3>2, <3>3, <4>1
    <3>5. k \in 1 .. Len(v)
      BY <2>1, <3>1, <3>2, <3>4
    <3> QED
      BY <2>4, <3>1, <3>2, <3>3, <3>4, <3>5
  <2> QED
    BY <2>5, <2>6
<1>2. /\ \A i \in 1 .. Len(s) : i \in 1 .. Len(t) /\ t[i] = s[i]
      /\ \A i \in 1 .. Len(t) : i \in 1 .. Len(s) /\ s[i] = t[i]
  BY <1>1
<1>3. Len(s) = Len(t)
  <2>1. Len(s) \in Nat /\ Len(t) \in Nat
    BY LenProperties
  <2>2. /\ Len(s) # 0 => Len(s) \in 1 .. Len(t)
        /\ Len(t) # 0 => Len(t) \in 1 .. Len(s)
    BY <1>2, <2>1
  <2> QED
    BY <2>1, <2>2
<1> QED
  BY <1>2, <1>3, SeqEqual

-----------------------------------------------------------------------------

(* The list l of h is an intact chain of exactly the elements of S.        *)
Holds(E, h, l, S) ==
    \E s \in Seq(E) : Distinct(s) /\ Items(s) = S /\ IsChain(h, l, s)

(* The lemmas above without their sequences: a list that is appended to    *)
(* gains the element, no list changes besides, and nothing is written      *)
(* through NULL.                                                           *)
LEMMA HoldsAppend ==
    ASSUME NEW E, NEW L, NEW h \in Heaps(E, E, L), NULL \notin E,
           NEW l \in L, NEW S, Holds(E, h, l, S),
           NEW e \in E, e \notin S, h.Next[e] = NULL,
           NEW a, a = AddElementToList(h, e, l)
    PROVE  /\ a \in Heaps(E, E, L)
           /\ Holds(E, a, l, S \cup {e})
           /\ a.Fault = h.Fault
           /\ \A m \in L \ {l} : \A T :
                 Holds(E, h, m, T) /\ e \notin T /\ S \cap T = {} => Holds(E, a, m, T)
<1>1. PICK s \in Seq(E) : Distinct(s) /\ Items(s) = S /\ IsChain(h, l, s)
  BY DEF Holds
<1>2. a \in Heaps(E, E, L)
  BY AddElementType
<1>3. Holds(E, a, l, S \cup {e})
  <2>1. /\ Append(s, e) \in Seq(E)
        /\ Distinct(Append(s, e))
        /\ Items(Append(s, e)) = S \cup {e}
        /\ IsChain(a, l, Append(s, e))
    BY <1>1, AppendChain
  <2> QED
    BY <2>1 DEF Holds
<1>4. a.Fault = h.Fault
  <2>1. CASE s = <<>>
    <3>1. h.Head[l] = NULL /\ h.Tail[l] = NULL
      BY <1>1, <2>1 DEF IsChain
    <3> QED
      BY <3>1, AddElementEffect
  <2>2. CASE s # <<>>
    <3>1. s[1] \in E /\ s[Len(s)] \in E
      BY <2>2, EmptySeq, ElementOfSeq
    <3>2. h.Head[l] # NULL /\ h.Tail[l] # NULL
      BY <1>1, <2>2, <3>1 DEF IsChain
    <3> QED
      BY <3>2, AddElementEffect
  <2> QED
    BY <2>1, <2>2
<1>5. ASSUME NEW m \in L \ {l}, NEW T, Holds(E, h, m, T), e \notin T, S \cap T = {}
      PROVE  Holds(E, a, m, T)
  <2>1. PICK t \in Seq(E) : Distinct(t) /\ Items(t) = T /\ IsChain(h, m, t)
    BY <1>5 DEF Holds
  <2>2. IsChain(a, m, t)
    BY <1>1, <1>5, <2>1, AppendFrame
  <2> QED
    BY <2>1, <2>2 DEF Holds
<1> QED
  BY <1>2, <1>3, <1>4, <1>5

(* A list whose first or last element is removed holds the others, and the *)
(* removed element is unlinked.                                            *)
LEMMA HoldsRemove ==
    ASSUME NEW E, NEW L, NEW h \in Heaps(E, E, L), NULL \notin E,
           NEW l \in L, NEW S, Holds(E, h, l, S),
           NEW e \in E, e \in {h.Head[l], h.Tail[l]},
           NEW r, r = RemoveElementFromList(h, e, l)
    PROVE  /\ r \in Heaps(E, E, L)
           /\ Holds(E, r, l, S \ {e})
           /\ e \in S
           /\ r.Next[e] = NULL
           /\ r.Fault = h.Fault
           /\ \A m \in L \ {l} : \A T :
                 Holds(E, h, m, T) /\ S \cap T = {} => Holds(E, r, m, T)
<1>1. PICK s \in Seq(E) : Distinct(s) /\ Items(s) = S /\ IsChain(h, l, s)
  BY DEF Holds
<1>2. r \in Heaps(E, E, L)
  BY RemoveElementType
<1>3. Holds(E, r, l, S \ {e}) /\ e \in S /\ r.Next[e] = NULL
  BY <1>1, RemoveChain, EndIsItem DEF Holds
<1>4. r.Fault = h.Fault
  <2>1. CASE h.Head[l] = h.Tail[l]
    BY <2>1, RemoveElementEffect
  <2>2. CASE h.Head[l] # h.Tail[l]
    <3> DEFINE n == Len(s)
    <3>1. /\ n \in Nat \ {0} /\ s # <<>>
          /\ e = h.Head[l] => e = s[1]
          /\ e = h.Tail[l] => e = s[n]
      BY <1>1, EndIsItem, EmptySeq
    <3> HIDE DEF n
    <3>2. h.Head[l] = s[1] /\ h.Tail[l] = s[n] /\ n # 1
      BY <1>1, <2>2, <3>1 DEF IsChain, n
    <3>3. 1 \in 1 .. n /\ n \in 1 .. n /\ 1 # n /\ 2 \in 1 .. n /\ n - 1 \in 1 .. n /\ 1 + 1 = 2
      BY <3>1, <3>2
    <3>4. s[2] # NULL /\ s[n - 1] # NULL
      BY <3>3, ElementOfSeq DEF n
    <3>5. h.Next[s[1]] = s[2] /\ h.Previous[s[n]] = s[n - 1]
      <4>1. h.Next[s[1]] = s[1 + 1] /\ h.Previous[s[n]] = s[n - 1]
        BY <1>1, <3>3 DEF IsChain, n
      <4> QED
        BY <3>3, <4>1
    <3>6. (e = h.Head[l] => h.Next[e] # NULL) /\ (e = h.Tail[l] => h.Previous[e] # NULL)
      BY <3>1, <3>4, <3>5
    <3> QED
      BY <2>2, <3>6, RemoveElementEffect
  <2> QED
    BY <2>1, <2>2
<1>5. ASSUME NEW m \in L \ {l}, NEW T, Holds(E, h, m, T), S \cap T = {}
      PROVE  Holds(E, r, m, T)
  <2>1. PICK t \in Seq(E) : Distinct(t) /\ Items(t) = T /\ IsChain(h, m, t)
    BY <1>5 DEF Holds
  <2>2. IsChain(r, m, t)
    BY <1>1, <1>5, <2>1, RemoveFrame
  <2> QED
    BY <2>1, <2>2 DEF Holds
<1> QED
  BY <1>2, <1>3, <1>4, <1>5

(* The lists of L hold the disjoint sets of P.                             *)
HoldsAll(E, L, h, P) ==
    /\ \A k \in L : Holds(E, h, k, P[k])
    /\ \A j, k \in L : j # k => P[j] \cap P[k] = {}

(* The contents of the lists once e has moved from l to m.                 *)
Moved(L, P, e, l, m) ==
    [k \in L |-> IF k = l THEN P[k] \ {e} ELSE IF k = m THEN P[k] \cup {e} ELSE P[k]]

(* Moving the first or the last element of one list to another: what       *)
(* AllocateSlabSlot and FreeSlabSlot do.                                   *)
LEMMA HoldsMove ==
    ASSUME NEW E, NEW L, NEW h \in Heaps(E, E, L), NULL \notin E,
           NEW P, HoldsAll(E, L, h, P),
           NEW l \in L, NEW m \in L, l # m,
           NEW e \in E, e \in {h.Head[l], h.Tail[l]},
           NEW g, g = AddElementToList(RemoveElementFromList(h, e, l), e, m)
    PROVE  /\ g \in Heaps(E, E, L)
           /\ g.Fault = h.Fault
           /\ HoldsAll(E, L, g, Moved(L, P, e, l, m))
<1> DEFINE r == RemoveElementFromList(h, e, l)
           Q == Moved(L, P, e, l, m)
<1>1. /\ Holds(E, h, l, P[l])
      /\ \A k \in L \ {l} : Holds(E, h, k, P[k]) /\ P[l] \cap P[k] = {}
      /\ \A k \in L \ {m} : P[m] \cap P[k] = {}
  BY DEF HoldsAll
<1>2. /\ r \in Heaps(E, E, L)
      /\ Holds(E, r, l, P[l] \ {e})
      /\ e \in P[l]
      /\ r.Next[e] = NULL
      /\ r.Fault = h.Fault
      /\ \A k \in L \ {l} : \A U :
            Holds(E, h, k, U) /\ P[l] \cap U = {} => Holds(E, r, k, U)
  BY <1>1, HoldsRemove
<1>3. \A k \in L \ {l} : Holds(E, r, k, P[k]) /\ e \notin P[k]
  BY <1>1, <1>2
<1> HIDE DEF r
<1>4. g = AddElementToList(r, e, m)
  BY DEF r
<1>5. /\ g \in Heaps(E, E, L)
      /\ Holds(E, g, m, P[m] \cup {e})
      /\ g.Fault = r.Fault
      /\ \A k \in L \ {m} : \A U :
            Holds(E, r, k, U) /\ e \notin U /\ P[m] \cap U = {} => Holds(E, g, k, U)
  BY <1>2, <1>3, <1>4, HoldsAppend
<1>6. Holds(E, g, l, P[l] \ {e})
  BY <1>1, <1>2, <1>5
<1>7. \A k \in L \ {l, m} : Holds(E, g, k, P[k])
  BY <1>1, <1>3, <1>5
<1>8. \A k \in L : Q[k] = IF k = l THEN P[k] \ {e}
                          ELSE IF k = m THEN P[k] \cup {e} ELSE P[k]
  BY DEF Moved
<1> HIDE DEF Q
<1>9. \A k \in L : Holds(E, g, k, Q[k])
  BY <1>5, <1>6, <1>7, <1>8
<1>10. ASSUME NEW j \in L, NEW k \in L, j # k
       PROVE  Q[j] \cap Q[k] = {}
  <2>1. P[j] \cap P[k] = {} /\ (j # l => e \notin P[j]) /\ (k # l => e \notin P[k])
    BY <1>3, <1>10 DEF HoldsAll
  <2> QED
    BY <1>8, <1>10, <2>1
<1> QED
  BY <1>2, <1>5, <1>9, <1>10 DEF HoldsAll, Q

(* The contents of the lists once e has been added to l.                   *)
Gained(L, P, e, l) == [k \in L |-> IF k = l THEN P[k] \cup {e} ELSE P[k]]

(* Unlinking an element that is on no list and appending it to one: what   *)
(* AddSlabNode does.                                                       *)
LEMMA HoldsAdded ==
    ASSUME NEW E, NEW L, NEW h \in Heaps(E, E, L), NULL \notin E,
           NEW P, HoldsAll(E, L, h, P),
           NEW l \in L, NEW e \in E, \A k \in L : e \notin P[k],
           NEW a, a = AddElementToList(SetPrevious(SetNext(h, e, NULL), e, NULL), e, l)
    PROVE  /\ a \in Heaps(E, E, L)
           /\ a.Fault = h.Fault
           /\ HoldsAll(E, L, a, Gained(L, P, e, l))
<1> DEFINE n == SetNext(h, e, NULL)
           u == SetPrevious(n, e, NULL)
           Q == Gained(L, P, e, l)
<1>1. n \in Heaps(E, E, L)
  BY SetNextType
<1>2. u \in Heaps(E, E, L)
  BY <1>1, SetPreviousType
<1>3. /\ u.Head = h.Head /\ u.Tail = h.Tail /\ u.Fault = h.Fault
      /\ \A x \in E : u.Next[x] = IF x = e THEN NULL ELSE h.Next[x]
      /\ \A x \in E : u.Previous[x] = IF x = e THEN NULL ELSE h.Previous[x]
  BY <1>1, SetNextEffect, SetPreviousEffect
<1> HIDE DEF n, u
<1>4. ASSUME NEW k \in L
      PROVE  Holds(E, u, k, P[k])
  <2>1. PICK s \in Seq(E) : Distinct(s) /\ Items(s) = P[k] /\ IsChain(h, k, s)
    BY DEF Holds, HoldsAll
  <2>2. \A i \in 1 .. Len(s) : s[i] \in E /\ s[i] # e
    BY <2>1, ElementOfSeq DEF Items
  <2>3. IsChain(u, k, s)
    BY <1>3, <2>1, <2>2 DEF IsChain
  <2> QED
    BY <2>1, <2>3 DEF Holds
<1>5. u.Next[e] = NULL /\ a = AddElementToList(u, e, l)
  BY <1>3 DEF u, n
<1>6. /\ a \in Heaps(E, E, L)
      /\ a.Fault = u.Fault
      /\ Holds(E, a, l, P[l] \cup {e})
      /\ \A k \in L \ {l} : \A T :
            Holds(E, u, k, T) /\ e \notin T /\ P[l] \cap T = {} => Holds(E, a, k, T)
  BY <1>2, <1>4, <1>5, HoldsAppend
<1>7. \A k \in L \ {l} : Holds(E, a, k, P[k])
  BY <1>4, <1>6 DEF HoldsAll
<1>8. \A k \in L : Q[k] = IF k = l THEN P[k] \cup {e} ELSE P[k]
  BY DEF Gained
<1> HIDE DEF Q
<1>9. \A k \in L : Holds(E, a, k, Q[k])
  BY <1>6, <1>7, <1>8
<1>10. ASSUME NEW j \in L, NEW k \in L, j # k
       PROVE  Q[j] \cap Q[k] = {}
  <2>1. P[j] \cap P[k] = {} /\ e \notin P[j] /\ e \notin P[k]
    BY <1>10 DEF HoldsAll
  <2> QED
    BY <1>8, <1>10, <2>1
<1> QED
  BY <1>3, <1>6, <1>9, <1>10 DEF HoldsAll, Q

(* Empty lists hold nothing.                                               *)
LEMMA EmptyHolds ==
    ASSUME NEW E, NEW L
    PROVE  /\ EmptyHeap(E, L) \in Heaps(E, E, L)
           /\ ~EmptyHeap(E, L).Fault
           /\ \A l \in L : Holds(E, EmptyHeap(E, L), l, {})
<1> DEFINE h == EmptyHeap(E, L)
<1>1. h \in Heaps(E, E, L) /\ ~h.Fault
  BY DEF EmptyHeap, Heaps
<1>2. ASSUME NEW l \in L
      PROVE  Holds(E, h, l, {})
  <2>1. <<>> \in Seq(E) /\ Len(<<>>) = 0
    BY EmptySeq
  <2>2. h.Head[l] = NULL /\ h.Tail[l] = NULL
    BY DEF EmptyHeap
  <2>3. IsChain(h, l, <<>>)
    BY <2>1, <2>2 DEF IsChain
  <2>4. Distinct(<<>>) /\ Items(<<>>) = {}
    BY <2>1 DEF Distinct, Items
  <2> QED
    BY <2>1, <2>3, <2>4 DEF Holds
<1> QED
  BY <1>1, <1>2

-----------------------------------------------------------------------------

(* The lists as LinkedListSpec drives them.  The proof follows which       *)
(* sequence each list holds.  PopListHead, PopListTail and                 *)
(* MoveElementToList are shown to leave the memory that                    *)
(* RemoveElementFromList and AddElementToList would, so that only three    *)
(* operations have to be followed to their effect on a chain.              *)
Memory == Heaps(Elements, Elements, Lists)

(* In the memory h every list l is the chain of the sequence C[l], no      *)
(* element is on two lists, and one that is on none has no links.          *)
Represents(h, C) ==
    /\ h \in Memory
    /\ ~h.Fault
    /\ C \in [Lists -> Seq(Elements)]
    /\ \A l \in Lists : Distinct(C[l]) /\ IsChain(h, l, C[l])
    /\ \A l, m \in Lists : l # m => Items(C[l]) \cap Items(C[m]) = {}
    /\ \A e \in Elements :
         (\A l \in Lists : e \notin Items(C[l])) => h.Next[e] = NULL /\ h.Previous[e] = NULL

Chained == [l \in Lists |-> Contents(heap, l)]

(* The inductive invariant.                                                *)
ListInv == Represents(heap, Chained)

-----------------------------------------------------------------------------

(* What a memory represents is what Contents reads from it.                *)
LEMMA RepresentsContents ==
    ASSUME NEW h, NEW C, Represents(h, C)
    PROVE  /\ \A l \in Lists : C[l] \in ElementChains /\ Contents(h, l) = C[l]
           /\ C = [l \in Lists |-> Contents(h, l)]
<1>1. ASSUME NEW l \in Lists
      PROVE  C[l] \in ElementChains /\ Contents(h, l) = C[l]
  <2> DEFINE s == C[l]
  <2>1. s \in Seq(Elements) /\ Distinct(s) /\ IsChain(h, l, s) /\ Items(s) \subseteq Elements
    BY ElementOfSeq DEF Represents, Items
  <2> HIDE DEF s
  <2>2. s \in [1 .. Len(s) -> Elements] /\ Len(s) \in 0 .. Cardinality(Elements)
    BY <2>1, ElementsAssumption, ChainIsBounded
  <2>3. s \in ElementChains
    BY <2>1, <2>2 DEF ElementChains, Distinct
  <2> DEFINE c == Contents(h, l)
  <2>4. c \in ElementChains /\ IsChain(h, l, c)
    BY <2>1, <2>3 DEF Contents
  <2> HIDE DEF c
  <2>5. c \in Seq(Elements)
    BY <2>4 DEF ElementChains
  <2>6. c = s
    BY <2>1, <2>4, <2>5, ElementsAssumption, ChainIsUnique
  <2> QED
    BY <2>3, <2>6 DEF c, s
<1> QED
  BY <1>1 DEF Represents

(* The members of a list are the items of what it represents.              *)
LEMMA RepresentsMembers ==
    ASSUME ListInv
    PROVE  /\ \A l \in Lists : Members(l) = Items(Chained[l])
           /\ \A e \in Elements : Unlinked(e) <=> \A l \in Lists : e \notin Items(Chained[l])
BY DEF Members, Items, Chained, Unlinked

(* Changing one chain, and no link of what is on the others, changes what  *)
(* is represented for one list.                                            *)
LEMMA OneListChanges ==
    ASSUME NEW h, NEW C, Represents(h, C), NEW l \in Lists, NEW g \in Memory, ~g.Fault,
           NEW s \in Seq(Elements), Distinct(s), IsChain(g, l, s),
           \A m \in Lists \ {l} :
               g.Head[m] = h.Head[m] /\ g.Tail[m] = h.Tail[m] /\ Items(s) \cap Items(C[m]) = {},
           \A x \in Elements \ (Items(C[l]) \cup Items(s)) :
               g.Next[x] = h.Next[x] /\ g.Previous[x] = h.Previous[x],
           \A x \in Items(C[l]) \ Items(s) : g.Next[x] = NULL /\ g.Previous[x] = NULL
    PROVE  Represents(g, [C EXCEPT ![l] = s])
<1> DEFINE D == [C EXCEPT ![l] = s]
<1>1. /\ D \in [Lists -> Seq(Elements)] /\ D[l] = s
      /\ \A m \in Lists \ {l} : D[m] = C[m]
  BY DEF Represents
<1> HIDE DEF D
<1>2. ASSUME NEW m \in Lists \ {l}
      PROVE  Distinct(C[m]) /\ IsChain(g, m, C[m])
  <2> DEFINE t == C[m]
  <2>1. t \in Seq(Elements) /\ Distinct(t) /\ IsChain(h, m, t) /\ Items(t) \cap Items(C[l]) = {}
    BY DEF Represents
  <2>2. \A i \in 1 .. Len(t) : t[i] \in Elements /\ t[i] \in Items(t)
    BY <2>1, ElementOfSeq DEF Items
  <2>3. \A i \in 1 .. Len(t) : t[i] \in Elements \ (Items(C[l]) \cup Items(s))
    BY <2>1, <2>2
  <2> HIDE DEF t
  <2>4. \A i \in 1 .. Len(t) : g.Next[t[i]] = h.Next[t[i]] /\ g.Previous[t[i]] = h.Previous[t[i]]
    BY <2>3
  <2>5. IsChain(g, m, t)
    BY <2>1, <2>4, SameChain
  <2> QED
    BY <2>1, <2>5 DEF t
<1>3. ASSUME NEW m \in Lists, NEW k \in Lists, m # k
      PROVE  Items(D[m]) \cap Items(D[k]) = {}
  <2>1. CASE m = l
    BY <1>1, <1>3, <2>1
  <2>2. CASE k = l
    BY <1>1, <1>3, <2>2
  <2>3. CASE m # l /\ k # l
    BY <1>1, <1>3, <2>3 DEF Represents
  <2> QED
    BY <2>1, <2>2, <2>3
<1>4. ASSUME NEW x \in Elements, \A m \in Lists : x \notin Items(D[m])
      PROVE  g.Next[x] = NULL /\ g.Previous[x] = NULL
  <2>1. x \notin Items(s) /\ \A m \in Lists \ {l} : x \notin Items(C[m])
    BY <1>1, <1>4
  <2>2. CASE x \in Items(C[l])
    BY <2>1, <2>2
  <2>3. CASE x \notin Items(C[l])
    <3>1. h.Next[x] = NULL /\ h.Previous[x] = NULL
      BY <2>1, <2>3 DEF Represents
    <3> QED
      BY <2>1, <2>3, <3>1
  <2> QED
    BY <2>2, <2>3
<1>5. \A m \in Lists : Distinct(D[m]) /\ IsChain(g, m, D[m])
  BY <1>1, <1>2
<1> QED
  BY <1>1, <1>3, <1>4, <1>5 DEF Represents, D

-----------------------------------------------------------------------------

(* AddElementToList appends an element that is on no list.                 *)
LEMMA AddRepresents ==
    ASSUME NEW h, NEW C, Represents(h, C), NEW l \in Lists, NEW e \in Elements,
           \A m \in Lists : e \notin Items(C[m])
    PROVE  Represents(AddElementToList(h, e, l), [C EXCEPT ![l] = Append(@, e)])
<1> DEFINE s == C[l]
           a == AddElementToList(h, e, l)
<1>1. /\ h \in Memory /\ ~h.Fault
      /\ s \in Seq(Elements) /\ Distinct(s) /\ IsChain(h, l, s) /\ e \notin Items(s)
      /\ h.Next[e] = NULL
      /\ \A m \in Lists \ {l} : Items(s) \cap Items(C[m]) = {}
  BY DEF Represents
<1> HIDE DEF s
<1>2. /\ Append(s, e) \in Seq(Elements)
      /\ Distinct(Append(s, e))
      /\ Items(Append(s, e)) = Items(s) \cup {e}
      /\ IsChain(a, l, Append(s, e))
  BY <1>1, ElementsAssumption, AppendChain DEF Memory
<1>3. \/ h.Head[l] = NULL /\ h.Tail[l] = NULL
      \/ h.Head[l] # NULL /\ h.Tail[l] # NULL /\ h.Tail[l] \in Items(s)
  <2>1. CASE s = <<>>
    BY <1>1, <2>1 DEF IsChain
  <2>2. CASE s # <<>>
    <3>1. Len(s) \in Nat \ {0} /\ 1 \in 1 .. Len(s) /\ Len(s) \in 1 .. Len(s)
      BY <1>1, <2>2, EmptySeq
    <3>2. s[1] \in Elements /\ s[Len(s)] \in Elements /\ s[Len(s)] \in Items(s)
      BY <1>1, <3>1, ElementOfSeq DEF Items
    <3> QED
      BY <1>1, <2>2, <3>2, ElementsAssumption DEF IsChain
  <2> QED
    BY <2>1, <2>2
<1>4. a \in Memory
  BY <1>1, AddElementType DEF Memory
<1>5. /\ ~a.Fault
      /\ \A m \in Lists \ {l} : a.Head[m] = h.Head[m] /\ a.Tail[m] = h.Tail[m]
      /\ \A x \in Elements \ (Items(s) \cup {e}) : a.Next[x] = h.Next[x] /\ a.Previous[x] = h.Previous[x]
  <2>1. CASE h.Head[l] = NULL /\ h.Tail[l] = NULL
    BY <1>1, <2>1, ElementsAssumption, AddElementEffect DEF Memory
  <2>2. CASE h.Head[l] # NULL /\ h.Tail[l] # NULL /\ h.Tail[l] \in Items(s)
    BY <1>1, <2>2, ElementsAssumption, AddElementEffect DEF Memory
  <2> QED
    BY <1>3, <2>1, <2>2
<1> HIDE DEF a
<1> DEFINE t == Append(s, e)
<1>6. \A m \in Lists \ {l} : Items(t) \cap Items(C[m]) = {}
  BY <1>1, <1>2
<1>7. /\ \A x \in Elements \ (Items(C[l]) \cup Items(t)) : a.Next[x] = h.Next[x] /\ a.Previous[x] = h.Previous[x]
      /\ Items(C[l]) \ Items(t) = {}
  BY <1>2, <1>5 DEF s
<1>8. t \in Seq(Elements) /\ Distinct(t) /\ IsChain(a, l, t)
  BY <1>2
<1> HIDE DEF t
<1>9. Represents(a, [C EXCEPT ![l] = t])
  BY <1>4, <1>5, <1>6, <1>7, <1>8, OneListChanges
<1> QED
  BY <1>9 DEF a, t, s

(* Taking the element at position i out of a sequence; at either end it is *)
(* what Tail and SubSeq leave.                                             *)
LEMMA RemoveAtEnd ==
    ASSUME NEW s \in Seq(Elements), s # <<>>
    PROVE  /\ Sequences!RemoveAt(s, 1) = Tail(s)
           /\ Sequences!RemoveAt(s, Len(s)) = SubSeq(s, 1, Len(s) - 1)
<1>1. Len(s) \in Nat \ {0}
  BY EmptySeq
<1>2. \A i \in 1 .. Len(s) : s[i] \in Elements
  BY ElementOfSeq
<1>3. SubSeq(s, 1, 1 - 1) = <<>> /\ SubSeq(s, Len(s) + 1, Len(s)) = <<>>
  BY <1>1, SubSeqEmpty
<1>4. Tail(s) = SubSeq(s, 1 + 1, Len(s)) /\ Tail(s) \in Seq(Elements)
  BY TailIsSubSeq, HeadTailProperties
<1>5. SubSeq(s, 1, Len(s) - 1) \in Seq(Elements)
  BY <1>1, <1>2, SubSeqProperties
<1> QED
  BY <1>3, <1>4, <1>5, ConcatEmptySeq DEF Sequences!RemoveAt

(* RemoveElementFromList takes the first or the last element off.          *)
LEMMA RemoveRepresents ==
    ASSUME NEW h, NEW C, Represents(h, C), NEW l \in Lists, NEW e \in Elements,
           e \in {h.Head[l], h.Tail[l]}
    PROVE  \E i \in 1 .. Len(C[l]) :
              /\ C[l][i] = e
              /\ Represents(RemoveElementFromList(h, e, l),
                            [C EXCEPT ![l] = Sequences!RemoveAt(@, i)])
<1> DEFINE s == C[l]
           r == RemoveElementFromList(h, e, l)
<1>1. /\ h \in Memory /\ ~h.Fault
      /\ s \in Seq(Elements) /\ Distinct(s) /\ IsChain(h, l, s)
      /\ \A m \in Lists \ {l} : Items(s) \cap Items(C[m]) = {}
  BY DEF Represents
<1> HIDE DEF s
<1>2. PICK t \in Seq(Elements) :
        WithoutEnd(s, e, t) /\ Distinct(t) /\ Items(t) = Items(s) \ {e} /\ IsChain(r, l, t)
  BY <1>1, ElementsAssumption, RemoveChain DEF Memory
<1>3. Len(s) \in Nat \ {0} /\ s # <<>> /\ (e = h.Head[l] => e = s[1]) /\ (e = h.Tail[l] => e = s[Len(s)])
      /\ e \in Items(s)
  BY <1>1, ElementsAssumption, EndIsItem, EmptySeq
<1>4. PICK i \in 1 .. Len(s) : s[i] = e /\ t = Sequences!RemoveAt(s, i)
  <2>1. 1 \in 1 .. Len(s) /\ Len(s) \in 1 .. Len(s)
    BY <1>3
  <2> QED
    BY <1>1, <1>2, <1>3, <2>1, RemoveAtEnd DEF WithoutEnd
<1>5. /\ h.Head[l] = s[1] /\ h.Tail[l] = s[Len(s)]
      /\ \A j \in 1 .. Len(s) : s[j] \in Items(s) /\ s[j] \in Elements
      /\ \A j \in 1 .. Len(s) : h.Next[s[j]] = IF j = Len(s) THEN NULL ELSE s[j + 1]
      /\ \A j \in 1 .. Len(s) : h.Previous[s[j]] = IF j = 1 THEN NULL ELSE s[j - 1]
  <2>1. \A j \in 1 .. Len(s) : s[j] \in Items(s) /\ s[j] \in Elements
    BY <1>1, ElementOfSeq DEF Items
  <2> QED
    BY <1>1, <1>3, <2>1 DEF IsChain
<1>6. r \in Memory
  BY <1>1, RemoveElementType DEF Memory
<1>7. /\ ~r.Fault
      /\ \A m \in Lists \ {l} : r.Head[m] = h.Head[m] /\ r.Tail[m] = h.Tail[m]
      /\ \A x \in Elements \ Items(s) : r.Next[x] = h.Next[x] /\ r.Previous[x] = h.Previous[x]
      /\ r.Next[e] = NULL /\ r.Previous[e] = NULL
  <2>1. CASE h.Head[l] = h.Tail[l]
    <3>1. Len(s) = 1
      <4>1. 1 \in 1 .. Len(s) /\ Len(s) \in 1 .. Len(s) /\ s[1] = s[Len(s)]
        BY <1>3, <1>5, <2>1
      <4> QED
        BY <1>1, <4>1 DEF Distinct
    <3>2. h.Next[e] = NULL /\ h.Previous[e] = NULL
      BY <1>3, <1>5, <2>1, <3>1
    <3> QED
      BY <1>1, <2>1, <3>2, ElementsAssumption, RemoveElementEffect DEF Memory
  <2>2. CASE h.Head[l] # h.Tail[l] /\ e = h.Head[l]
    <3>1. Len(s) # 1 /\ 1 \in 1 .. Len(s) /\ 1 + 1 = 2 /\ 2 \in 1 .. Len(s)
      BY <1>3, <1>5, <2>2
    <3>2. h.Next[e] = s[2] /\ s[2] \in Items(s) /\ s[2] \in Elements
      BY <1>3, <1>5, <2>2, <3>1
    <3> QED
      BY <1>1, <1>3, <2>2, <3>2, ElementsAssumption, RemoveElementEffect DEF Memory
  <2>3. CASE h.Head[l] # h.Tail[l] /\ e = h.Tail[l]
    <3>1. Len(s) # 1 /\ Len(s) \in 1 .. Len(s) /\ Len(s) - 1 \in 1 .. Len(s)
      BY <1>3, <1>5, <2>3
    <3>2. h.Previous[e] = s[Len(s) - 1] /\ s[Len(s) - 1] \in Items(s) /\ s[Len(s) - 1] \in Elements
      BY <1>3, <1>5, <2>3, <3>1
    <3> QED
      BY <1>1, <1>3, <2>3, <3>2, ElementsAssumption, RemoveElementEffect DEF Memory
  <2> QED
    BY <2>1, <2>2, <2>3
<1> HIDE DEF r
<1>8. /\ \A m \in Lists \ {l} : Items(t) \cap Items(C[m]) = {}
      /\ \A x \in Elements \ (Items(C[l]) \cup Items(t)) : r.Next[x] = h.Next[x] /\ r.Previous[x] = h.Previous[x]
      /\ \A x \in Items(C[l]) \ Items(t) : r.Next[x] = NULL /\ r.Previous[x] = NULL
  BY <1>1, <1>2, <1>7 DEF s
<1>9. Represents(r, [C EXCEPT ![l] = t])
  BY <1>2, <1>6, <1>7, <1>8, OneListChanges
<1> QED
  BY <1>4, <1>9 DEF r, s

-----------------------------------------------------------------------------

(* Two memories that agree in every field are the same.                    *)
LEMMA SameMemory ==
    ASSUME NEW g \in Memory, NEW h \in Memory, g.Fault = h.Fault,
           \A l \in Lists : g.Head[l] = h.Head[l] /\ g.Tail[l] = h.Tail[l],
           \A e \in Elements : g.Next[e] = h.Next[e] /\ g.Previous[e] = h.Previous[e]
    PROVE  g = h
<1>1. g.Head = h.Head /\ g.Tail = h.Tail /\ g.Next = h.Next /\ g.Previous = h.Previous
  BY DEF Memory, Heaps
<1> QED
  BY <1>1 DEF Memory, Heaps

(* What an end of a list that is not empty looks like.                     *)
LEMMA EndOfList ==
    ASSUME NEW h, NEW C, Represents(h, C), NEW l \in Lists, NEW e \in Elements,
           e \in {h.Head[l], h.Tail[l]}
    PROVE  /\ h.Head[l] \in Elements /\ h.Tail[l] \in Elements
           /\ h.Head[l] = h.Tail[l] => h.Next[e] = NULL
           /\ e = h.Head[l] => h.Previous[e] = NULL
           /\ e = h.Tail[l] => h.Next[e] = NULL
           /\ e = h.Head[l] /\ e # h.Tail[l] => h.Next[e] \in Elements \ {e}
           /\ e = h.Tail[l] /\ e # h.Head[l] => h.Previous[e] \in Elements \ {e}
           /\ \A m \in Lists \ {l} : h.Head[m] # e /\ h.Tail[m] # e
<1> DEFINE s == C[l]
           n == Len(s)
<1>1. s \in Seq(Elements) /\ Distinct(s) /\ IsChain(h, l, s)
  BY DEF Represents
<1> HIDE DEF s
<1>2. n \in Nat \ {0} /\ s # <<>> /\ e \in Items(s)
  BY <1>1, ElementsAssumption, EndIsItem, EmptySeq
<1> HIDE DEF n
<1>3. /\ h.Head[l] = s[1] /\ h.Tail[l] = s[n] /\ 1 \in 1 .. n /\ n \in 1 .. n
      /\ \A j \in 1 .. n : s[j] \in Elements
      /\ \A j \in 1 .. n : h.Next[s[j]] = IF j = n THEN NULL ELSE s[j + 1]
      /\ \A j \in 1 .. n : h.Previous[s[j]] = IF j = 1 THEN NULL ELSE s[j - 1]
      /\ \A i, j \in 1 .. n : s[i] = s[j] => i = j
  <2>1. \A j \in 1 .. n : s[j] \in Elements
    BY <1>1, ElementOfSeq DEF n
  <2> QED
    BY <1>1, <1>2, <2>1 DEF IsChain, Distinct, n
<1>4. e = h.Head[l] /\ e # h.Tail[l] => h.Next[e] \in Elements \ {e}
  <2> SUFFICES ASSUME e = h.Head[l], e # h.Tail[l] PROVE h.Next[e] \in Elements \ {e}
    OBVIOUS
  <2>1. n # 1 /\ 2 \in 1 .. n /\ 1 + 1 = 2
    BY <1>2, <1>3
  <2>2. h.Next[e] = s[2] /\ s[2] # s[1]
    BY <1>3, <2>1
  <2> QED
    BY <1>3, <2>1, <2>2
<1>5. e = h.Tail[l] /\ e # h.Head[l] => h.Previous[e] \in Elements \ {e}
  <2> SUFFICES ASSUME e = h.Tail[l], e # h.Head[l] PROVE h.Previous[e] \in Elements \ {e}
    OBVIOUS
  <2>1. n # 1 /\ n - 1 \in 1 .. n /\ n - 1 # n
    BY <1>2, <1>3
  <2>2. h.Previous[e] = s[n - 1] /\ s[n - 1] # s[n]
    BY <1>3, <2>1
  <2> QED
    BY <1>3, <2>1, <2>2
<1>6. ASSUME NEW m \in Lists \ {l}
      PROVE  h.Head[m] # e /\ h.Tail[m] # e
  <2>1. C[m] \in Seq(Elements) /\ IsChain(h, m, C[m]) /\ e \notin Items(C[m])
    BY <1>2 DEF Represents, s
  <2> QED
    BY <2>1, ElementsAssumption, EndIsItem
<1> QED
  BY <1>3, <1>4, <1>5, <1>6

(* PopListHead does to the memory what RemoveElementFromList would do for  *)
(* the first element.                                                      *)
LEMMA PopHeadIsRemove ==
    ASSUME NEW h, NEW C, Represents(h, C), NEW l \in Lists, h.Head[l] # NULL
    PROVE  PopListHead(h, l) = RemoveElementFromList(h, h.Head[l], l)
<1> DEFINE e == h.Head[l]
           x == h.Next[e]
           g == SetPrevious(SetHead(h, l, x), x, NULL)
<1>1. h \in Memory /\ e \in Elements
  BY DEF Represents, Memory, Heaps
<1>2. CASE e = h.Tail[l]
  BY <1>2 DEF PopListHead, RemoveElementFromList
<1>3. CASE e # h.Tail[l]
  <2>1. h.Previous[e] = NULL /\ x \in Elements \ {e} /\ x # NULL
    BY <1>1, <1>3, EndOfList, ElementsAssumption
  <2>2. PopListHead(h, l) = SetNext(g, e, NULL)
    BY <1>3 DEF PopListHead
  <2>3. RemoveElementFromList(h, e, l) = SetNext(SetPrevious(g, e, NULL), e, NULL)
    BY <1>3 DEF RemoveElementFromList
  <2>4. g \in Memory /\ g.Previous[e] = NULL
    <3>1. SetHead(h, l, x) \in Memory /\ SetHead(h, l, x).Previous = h.Previous
      BY <1>1, <2>1, SetHeadType, SetHeadEffect DEF Memory
    <3> HIDE DEF e, x
    <3> QED
      BY <1>1, <2>1, <3>1, SetPreviousType, SetPreviousEffect DEF Memory
  <2>5. SetPrevious(g, e, NULL) = g
    <3> HIDE DEF g, e, x
    <3>1. SetPrevious(g, e, NULL) \in Memory
      BY <1>1, <2>4, SetPreviousType DEF Memory
    <3>2. /\ SetPrevious(g, e, NULL).Head = g.Head
          /\ SetPrevious(g, e, NULL).Tail = g.Tail
          /\ SetPrevious(g, e, NULL).Next = g.Next
          /\ SetPrevious(g, e, NULL).Fault = g.Fault
          /\ \A y \in Elements : SetPrevious(g, e, NULL).Previous[y] = g.Previous[y]
      BY <1>1, <2>4, SetPreviousEffect, ElementsAssumption DEF Memory
    <3> QED
      BY <2>4, <3>1, <3>2, SameMemory
  <2> QED
    BY <2>2, <2>3, <2>5
<1> QED
  BY <1>2, <1>3

(* PopListTail likewise for the last one.                                  *)
LEMMA PopTailIsRemove ==
    ASSUME NEW h, NEW C, Represents(h, C), NEW l \in Lists, h.Tail[l] # NULL
    PROVE  PopListTail(h, l) = RemoveElementFromList(h, h.Tail[l], l)
<1> DEFINE e == h.Tail[l]
           x == h.Previous[e]
           g == SetNext(SetTail(h, l, x), x, NULL)
<1>1. h \in Memory /\ e \in Elements
  BY DEF Represents, Memory, Heaps
<1>2. CASE e = h.Head[l]
  BY <1>2 DEF PopListTail, RemoveElementFromList
<1>3. CASE e # h.Head[l]
  <2>1. h.Next[e] = NULL /\ x \in Elements \ {e} /\ x # NULL
    BY <1>1, <1>3, EndOfList, ElementsAssumption
  <2>2. PopListTail(h, l) = SetPrevious(g, e, NULL)
    BY <1>3 DEF PopListTail
  <2>3. RemoveElementFromList(h, e, l) = SetNext(SetPrevious(g, e, NULL), e, NULL)
    BY <1>3 DEF RemoveElementFromList
  <2>4. g \in Memory /\ g.Next[e] = NULL
    <3>1. SetTail(h, l, x) \in Memory /\ SetTail(h, l, x).Next = h.Next
      BY <1>1, <2>1, SetTailType, SetTailEffect DEF Memory
    <3> HIDE DEF e, x
    <3> QED
      BY <1>1, <2>1, <3>1, SetNextType, SetNextEffect DEF Memory
  <2> DEFINE p == SetPrevious(g, e, NULL)
  <2>5. p \in Memory /\ p.Next[e] = NULL
    <3> HIDE DEF g, e, x
    <3> QED
      BY <1>1, <2>4, SetPreviousType, SetPreviousEffect, ElementsAssumption DEF Memory
  <2>6. SetNext(p, e, NULL) = p
    <3> HIDE DEF p, g, e, x
    <3>1. SetNext(p, e, NULL) \in Memory
      BY <1>1, <2>5, SetNextType DEF Memory
    <3>2. /\ SetNext(p, e, NULL).Head = p.Head
          /\ SetNext(p, e, NULL).Tail = p.Tail
          /\ SetNext(p, e, NULL).Previous = p.Previous
          /\ SetNext(p, e, NULL).Fault = p.Fault
          /\ \A y \in Elements : SetNext(p, e, NULL).Next[y] = p.Next[y]
      BY <1>1, <2>5, SetNextEffect, ElementsAssumption DEF Memory
    <3> QED
      BY <2>5, <3>1, <3>2, SameMemory
  <2> QED
    BY <2>2, <2>3, <2>6
<1> QED
  BY <1>2, <1>3

(* The memory after the first half of MoveElementToList: e is off origin   *)
(* but still has its own links.                                            *)
CutOff(h, e, origin) ==
    LET h1 == IF e # h.Head[origin] THEN h
              ELSE LET g == SetHead(h, origin, h.Next[e])
                   IN  IF g.Next[e] = NULL THEN g ELSE SetPrevious(g, g.Next[e], NULL)
    IN  IF e # h1.Tail[origin] THEN h1
        ELSE LET g == SetTail(h1, origin, h1.Previous[e])
             IN  IF g.Previous[e] = NULL THEN g ELSE SetNext(g, g.Previous[e], NULL)

(* It differs from what RemoveElementFromList leaves in those links only.  *)
LEMMA CutOffIsRemove ==
    ASSUME NEW h, NEW C, Represents(h, C), NEW l \in Lists, NEW e \in Elements,
           e \in {h.Head[l], h.Tail[l]},
           NEW c, c = CutOff(h, e, l), NEW r, r = RemoveElementFromList(h, e, l)
    PROVE  /\ c \in Memory /\ r \in Memory
           /\ c.Fault = r.Fault
           /\ \A m \in Lists : c.Head[m] = r.Head[m] /\ c.Tail[m] = r.Tail[m]
           /\ \A x \in Elements \ {e} : c.Next[x] = r.Next[x] /\ c.Previous[x] = r.Previous[x]
           /\ r.Next[e] = NULL /\ r.Previous[e] = NULL
           /\ \A m \in Lists \ {l} : r.Head[m] = h.Head[m] /\ r.Tail[m] = h.Tail[m]
<1>0. h \in Memory
  BY DEF Represents
<1>1. /\ h \in Memory /\ h.Head[l] \in Elements /\ h.Tail[l] \in Elements
      /\ e = h.Head[l] => h.Previous[e] = NULL
      /\ e = h.Tail[l] => h.Next[e] = NULL
  BY <1>0, EndOfList
<1>2. r \in Memory
  BY <1>1, RemoveElementType DEF Memory
<1>3. CASE e = h.Head[l] /\ e = h.Tail[l]
  <2> DEFINE g == SetHead(h, l, h.Next[e])
  <2>1. h.Next[e] = NULL /\ h.Previous[e] = NULL
    BY <1>1, <1>3
  <2>2. /\ g \in Memory /\ g.Next = h.Next /\ g.Previous = h.Previous /\ g.Tail = h.Tail
    BY <1>1, <2>1, SetHeadType, SetHeadEffect DEF Memory
  <2>3. c = SetTail(g, l, g.Previous[e])
    <3> HIDE DEF g
    <3>1. CutOff(h, e, l) = IF e # g.Tail[l] THEN g
                            ELSE IF SetTail(g, l, g.Previous[e]).Previous[e] = NULL
                            THEN SetTail(g, l, g.Previous[e])
                            ELSE SetNext(SetTail(g, l, g.Previous[e]), SetTail(g, l, g.Previous[e]).Previous[e], NULL)
      BY <1>3, <2>1, <2>2 DEF CutOff, g
    <3>2. SetTail(g, l, g.Previous[e]).Previous = g.Previous
      BY <2>2, SetTailEffect DEF Memory
    <3> QED
      BY <1>3, <2>1, <2>2, <3>1, <3>2
  <2>4. c = r
    BY <1>3, <2>1, <2>2, <2>3 DEF RemoveElementFromList
  <2>5. /\ \A m \in Lists \ {l} : r.Head[m] = h.Head[m] /\ r.Tail[m] = h.Tail[m]
        /\ r.Next = h.Next /\ r.Previous = h.Previous
    <3>1. h.Head[l] = h.Tail[l]
      BY <1>3
    <3> QED
      BY <1>1, <3>1, ElementsAssumption, RemoveElementEffect DEF Memory
  <2> QED
    BY <1>2, <2>1, <2>4, <2>5
<1>4. CASE e = h.Head[l] /\ e # h.Tail[l]
  <2> DEFINE x == h.Next[e]
             g == SetHead(h, l, x)
             k == SetPrevious(g, x, NULL)
  <2>1. x \in Elements \ {e} /\ x # NULL
    BY <1>4, EndOfList, ElementsAssumption
  <2> HIDE DEF x
  <2>2. /\ g \in Memory /\ g.Next = h.Next /\ g.Previous = h.Previous /\ g.Tail = h.Tail
        /\ g.Fault = h.Fault
        /\ \A m \in Lists : g.Head[m] = IF m = l THEN x ELSE h.Head[m]
    BY <1>1, <2>1, SetHeadType, SetHeadEffect DEF Memory
  <2> HIDE DEF g
  <2>3. /\ k \in Memory /\ k.Next = h.Next /\ k.Tail = h.Tail /\ k.Head = g.Head
        /\ k.Fault = h.Fault
        /\ \A y \in Elements : k.Previous[y] = IF y = x THEN NULL ELSE h.Previous[y]
    BY <2>1, <2>2, SetPreviousType, SetPreviousEffect DEF Memory
  <2>4. c = k
    <3>1. c = IF e # (IF g.Next[e] = NULL THEN g ELSE SetPrevious(g, g.Next[e], NULL)).Tail[l] THEN k ELSE c
      BY <1>4, <2>1, <2>2 DEF CutOff, g, x
    <3> QED
      BY <1>4, <2>1, <2>2, <2>3, <3>1 DEF x
  <2> HIDE DEF k
  <2>5. h.Head[l] # h.Tail[l] /\ h.Next[e] # NULL
    BY <1>4, <2>1 DEF x
  <2> QED
    BY <1>1, <1>2, <1>4, <2>1, <2>2, <2>3, <2>4, <2>5, ElementsAssumption, RemoveElementEffect DEF Memory, x
<1>5. CASE e # h.Head[l] /\ e = h.Tail[l]
  <2> DEFINE x == h.Previous[e]
             g == SetTail(h, l, x)
             k == SetNext(g, x, NULL)
  <2>1. x \in Elements \ {e} /\ x # NULL
    BY <1>5, EndOfList, ElementsAssumption
  <2> HIDE DEF x
  <2>2. /\ g \in Memory /\ g.Next = h.Next /\ g.Previous = h.Previous /\ g.Head = h.Head
        /\ g.Fault = h.Fault
        /\ \A m \in Lists : g.Tail[m] = IF m = l THEN x ELSE h.Tail[m]
    BY <1>1, <2>1, SetTailType, SetTailEffect DEF Memory
  <2> HIDE DEF g
  <2>3. /\ k \in Memory /\ k.Previous = h.Previous /\ k.Tail = g.Tail /\ k.Head = h.Head
        /\ k.Fault = h.Fault
        /\ \A y \in Elements : k.Next[y] = IF y = x THEN NULL ELSE h.Next[y]
    BY <2>1, <2>2, SetNextType, SetNextEffect DEF Memory
  <2>4. c = k
    BY <1>5, <2>1, <2>2 DEF CutOff, g, x
  <2> HIDE DEF k
  <2>5. h.Head[l] # h.Tail[l]
    BY <1>5
  <2> QED
    BY <1>1, <1>2, <1>5, <2>1, <2>2, <2>3, <2>4, <2>5, ElementsAssumption, RemoveElementEffect DEF Memory, x
<1> QED
  BY <1>3, <1>4, <1>5

(* MoveElementToList leaves the memory that RemoveElementFromList and then *)
(* AddElementToList would, when the destination is not empty.              *)
LEMMA MoveIsRemoveAndAdd ==
    ASSUME NEW h, NEW C, Represents(h, C), NEW o \in Lists, NEW d \in Lists \ {o},
           NEW e \in Elements, e \in {h.Head[o], h.Tail[o]}, h.Head[d] # NULL
    PROVE  MoveElementToList(h, e, o, d) = AddElementToList(RemoveElementFromList(h, e, o), e, d)
<1> DEFINE c == CutOff(h, e, o)
           r == RemoveElementFromList(h, e, o)
           z == h.Tail[d]
           h4 == SetNext(c, e, NULL)
           p == SetPrevious(h4, e, z)
           q == SetNext(p, z, e)
           v == SetTail(q, d, e)
           a == AddElementToList(r, e, d)
<1>1. h.Head[d] \in Elements /\ z \in Elements \ {e} /\ z # NULL
  <2>1. h.Head[d] \in Elements
    BY DEF Represents, Memory, Heaps
  <2>2. z \in Elements
    BY <2>1, EndOfList
  <2> QED
    BY <2>1, <2>2, EndOfList, ElementsAssumption
<1> HIDE DEF z
<1>2. /\ c \in Memory /\ r \in Memory
      /\ c.Fault = r.Fault
      /\ \A m \in Lists : c.Head[m] = r.Head[m] /\ c.Tail[m] = r.Tail[m]
      /\ \A x \in Elements \ {e} : c.Next[x] = r.Next[x] /\ c.Previous[x] = r.Previous[x]
      /\ r.Next[e] = NULL /\ r.Previous[e] = NULL
      /\ r.Head[d] = h.Head[d] /\ r.Tail[d] = z
  BY CutOffIsRemove DEF z
<1>3. MoveElementToList(h, e, o, d) = v
  <2> DEFINE w == SetNext(IF c.Head[d] = NULL THEN SetHead(SetPrevious(c, e, NULL), d, e) ELSE c, e, NULL)
  <2>1. MoveElementToList(h, e, o, d) =
          IF w.Tail[d] = NULL THEN SetTail(w, d, NULL)
          ELSE SetTail(SetNext(SetPrevious(w, e, w.Tail[d]), w.Tail[d], e), d, e)
    BY DEF MoveElementToList, CutOff
  <2> HIDE DEF c
  <2>2. w = h4
    BY <1>1, <1>2
  <2>3. h4.Tail[d] = z
    BY <1>2, ElementsAssumption, SetNextEffect DEF Memory
  <2> HIDE DEF w, h4
  <2> QED
    BY <1>1, <2>1, <2>2, <2>3
<1> HIDE DEF c, r
<1>4. /\ h4 \in Memory /\ h4.Head = c.Head /\ h4.Tail = c.Tail /\ h4.Fault = c.Fault
      /\ h4.Previous = c.Previous
      /\ \A x \in Elements : h4.Next[x] = IF x = e THEN NULL ELSE c.Next[x]
  BY <1>2, ElementsAssumption, SetNextType, SetNextEffect DEF Memory
<1> HIDE DEF h4
<1>5. /\ p \in Memory /\ p.Head = c.Head /\ p.Tail = c.Tail /\ p.Fault = c.Fault
      /\ p.Next = h4.Next
      /\ \A x \in Elements : p.Previous[x] = IF x = e THEN z ELSE c.Previous[x]
  <2>1. p \in Memory
    BY <1>1, <1>4, SetPreviousType DEF Memory
  <2>2. /\ p.Head = h4.Head /\ p.Tail = h4.Tail /\ p.Fault = h4.Fault /\ p.Next = h4.Next
        /\ \A x \in Elements : p.Previous[x] = IF x = e THEN z ELSE h4.Previous[x]
    BY <1>4, ElementsAssumption, SetPreviousEffect DEF Memory
  <2> QED
    BY <1>4, <2>1, <2>2
<1> HIDE DEF p
<1>6. /\ q \in Memory /\ q.Head = c.Head /\ q.Tail = c.Tail /\ q.Fault = c.Fault
      /\ q.Previous = p.Previous
      /\ \A x \in Elements : q.Next[x] = IF x = z THEN e ELSE h4.Next[x]
  <2>1. q \in Memory
    BY <1>1, <1>5, SetNextType DEF Memory
  <2>2. /\ q.Head = p.Head /\ q.Tail = p.Tail /\ q.Fault = p.Fault /\ q.Previous = p.Previous
        /\ \A x \in Elements : q.Next[x] = IF x = z THEN e ELSE p.Next[x]
    BY <1>1, <1>5, SetNextEffect DEF Memory
  <2> QED
    BY <1>5, <2>1, <2>2
<1> HIDE DEF q
<1>7. /\ v \in Memory /\ v.Head = c.Head /\ v.Fault = c.Fault
      /\ v.Next = q.Next /\ v.Previous = p.Previous
      /\ \A m \in Lists : v.Tail[m] = IF m = d THEN e ELSE c.Tail[m]
  BY <1>6, SetTailType, SetTailEffect DEF Memory
<1> HIDE DEF v
<1>8. a \in Memory
  BY <1>2, AddElementType DEF Memory
<1>9. /\ a.Head = r.Head /\ a.Fault = r.Fault
      /\ \A m \in Lists : a.Tail[m] = IF m = d THEN e ELSE r.Tail[m]
      /\ \A x \in Elements : a.Next[x] = IF x = z THEN e ELSE r.Next[x]
      /\ \A x \in Elements : a.Previous[x] = IF x = e THEN z ELSE r.Previous[x]
  <2>1. r.Head[d] # NULL /\ r.Tail[d] # NULL /\ r.Tail[d] = z
    BY <1>1, <1>2
  <2> HIDE DEF a
  <2> QED
    BY <1>2, <2>1, ElementsAssumption, AddElementEffect DEF Memory, a
<1> HIDE DEF a
<1>10. /\ v.Fault = a.Fault
       /\ \A m \in Lists : v.Head[m] = a.Head[m] /\ v.Tail[m] = a.Tail[m]
       /\ \A x \in Elements : v.Next[x] = a.Next[x] /\ v.Previous[x] = a.Previous[x]
  BY <1>1, <1>2, <1>4, <1>5, <1>6, <1>7, <1>9
<1> QED
  BY <1>3, <1>7, <1>8, <1>10, SameMemory DEF a, r

-----------------------------------------------------------------------------

(* The sequence s with e put behind its element at position i.             *)
LEMMA InsertItems ==
    ASSUME NEW s \in Seq(Elements), Distinct(s), NEW i \in 1 .. Len(s),
           NEW e \in Elements, e \notin Items(s),
           NEW t, t = Sequences!InsertAt(s, i + 1, e)
    PROVE  /\ t \in Seq(Elements) /\ Len(t) = Len(s) + 1
           /\ \A j \in 1 .. Len(t) : t[j] = IF j <= i THEN s[j]
                                           ELSE IF j = i + 1 THEN e ELSE s[j - 1]
           /\ Distinct(t)
           /\ Items(t) = Items(s) \cup {e}
<1> DEFINE n == Len(s)
           u == SubSeq(s, 1, i)
           v == SubSeq(s, i + 1, n)
           w == u \o <<e>>
<1>1. n \in Nat /\ i \in 1 .. n /\ \A j \in 1 .. n : s[j] \in Elements
  BY LenProperties, ElementOfSeq
<1> HIDE DEF n
<1>2. u \in Seq(Elements) /\ Len(u) = i /\ \A j \in 1 .. i : u[j] = s[j]
  <2>1. \A j \in 1 .. i : s[j] \in Elements
    BY <1>1
  <2>2. /\ u \in Seq(Elements)
        /\ Len(u) = IF 1 <= i THEN i - 1 + 1 ELSE 0
        /\ \A j \in 1 .. i - 1 + 1 : u[j] = s[1 + j - 1]
    BY <1>1, <2>1, SubSeqProperties
  <2>3. i - 1 + 1 = i /\ \A j \in 1 .. i : 1 + j - 1 = j
    BY <1>1
  <2> QED
    BY <1>1, <2>2, <2>3
<1>3. v \in Seq(Elements) /\ Len(v) = n - i /\ \A j \in 1 .. n - i : v[j] = s[i + j]
  <2>1. \A j \in i + 1 .. n : s[j] \in Elements
    BY <1>1
  <2>2. /\ v \in Seq(Elements)
        /\ Len(v) = IF i + 1 <= n THEN n - (i + 1) + 1 ELSE 0
        /\ \A j \in 1 .. n - (i + 1) + 1 : v[j] = s[(i + 1) + j - 1]
    BY <1>1, <2>1, SubSeqProperties
  <2>3. n - (i + 1) + 1 = n - i /\ (~(i + 1 <= n) => n - i = 0)
        /\ \A j \in 1 .. n - i : (i + 1) + j - 1 = i + j
    BY <1>1
  <2> QED
    BY <1>1, <2>2, <2>3
<1> HIDE DEF u, v
<1>4. <<e>> \in Seq(Elements) /\ Len(<<e>>) = 1 /\ <<e>>[1] = e
  OBVIOUS
<1> DEFINE y == <<e>>
<1> HIDE DEF y
<1>5. /\ u \o y \in Seq(Elements) /\ Len(u \o y) = i + 1
      /\ \A j \in 1 .. i + 1 : (u \o y)[j] = IF j <= i THEN u[j] ELSE y[j - i]
  BY <1>1, <1>2, <1>4, ConcatProperties DEF y
<1>6. /\ w \in Seq(Elements) /\ Len(w) = i + 1
      /\ \A j \in 1 .. i + 1 : w[j] = IF j <= i THEN s[j] ELSE e
  <2>1. \A j \in 1 .. i + 1 : j <= i => j \in 1 .. i
    BY <1>1
  <2>2. \A j \in 1 .. i + 1 : ~(j <= i) => j - i = 1
    BY <1>1
  <2> QED
    BY <1>2, <1>4, <1>5, <2>1, <2>2 DEF y
<1>7. t = w \o v
  <2>1. (i + 1) - 1 = i
    BY <1>1
  <2> QED
    BY <2>1 DEF Sequences!InsertAt, u, v, n
<1> HIDE DEF w
<1>8. /\ t \in Seq(Elements) /\ Len(t) = (i + 1) + (n - i)
      /\ \A j \in 1 .. (i + 1) + (n - i) : t[j] = IF j <= i + 1 THEN w[j] ELSE v[j - (i + 1)]
  <2>1. /\ w \o v \in Seq(Elements) /\ Len(w \o v) = Len(w) + Len(v)
        /\ \A j \in 1 .. Len(w) + Len(v) : (w \o v)[j] = IF j <= Len(w) THEN w[j] ELSE v[j - Len(w)]
    BY <1>3, <1>6, ConcatProperties
  <2> QED
    BY <1>3, <1>6, <1>7, <2>1
<1>9. /\ t \in Seq(Elements) /\ Len(t) = n + 1
      /\ \A j \in 1 .. n + 1 : t[j] = IF j <= i THEN s[j]
                                    ELSE IF j = i + 1 THEN e ELSE s[j - 1]
  <2>1. (i + 1) + (n - i) = n + 1
    BY <1>1
  <2>2. ASSUME NEW j \in 1 .. n + 1
        PROVE  t[j] = IF j <= i THEN s[j] ELSE IF j = i + 1 THEN e ELSE s[j - 1]
    <3>1. CASE j <= i + 1
      <4>1. j \in 1 .. i + 1 /\ (~(j <= i) => j = i + 1)
        BY <1>1, <3>1
      <4> QED
        BY <1>6, <1>8, <2>1, <3>1, <4>1
    <3>2. CASE ~(j <= i + 1)
      <4>1. j - (i + 1) \in 1 .. n - i /\ i + (j - (i + 1)) = j - 1 /\ ~(j <= i) /\ j # i + 1
        BY <1>1, <3>2
      <4> QED
        BY <1>3, <1>8, <2>1, <3>2, <4>1
    <3> QED
      BY <3>1, <3>2
  <2> QED
    BY <1>8, <2>1, <2>2
<1>10. \A j, k \in 1 .. n : s[j] = s[k] => j = k
  BY DEF Distinct, n
<1>11. \A j \in 1 .. n : s[j] # e
  BY DEF Items, n
<1>12. Distinct(t)
  <2>1. ASSUME NEW j \in 1 .. n + 1, NEW k \in 1 .. n + 1, t[j] = t[k]
        PROVE  j = k
    <3>1. /\ j <= i => j \in 1 .. n
          /\ k <= i => k \in 1 .. n
          /\ ~(j <= i) /\ j # i + 1 => j - 1 \in 1 .. n /\ ~(j - 1 <= i)
          /\ ~(k <= i) /\ k # i + 1 => k - 1 \in 1 .. n /\ ~(k - 1 <= i)
          /\ j - 1 = k - 1 => j = k
      BY <1>1
    <3> QED
      BY <1>9, <1>10, <1>11, <2>1, <3>1
  <2> QED
    BY <1>9, <2>1 DEF Distinct
<1>13. Items(t) = Items(s) \cup {e}
  <2>1. ASSUME NEW j \in 1 .. n + 1
        PROVE  t[j] \in Items(s) \cup {e}
    <3>1. /\ j <= i => j \in 1 .. n
          /\ ~(j <= i) /\ j # i + 1 => j - 1 \in 1 .. n
      BY <1>1
    <3> QED
      BY <1>9, <3>1 DEF Items, n
  <2>2. ASSUME NEW j \in 1 .. n
        PROVE  s[j] \in Items(t)
    <3>1. j \in 1 .. n + 1 /\ j + 1 \in 1 .. n + 1 /\ (j + 1) - 1 = j
          /\ (~(j <= i) => ~(j + 1 <= i) /\ j + 1 # i + 1)
      BY <1>1
    <3>2. t[j] = s[j] \/ t[j + 1] = s[j]
      BY <1>9, <3>1
    <3> QED
      BY <1>9, <3>1, <3>2 DEF Items
  <2>3. e \in Items(t)
    <3>1. i + 1 \in 1 .. n + 1 /\ ~(i + 1 <= i)
      BY <1>1
    <3>2. t[i + 1] = e
      BY <1>9, <3>1
    <3> QED
      BY <1>9, <3>1, <3>2 DEF Items
  <2>4. Items(t) \subseteq Items(s) \cup {e}
    BY <1>9, <2>1 DEF Items
  <2>5. Items(s) \subseteq Items(t)
    BY <2>2 DEF Items, n
  <2> QED
    BY <2>3, <2>4, <2>5
<1> QED
  BY <1>9, <1>12, <1>13 DEF n

(* What AddElementAfter does to the fields behind an element that has a    *)
(* successor.                                                              *)
LEMMA AddAfterEffect ==
    ASSUME NEW h \in Memory, NEW l \in Lists, NEW e \in Elements, NEW p \in Elements \ {e},
           NEW x \in Elements \ {e, p}, h.Next[p] = x,
           NEW a, a = AddElementAfter(h, e, p, l)
    PROVE  /\ a \in Memory /\ a.Fault = h.Fault
           /\ a.Head = h.Head /\ a.Tail = h.Tail
           /\ \A y \in Elements : a.Next[y] = IF y = p THEN e ELSE IF y = e THEN x ELSE h.Next[y]
           /\ \A y \in Elements : a.Previous[y] = IF y = x THEN e ELSE IF y = e THEN p ELSE h.Previous[y]
<1> DEFINE h1 == SetNext(h, p, e)
           h2 == SetPrevious(h1, x, e)
           h3 == SetPrevious(h2, e, p)
<1>0. e # NULL /\ p # NULL /\ x # NULL
  BY ElementsAssumption
<1>1. a = SetNext(h3, e, x)
  BY <1>0 DEF AddElementAfter
<1>2. /\ h1 \in Memory /\ h1.Fault = h.Fault /\ h1.Head = h.Head /\ h1.Tail = h.Tail
      /\ h1.Previous = h.Previous
      /\ \A y \in Elements : h1.Next[y] = IF y = p THEN e ELSE h.Next[y]
  BY <1>0, SetNextType, SetNextEffect DEF Memory
<1> HIDE DEF h1
<1>3. /\ h2 \in Memory /\ h2.Fault = h.Fault /\ h2.Head = h.Head /\ h2.Tail = h.Tail
      /\ h2.Next = h1.Next
      /\ \A y \in Elements : h2.Previous[y] = IF y = x THEN e ELSE h.Previous[y]
  <2>1. h2 \in Memory
    BY <1>2, SetPreviousType DEF Memory
  <2> QED
    BY <1>0, <1>2, <2>1, SetPreviousEffect DEF Memory
<1> HIDE DEF h2
<1>4. /\ h3 \in Memory /\ h3.Fault = h.Fault /\ h3.Head = h.Head /\ h3.Tail = h.Tail
      /\ h3.Next = h1.Next
      /\ \A y \in Elements : h3.Previous[y] = IF y = e THEN p ELSE h2.Previous[y]
  <2>1. h3 \in Memory
    BY <1>3, SetPreviousType DEF Memory
  <2> QED
    BY <1>0, <1>3, <2>1, SetPreviousEffect DEF Memory
<1> HIDE DEF h3
<1>5. /\ a \in Memory /\ a.Fault = h.Fault /\ a.Head = h.Head /\ a.Tail = h.Tail
      /\ a.Previous = h3.Previous
      /\ \A y \in Elements : a.Next[y] = IF y = e THEN x ELSE h3.Next[y]
  <2>1. a \in Memory
    BY <1>1, <1>4, SetNextType DEF Memory
  <2> QED
    BY <1>0, <1>1, <1>4, <2>1, SetNextEffect DEF Memory
<1> QED
  BY <1>2, <1>3, <1>4, <1>5

(* AddElementAfter inserts behind an element that is not the last.         *)
LEMMA InsertRepresents ==
    ASSUME NEW h, NEW C, Represents(h, C), NEW l \in Lists, NEW e \in Elements,
           \A m \in Lists : e \notin Items(C[m]),
           NEW i \in 1 .. Len(C[l]), C[l][i] # h.Tail[l]
    PROVE  Represents(AddElementAfter(h, e, C[l][i], l),
                      [C EXCEPT ![l] = Sequences!InsertAt(@, i + 1, e)])
<1> DEFINE s == C[l]
           n == Len(s)
           p == s[i]
           a == AddElementAfter(h, e, p, l)
           t == Sequences!InsertAt(s, i + 1, e)
<1>1. /\ h \in Memory /\ ~h.Fault
      /\ s \in Seq(Elements) /\ Distinct(s) /\ IsChain(h, l, s) /\ e \notin Items(s)
      /\ \A m \in Lists \ {l} : Items(s) \cap Items(C[m]) = {}
  BY DEF Represents
<1>2. i \in 1 .. n
  OBVIOUS
<1> HIDE DEF s
<1>3. /\ n \in Nat /\ s # <<>>
      /\ \A j \in 1 .. n : s[j] \in Elements /\ s[j] \in Items(s)
  <2>1. n \in Nat /\ \A j \in 1 .. n : s[j] \in Elements /\ s[j] \in Items(s)
    BY <1>1, LenProperties, ElementOfSeq DEF Items
  <2> QED
    BY <1>2, <2>1, EmptySeq
<1>4. /\ h.Head[l] = s[1] /\ h.Tail[l] = s[n]
      /\ \A j \in 1 .. n : h.Next[s[j]] = IF j = n THEN NULL ELSE s[j + 1]
      /\ \A j \in 1 .. n : h.Previous[s[j]] = IF j = 1 THEN NULL ELSE s[j - 1]
      /\ \A j, k \in 1 .. n : s[j] = s[k] => j = k
  BY <1>1, <1>3 DEF IsChain, Distinct
<1> HIDE DEF n
<1>5. i # n /\ i + 1 \in 1 .. n /\ 1 \in 1 .. n /\ i + 1 # i
  <2>1. i # n
    BY <1>4 DEF s
  <2> QED
    BY <1>2, <1>3, <2>1
<1> DEFINE x == s[i + 1]
<1>6. /\ p \in Elements \ {e} /\ x \in Elements \ {e, p} /\ h.Next[p] = x
      /\ p \in Items(s) /\ x \in Items(s)
  BY <1>1, <1>2, <1>3, <1>4, <1>5
<1>7. \A j \in 1 .. n :
        /\ s[j] \in Elements /\ s[j] # e
        /\ s[j] = p <=> j = i
        /\ s[j] = x <=> j = i + 1
  BY <1>1, <1>2, <1>3, <1>4, <1>5
<1> HIDE DEF x, p
<1>8. /\ a \in Memory /\ a.Fault = h.Fault /\ a.Head = h.Head /\ a.Tail = h.Tail
      /\ \A y \in Elements : a.Next[y] = IF y = p THEN e ELSE IF y = e THEN x ELSE h.Next[y]
      /\ \A y \in Elements : a.Previous[y] = IF y = x THEN e ELSE IF y = e THEN p ELSE h.Previous[y]
  BY <1>1, <1>6, AddAfterEffect
<1> HIDE DEF a
<1>9. /\ t \in Seq(Elements) /\ Len(t) = n + 1
      /\ \A j \in 1 .. n + 1 : t[j] = IF j <= i THEN s[j] ELSE IF j = i + 1 THEN e ELSE s[j - 1]
      /\ Distinct(t) /\ Items(t) = Items(s) \cup {e}
  BY <1>1, <1>2, InsertItems DEF n
<1> HIDE DEF t
<1>10. IsChain(a, l, t)
  <2>1. /\ t # <<>> /\ 1 \in 1 .. n + 1 /\ n + 1 \in 1 .. n + 1 /\ (n + 1) - 1 = n
        /\ 1 <= i /\ ~(n + 1 <= i) /\ n + 1 # i + 1
    <3>1. n + 1 # 0
      BY <1>3
    <3> QED
      BY <1>2, <1>3, <1>5, <1>9, <3>1, EmptySeq
  <2>2. a.Head[l] = t[1] /\ a.Tail[l] = t[n + 1]
    BY <1>4, <1>8, <1>9, <2>1
  <2>3. ASSUME NEW j \in 1 .. n + 1
        PROVE  /\ a.Next[t[j]] = IF j = n + 1 THEN NULL ELSE t[j + 1]
               /\ a.Previous[t[j]] = IF j = 1 THEN NULL ELSE t[j - 1]
    <3>1. CASE j < i
      <4>1. /\ j \in 1 .. n /\ j # n /\ j # i /\ j # i + 1 /\ j # n + 1 /\ j <= i
            /\ j + 1 \in 1 .. n + 1 /\ j + 1 <= i
            /\ j # 1 => j - 1 \in 1 .. n + 1 /\ j - 1 <= i
        BY <1>2, <1>3, <3>1
      <4>2. /\ t[j] = s[j] /\ t[j + 1] = s[j + 1] /\ (j # 1 => t[j - 1] = s[j - 1])
        BY <1>9, <4>1
      <4>3. s[j] \in Elements /\ s[j] # p /\ s[j] # x /\ s[j] # e
        BY <1>7, <4>1
      <4> QED
        BY <1>4, <1>8, <4>1, <4>2, <4>3
    <3>2. CASE j = i
      <4>1. /\ j \in 1 .. n /\ j # n + 1 /\ j <= i
            /\ j + 1 \in 1 .. n + 1 /\ ~(j + 1 <= i) /\ j + 1 = i + 1
            /\ j # 1 => j - 1 \in 1 .. n + 1 /\ j - 1 <= i
        BY <1>2, <1>3, <3>2
      <4>2. /\ t[j] = p /\ t[j + 1] = e /\ (j # 1 => t[j - 1] = s[j - 1])
        BY <1>9, <3>2, <4>1 DEF p
      <4>3. h.Previous[p] = IF j = 1 THEN NULL ELSE s[j - 1]
        BY <1>4, <3>2, <4>1 DEF p
      <4> QED
        BY <1>6, <1>8, <4>1, <4>2, <4>3
    <3>3. CASE j = i + 1
      <4>1. /\ j # n + 1 /\ ~(j <= i) /\ j # 1
            /\ j + 1 \in 1 .. n + 1 /\ ~(j + 1 <= i) /\ j + 1 # i + 1 /\ (j + 1) - 1 = i + 1
            /\ j - 1 \in 1 .. n + 1 /\ j - 1 <= i /\ j - 1 = i
        BY <1>2, <1>3, <1>5, <3>3
      <4>2. t[j] = e /\ t[j + 1] = x /\ t[j - 1] = p
        BY <1>9, <3>3, <4>1 DEF p, x
      <4> QED
        BY <1>6, <1>8, <4>1, <4>2
    <3>4. CASE j > i + 1
      <4> DEFINE k == j - 1
      <4>1. /\ k \in 1 .. n /\ k # i /\ k # 1 /\ ~(j <= i) /\ j # i + 1 /\ j # 1
            /\ (j = n + 1 <=> k = n)
            /\ j # n + 1 => j + 1 \in 1 .. n + 1 /\ ~(j + 1 <= i) /\ j + 1 # i + 1 /\ (j + 1) - 1 = k + 1
            /\ k = i + 1 => k \in 1 .. n + 1 /\ ~(k <= i)
            /\ k # i + 1 => k \in 1 .. n + 1 /\ ~(k <= i) /\ k - 1 \in 1 .. n
        BY <1>2, <1>3, <3>4
      <4>2. /\ t[j] = s[k]
            /\ j # n + 1 => t[j + 1] = s[k + 1]
            /\ k = i + 1 => t[k] = e
            /\ k # i + 1 => t[k] = s[k - 1]
        BY <1>9, <4>1
      <4> HIDE DEF k
      <4>3. s[k] \in Elements /\ s[k] # p /\ s[k] # e /\ (s[k] = x <=> k = i + 1)
        BY <1>7, <4>1
      <4>4. h.Next[s[k]] = (IF k = n THEN NULL ELSE s[k + 1]) /\ h.Previous[s[k]] = s[k - 1]
        BY <1>4, <4>1
      <4>5. a.Next[t[j]] = IF j = n + 1 THEN NULL ELSE t[j + 1]
        BY <1>8, <4>1, <4>2, <4>3, <4>4
      <4>6. a.Previous[t[j]] = t[k]
        BY <1>8, <4>1, <4>2, <4>3, <4>4
      <4> QED
        BY <4>1, <4>5, <4>6 DEF k
    <3> QED
      BY <1>2, <1>3, <3>1, <3>2, <3>3, <3>4
  <2> QED
    BY <1>9, <2>1, <2>2, <2>3 DEF IsChain
<1>11. /\ \A m \in Lists \ {l} : Items(t) \cap Items(C[m]) = {}
       /\ \A y \in Elements \ (Items(s) \cup Items(t)) : a.Next[y] = h.Next[y] /\ a.Previous[y] = h.Previous[y]
       /\ Items(s) \ Items(t) = {}
  BY <1>1, <1>6, <1>8, <1>9
<1>12. /\ \A m \in Lists \ {l} : Items(t) \cap Items(C[m]) = {}
       /\ \A y \in Elements \ (Items(C[l]) \cup Items(t)) : a.Next[y] = h.Next[y] /\ a.Previous[y] = h.Previous[y]
       /\ Items(C[l]) \ Items(t) = {}
  BY <1>11 DEF s
<1>13. \A m \in Lists \ {l} :
         a.Head[m] = h.Head[m] /\ a.Tail[m] = h.Tail[m] /\ Items(t) \cap Items(C[m]) = {}
  BY <1>8, <1>12
<1>14. a \in Memory /\ ~a.Fault /\ t \in Seq(Elements) /\ Distinct(t) /\ IsChain(a, l, t)
  BY <1>1, <1>8, <1>9, <1>10
<1>15. \A y \in Items(C[l]) \ Items(t) : a.Next[y] = NULL /\ a.Previous[y] = NULL
  BY <1>12
<1> HIDE DEF a, t
<1>16. Represents(a, [C EXCEPT ![l] = t])
  BY <1>12, <1>13, <1>14, <1>15, OneListChanges
<1> QED
  BY <1>16 DEF a, p, t, s

-----------------------------------------------------------------------------

(* All lists begin empty and all links NULL.                               *)
LEMMA InitRepresents == ListInit => ListInv /\ Chained = [l \in Lists |-> <<>>]
<1> SUFFICES ASSUME ListInit PROVE ListInv /\ Chained = [l \in Lists |-> <<>>]
  OBVIOUS
<1> DEFINE C == [l \in Lists |-> <<>>]
<1>1. /\ heap \in Memory /\ ~heap.Fault
      /\ \A e \in Elements : heap.Next[e] = NULL /\ heap.Previous[e] = NULL
      /\ \A l \in Lists : heap.Head[l] = NULL /\ heap.Tail[l] = NULL
  BY DEF ListInit, EmptyHeap, Memory, Heaps
<1>2. /\ C \in [Lists -> Seq(Elements)]
      /\ \A l \in Lists : C[l] = <<>> /\ Items(C[l]) = {}
  BY EmptySeq DEF Items
<1> HIDE DEF C
<1>3. \A l \in Lists : Distinct(C[l]) /\ IsChain(heap, l, C[l])
  BY <1>1, <1>2, EmptySeq DEF Distinct, IsChain
<1>4. Represents(heap, C)
  BY <1>1, <1>2, <1>3 DEF Represents
<1> QED
  BY <1>4, RepresentsContents DEF ListInv, Chained, C

(* What the memory represents after a step is what is listed then.         *)
LEMMA RepresentedNext ==
    ASSUME NEW D, Represents(heap', D)
    PROVE  ListInv' /\ Chained' = D
BY RepresentsContents DEF ListInv, Chained

(* Taking an end of the list l off it.                                     *)
LEMMA RemoveStep ==
    ASSUME ListInv, NEW l \in Lists, NEW e \in Elements, e \in {heap.Head[l], heap.Tail[l]},
           heap' = RemoveElementFromList(heap, e, l)
    PROVE  ListInv' /\ \E i \in 1 .. Len(Chained[l]) : Sequences!TakeOff(l, i)
<1>1. PICK i \in 1 .. Len(Chained[l]) :
        Represents(heap', [Chained EXCEPT ![l] = Sequences!RemoveAt(@, i)])
  BY RemoveRepresents DEF ListInv
<1>2. ListInv' /\ Chained' = [Chained EXCEPT ![l] = Sequences!RemoveAt(@, i)]
  BY <1>1, RepresentedNext
<1> QED
  BY <1>2 DEF Sequences!TakeOff, Chained

(* Every call keeps the lists what they represent, and is one step of      *)
(* ListContents, or none when it pops an empty list.                       *)
LEMMA NextRepresents == ListInv /\ [ListNext]_heap => ListInv' /\ [Sequences!Next]_Chained
<1> SUFFICES ASSUME ListInv, [ListNext]_heap PROVE ListInv' /\ [Sequences!Next]_Chained
  OBVIOUS
<1> DEFINE C == Chained
<1>0. /\ Represents(heap, C)
      /\ C \in [Lists -> Seq(Elements)]
      /\ \A l \in Lists : heap.Head[l] \in Elements \cup {NULL} /\ heap.Tail[l] \in Elements \cup {NULL}
  BY DEF ListInv, Represents, Memory, Heaps
<1>1. /\ \A l \in Lists : Members(l) = Items(C[l])
      /\ \A e \in Elements : Unlinked(e) => \A l \in Lists : e \notin Items(C[l]) /\ ~Sequences!On(e, l)
  BY RepresentsMembers DEF Sequences!On, Chained, Items
<1>2. ASSUME NEW l \in Lists, NEW e \in Elements, Add(e, l)
      PROVE  ListInv' /\ Sequences!Add(e, l)
  <2>1. Represents(heap', [C EXCEPT ![l] = Append(@, e)])
    BY <1>0, <1>1, <1>2, AddRepresents DEF Add
  <2>2. ListInv' /\ C' = [C EXCEPT ![l] = Append(@, e)]
    BY <2>1, RepresentedNext
  <2> QED
    BY <1>1, <1>2, <2>2 DEF Add, Sequences!Add, Chained
<1>3. ASSUME NEW l \in Lists, NEW e \in Elements, NEW prev \in Elements, AddAfter(e, prev, l)
      PROVE  ListInv' /\ \E i \in 1 .. Len(C[l]) : Sequences!AddAfter(e, l, i)
  <2>1. PICK i \in 1 .. Len(C[l]) : C[l][i] = prev
    BY <1>1, <1>3 DEF AddAfter, Items
  <2>2. /\ \A m \in Lists : e \notin Items(C[m]) /\ ~Sequences!On(e, m)
        /\ C[l][i] # heap.Tail[l]
        /\ heap' = AddElementAfter(heap, e, C[l][i], l)
    BY <1>1, <1>3, <2>1 DEF AddAfter
  <2>3. Represents(heap', [C EXCEPT ![l] = Sequences!InsertAt(@, i + 1, e)])
    BY <1>0, <2>2, InsertRepresents
  <2>4. ListInv' /\ C' = [C EXCEPT ![l] = Sequences!InsertAt(@, i + 1, e)]
    BY <2>3, RepresentedNext
  <2> QED
    BY <2>2, <2>4 DEF Sequences!AddAfter, Chained
<1>4. ASSUME NEW l \in Lists, NEW e \in Ends(l), Remove(e, l)
      PROVE  ListInv' /\ \E i \in 1 .. Len(C[l]) : Sequences!TakeOff(l, i)
  <2>1. e \in Elements /\ e \in {heap.Head[l], heap.Tail[l]}
    BY <1>0 DEF Ends
  <2> QED
    BY <1>4, <2>1, RemoveStep DEF Remove
<1>5. ASSUME NEW l \in Lists, NEW m \in Lists, NEW e \in Elements,
             heap.Head[m] # NULL, Move(e, l, m)
      PROVE  ListInv' /\ \E i \in 1 .. Len(C[l]) : l # m /\ Sequences!Move(l, i, m)
  <2> DEFINE r == RemoveElementFromList(heap, e, l)
  <2>1. l # m /\ e \in {heap.Head[l], heap.Tail[l]} /\ heap' = AddElementToList(r, e, m)
    BY <1>0, <1>5, MoveIsRemoveAndAdd DEF Move, Ends
  <2>2. PICK i \in 1 .. Len(C[l]) :
          C[l][i] = e /\ Represents(r, [C EXCEPT ![l] = Sequences!RemoveAt(@, i)])
    BY <1>0, <2>1, RemoveRepresents
  <2> DEFINE t == Sequences!RemoveAt(C[l], i)
             D == [C EXCEPT ![l] = t]
  <2>3. Represents(r, D)
    BY <2>2
  <2> HIDE DEF r, t
  <2>4. /\ D[l] = t /\ \A k \in Lists \ {l} : D[k] = C[k]
        /\ D[m] = C[m]
    BY <1>0, <2>1
  <2>5. \A k \in Lists : e \notin Items(D[k])
    <3>1. t \in Seq(Elements)
      BY <2>3, <2>4 DEF Represents
    <3>2. \A k \in Lists \ {l} : e \notin Items(C[k])
      <4>1. e \in Items(C[l])
        BY <2>2 DEF Items
      <4>2. \A k \in Lists \ {l} : Items(C[l]) \cap Items(C[k]) = {}
        BY <1>0 DEF Represents
      <4> QED
        BY <4>1, <4>2
    <3>3. e \notin Items(t)
      <4>1. PICK u \in Seq(Elements) : Items(u) = Items(C[l]) \ {e} /\ IsChain(r, l, u)
        BY <1>0, <2>1, ElementsAssumption, RemoveChain DEF Represents, Memory, r
      <4>2. u = t
        BY <2>3, <2>4, <3>1, <4>1, ElementsAssumption, ChainIsUnique DEF Represents
      <4> QED
        BY <4>1, <4>2
    <3> QED
      BY <2>4, <3>2, <3>3
  <2>6. Represents(heap', [D EXCEPT ![m] = Append(@, e)])
    BY <2>1, <2>3, <2>5, AddRepresents
  <2>7. [D EXCEPT ![m] = Append(@, e)] = [C EXCEPT ![l] = t, ![m] = Append(@, e)]
    BY <1>0, <2>1
  <2>8. ListInv' /\ C' = [C EXCEPT ![l] = t, ![m] = Append(@, e)]
    BY <2>6, <2>7, RepresentedNext
  <2>9. Sequences!Move(l, i, m)
    BY <2>2, <2>8 DEF Sequences!Move, Chained, t
  <2> QED
    BY <2>1, <2>8, <2>9
<1>6. ASSUME NEW l \in Lists, PopHead(l) \/ PopTail(l)
      PROVE  ListInv' /\ (Chained' = Chained \/ \E i \in 1 .. Len(C[l]) : Sequences!TakeOff(l, i))
  <2>1. CASE heap' = heap
    BY <2>1 DEF ListInv, Chained
  <2>2. CASE PopHead(l) /\ heap.Head[l] # NULL
    BY <1>0, <2>2, PopHeadIsRemove, RemoveStep DEF PopHead
  <2>3. CASE PopTail(l) /\ heap.Tail[l] # NULL
    BY <1>0, <2>3, PopTailIsRemove, RemoveStep DEF PopTail
  <2> QED
    BY <1>6, <2>1, <2>2, <2>3 DEF PopHead, PopTail, PopListHead, PopListTail
<1>7. CASE UNCHANGED heap
  BY <1>7 DEF ListInv, Chained
<1>8. \A l \in Lists : 1 .. Len(C[l]) = 1 .. Len([k \in Lists |-> Contents(heap, k)][l])
  BY DEF Chained
<1> QED
  BY <1>2, <1>3, <1>4, <1>5, <1>6, <1>7, <1>8 DEF ListNext, Sequences!Next

(* The lists represent sequences of elements in every reachable state.     *)
THEOREM Representation == ListSpec => []ListInv
BY InitRepresents, NextRepresents, PTL DEF ListSpec

(* The fields only lead to elements, nothing is written through NULL,      *)
(* every list is the same chain read in either direction and no element is *)
(* on two lists, whatever the order of the calls.                          *)
THEOREM ListsWellFormed == ListSpec => []WellFormed
<1>1. ASSUME ListInv PROVE WellFormed
  <2>1. HeapTypeOK /\ NoFault
    BY <1>1 DEF ListInv, Represents, Memory, Heaps, HeapTypeOK, NoFault
  <2>2. \A l \in Lists : \E s \in ElementChains : IsChain(heap, l, s)
    BY <1>1, RepresentsContents DEF ListInv, Represents
  <2>3. \A l, m \in Lists : l # m => Members(l) \cap Members(m) = {}
    BY <1>1, RepresentsMembers DEF ListInv, Represents
  <2> QED
    BY <2>1, <2>2, <2>3 DEF WellFormed
<1> QED
  BY <1>1, Representation, PTL

(* An element that is off every list has no link left into one, which is   *)
(* what AddElementToList relies on: it does not write its Next.            *)
THEOREM UnlinkedStaysClean == ListSpec => []UnlinkedIsClean
<1>1. ASSUME ListInv PROVE UnlinkedIsClean
  BY <1>1, RepresentsMembers DEF ListInv, Represents, UnlinkedIsClean
<1> QED
  BY <1>1, Representation, PTL

(* Each function of list.cpp does one operation on the sequence of one     *)
(* list, or of two when it moves an element, and touches no other list.    *)
THEOREM SequencesImplemented == ListSpec => ImplementsSequences
<1>1. ListInit => Sequences!Init
  BY InitRepresents DEF Sequences!Init, Chained
<1>2. [Sequences!Next]_Chained => [Sequences!Next]_[l \in Lists |-> Contents(heap, l)]
  BY DEF Chained
<1> QED
  BY <1>1, <1>2, NextRepresents, Representation, PTL DEF ListSpec, ImplementsSequences, Sequences!Spec

=============================================================================
