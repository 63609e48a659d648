---------------------------- MODULE SequenceFacts ----------------------------
(***************************************************************************)
(* Facts about finite sequences that the proofs about queues share: what a *)
(* sequence holds (ToSet), and what it holds at most once.                 *)
(***************************************************************************)
EXTENDS Integers, Sequences, SequencesExt, SequenceTheorems, TLAPS

(* e is in s at most once.                                                 *)
Once(s, e) == \A i, j \in DOMAIN s : s[i] = e /\ s[j] = e => i = j

(* What a sequence holds, and holds once, when two are joined, one is sent *)
(* or received, and one is taken out.                                      *)
LEMMA JoinedOnce ==
  ASSUME NEW S, NEW s \in Seq(S), NEW t \in Seq(S)
  PROVE  /\ s \o t \in Seq(S)
         /\ ToSet(s \o t) = ToSet(s) \cup ToSet(t)
         /\ \A e : Once(s \o t, e)
                     <=> /\ Once(s, e) /\ Once(t, e)
                         /\ ~(e \in ToSet(s) /\ e \in ToSet(t))
<1>1. /\ DOMAIN s = 1..Len(s) /\ DOMAIN t = 1..Len(t)
      /\ DOMAIN (s \o t) = 1..(Len(s) + Len(t))
      /\ Len(s) \in Nat /\ Len(t) \in Nat /\ s \o t \in Seq(S)
  BY ConcatProperties, LenProperties
<1>2. \A i \in 1..Len(s) : i \in DOMAIN (s \o t) /\ (s \o t)[i] = s[i]
  BY <1>1, ConcatProperties
<1>3. \A i \in 1..Len(t) :
        i + Len(s) \in DOMAIN (s \o t) /\ (s \o t)[i + Len(s)] = t[i]
  BY <1>1, ConcatProperties
<1>4. \A k \in DOMAIN (s \o t) :
        \/ k \in 1..Len(s) /\ (s \o t)[k] = s[k]
        \/ k - Len(s) \in 1..Len(t) /\ (s \o t)[k] = t[k - Len(s)]
  BY <1>1, ConcatProperties
<1> DEFINE r == s \o t
<1> HIDE DEF r
<1>5. ToSet(r) = ToSet(s) \cup ToSet(t)
  <2>1. ASSUME NEW e \in ToSet(r) PROVE e \in ToSet(s) \cup ToSet(t)
    BY <2>1, <1>1, <1>4 DEF ToSet, r
  <2>2. ASSUME NEW e \in ToSet(s) PROVE e \in ToSet(r)
    BY <2>2, <1>1, <1>2 DEF ToSet, r
  <2>3. ASSUME NEW e \in ToSet(t) PROVE e \in ToSet(r)
    BY <2>3, <1>1, <1>3 DEF ToSet, r
  <2>4. QED
    BY <2>1, <2>2, <2>3
<1>6. ASSUME NEW e, Once(r, e)
      PROVE  Once(s, e) /\ Once(t, e) /\ ~(e \in ToSet(s) /\ e \in ToSet(t))
  <2>1. Once(s, e)
    BY <1>6, <1>1, <1>2 DEF Once, r
  <2>2. Once(t, e)
    <3>1. SUFFICES ASSUME NEW i \in DOMAIN t, NEW j \in DOMAIN t,
                          t[i] = e, t[j] = e
                   PROVE  i = j
      BY DEF Once
    <3>2. i + Len(s) = j + Len(s)
      BY <3>1, <1>6, <1>1, <1>3 DEF Once, r
    <3>3. QED
      BY <3>2, <1>1
  <2>3. ASSUME e \in ToSet(s), e \in ToSet(t) PROVE FALSE
    <3>1. PICK i \in 1..Len(s), j \in 1..Len(t) : s[i] = e /\ t[j] = e
      BY <2>3, <1>1 DEF ToSet
    <3>2. i = j + Len(s)
      BY <3>1, <1>6, <1>1, <1>2, <1>3 DEF Once, r
    <3>3. QED
      BY <3>2, <1>1
  <2>4. QED
    BY <2>1, <2>2, <2>3
<1>7. ASSUME NEW e, Once(s, e), Once(t, e), ~(e \in ToSet(s) /\ e \in ToSet(t))
      PROVE  Once(r, e)
  <2>1. SUFFICES ASSUME NEW i \in DOMAIN r, NEW j \in DOMAIN r,
                        r[i] = e, r[j] = e
                 PROVE  i = j
    BY DEF Once
  <2>2. CASE i \in 1..Len(s) /\ j \in 1..Len(s)
    BY <2>1, <2>2, <1>7, <1>1, <1>2 DEF Once, r
  <2>3. CASE i - Len(s) \in 1..Len(t) /\ j - Len(s) \in 1..Len(t)
    <3>1. t[i - Len(s)] = e /\ t[j - Len(s)] = e
      BY <2>1, <2>3, <1>1, <1>4 DEF r
    <3>2. i - Len(s) = j - Len(s)
      BY <3>1, <2>3, <1>7, <1>1 DEF Once
    <3>3. i \in Int /\ j \in Int
      BY <1>1 DEF r
    <3>4. QED
      BY <3>2, <3>3, <1>1
  <2>4. ASSUME NEW k \in DOMAIN r, r[k] = e
        PROVE  \/ k \in 1..Len(s) /\ e \in ToSet(s)
               \/ k - Len(s) \in 1..Len(t) /\ e \in ToSet(t)
    BY <2>4, <1>1, <1>4 DEF ToSet, r
  <2>5. QED
    BY <2>1, <2>2, <2>3, <2>4, <1>7
<1>8. QED
  BY <1>1, <1>5, <1>6, <1>7 DEF r

LEMMA OneOnce ==
  ASSUME NEW S, NEW d \in S
  PROVE  <<d>> \in Seq(S) /\ ToSet(<<d>>) = {d} /\ \A e : Once(<<d>>, e)
BY DEF ToSet, Once

LEMMA NoneOnce == ToSet(<<>>) = {} /\ \A e : Once(<<>>, e)
BY DEF ToSet, Once

LEMMA AppendOnce ==
  ASSUME NEW S, NEW s \in Seq(S), NEW d \in S
  PROVE  /\ Append(s, d) \in Seq(S)
         /\ ToSet(Append(s, d)) = ToSet(s) \cup {d}
         /\ \A e : Once(s, e) /\ (e = d => e \notin ToSet(s))
                     => Once(Append(s, d), e)
<1> DEFINE t == <<d>>
<1>1. t \in Seq(S) /\ ToSet(t) = {d} /\ \A e : Once(t, e)
  BY OneOnce
<1>2. Append(s, d) = s \o t
  BY AppendIsConcat
<1> HIDE DEF t
<1>3. /\ s \o t \in Seq(S) /\ ToSet(s \o t) = ToSet(s) \cup ToSet(t)
      /\ \A e : Once(s \o t, e) <=> /\ Once(s, e) /\ Once(t, e)
                                    /\ ~(e \in ToSet(s) /\ e \in ToSet(t))
  BY <1>1, JoinedOnce
<1>4. QED
  BY <1>1, <1>2, <1>3

LEMMA FirstOnce ==
  ASSUME NEW S, NEW s \in Seq(S), NEW d \in S
  PROVE  /\ <<d>> \o s \in Seq(S)
         /\ ToSet(<<d>> \o s) = {d} \cup ToSet(s)
         /\ \A e : Once(<<d>> \o s, e)
                     <=> Once(s, e) /\ (e = d => e \notin ToSet(s))
<1> DEFINE t == <<d>>
<1>1. t \in Seq(S) /\ ToSet(t) = {d} /\ \A e : Once(t, e)
  BY OneOnce
<1> HIDE DEF t
<1>2. /\ t \o s \in Seq(S) /\ ToSet(t \o s) = ToSet(t) \cup ToSet(s)
      /\ \A e : Once(t \o s, e) <=> /\ Once(t, e) /\ Once(s, e)
                                    /\ ~(e \in ToSet(t) /\ e \in ToSet(s))
  BY <1>1, JoinedOnce
<1>3. \A e : Once(t \o s, e) <=> Once(s, e) /\ (e = d => e \notin ToSet(s))
  BY <1>1, <1>2
<1>4. QED
  BY <1>1, <1>2, <1>3 DEF t

LEMMA TailOnce ==
  ASSUME NEW S, NEW s \in Seq(S), s # <<>>
  PROVE  /\ Head(s) \in S /\ Tail(s) \in Seq(S)
         /\ ToSet(s) = {Head(s)} \cup ToSet(Tail(s))
         /\ \A e : Once(s, e) => Once(Tail(s), e)
         /\ Once(s, Head(s)) => Head(s) \notin ToSet(Tail(s))
<1> DEFINE d == Head(s)
           t == Tail(s)
<1>1. d \in S /\ t \in Seq(S) /\ s = <<d>> \o t
  OBVIOUS
<1> HIDE DEF d, t
<1>2. /\ ToSet(<<d>> \o t) = {d} \cup ToSet(t)
      /\ \A e : Once(<<d>> \o t, e) <=> Once(t, e) /\ (e = d => e \notin ToSet(t))
  BY <1>1, FirstOnce
<1>3. /\ ToSet(s) = {d} \cup ToSet(t)
      /\ \A e : Once(s, e) <=> Once(t, e) /\ (e = d => e \notin ToSet(t))
  BY <1>1, <1>2
<1>4. QED
  BY <1>1, <1>3 DEF d, t

LEMMA RemovedOnce ==
  ASSUME NEW S, NEW s \in Seq(S), NEW i \in DOMAIN s
  PROVE  /\ RemoveAt(s, i) \in Seq(S)
         /\ ToSet(s) = ToSet(RemoveAt(s, i)) \cup {s[i]}
         /\ Once(s, s[i]) => s[i] \notin ToSet(RemoveAt(s, i))
         /\ \A e : Once(s, e) => Once(RemoveAt(s, i), e)
<1> DEFINE d == s[i]
           a == SubSeq(s, 1, i - 1)
           b == SubSeq(s, i + 1, Len(s))
           r == <<d>> \o b
<1>1. i \in 1..Len(s) /\ Len(s) \in Nat
  BY LenProperties
<1>2. d \in S /\ \A j \in 1..Len(s) : s[j] \in S
  BY <1>1, ElementOfSeq
<1>3. a \in Seq(S) /\ b \in Seq(S)
  <2>1. \A j \in 1..(i - 1) : s[j] \in S
    BY <1>1, <1>2
  <2>2. \A j \in (i + 1)..Len(s) : s[j] \in S
    BY <1>1, <1>2
  <2>3. i - 1 \in Int /\ i + 1 \in Int /\ Len(s) \in Int /\ 1 \in Int
    BY <1>1
  <2>4. QED
    BY <2>1, <2>2, <2>3, SubSeqProperties
<1>4. SubSeq(s, i, Len(s)) = r
  <2>1. i \in 1..Len(s) /\ Len(s) \in i..Len(s)
    BY <1>1
  <2>2. QED
    BY <2>1, SubSeqRecursiveFirst
<1>5. s = a \o r
  <2>1. /\ 1 \in 1..(Len(s) + 1) /\ i - 1 \in (1 - 1)..Len(s)
        /\ Len(s) \in (i - 1)..Len(s) /\ (i - 1) + 1 = i
    BY <1>1
  <2>2. SubSeq(s, 1, i - 1) \o SubSeq(s, (i - 1) + 1, Len(s)) = SubSeq(s, 1, Len(s))
    BY <2>1, ConcatAdjacentSubSeq
  <2>3. SubSeq(s, 1, Len(s)) = s
    BY SubSeqFull
  <2>4. QED
    BY <2>1, <2>2, <2>3, <1>4
<1>6. RemoveAt(s, i) = a \o b
  BY DEF RemoveAt
<1> HIDE DEF a, b, d
<1>7. /\ r \in Seq(S) /\ ToSet(r) = {d} \cup ToSet(b)
      /\ \A e : Once(r, e) <=> Once(b, e) /\ (e = d => e \notin ToSet(b))
  BY <1>2, <1>3, FirstOnce
<1> HIDE DEF r
<1>8. /\ ToSet(a \o r) = ToSet(a) \cup ToSet(r)
      /\ \A e : Once(a \o r, e) <=> /\ Once(a, e) /\ Once(r, e)
                                    /\ ~(e \in ToSet(a) /\ e \in ToSet(r))
  BY <1>3, <1>7, JoinedOnce
<1>9. /\ a \o b \in Seq(S) /\ ToSet(a \o b) = ToSet(a) \cup ToSet(b)
      /\ \A e : Once(a \o b, e) <=> /\ Once(a, e) /\ Once(b, e)
                                    /\ ~(e \in ToSet(a) /\ e \in ToSet(b))
  BY <1>3, JoinedOnce
<1>10. ToSet(s) = ToSet(a \o b) \cup {d}
  BY <1>5, <1>7, <1>8, <1>9
<1>11. ASSUME NEW e, Once(s, e)
       PROVE  Once(a \o b, e) /\ (e = d => e \notin ToSet(a \o b))
  BY <1>5, <1>7, <1>8, <1>9, <1>11
<1>12. QED
  BY <1>6, <1>9, <1>10, <1>11 DEF d

(* A sequence cut anywhere holds the same, in the same order.              *)
LEMMA CutAnywhere ==
  ASSUME NEW S, NEW s \in Seq(S), NEW q \in Seq(S), NEW k \in 0..Len(q)
  PROVE  (s \o SubSeq(q, 1, k)) \o SubSeq(q, k + 1, Len(q)) = s \o q
<1> DEFINE a == SubSeq(q, 1, k)
           b == SubSeq(q, k + 1, Len(q))
<1>1. Len(q) \in Nat /\ \A i \in 1..Len(q) : q[i] \in S
  BY LenProperties, ElementOfSeq
<1>2. a \in Seq(S)
  <2>1. 1 \in Int /\ k \in Int /\ \A i \in 1..k : q[i] \in S
    BY <1>1
  <2>2. QED
    BY <2>1, SubSeqProperties
<1>3. b \in Seq(S)
  <2>1. k + 1 \in Int /\ Len(q) \in Int /\ \A i \in (k + 1)..Len(q) : q[i] \in S
    BY <1>1
  <2>2. QED
    BY <2>1, SubSeqProperties
<1>4. a \o b = q
  <2>1. /\ 1 \in 1..(Len(q) + 1) /\ k \in (1 - 1)..Len(q) /\ Len(q) \in k..Len(q)
    BY <1>1
  <2>2. SubSeq(q, 1, k) \o SubSeq(q, k + 1, Len(q)) = SubSeq(q, 1, Len(q))
    BY <2>1, ConcatAdjacentSubSeq
  <2>3. QED
    BY <2>2, SubSeqFull
<1> HIDE DEF a, b
<1>5. (s \o a) \o b = s \o (a \o b)
  BY <1>2, <1>3, ConcatAssociative
<1>6. QED
  BY <1>4, <1>5 DEF a, b
=============================================================================
