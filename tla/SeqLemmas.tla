----------------------------- MODULE SeqLemmas -----------------------------
(***************************************************************************)
(* Lemmas about sequences of bytes, for the proofs about the protocols of  *)
(* the serial line and about SmartConfig's messages: bytes are appended,   *)
(* taken from the head, moved from one sequence to another, and lost.      *)
(***************************************************************************)
EXTENDS Sequences, SequencesExt, SequenceTheorems, TLAPS

\* The elements of two sequences, one behind the other.
LEMMA Glued ==
  ASSUME NEW S, NEW u \in Seq(S), NEW v \in Seq(S)
  PROVE  /\ u \o v \in Seq(S)
         /\ Len(u \o v) = Len(u) + Len(v)
         /\ \A i \in 1..Len(u) : (u \o v)[i] = u[i]
         /\ \A i \in (Len(u) + 1)..(Len(u) + Len(v)) : (u \o v)[i] = v[i - Len(u)]
BY ConcatProperties

\* What is left of a sequence that has lost an element.
LEMMA RemoveFacts ==
  ASSUME NEW S, NEW s \in Seq(S), NEW k \in DOMAIN s
  PROVE  /\ RemoveAt(s, k) \in Seq(S)
         /\ Len(RemoveAt(s, k)) = Len(s) - 1
         /\ \A i \in 1..(Len(s) - 1) : RemoveAt(s, k)[i] = s[IF i < k THEN i ELSE i + 1]
<1> DEFINE u == SubSeq(s, 1, k - 1)
           v == SubSeq(s, k + 1, Len(s))
<1>1. k \in 1..Len(s) /\ Len(s) \in Nat
  OBVIOUS
<1>2. /\ u \in Seq(S) /\ Len(u) = k - 1
      /\ \A i \in 1..(k - 1) : u[i] = s[i]
  BY <1>1
<1>3. /\ v \in Seq(S) /\ Len(v) = Len(s) - k
      /\ \A i \in 1..(Len(s) - k) : v[i] = s[k + i]
  BY <1>1
<1>4. RemoveAt(s, k) = u \o v
  BY DEF RemoveAt
<1> HIDE DEF u, v
<1>5. u \o v \in Seq(S) /\ Len(u \o v) = Len(s) - 1
  <2>1. u \o v \in Seq(S) /\ Len(u \o v) = Len(u) + Len(v)
    BY <1>2, <1>3, Glued
  <2> QED  BY <2>1, <1>1, <1>2, <1>3
<1>6. ASSUME NEW i \in 1..(Len(s) - 1)
      PROVE  (u \o v)[i] = s[IF i < k THEN i ELSE i + 1]
  <2>1. CASE i < k
    <3>1. i \in 1..Len(u)
      BY <1>1, <1>2, <2>1
    <3>2. (u \o v)[i] = u[i]
      BY <1>2, <1>3, <3>1, Glued
    <3> QED  BY <3>1, <3>2, <1>2, <2>1
  <2>2. CASE ~(i < k)
    <3>1. i \in (Len(u) + 1)..(Len(u) + Len(v))
      BY <1>1, <1>2, <1>3, <2>2
    <3>2. (u \o v)[i] = v[i - Len(u)]
      BY <1>2, <1>3, <3>1, Glued
    <3>3. i - (k - 1) \in 1..(Len(s) - k) /\ k + (i - (k - 1)) = i + 1
      BY <1>1, <2>2
    <3>4. v[i - (k - 1)] = s[k + (i - (k - 1))]
      BY <1>3, <3>3
    <3> QED  BY <1>2, <3>2, <3>3, <3>4, <2>2
  <2> QED  BY <2>1, <2>2
<1> QED  BY <1>4, <1>5, <1>6

\* A sequence with one more element.
LEMMA Appended ==
  ASSUME NEW S, NEW s \in Seq(S), NEW x \in S
  PROVE  /\ Append(s, x) \in Seq(S)
         /\ Len(Append(s, x)) = Len(s) + 1
         /\ \A i \in 1..Len(s) : Append(s, x)[i] = s[i]
         /\ Append(s, x)[Len(s) + 1] = x
BY AppendProperties

\* What is left of a sequence that has lost its head.
LEMMA TailFacts ==
  ASSUME NEW S, NEW s \in Seq(S), s # <<>>
  PROVE  /\ Head(s) = s[1] /\ Head(s) \in S /\ 1 \in 1..Len(s)
         /\ Tail(s) \in Seq(S)
         /\ Len(Tail(s)) = Len(s) - 1
         /\ \A i \in 1..(Len(s) - 1) : Tail(s)[i] = s[i + 1]
<1>1. Len(s) \in Nat \ {0}
  BY EmptySeq
<1>2. Tail(s) \in Seq(S) /\ Len(Tail(s)) = Len(s) - 1 /\ Head(s) \in S
  BY HeadTailProperties
<1>3. \A i \in 1..(Len(s) - 1) : Tail(s)[i] = s[i + 1]
  BY <1>2, HeadTailProperties
<1> QED  BY <1>1, <1>2, <1>3

\* A byte that moves from the head of one sequence to the end of another.
LEMMA Moved ==
  ASSUME NEW S, NEW u \in Seq(S), NEW v \in Seq(S), v # <<>>
  PROVE  Append(u, Head(v)) \o Tail(v) = u \o v
<1> DEFINE l == Append(u, Head(v))
           r == Tail(v)
<1>1. Head(v) = v[1] /\ Head(v) \in S /\ Len(v) \in Nat \ {0}
      /\ r \in Seq(S) /\ Len(r) = Len(v) - 1 /\ \A i \in 1..(Len(v) - 1) : r[i] = v[i + 1]
  BY TailFacts, EmptySeq
<1>2. /\ l \in Seq(S) /\ Len(l) = Len(u) + 1
      /\ \A i \in 1..Len(u) : l[i] = u[i]
      /\ l[Len(u) + 1] = v[1]
  BY <1>1, Appended
<1> HIDE DEF l, r
<1>3. l \o r \in Seq(S) /\ u \o v \in Seq(S)
      /\ Len(l \o r) = Len(u) + Len(v) /\ Len(u \o v) = Len(u) + Len(v)
  <2>1. l \o r \in Seq(S) /\ Len(l \o r) = Len(l) + Len(r)
    BY <1>1, <1>2, Glued
  <2>2. u \o v \in Seq(S) /\ Len(u \o v) = Len(u) + Len(v)
    BY Glued
  <2>3. Len(u) \in Nat
    OBVIOUS
  <2> QED  BY <1>1, <1>2, <2>1, <2>2, <2>3
<1>4. ASSUME NEW i \in 1..(Len(u) + Len(v)) PROVE (l \o r)[i] = (u \o v)[i]
  <2>1. CASE i <= Len(u)
    <3>1. i \in 1..Len(u) /\ i \in 1..Len(l)
      BY <1>2, <2>1
    <3>2. (l \o r)[i] = l[i] /\ (u \o v)[i] = u[i]
      BY <1>1, <1>2, <3>1, Glued
    <3> QED  BY <1>2, <3>1, <3>2
  <2>2. CASE i = Len(u) + 1
    <3>1. i \in 1..Len(l) /\ i \in (Len(u) + 1)..(Len(u) + Len(v)) /\ i - Len(u) = 1
      BY <1>1, <1>2, <2>2
    <3>2. (l \o r)[i] = l[i] /\ (u \o v)[i] = v[i - Len(u)]
      BY <1>1, <1>2, <3>1, Glued
    <3> QED  BY <1>2, <2>2, <3>1, <3>2
  <2>3. CASE i > Len(u) + 1
    <3>1. /\ i \in (Len(l) + 1)..(Len(l) + Len(r))
          /\ i \in (Len(u) + 1)..(Len(u) + Len(v))
          /\ i - Len(l) \in 1..(Len(v) - 1)
          /\ i - Len(l) + 1 = i - Len(u)
      BY <1>1, <1>2, <2>3
    <3>2. (l \o r)[i] = r[i - Len(l)] /\ (u \o v)[i] = v[i - Len(u)]
      BY <1>1, <1>2, <3>1, Glued
    <3> QED  BY <1>1, <3>1, <3>2
  <2>4. Len(u) \in Nat
    OBVIOUS
  <2>5. \/ i <= Len(u)
        \/ i = Len(u) + 1
        \/ i > Len(u) + 1
    BY <1>1, <2>4
  <2> QED  BY <2>1, <2>2, <2>3, <2>5
<1> QED  BY <1>3, <1>4, SeqEqual DEF l, r

\* A sequence that has lost some of its elements.
Sub(s, t) == \E f \in [DOMAIN s -> DOMAIN t] :
               /\ \A i, j \in DOMAIN s : i < j => f[i] < f[j]
               /\ \A i \in DOMAIN s : s[i] = t[f[i]]

\* The head is lost.
LEMMA SubTail ==
  ASSUME NEW S, NEW s \in Seq(S), s # <<>>
  PROVE  Sub(Tail(s), s)
<1>1. DOMAIN s = 1..Len(s) /\ DOMAIN Tail(s) = 1..(Len(s) - 1) /\ Len(s) \in Nat
  BY TailFacts
<1> DEFINE f == [i \in 1..(Len(s) - 1) |-> i + 1]
<1>2. f \in [DOMAIN Tail(s) -> DOMAIN s]
  BY <1>1
<1>3. \A i \in DOMAIN Tail(s) : Tail(s)[i] = s[f[i]]
  BY <1>1, TailFacts
<1>4. \A i, j \in DOMAIN Tail(s) : i < j => f[i] < f[j]
  BY <1>1
<1> QED  BY <1>2, <1>3, <1>4 DEF Sub

\* One element is lost.
LEMMA SubRemove ==
  ASSUME NEW S, NEW s \in Seq(S), NEW k \in DOMAIN s
  PROVE  Sub(RemoveAt(s, k), s)
<1> DEFINE r == RemoveAt(s, k)
           f == [i \in 1..(Len(s) - 1) |-> IF i < k THEN i ELSE i + 1]
<1>1. DOMAIN s = 1..Len(s) /\ DOMAIN r = 1..(Len(s) - 1) /\ Len(s) \in Nat /\ k \in 1..Len(s)
  BY RemoveFacts
<1>2. f \in [DOMAIN r -> DOMAIN s]
  BY <1>1
<1>3. \A i \in DOMAIN r : r[i] = s[f[i]]
  BY <1>1, RemoveFacts
<1> HIDE DEF r
<1>4. \A i, j \in DOMAIN r : i < j => f[i] < f[j]
  BY <1>1
<1> QED  BY <1>2, <1>3, <1>4 DEF Sub, r

\* What comes first is lost.
LEMMA SubSuffix ==
  ASSUME NEW S, NEW u \in Seq(S), NEW v \in Seq(S)
  PROVE  Sub(v, u \o v)
<1>1. /\ DOMAIN v = 1..Len(v) /\ Len(u) \in Nat /\ Len(v) \in Nat
      /\ DOMAIN (u \o v) = 1..(Len(u) + Len(v))
  BY Glued
<1> DEFINE f == [i \in 1..Len(v) |-> Len(u) + i]
<1>2. f \in [DOMAIN v -> DOMAIN (u \o v)]
  BY <1>1
<1>3. ASSUME NEW i \in DOMAIN v PROVE v[i] = (u \o v)[f[i]]
  <2>1. Len(u) + i \in (Len(u) + 1)..(Len(u) + Len(v)) /\ Len(u) + i - Len(u) = i
    BY <1>1
  <2>2. (u \o v)[Len(u) + i] = v[Len(u) + i - Len(u)]
    BY <2>1, Glued
  <2> QED  BY <1>1, <2>1, <2>2
<1>4. \A i, j \in DOMAIN v : i < j => f[i] < f[j]
  BY <1>1
<1> QED  BY <1>2, <1>3, <1>4 DEF Sub

\* Bytes that are lost behind others.
LEMMA SubBehind ==
  ASSUME NEW S, NEW u \in Seq(S), NEW v \in Seq(S), NEW w \in Seq(S), Sub(w, v)
  PROVE  Sub(u \o w, u \o v)
<1>1. PICK f \in [DOMAIN w -> DOMAIN v] :
             /\ \A i, j \in DOMAIN w : i < j => f[i] < f[j]
             /\ \A i \in DOMAIN w : w[i] = v[f[i]]
  BY DEF Sub
<1>2. /\ DOMAIN v = 1..Len(v) /\ DOMAIN w = 1..Len(w)
      /\ Len(u) \in Nat /\ Len(v) \in Nat /\ Len(w) \in Nat
      /\ DOMAIN (u \o v) = 1..(Len(u) + Len(v))
      /\ DOMAIN (u \o w) = 1..(Len(u) + Len(w))
  BY Glued
<1> DEFINE g == [i \in 1..(Len(u) + Len(w)) |->
                   IF i <= Len(u) THEN i ELSE Len(u) + f[i - Len(u)]]
<1>3. ASSUME NEW i \in 1..(Len(u) + Len(w)), i > Len(u)
      PROVE  i - Len(u) \in DOMAIN w /\ f[i - Len(u)] \in 1..Len(v)
  <2>1. i - Len(u) \in DOMAIN w
    BY <1>2, <1>3
  <2> QED  BY <1>1, <1>2, <2>1
<1>4. g \in [DOMAIN (u \o w) -> DOMAIN (u \o v)]
  BY <1>2, <1>3
<1>5. ASSUME NEW i \in DOMAIN (u \o w), NEW j \in DOMAIN (u \o w), i < j
      PROVE  g[i] < g[j]
  <2>1. CASE i <= Len(u)
    BY <1>2, <1>3, <1>5, <2>1
  <2>2. CASE i > Len(u)
    <3>1. i - Len(u) \in DOMAIN w /\ j - Len(u) \in DOMAIN w /\ i - Len(u) < j - Len(u)
      BY <1>2, <1>5, <2>2
    <3>2. f[i - Len(u)] < f[j - Len(u)]
      BY <1>1, <3>1
    <3> QED  BY <1>1, <1>2, <1>5, <2>2, <3>1, <3>2
  <2> QED  BY <1>2, <2>1, <2>2
<1>6. ASSUME NEW i \in DOMAIN (u \o w) PROVE (u \o w)[i] = (u \o v)[g[i]]
  <2>1. CASE i <= Len(u)
    <3>1. i \in 1..Len(u)
      BY <1>2, <2>1
    <3>2. (u \o w)[i] = u[i] /\ (u \o v)[i] = u[i]
      BY <3>1, Glued
    <3> QED  BY <1>2, <2>1, <3>2
  <2>2. CASE i > Len(u)
    <3>1. i - Len(u) \in DOMAIN w /\ f[i - Len(u)] \in 1..Len(v)
      BY <1>2, <1>3, <2>2
    <3>2. g[i] = Len(u) + f[i - Len(u)]
      BY <1>2, <2>2
    <3>3. i \in (Len(u) + 1)..(Len(u) + Len(w))
      BY <1>2, <2>2
    <3>4. /\ g[i] \in (Len(u) + 1)..(Len(u) + Len(v))
          /\ g[i] - Len(u) = f[i - Len(u)]
      BY <1>2, <3>1, <3>2
    <3> HIDE DEF g
    <3>5. (u \o w)[i] = w[i - Len(u)]
      BY <3>3, Glued
    <3>6. (u \o v)[g[i]] = v[g[i] - Len(u)]
      BY <3>4, Glued
    <3> QED  BY <1>1, <3>1, <3>4, <3>5, <3>6
  <2> QED  BY <1>2, <2>1, <2>2
<1> QED  BY <1>4, <1>5, <1>6 DEF Sub

\* The empty sequence has no element.
LEMMA NothingIn == \A x : ~Contains(<<>>, x)
BY DEF Contains

\* A sequence of one element, or of none.
LEMMA AtMostOne ==
  ASSUME NEW S, NEW s \in Seq(S)
  PROVE  /\ Len(s) = 0 => s = <<>>
         /\ s # <<>> => Len(s) >= 1
         /\ s # <<>> /\ Len(s) = 1 => Tail(s) = <<>>
         /\ \A k \in DOMAIN s : Len(s) = 1 => RemoveAt(s, k) = <<>>
<1>1. ASSUME NEW t \in Seq(S), Len(t) = 0 PROVE t = <<>>
  BY <1>1, EmptySeq
<1>2. s # <<>> => Len(s) \in Nat \ {0}
  BY EmptySeq
<1>3. ASSUME s # <<>>, Len(s) = 1 PROVE Tail(s) = <<>>
  <2>1. Tail(s) \in Seq(S) /\ Len(Tail(s)) = 0
    BY <1>3, TailFacts
  <2> QED  BY <1>1, <2>1
<1>4. ASSUME NEW k \in DOMAIN s, Len(s) = 1 PROVE RemoveAt(s, k) = <<>>
  <2>1. RemoveAt(s, k) \in Seq(S) /\ Len(RemoveAt(s, k)) = 0
    BY <1>4, RemoveFacts
  <2> QED  BY <1>1, <2>1
<1> QED  BY <1>1, <1>2, <1>3, <1>4

\* Where an element of a glued sequence comes from.
LEMMA ContainsGlue ==
  ASSUME NEW S, NEW s \in Seq(S), NEW t \in Seq(S), NEW x
  PROVE  Contains(s \o t, x) <=> Contains(s, x) \/ Contains(t, x)
<1>1. /\ Len(s) \in Nat /\ Len(t) \in Nat /\ Len(s \o t) = Len(s) + Len(t)
  BY Glued
<1>2. ASSUME NEW i \in 1..Len(s) PROVE i \in 1..Len(s \o t) /\ (s \o t)[i] = s[i]
  BY <1>1, Glued
<1>3. ASSUME NEW i \in 1..Len(t)
      PROVE  Len(s) + i \in 1..Len(s \o t) /\ (s \o t)[Len(s) + i] = t[i]
  <2>1. Len(s) + i \in (Len(s) + 1)..(Len(s) + Len(t)) /\ (Len(s) + i) - Len(s) = i
    BY <1>1
  <2>2. (s \o t)[Len(s) + i] = t[(Len(s) + i) - Len(s)]
    BY <2>1, Glued
  <2> QED  BY <1>1, <2>1, <2>2
<1>4. ASSUME NEW i \in 1..Len(s \o t), (s \o t)[i] = x
      PROVE  Contains(s, x) \/ Contains(t, x)
  <2>1. CASE i \in 1..Len(s)
    BY <1>2, <1>4, <2>1 DEF Contains
  <2>2. CASE i \notin 1..Len(s)
    <3>1. i - Len(s) \in 1..Len(t) /\ Len(s) + (i - Len(s)) = i
      BY <1>1, <2>2
    <3> QED  BY <1>3, <1>4, <3>1 DEF Contains
  <2> QED  BY <2>1, <2>2
<1> QED  BY <1>2, <1>3, <1>4 DEF Contains

\* An element in front of a sequence.
LEMMA Fronted ==
  ASSUME NEW S, NEW s \in Seq(S), NEW x \in S
  PROVE  /\ <<x>> \o s \in Seq(S)
         /\ Len(<<x>> \o s) = 1 + Len(s)
         /\ (<<x>> \o s)[1] = x
         /\ \A j \in 1..Len(s) : (<<x>> \o s)[1 + j] = s[j]
<1> DEFINE h == <<x>>
<1>1. h \in Seq(S) /\ Len(h) = 1 /\ h[1] = x /\ Len(s) \in Nat
  OBVIOUS
<1> HIDE DEF h
<1>2. /\ h \o s \in Seq(S) /\ Len(h \o s) = Len(h) + Len(s)
      /\ \A i \in 1..Len(h) : (h \o s)[i] = h[i]
      /\ \A i \in (Len(h) + 1)..(Len(h) + Len(s)) : (h \o s)[i] = s[i - Len(h)]
  BY <1>1, Glued
<1>3. (h \o s)[1] = x
  BY <1>1, <1>2
<1>4. ASSUME NEW j \in 1..Len(s) PROVE (h \o s)[1 + j] = s[j]
  <2>1. 1 + j \in (Len(h) + 1)..(Len(h) + Len(s)) /\ (1 + j) - Len(h) = j
    BY <1>1
  <2> QED  BY <1>2, <2>1
<1> QED  BY <1>1, <1>2, <1>3, <1>4 DEF h

\* An element and a sequence behind another.
LEMMA Followed ==
  ASSUME NEW S, NEW u \in Seq(S), NEW s \in Seq(S), NEW x \in S
  PROVE  /\ u \o (<<x>> \o s) \in Seq(S)
         /\ Len(u \o (<<x>> \o s)) = Len(u) + 1 + Len(s)
         /\ \A i \in 1..Len(u) : (u \o (<<x>> \o s))[i] = u[i]
         /\ (u \o (<<x>> \o s))[Len(u) + 1] = x
         /\ \A j \in 1..Len(s) : (u \o (<<x>> \o s))[Len(u) + 1 + j] = s[j]
<1> DEFINE w == <<x>> \o s
<1>1. /\ w \in Seq(S) /\ Len(w) = 1 + Len(s) /\ w[1] = x
      /\ \A j \in 1..Len(s) : w[1 + j] = s[j]
  BY Fronted
<1>2. Len(u) \in Nat /\ Len(s) \in Nat
  OBVIOUS
<1> HIDE DEF w
<1>3. ASSUME NEW v \in Seq(S), v = u \o w
      PROVE  /\ Len(v) = Len(u) + 1 + Len(s)
             /\ \A i \in 1..Len(u) : v[i] = u[i]
             /\ v[Len(u) + 1] = x
             /\ \A j \in 1..Len(s) : v[Len(u) + 1 + j] = s[j]
  <2>1. /\ Len(v) = Len(u) + Len(w)
        /\ \A i \in 1..Len(u) : v[i] = u[i]
        /\ \A i \in (Len(u) + 1)..(Len(u) + Len(w)) : v[i] = w[i - Len(u)]
    <3>1. w \in Seq(S)
      BY <1>1
    <3>2. /\ Len(u \o w) = Len(u) + Len(w)
          /\ \A i \in 1..Len(u) : (u \o w)[i] = u[i]
          /\ \A i \in (Len(u) + 1)..(Len(u) + Len(w)) : (u \o w)[i] = w[i - Len(u)]
      BY <3>1, Glued
    <3> QED  BY <1>3, <3>2
  <2>2. ASSUME NEW j \in 0..Len(s) PROVE v[Len(u) + 1 + j] = w[1 + j]
    <3>1. /\ Len(u) + 1 + j \in (Len(u) + 1)..(Len(u) + Len(w))
          /\ (Len(u) + 1 + j) - Len(u) = 1 + j
      BY <1>1, <1>2
    <3> QED  BY <2>1, <3>1
  <2>3. Len(v) = Len(u) + 1 + Len(s)
    BY <1>1, <1>2, <2>1
  <2>4. v[Len(u) + 1] = x
    <3>1. v[Len(u) + 1 + 0] = w[1 + 0] /\ Len(u) + 1 + 0 = Len(u) + 1
      BY <1>2, <2>2
    <3> QED  BY <1>1, <3>1
  <2>5. \A j \in 1..Len(s) : v[Len(u) + 1 + j] = s[j]
    BY <1>1, <1>2, <2>2
  <2> QED  BY <2>1, <2>3, <2>4, <2>5
<1>4. u \o w \in Seq(S)
  BY <1>1, Glued
<1> QED  BY <1>3, <1>4 DEF w

\* An element and as many others as q has, all within u, in a sequence that starts as u.
LEMMA Within ==
  ASSUME NEW S, NEW u \in Seq(S), NEW q \in Seq(S), NEW v, NEW a \in Nat,
         \A i \in 1..Len(u) : v[i] = u[i], a + 1 + Len(q) <= Len(u)
  PROVE  v[a + 1] = u[a + 1] /\ \A j \in 1..Len(q) : v[a + 1 + j] = u[a + 1 + j]
<1>1. Len(u) \in Nat /\ Len(q) \in Nat
  OBVIOUS
<1>2. a + 1 \in 1..Len(u) /\ \A j \in 1..Len(q) : a + 1 + j \in 1..Len(u)
  BY <1>1
<1> QED  BY <1>2

\* Two places y and x behind the first m of l elements, counted from behind those.
LEMMA ShiftedOrder ==
  ASSUME NEW m \in Nat, NEW l \in Nat, NEW y \in m..l, NEW x \in m..l
  PROVE  y <= x => y - m <= x - m
OBVIOUS

\* The places between two of them.
LEMMA Shifted ==
  ASSUME NEW m \in Nat, NEW l \in Nat, NEW y \in m..l, NEW x \in m..l,
         NEW p \in Nat, x = y + 1 + p
  PROVE  /\ x - m = (y - m) + 1 + p
         /\ (y - m) + 1 \in 1..(l - m) /\ m + ((y - m) + 1) = y + 1
OBVIOUS

\* The same of each place between y and x.
LEMMA ShiftedAt ==
  ASSUME NEW m \in Nat, NEW l \in Nat, NEW y \in m..l, NEW x \in m..l,
         NEW p \in Nat, x = y + 1 + p, NEW j \in 1..p
  PROVE  /\ (y - m) + 1 + j \in 1..(l - m)
         /\ m + ((y - m) + 1 + j) = y + 1 + j
OBVIOUS

\* The head of a sequence in front of the rest of it and another.
LEMMA HeadFirst ==
  ASSUME NEW S, NEW s \in Seq(S), NEW t \in Seq(S), s # <<>>
  PROVE  <<>> \o (s \o t) = <<Head(s)>> \o (Tail(s) \o t)
<1>1. /\ Head(s) = s[1] /\ Head(s) \in S /\ Tail(s) \in Seq(S)
      /\ Len(Tail(s)) = Len(s) - 1 /\ \A i \in 1..(Len(s) - 1) : Tail(s)[i] = s[i + 1]
  BY TailFacts
<1>2. Append(<<>>, Head(s)) \o Tail(s) = <<>> \o s
  BY Moved
<1>3. Append(<<>>, Head(s)) = <<Head(s)>>
  BY <1>1
<1>4. <<>> \o s = s /\ s \o t \in Seq(S) /\ <<>> \o (s \o t) = s \o t
  BY ConcatEmptySeq
<1>5. s = <<Head(s)>> \o Tail(s)
  BY <1>2, <1>3, <1>4
<1>6. (<<Head(s)>> \o Tail(s)) \o t = <<Head(s)>> \o (Tail(s) \o t)
  BY <1>1, ConcatAssociative
<1> QED  BY <1>4, <1>5, <1>6

\* v is u without its first m elements.
Without(v, u, m) == Len(v) = Len(u) - m /\ \A i \in 1..Len(v) : v[i] = u[m + i]

\* An element in front of two sequences, and what is left when it and the first z
\* elements of the first sequence are gone.
LEMMA Dropped ==
  ASSUME NEW S, NEW a \in Seq(S), NEW l \in Seq(S), NEW x \in S, NEW z \in 0..Len(a)
  PROVE  /\ <<x>> \o (a \o l) \in Seq(S) /\ <<x>> \o (a \o l) # <<>>
         /\ (<<x>> \o (a \o l))[1] = x
         /\ \A j \in 1..Len(a) : (<<x>> \o (a \o l))[1 + j] = a[j]
         /\ SubSeq(a, z + 1, Len(a)) \o l \in Seq(S)
         /\ Without(SubSeq(a, z + 1, Len(a)) \o l, <<x>> \o (a \o l), 1 + z)
<1> DEFINE c == a \o l
           r == SubSeq(a, z + 1, Len(a))
           u == <<x>> \o c
           v == r \o l
<1>1. Len(a) \in Nat /\ Len(l) \in Nat /\ z \in Nat /\ z <= Len(a)
  OBVIOUS
<1>2. /\ c \in Seq(S) /\ Len(c) = Len(a) + Len(l)
      /\ \A i \in 1..Len(a) : c[i] = a[i]
      /\ \A i \in (Len(a) + 1)..(Len(a) + Len(l)) : c[i] = l[i - Len(a)]
  BY Glued
<1>3. /\ r \in Seq(S) /\ Len(r) = Len(a) - z
      /\ \A i \in 1..(Len(a) - z) : r[i] = a[z + i]
  BY <1>1
<1> HIDE DEF c, r
<1>4. /\ u \in Seq(S) /\ Len(u) = 1 + Len(c) /\ u[1] = x
      /\ \A j \in 1..Len(c) : u[1 + j] = c[j]
  <2>1. c \in Seq(S)
    BY <1>2
  <2> QED  BY <2>1, Fronted
<1>5. /\ v \in Seq(S) /\ Len(v) = Len(r) + Len(l)
      /\ \A i \in 1..Len(r) : v[i] = r[i]
      /\ \A i \in (Len(r) + 1)..(Len(r) + Len(l)) : v[i] = l[i - Len(r)]
  <2>1. r \in Seq(S)
    BY <1>3
  <2> QED  BY <2>1, Glued
<1> HIDE DEF u, v
<1>6. Len(u) = 1 + Len(a) + Len(l) /\ Len(v) = Len(a) - z + Len(l)
  BY <1>1, <1>2, <1>3, <1>4, <1>5
<1>7. u # <<>>
  BY <1>1, <1>4, <1>6, EmptySeq
<1>8. ASSUME NEW j \in 1..Len(a) PROVE u[1 + j] = a[j]
  <2>1. j \in 1..Len(c)
    BY <1>1, <1>2
  <2> QED  BY <1>2, <1>4, <2>1
<1>9. Len(v) = Len(u) - (1 + z)
  BY <1>1, <1>6
<1>10. ASSUME NEW i \in 1..Len(v) PROVE v[i] = u[(1 + z) + i]
  <2>1. z + i \in 1..Len(c) /\ 1 + (z + i) = (1 + z) + i
    BY <1>1, <1>2, <1>6
  <2>2. u[(1 + z) + i] = c[z + i]
    BY <1>4, <2>1
  <2>3. CASE i \in 1..(Len(a) - z)
    <3>1. z + i \in 1..Len(a) /\ i \in 1..Len(r)
      BY <1>1, <1>3, <2>3
    <3> QED  BY <1>2, <1>3, <1>5, <2>2, <2>3, <3>1
  <2>4. CASE i \notin 1..(Len(a) - z)
    <3>1. /\ i \in (Len(r) + 1)..(Len(r) + Len(l))
          /\ z + i \in (Len(a) + 1)..(Len(a) + Len(l))
          /\ (z + i) - Len(a) = i - Len(r)
      BY <1>1, <1>3, <1>6, <2>4
    <3>2. v[i] = l[i - Len(r)]
      BY <1>5, <3>1
    <3>3. c[z + i] = l[(z + i) - Len(a)]
      BY <1>2, <3>1
    <3> QED  BY <2>2, <3>1, <3>2, <3>3
  <2> QED  BY <2>3, <2>4
<1> QED  BY <1>4, <1>5, <1>7, <1>8, <1>9, <1>10 DEF u, v, c, r, Without
=============================================================================
