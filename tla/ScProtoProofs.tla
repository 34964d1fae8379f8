--------------------------- MODULE ScProtoProofs ---------------------------
(***************************************************************************)
(* What parse() makes of a message, for every key, every size of a byte    *)
(* and every list of elements: the table that was sent, and nothing when a *)
(* byte was changed on the way.                                            *)
(*                                                                         *)
(* These are inductions over the bytes and over the elements.  Theorem     *)
(* WFMin of the library gives them for sets: a set that holds 0, and n + 1 *)
(* with n, holds every natural number.                                     *)
(***************************************************************************)
EXTENDS ScProto, SeqLemmas, WellFoundedInduction

-----------------------------------------------------------------------------
(* Induction *)

\* The natural numbers are well ordered.
LEMMA LessIsWellFounded ==
  IsWellFoundedOn({pair \in Nat \X Nat : pair[1] < pair[2]}, Nat)
BY NatLessThanWellFounded DEF OpToRel

\* A set that holds 0, and the next number with each, holds them all.
LEMMA SetInduction ==
  ASSUME NEW P, 0 \in P, \A n \in Nat : n \in P => n + 1 \in P
  PROVE  \A n \in Nat : n \in P
<1> DEFINE R == {pair \in Nat \X Nat : pair[1] < pair[2]}
           T == Nat \ P
<1>1. SUFFICES ASSUME T # {} PROVE FALSE
  OBVIOUS
<1>2. IsWellFoundedOn(R, Nat) /\ T \subseteq Nat
  BY LessIsWellFounded
<1>3. PICK x \in T : \A y \in T : ~ (<<y, x>> \in R)
  <2> HIDE DEF T, R
  <2> QED  BY <1>1, <1>2, WFMin
<1>4. x \in Nat /\ x \notin P /\ x # 0
  OBVIOUS
<1>5. x - 1 \in Nat /\ x - 1 + 1 = x
  BY <1>4
<1>6. x - 1 \notin P
  BY <1>4, <1>5
<1>7. <<x - 1, x>> \in R
  BY <1>4, <1>5
<1> QED  BY <1>3, <1>5, <1>6, <1>7

\* The same up to a bound.
LEMMA IntervalInduction ==
  ASSUME NEW N \in Nat, NEW P, 0 \in P, \A n \in 0 .. N - 1 : n \in P => n + 1 \in P
  PROVE  \A n \in 0 .. N : n \in P
<1> DEFINE Q == {n \in Nat : n <= N => n \in P}
<1>1. 0 \in Q
  OBVIOUS
<1>2. ASSUME NEW n \in Nat, n \in Q PROVE n + 1 \in Q
  BY <1>2
<1>3. \A n \in Nat : n \in Q
  <2> HIDE DEF Q
  <2> QED  BY <1>1, <1>2, SetInduction
<1> QED  BY <1>3

-----------------------------------------------------------------------------
(* Folds.  MapThenFoldSet takes the greatest index off a set of indices,    *)
(* until none is left.                                                      *)

\* What a fold over 1 .. N computes for each set of indices.
Folds(fold, N, base, step) ==
  fold = [s \in SUBSET (1 .. N) |->
            IF s = {} THEN base ELSE step[Max(s)][fold[s \ {Max(s)}]]]

\* There is such a fold, and its values are in S.
Folded(N, S, base, step) ==
  \E fold \in [SUBSET (1 .. N) -> S] : Folds(fold, N, base, step)

\* The greatest of the first numbers.
LEMMA MaxOfSet ==
  ASSUME NEW n \in Nat, NEW s \in SUBSET (1 .. n + 1), n + 1 \in s
  PROVE  Max(s) = n + 1
<1>1. \A y \in s : n + 1 >= y
  OBVIOUS
<1>2. \A x \in s : (\A y \in s : x >= y) => x = n + 1
  OBVIOUS
<1> QED  BY <1>1, <1>2 DEF Max

\* Every set of indices but the empty one has a greatest.
LEMMA MaxInSet ==
  ASSUME NEW N \in Nat, NEW s \in SUBSET (1 .. N), s # {}
  PROVE  Max(s) \in s
<1> DEFINE P == {n \in 0 .. N : \A t \in SUBSET (1 .. n) : t # {} => Max(t) \in t}
<1>1. 0 \in P
  <2>1. \A t \in SUBSET (1 .. 0) : t = {}
    OBVIOUS
  <2>2. \A t \in SUBSET (1 .. 0) : t # {} => Max(t) \in t
    BY <2>1
  <2>3. 0 \in 0 .. N
    OBVIOUS
  <2> QED  BY ONLY <2>2, <2>3
<1>2. ASSUME NEW n \in 0 .. N - 1, n \in P PROVE n + 1 \in P
  <2>1. ASSUME NEW t \in SUBSET (1 .. n + 1), t # {} PROVE Max(t) \in t
    <3>1. CASE n + 1 \in t
      BY <3>1, MaxOfSet
    <3>2. CASE n + 1 \notin t
      <4>1. t \in SUBSET (1 .. n)
        BY <3>2
      <4> QED  BY <1>2, <2>1, <4>1
    <3> QED  BY <3>1, <3>2
  <2> QED  BY <2>1
<1>3. \A n \in 0 .. N : n \in P
  <2> HIDE DEF P
  <2> QED  BY <1>1, <1>2, IntervalInduction
<1> QED  BY <1>3

\* A fold whose steps stay in a set S is defined, and all of its values are in S.
LEMMA FoldExists ==
  ASSUME NEW N \in Nat, NEW S, NEW base \in S, NEW step \in [1 .. N -> [S -> S]]
  PROVE  Folded(N, S, base, step)
<1> DEFINE P == {n \in 0 .. N : Folded(n, S, base, step)}
<1>1. 0 \in P
  <2> DEFINE fold == [s \in SUBSET (1 .. 0) |-> base]
  <2>1. fold \in [SUBSET (1 .. 0) -> S]
    OBVIOUS
  <2>2. 1 .. 0 = {}
    OBVIOUS
  <2>3. Folds(fold, 0, base, step)
    BY <2>2 DEF Folds
  <2> QED  BY <2>1, <2>3 DEF Folded
<1>2. ASSUME NEW n \in 0 .. N - 1, n \in P PROVE n + 1 \in P
  <2>1. PICK f \in [SUBSET (1 .. n) -> S] : Folds(f, n, base, step)
    BY <1>2 DEF Folded
  <2> DEFINE g == [s \in SUBSET (1 .. n + 1) |->
                     IF n + 1 \in s THEN step[n + 1][f[s \ {n + 1}]] ELSE f[s]]
  <2>2. ASSUME NEW s \in SUBSET (1 .. n + 1)
        PROVE  /\ g[s] \in S
               /\ g[s] = IF s = {} THEN base ELSE step[Max(s)][g[s \ {Max(s)}]]
    <3>1. CASE n + 1 \in s
      <4>1. Max(s) = n + 1
        BY <3>1, MaxOfSet
      <4>2. s \ {n + 1} \in SUBSET (1 .. n)
        OBVIOUS
      <4>3. g[s \ {n + 1}] = f[s \ {n + 1}] /\ f[s \ {n + 1}] \in S
        BY <4>2
      <4>4. n + 1 \in 1 .. N
        OBVIOUS
      <4>5. step[n + 1][f[s \ {n + 1}]] \in S
        BY <4>3, <4>4
      <4> QED  BY <3>1, <4>1, <4>3, <4>5
    <3>2. CASE n + 1 \notin s
      <4>1. s \in SUBSET (1 .. n)
        BY <3>2
      <4>2. g[s] = f[s] /\ f[s] \in S
        BY <3>2, <4>1
      <4>3. f[s] = IF s = {} THEN base ELSE step[Max(s)][f[s \ {Max(s)}]]
        BY <2>1, <4>1 DEF Folds
      <4>4. s \ {Max(s)} \in SUBSET (1 .. n + 1) /\ n + 1 \notin s \ {Max(s)}
        BY <3>2
      <4>5. g[s \ {Max(s)}] = f[s \ {Max(s)}]
        BY <4>4
      <4> QED  BY <4>2, <4>3, <4>5
    <3> QED  BY <3>1, <3>2
  <2>3. g \in [SUBSET (1 .. n + 1) -> S]
    BY <2>2
  <2>4. Folds(g, n + 1, base, step)
    <3> HIDE DEF g
    <3>1. g = [s \in SUBSET (1 .. n + 1) |-> g[s]]
      BY <2>3
    <3> QED  BY <2>2, <3>1 DEF Folds
  <2>5. Folded(n + 1, S, base, step)
    BY <2>3, <2>4 DEF Folded
  <2> QED  BY <2>5
<1>3. \A n \in 0 .. N : n \in P
  <2> HIDE DEF P
  <2> QED  BY <1>1, <1>2, IntervalInduction
<1> QED  BY <1>3

\* The first numbers, one less each time.
LEMMA FirstNumbers ==
  ASSUME NEW N \in Nat, NEW n \in 1 .. N
  PROVE  /\ 1 .. n # {} /\ 1 .. n \in SUBSET (1 .. N)
         /\ Max(1 .. n) = n
         /\ (1 .. n) \ {n} = 1 .. n - 1
<1>1. n - 1 \in Nat /\ 1 .. n \in SUBSET (1 .. n - 1 + 1) /\ n - 1 + 1 \in 1 .. n
  OBVIOUS
<1>2. Max(1 .. n) = n - 1 + 1
  BY <1>1, MaxOfSet
<1> QED  BY <1>1, <1>2

\* The steps that a fold takes through the first numbers.
Steps(steps, N, base, step) ==
  /\ steps[0] = base
  /\ \A n \in 1 .. N : steps[n] = step[n][steps[n - 1]]

\* There are such steps, and they stay in S.
LEMMA StepsExist ==
  ASSUME NEW N \in Nat, NEW S, NEW base \in S, NEW step \in [1 .. N -> [S -> S]]
  PROVE  \E steps \in [0 .. N -> S] : Steps(steps, N, base, step)
<1>1. PICK fold \in [SUBSET (1 .. N) -> S] : Folds(fold, N, base, step)
  BY FoldExists DEF Folded
<1> DEFINE steps == [n \in 0 .. N |-> fold[1 .. n]]
<1>2. steps \in [0 .. N -> S]
  <2>1. ASSUME NEW n \in 0 .. N PROVE 1 .. n \in SUBSET (1 .. N)
    OBVIOUS
  <2> QED  BY <1>1, <2>1
<1>3. steps[0] = base
  <2>1. 1 .. 0 = {} /\ {} \in SUBSET (1 .. N)
    OBVIOUS
  <2>2. fold[{}] = base
    BY <1>1, <2>1 DEF Folds
  <2> QED  BY <2>1, <2>2
<1>4. ASSUME NEW n \in 1 .. N PROVE steps[n] = step[n][steps[n - 1]]
  <2>1. /\ 1 .. n # {} /\ 1 .. n \in SUBSET (1 .. N) /\ Max(1 .. n) = n
        /\ (1 .. n) \ {n} = 1 .. n - 1
    BY FirstNumbers
  <2>2. fold[1 .. n] = step[n][fold[1 .. n - 1]]
    BY <1>1, <2>1, ZenonT(60) DEF Folds
  <2>3. n \in 0 .. N /\ n - 1 \in 0 .. N
    OBVIOUS
  <2>4. steps[n] = fold[1 .. n] /\ steps[n - 1] = fold[1 .. n - 1]
    BY <2>3
  <2> QED  BY <2>2, <2>4
<1> HIDE DEF steps
<1>5. Steps(steps, N, base, step)
  BY <1>3, <1>4 DEF Steps
<1> QED  BY <1>2, <1>5

-----------------------------------------------------------------------------
(* The checksum *)

Words == 0 .. Word - 1

\* The hash of the first bytes of data, one after another.
Hashes(hash, data) ==
  /\ hash \in [0 .. Len(data) -> Words]
  /\ hash[0] = 0
  /\ \A n \in 1 .. Len(data) : hash[n] = (31 * hash[n - 1] + data[n]) % Word

\* A word has at least the values of a byte.
LEMMA WordFacts == Word \in Nat \ {0} /\ Radix <= Word
<1>1. Radix \in Nat /\ Radix > 1
  BY RadixAssumption
<1>2. ASSUME NEW k \in Nat, k > 0 PROVE k * Radix \in Nat /\ k * Radix >= Radix
  <2>1. (k - 1) * Radix \in Nat
    BY <1>1, <1>2
  <2>2. k * Radix = (k - 1) * Radix + Radix
    BY <1>1
  <2> QED  BY <1>1, <2>1, <2>2
<1> DEFINE two == Radix * Radix
           three == two * Radix
<1>3. two \in Nat /\ two >= Radix
  BY <1>1, <1>2
<1>4. three \in Nat /\ three >= Radix
  <2> HIDE DEF two
  <2> QED  BY <1>1, <1>2, <1>3
<1>5. three * Radix \in Nat /\ three * Radix >= Radix
  <2> HIDE DEF three
  <2> QED  BY <1>1, <1>2, <1>4
<1> QED  BY <1>1, <1>5 DEF Word

\* One step of the hash.
LEMMA HashStepType ==
  ASSUME NEW h \in Words, NEW b \in Byte
  PROVE  (31 * h + b) % Word \in Words
<1>1. 31 * h + b \in Nat
  BY WordFacts, RadixAssumption DEF Words, Byte
<1> QED  BY <1>1, WordFacts DEF Words

\* HashCode is the last of these hashes.
LEMMA HashCodeIsLast ==
  ASSUME NEW data \in Seq(Byte)
  PROVE  \E hash : Hashes(hash, data) /\ HashCode(data) = hash[Len(data)]
<1> DEFINE N == Len(data)
           step == [n \in 1 .. N |-> [h \in Words |-> (31 * h + data[n]) % Word]]
           g == CHOOSE f : f = [s \in SUBSET (DOMAIN data) |->
                                  IF s = {} THEN 0
                                  ELSE (31 * f[s \ {Max(s)}] + data[Max(s)]) % Word]
<1>1. N \in Nat /\ DOMAIN data = 1 .. N /\ 0 \in Words
  BY WordFacts DEF Words
<1>2. step \in [1 .. N -> [Words -> Words]]
  <2>1. ASSUME NEW n \in 1 .. N PROVE data[n] \in Byte
    BY <1>1
  <2> QED  BY <2>1, HashStepType
<1>3. \E f : f = [s \in SUBSET (DOMAIN data) |->
                    IF s = {} THEN 0
                    ELSE (31 * f[s \ {Max(s)}] + data[Max(s)]) % Word]
  <2>1. PICK f \in [SUBSET (1 .. N) -> Words] : Folds(f, N, 0, step)
    <3> HIDE DEF step, N
    <3> QED  BY <1>1, <1>2, FoldExists DEF Folded
  <2>2. ASSUME NEW s \in SUBSET (1 .. N), s # {}
        PROVE  f[s] = (31 * f[s \ {Max(s)}] + data[Max(s)]) % Word
    <3>1. Max(s) \in 1 .. N
      BY <1>1, <2>2, MaxInSet
    <3>2. f[s] = step[Max(s)][f[s \ {Max(s)}]]
      BY <2>1, <2>2 DEF Folds
    <3>3. f[s \ {Max(s)}] \in Words
      BY <2>1
    <3> QED  BY <3>1, <3>2, <3>3
  <2>3. f[{}] = 0
    BY <2>1 DEF Folds
  <2>4. f = [s \in SUBSET (1 .. N) |-> f[s]]
    BY <2>1
  <2>5. f = [s \in SUBSET (1 .. N) |->
               IF s = {} THEN 0 ELSE (31 * f[s \ {Max(s)}] + data[Max(s)]) % Word]
    BY <2>2, <2>3, <2>4
  <2> QED  BY <1>1, <2>5
<1>4. g = [s \in SUBSET (1 .. N) |->
             IF s = {} THEN 0 ELSE (31 * g[s \ {Max(s)}] + data[Max(s)]) % Word]
  BY <1>1, <1>3
<1>5. HashCode(data) = g[1 .. N]
  BY <1>1 DEF HashCode, FoldLeft, MapThenFoldSet
<1> DEFINE hash == [n \in 0 .. N |-> g[1 .. n]]
<1> HIDE DEF g
<1>6. hash[0] = 0
  BY <1>1, <1>4
<1>7. \A n \in 1 .. N : hash[n] = (31 * hash[n - 1] + data[n]) % Word
  <2> TAKE n \in 1 .. N
  <2>1. g[1 .. n] = (31 * g[1 .. n - 1] + data[n]) % Word
    <3>1. /\ 1 .. n # {} /\ 1 .. n \in SUBSET (1 .. N)
          /\ Max(1 .. n) = n
          /\ (1 .. n) \ {n} = 1 .. n - 1
      BY <1>1, FirstNumbers
    <3> QED  BY <1>4, <3>1
  <2> QED  BY <1>1, <2>1
<1>8. \A n \in 0 .. N : hash[n] \in Words
  <2> DEFINE P == {n \in 0 .. N : hash[n] \in Words}
  <2>1. 0 \in P
    BY <1>1, <1>6
  <2>2. \A n \in 0 .. N - 1 : n \in P => n + 1 \in P
    <3> HIDE DEF hash
    <3> TAKE n \in 0 .. N - 1
    <3>1. n + 1 \in 1 .. N /\ n + 1 - 1 = n
      BY <1>1
    <3>2. data[n + 1] \in Byte
      BY <1>1, <3>1
    <3>3. hash[n + 1] = (31 * hash[n] + data[n + 1]) % Word
      BY <1>7, <3>1
    <3> QED  BY <3>1, <3>2, <3>3, HashStepType
  <2> HIDE DEF P
  <2>3. \A n \in 0 .. N : n \in P
    BY <1>1, <2>1, <2>2, IntervalInduction
  <2> QED  BY <2>3 DEF P
<1>9. Hashes(hash, data)
  BY <1>1, <1>6, <1>7, <1>8 DEF Hashes
<1> QED  BY <1>1, <1>5, <1>9

\* Numbers with the same remainder differ by a multiple.
LEMMA SameRemainder ==
  ASSUME NEW W \in Nat \ {0}, NEW a \in Nat, NEW b \in Nat, a % W = b % W
  PROVE  \E q \in Int : a - b = W * q
<1>1. a = W * (a \div W) + (a % W) /\ a \div W \in Int
  OBVIOUS
<1>2. b = W * (b \div W) + (b % W) /\ b \div W \in Int
  OBVIOUS
<1>3. a % W \in Int
  OBVIOUS
<1> DEFINE q == (a \div W) - (b \div W)
<1>4. q \in Int /\ a - b = W * q
  <2>1. W * q = W * (a \div W) - W * (b \div W)
    BY <1>1, <1>2
  <2> QED  BY <1>1, <1>2, <1>3, <2>1
<1> QED  BY <1>4

\* The only multiple of W that is smaller than W is 0.
LEMMA SmallMultiple ==
  ASSUME NEW W \in Nat \ {0}, NEW q \in Int, -W < W * q, W * q < W
  PROVE  q = 0
<1>1. CASE q >= 1
  <2>1. W * (q - 1) \in Nat
    BY <1>1
  <2>2. W * (q - 1) = W * q - W
    OBVIOUS
  <2> QED  BY <2>1, <2>2
<1>2. CASE q <= -1
  <2>1. W * (-1 - q) \in Nat
    BY <1>2
  <2>2. W * (-1 - q) = -W - W * q
    OBVIOUS
  <2> QED  BY <2>1, <2>2
<1> QED  BY <1>1, <1>2

\* 31 and Radix have no factor in common.
LEMMA CancelOnce ==
  ASSUME NEW x \in Int, NEW y \in Int, 31 * x = Radix * y
  PROVE  \E z \in Int : x = Radix * z /\ 31 * z = y
<1>1. Radix \in Nat \ {0}
  BY RadixAssumption
<1>2. PICK u \in Byte : (31 * u) % Radix = 1
  BY RadixAssumption
<1> DEFINE t == (31 * u) \div Radix
<1>3. u \in Nat /\ t \in Int /\ 31 * u = Radix * t + 1
  BY <1>1, <1>2 DEF Byte
<1> DEFINE z == u * y - t * x
<1> HIDE DEF t
<1>4. z \in Int
  BY <1>3
<1>5. x = Radix * z
  <2>1. x = (31 * u) * x - (Radix * t) * x
    <3>1. (31 * u) * x = (Radix * t) * x + x
      BY <1>1, <1>3
    <3> QED  BY <1>1, <1>3, <3>1
  <2>2. (31 * u) * x = u * (Radix * y)
    <3>1. (31 * u) * x = u * (31 * x)
      BY <1>3
    <3> QED  BY <3>1
  <2>3. Radix * z = u * (Radix * y) - (Radix * t) * x
    BY <1>1, <1>3
  <2> QED  BY <2>1, <2>2, <2>3
<1>6. 31 * z = y
  <2>1. Radix * (31 * z) = Radix * y
    BY <1>1, <1>4, <1>5
  <2> HIDE DEF z
  <2>2. Radix * (31 * z - y) = 0
    BY <1>1, <1>4, <2>1
  <2>3. 31 * z - y \in Int
    BY <1>4
  <2>4. 31 * z - y = 0
    BY <1>1, <2>2, <2>3, SmallMultiple
  <2> QED  BY <1>4, <2>4
<1> QED  BY <1>4, <1>5, <1>6

\* A multiple of 31 that is one of Word.
LEMMA Cancel ==
  ASSUME NEW x \in Int, NEW q \in Int, 31 * x = Word * q
  PROVE  \E z \in Int : x = Word * z
<1>1. Radix \in Nat
  BY RadixAssumption
<1> DEFINE q1 == Radix * q
           q2 == Radix * q1
           q3 == Radix * q2
<1>2. q1 \in Int /\ q2 \in Int /\ q3 \in Int
  BY <1>1
<1>3. 31 * x = Radix * q3
  BY <1>1 DEF Word
<1>4. PICK x1 \in Int : x = Radix * x1 /\ 31 * x1 = q3
  <2> HIDE DEF q3
  <2> QED  BY <1>2, <1>3, CancelOnce
<1>5. PICK x2 \in Int : x1 = Radix * x2 /\ 31 * x2 = q2
  <2> HIDE DEF q2
  <2> QED  BY <1>2, <1>4, CancelOnce
<1>6. PICK x3 \in Int : x2 = Radix * x3 /\ 31 * x3 = q1
  <2> HIDE DEF q1
  <2> QED  BY <1>2, <1>5, CancelOnce
<1>7. PICK x4 \in Int : x3 = Radix * x4 /\ 31 * x4 = q
  BY <1>6, CancelOnce
<1>8. x = Word * x4
  BY <1>1, <1>4, <1>5, <1>6, <1>7 DEF Word
<1> QED  BY <1>8

\* A step of the hash loses nothing of the hash before it, and nothing of the byte.
LEMMA HashStepInjective ==
  ASSUME NEW g \in Words, NEW h \in Words, NEW b \in Byte, NEW c \in Byte,
         (31 * g + b) % Word = (31 * h + c) % Word
  PROVE  /\ b = c => g = h
         /\ g = h => b = c
<1> USE WordFacts DEF Words
<1>1. Radix \in Nat /\ b \in Nat /\ c \in Nat /\ b < Radix /\ c < Radix
  BY RadixAssumption DEF Byte
<1>2. 31 * g + b \in Nat /\ 31 * h + c \in Nat
  BY <1>1
<1>3. PICK q \in Int : (31 * g + b) - (31 * h + c) = Word * q
  BY <1>2, SameRemainder
<1>4. ASSUME b = c PROVE g = h
  <2>1. 31 * (g - h) = Word * q /\ g - h \in Int
    BY <1>1, <1>3, <1>4
  <2>2. PICK z \in Int : g - h = Word * z
    BY <2>1, Cancel
  <2>3. z = 0
    BY <2>2, SmallMultiple
  <2> QED  BY <2>2, <2>3
<1>5. ASSUME g = h PROVE b = c
  <2>1. b - c = Word * q
    BY <1>1, <1>3, <1>5
  <2>2. q = 0
    BY <1>1, <2>1, SmallMultiple
  <2> QED  BY <1>1, <2>1, <2>2
<1> QED  BY <1>4, <1>5

\* A quotient is known by its remainder.
LEMMA Quotient ==
  ASSUME NEW d \in Nat \ {0}, NEW k \in Int, NEW r \in Int, 0 <= r, r < d
  PROVE  (d * k + r) \div d = k
<1> DEFINE a == d * k + r
           q == a \div d
<1>1. a \in Int /\ q \in Int /\ a = d * q + (a % d) /\ 0 <= a % d /\ a % d < d /\ a % d \in Int
  <2>1. a \in Int
    OBVIOUS
  <2> HIDE DEF a
  <2> QED  BY <2>1
<1>0. a = d * k + r
  OBVIOUS
<1> HIDE DEF a, q
<1>2. d * (q - k) = r - (a % d)
  <2>1. d * (q - k) = d * q - d * k
    BY <1>1
  <2> DEFINE dq == d * q
             dk == d * k
             m == a % d
  <2>2. dq \in Int /\ dk \in Int /\ m \in Int
    BY <1>1
  <2>3. dk + r = dq + m
    BY <1>0, <1>1
  <2>4. d * (q - k) = dq - dk
    BY <2>1
  <2> HIDE DEF dq, dk, m
  <2>5. d * (q - k) = r - m
    BY <2>2, <2>3, <2>4
  <2> QED  BY <2>5 DEF m
<1>3. q - k = 0
  <2>1. q - k \in Int /\ -d < d * (q - k) /\ d * (q - k) < d
    BY <1>1, <1>2
  <2> QED  BY <2>1, SmallMultiple
<1> QED  BY <1>1, <1>3 DEF a, q

\* Two shifts are one.
LEMMA ShiftTwice ==
  ASSUME NEW a \in Nat, NEW m \in Nat \ {0}, NEW n \in Nat \ {0}
  PROVE  /\ a \div m \in Nat
         /\ (a \div m) \div n = a \div (m * n)
<1> DEFINE q == a \div m
           k == q \div n
           r == a % m
           s == q % n
<1>1. q \in Nat /\ r \in Nat /\ r < m /\ a = m * q + r
  OBVIOUS
<1> HIDE DEF q, r
<1>2. k \in Nat /\ s \in Nat /\ s < n /\ q = n * k + s
  BY <1>1
<1> HIDE DEF k, s
<1>3. a = (m * n) * k + (m * s + r)
  BY <1>1, <1>2
<1>4. m * s + r \in Int /\ 0 <= m * s + r /\ m * s + r < m * n
  <2>1. m * s \in Nat
    BY <1>2
  <2>2. m * (n - 1 - s) \in Nat
    BY <1>2
  <2>3. m * (n - 1 - s) = m * n - m - m * s
    BY <1>2
  <2>4. m * n \in Nat
    OBVIOUS
  <2> QED  BY <1>1, <2>1, <2>2, <2>3, <2>4
<1>5. m * n \in Nat \ {0}
  OBVIOUS
<1>6. a \div (m * n) = k
  <2> DEFINE mn == m * n
             rest == m * s + r
  <2>1. mn \in Nat \ {0} /\ rest \in Int /\ 0 <= rest /\ rest < mn /\ a = mn * k + rest
    BY <1>3, <1>4, <1>5
  <2> HIDE DEF mn, rest
  <2>2. (mn * k + rest) \div mn = k
    BY <1>2, <2>1, Quotient
  <2> QED  BY <2>1, <2>2 DEF mn
<1> QED  BY <1>1, <1>6 DEF q, k

\* A number is known by its last digit and the digits before it.
LEMMA Digits ==
  ASSUME NEW a \in Nat, NEW b \in Nat, NEW d \in Nat \ {0},
         a % d = b % d, a \div d = b \div d
  PROVE  a = b
<1>1. a = d * (a \div d) + (a % d)
  OBVIOUS
<1>2. b = d * (b \div d) + (b % d)
  OBVIOUS
<1> QED  BY <1>1, <1>2

\* The four bytes of a word tell it from every other.
LEMMA HashBytesTell ==
  ASSUME NEW g \in Words, NEW h \in Words, \A i \in 1 .. 4 : HashByte(g, i) = HashByte(h, i)
  PROVE  g = h
<1> DEFINE two == Radix * Radix
           three == two * Radix
<1>1. Radix \in Nat \ {0} /\ two \in Nat \ {0} /\ three \in Nat \ {0} /\ Word = three * Radix
      /\ Word \in Nat \ {0}
  BY RadixAssumption, WordFacts DEF Word
<1>2. /\ (g \div three) % Radix = (h \div three) % Radix
      /\ (g \div two) % Radix = (h \div two) % Radix
      /\ (g \div Radix) % Radix = (h \div Radix) % Radix
      /\ (g \div 1) % Radix = (h \div 1) % Radix
  <2>1. \A i \in 1 .. 4 : (g \div <<three, two, Radix, 1>>[i]) % Radix
                          = (h \div <<three, two, Radix, 1>>[i]) % Radix
    BY DEF HashByte
  <2> HIDE DEF two, three
  <2>2. 1 \in 1 .. 4 /\ 2 \in 1 .. 4 /\ 3 \in 1 .. 4 /\ 4 \in 1 .. 4
    OBVIOUS
  <2> QED  BY <2>1, <2>2
<1>3. g \in Nat /\ h \in Nat /\ g < Word /\ h < Word
  BY <1>1 DEF Words
<1>4. g \div 1 = g /\ h \div 1 = h /\ g \div Word = 0 /\ h \div Word = 0
  <2>1. ASSUME NEW x \in Nat, x < Word PROVE x \div 1 = x /\ x \div Word = 0
    <3>1. x = 1 * x + 0 /\ x = Word * 0 + x
      BY <1>1
    <3>2. (1 * x + 0) \div 1 = x
      BY Quotient
    <3>3. (Word * 0 + x) \div Word = 0
      BY <1>1, <2>1, Quotient
    <3> QED  BY <3>1, <3>2, <3>3
  <2> QED  BY <1>3, <2>1
<1>5. ASSUME NEW x \in Nat
      PROVE  /\ x \div Radix \in Nat /\ x \div two \in Nat /\ x \div three \in Nat
             /\ (x \div Radix) \div Radix = x \div two
             /\ (x \div two) \div Radix = x \div three
             /\ (x \div three) \div Radix = x \div Word
  <2>1. x \div Radix \in Nat /\ (x \div Radix) \div Radix = x \div two
    BY <1>1, ShiftTwice, ZenonT(40)
  <2>2. x \div two \in Nat /\ (x \div two) \div Radix = x \div three
    <3> HIDE DEF two
    <3> QED  BY <1>1, ShiftTwice, ZenonT(40)
  <2>3. x \div three \in Nat /\ (x \div three) \div Radix = x \div Word
    <3> HIDE DEF three
    <3> QED  BY <1>1, ShiftTwice, ZenonT(40)
  <2> QED  BY <2>1, <2>2, <2>3
<1> HIDE DEF two, three
<1>6. g \div three = h \div three
  <2>1. (g \div three) \div Radix = (h \div three) \div Radix
    BY <1>3, <1>4, <1>5
  <2>2. g \div three \in Nat /\ h \div three \in Nat
    BY <1>3, <1>5
  <2> QED  BY <1>1, <1>2, <2>1, <2>2, Digits
<1>7. g \div two = h \div two
  <2>1. (g \div two) \div Radix = (h \div two) \div Radix
    BY <1>3, <1>5, <1>6
  <2>2. g \div two \in Nat /\ h \div two \in Nat
    BY <1>3, <1>5
  <2> QED  BY <1>1, <1>2, <2>1, <2>2, Digits
<1>8. g \div Radix = h \div Radix
  <2>1. (g \div Radix) \div Radix = (h \div Radix) \div Radix
    BY <1>3, <1>5, <1>7
  <2>2. g \div Radix \in Nat /\ h \div Radix \in Nat
    BY <1>3, <1>5
  <2> QED  BY <1>1, <1>2, <2>1, <2>2, Digits
<1>9. g % Radix = h % Radix
  BY <1>2, <1>4
<1> QED  BY <1>1, <1>3, <1>8, <1>9, Digits

\* A byte that was changed changes the hash.
LEMMA HashTellsByte ==
  ASSUME NEW data \in Seq(Byte), NEW k \in 1 .. Len(data), NEW b \in Byte, b # data[k]
  PROVE  /\ [data EXCEPT ![k] = b] \in Seq(Byte)
         /\ HashCode([data EXCEPT ![k] = b]) \in Words
         /\ HashCode(data) \in Words
         /\ HashCode([data EXCEPT ![k] = b]) # HashCode(data)
<1> DEFINE wrong == [data EXCEPT ![k] = b]
           N == Len(data)
<1>1. N \in Nat /\ k \in 1 .. N /\ wrong \in Seq(Byte) /\ Len(wrong) = N
  OBVIOUS
<1>2. ASSUME NEW n \in 1 .. N
      PROVE  data[n] \in Byte /\ wrong[n] \in Byte /\ (wrong[n] = data[n] <=> n # k)
  OBVIOUS
<1> HIDE DEF wrong
<1>3. PICK g : Hashes(g, data) /\ HashCode(data) = g[N]
  BY HashCodeIsLast
<1>4. PICK h : Hashes(h, wrong) /\ HashCode(wrong) = h[N]
  BY <1>1, HashCodeIsLast
<1>5. ASSUME NEW n \in 0 .. N PROVE g[n] \in Words /\ h[n] \in Words
  BY <1>1, <1>3, <1>4 DEF Hashes
<1>6. g[0] = h[0]
  BY <1>3, <1>4 DEF Hashes
<1>7. ASSUME NEW n \in 0 .. N - 1
      PROVE  /\ g[n + 1] = (31 * g[n] + data[n + 1]) % Word
             /\ h[n + 1] = (31 * h[n] + wrong[n + 1]) % Word
  <2>1. n + 1 \in 1 .. N /\ n + 1 - 1 = n
    BY <1>1
  <2> QED  BY <1>1, <1>3, <1>4, <2>1 DEF Hashes
<1> DEFINE P == {n \in 0 .. N : g[n] = h[n] <=> n < k}
<1>8. 0 \in P
  BY <1>1, <1>6
<1>9. ASSUME NEW n \in 0 .. N - 1, n \in P PROVE n + 1 \in P
  <2>1. n \in 0 .. N /\ n + 1 \in 0 .. N /\ n + 1 \in 1 .. N
    BY <1>1
  <2>2. /\ g[n] \in Words /\ h[n] \in Words
        /\ data[n + 1] \in Byte /\ wrong[n + 1] \in Byte
    BY <1>2, <1>5, <2>1
  <2>3. CASE n + 1 < k
    BY <1>1, <1>2, <1>7, <1>9, <2>1, <2>3
  <2>4. CASE n + 1 = k
    <3>1. g[n] = h[n] /\ wrong[n + 1] # data[n + 1]
      BY <1>1, <1>2, <1>9, <2>1, <2>4
    <3>2. g[n + 1] # h[n + 1]
      BY <1>7, <2>2, <3>1, HashStepInjective
    <3> QED  BY <2>1, <2>4, <3>2
  <2>5. CASE n + 1 > k
    <3>1. g[n] # h[n] /\ wrong[n + 1] = data[n + 1]
      BY <1>1, <1>2, <1>9, <2>1, <2>5
    <3>2. g[n + 1] # h[n + 1]
      BY <1>7, <2>2, <3>1, HashStepInjective
    <3>3. ~(n + 1 < k)
      BY <1>1, <2>5
    <3> QED  BY <2>1, <3>2, <3>3
  <2> QED  BY <1>1, <2>3, <2>4, <2>5
<1>10. \A n \in 0 .. N : n \in P
  <2> HIDE DEF P
  <2> QED  BY <1>1, <1>8, <1>9, IntervalInduction
<1>11. N \in 0 .. N /\ ~(N < k)
  BY <1>1
<1>12. g[N] # h[N] /\ g[N] \in Words /\ h[N] \in Words
  BY <1>5, <1>10, <1>11
<1> QED  BY <1>1, <1>3, <1>4, <1>12 DEF wrong

-----------------------------------------------------------------------------
(* The encoding *)

\* Decoding gives back the text that was encoded with the same key.
LEMMA ClearTwice ==
  ASSUME NEW encoding \in Encodings, NEW text \in Seq(Byte)
  PROVE  /\ Clear(encoding, text) \in Seq(Byte)
         /\ Len(Clear(encoding, text)) = Len(text)
         /\ Clear(encoding, Clear(encoding, text)) = text
<1>1. CASE encoding = 0
  BY <1>1 DEF Clear
<1>2. CASE encoding # 0
  <2> DEFINE K(i) == Key[((i - 1) % Len(Key)) + 1]
             code == [i \in DOMAIN text |-> BitXor(text[i], K(i))]
             back == [i \in DOMAIN code |-> BitXor(code[i], K(i))]
  <2>1. Key \in Seq(Byte) /\ Key # <<>>
    BY <1>2, KeyAssumption DEF Encodings
  <2>2. Len(Key) \in Nat \ {0} /\ DOMAIN Key = 1 .. Len(Key)
    BY <2>1, EmptySeq
  <2>3. Len(text) \in Nat /\ DOMAIN text = 1 .. Len(text)
    OBVIOUS
  <2>4. ASSUME NEW i \in 1 .. Len(text)
        PROVE  text[i] \in Byte /\ K(i) \in Byte
    <3>1. ((i - 1) % Len(Key)) + 1 \in 1 .. Len(Key)
      <4>1. i - 1 \in Nat
        BY <2>3
      <4> QED  BY <2>2, <4>1
    <3> QED  BY <2>1, <2>3, <3>1
  <2> HIDE DEF K
  <2>5. ASSUME NEW i \in 1 .. Len(text)
        PROVE  /\ BitXor(text[i], K(i)) \in Byte
               /\ BitXor(BitXor(text[i], K(i)), K(i)) = text[i]
    BY <2>4, KeyAssumption
  <2>6. /\ code \in Seq(Byte) /\ DOMAIN code = 1 .. Len(text) /\ Len(code) = Len(text)
        /\ \A i \in 1 .. Len(text) : code[i] = BitXor(text[i], K(i))
    BY <2>3, <2>5
  <2>7. /\ DOMAIN back = 1 .. Len(text)
        /\ \A i \in 1 .. Len(text) : back[i] = text[i]
    BY <2>5, <2>6
  <2>8. back = text
    <3>1. back = [i \in 1 .. Len(text) |-> back[i]] /\ text = [i \in 1 .. Len(text) |-> text[i]]
      BY <2>3, <2>7
    <3> HIDE DEF back
    <3> QED  BY <2>7, <3>1
  <2>9. Clear(encoding, text) = code /\ Clear(encoding, code) = back
    BY <1>2 DEF Clear, K
  <2> HIDE DEF code, back
  <2> QED  BY <2>6, <2>8, <2>9
<1> QED  BY <1>1, <1>2

-----------------------------------------------------------------------------
(* The text of a list of elements *)

Element == [type : Byte, value : Seq(Byte)]

\* An element whose length is a byte.
Fits(element) == element \in Element /\ Len(element.value) \in Byte

\* The texts of the first elements, one after another.
Texts(text, list) ==
  /\ text \in [0 .. Len(list) -> Seq(Byte)]
  /\ text[0] = <<>>
  /\ \A n \in 1 .. Len(list) : text[n] = text[n - 1] \o ElementBytes(list[n])

\* The bytes of an element: its type, its length and its value.
LEMMA BytesInOrder ==
  ASSUME NEW type \in Byte, NEW value \in Seq(Byte), Len(value) \in Byte
  PROVE  LET bytes == <<type, Len(value)>> \o value
         IN /\ bytes \in Seq(Byte) /\ Len(bytes) = 2 + Len(value)
            /\ bytes[1] = type /\ bytes[2] = Len(value)
            /\ \A i \in 1 .. Len(value) : bytes[2 + i] = value[i]
<1>1. PICK head \in Seq(Byte) : /\ head = <<type, Len(value)>>
                               /\ Len(head) = 2 /\ head[1] = type /\ head[2] = Len(value)
  <2>1. <<type, Len(value)>> \in Seq(Byte)
    OBVIOUS
  <2> QED  BY <2>1
<1>2. Len(value) \in Nat
  OBVIOUS
<1>3. /\ head \o value \in Seq(Byte)
      /\ Len(head \o value) = 2 + Len(value)
      /\ \A i \in 1 .. Len(head) : (head \o value)[i] = head[i]
      /\ \A i \in (Len(head) + 1) .. (Len(head) + Len(value)) :
           (head \o value)[i] = value[i - Len(head)]
  BY <1>1, Glued
<1>4. ASSUME NEW i \in 1 .. Len(value) PROVE (head \o value)[2 + i] = value[i]
  <2>1. 2 + i \in (Len(head) + 1) .. (Len(head) + Len(value)) /\ 2 + i - Len(head) = i
    BY <1>1, <1>2
  <2> QED  BY <1>3, <2>1
<1>5. (head \o value)[1] = type /\ (head \o value)[2] = Len(value)
  BY <1>1, <1>3
<1> QED  BY <1>1, <1>3, <1>4, <1>5

\* They are bytes, and as many as the value has and two.
LEMMA BytesOfElement ==
  ASSUME NEW element, Fits(element)
  PROVE  /\ element.type \in Byte /\ element.value \in Seq(Byte)
         /\ Len(element.value) \in Nat
         /\ ElementBytes(element) \in Seq(Byte)
         /\ Len(ElementBytes(element)) = 2 + Len(element.value)
         /\ ElementBytes(element)[1] = element.type
         /\ ElementBytes(element)[2] = Len(element.value)
         /\ \A i \in 1 .. Len(element.value) :
              ElementBytes(element)[2 + i] = element.value[i]
<1>1. element.type \in Byte /\ element.value \in Seq(Byte) /\ Len(element.value) \in Byte
  BY DEF Fits, Element
<1> QED  BY <1>1, BytesInOrder DEF ElementBytes

\* Text is the last of these texts.
LEMMA TextIsLast ==
  ASSUME NEW list \in Seq(Element), \A i \in DOMAIN list : Fits(list[i])
  PROVE  \E text : Texts(text, list) /\ Text(list) = text[Len(list)]
<1> DEFINE N == Len(list)
           seqs == [i \in DOMAIN list |-> ElementBytes(list[i])]
           step == [n \in 1 .. N |-> [t \in Seq(Byte) |-> t \o seqs[n]]]
           g == CHOOSE f : f = [i \in 1 .. Len(seqs) |->
                                  IF i = 1 THEN seqs[i] ELSE f[i - 1] \o seqs[i]]
<1>1. N \in Nat /\ DOMAIN list = 1 .. N /\ <<>> \in Seq(Byte)
  OBVIOUS
<1>2. ASSUME NEW n \in 1 .. N PROVE seqs[n] = ElementBytes(list[n]) /\ seqs[n] \in Seq(Byte)
  BY <1>1, BytesOfElement
<1>3. seqs \in Seq(Seq(Byte)) /\ Len(seqs) = N
  BY <1>1, <1>2
<1> HIDE DEF seqs
<1>4. step \in [1 .. N -> [Seq(Byte) -> Seq(Byte)]]
  BY <1>2
<1>5. \E f : f = [i \in 1 .. Len(seqs) |->
                    IF i = 1 THEN seqs[i] ELSE f[i - 1] \o seqs[i]]
  <2>1. PICK h \in [0 .. N -> Seq(Byte)] : Steps(h, N, <<>>, step)
    <3> HIDE DEF step, N
    <3> QED  BY <1>1, <1>4, StepsExist
  <2> DEFINE f == [i \in 1 .. N |-> h[i]]
  <2>2. ASSUME NEW i \in 1 .. N
        PROVE  f[i] = IF i = 1 THEN seqs[i] ELSE f[i - 1] \o seqs[i]
    <3>1. i - 1 \in 0 .. N /\ h[i] = step[i][h[i - 1]] /\ h[0] = <<>>
      <4> HIDE DEF step
      <4>1. h[i] = step[i][h[i - 1]] /\ h[0] = <<>>
        BY <2>1 DEF Steps
      <4> QED  BY <1>1, <4>1
    <3>2. h[i - 1] \in Seq(Byte)
      BY <2>1, <3>1
    <3>3. h[i] = h[i - 1] \o seqs[i]
      BY <3>1, <3>2
    <3>4. CASE i = 1
      <4>1. h[i - 1] = <<>>
        BY <3>1, <3>4
      <4>2. <<>> \o seqs[i] = seqs[i]
        BY <1>2
      <4> QED  BY <3>3, <3>4, <4>1, <4>2
    <3>5. CASE i # 1
      <4>1. i - 1 \in 1 .. N
        BY <1>1, <3>5
      <4> QED  BY <3>3, <3>5, <4>1
    <3> QED  BY <3>4, <3>5
  <2>3. f = [i \in 1 .. N |-> f[i]]
    OBVIOUS
  <2> HIDE DEF f
  <2>4. f = [i \in 1 .. N |-> IF i = 1 THEN seqs[i] ELSE f[i - 1] \o seqs[i]]
    BY <2>2, <2>3
  <2> QED  BY <1>3, <2>4
<1>6. g = [i \in 1 .. N |-> IF i = 1 THEN seqs[i] ELSE g[i - 1] \o seqs[i]]
  BY <1>3, <1>5
<1>7. FlattenSeq(seqs) = IF N = 0 THEN seqs ELSE g[N]
  BY <1>3 DEF FlattenSeq
<1> DEFINE text == [n \in 0 .. N |-> IF n = 0 THEN <<>> ELSE g[n]]
<1> HIDE DEF g
<1>8. \A n \in 1 .. N : text[n] = text[n - 1] \o ElementBytes(list[n])
  <2> TAKE n \in 1 .. N
  <2>1. text[n] = g[n]
    BY <1>1
  <2>2. CASE n = 1
    <3>1. text[n - 1] = <<>> /\ g[n] = seqs[n] /\ <<>> \o seqs[n] = seqs[n]
      BY <1>1, <1>2, <1>6, <2>2
    <3> QED  BY <1>2, <2>1, <3>1
  <2>3. CASE n # 1
    <3>1. text[n - 1] = g[n - 1] /\ g[n] = g[n - 1] \o seqs[n]
      BY <1>1, <1>6, <2>3
    <3> QED  BY <1>2, <2>1, <3>1
  <2> QED  BY <2>2, <2>3
<1>9. \A n \in 0 .. N : text[n] \in Seq(Byte)
  <2> DEFINE P == {n \in 0 .. N : text[n] \in Seq(Byte)}
  <2>1. 0 \in P
    BY <1>1
  <2>2. \A n \in 0 .. N - 1 : n \in P => n + 1 \in P
    <3> HIDE DEF text
    <3> TAKE n \in 0 .. N - 1
    <3>1. n + 1 \in 1 .. N /\ n + 1 - 1 = n
      BY <1>1
    <3>2. text[n + 1] = text[n] \o ElementBytes(list[n + 1])
      <4>1. PICK m \in 1 .. N : m = n + 1
        BY <3>1
      <4>2. text[m] = text[m - 1] \o ElementBytes(list[m])
        BY <1>8
      <4>3. m - 1 = n
        BY <4>1
      <4> QED  BY <4>1, <4>2, <4>3
    <3>3. ElementBytes(list[n + 1]) \in Seq(Byte)
      BY <1>2, <3>1
    <3>4. n + 1 \in 0 .. N
      BY <1>1, <3>1
    <3>5. text[n] \in Seq(Byte) => text[n + 1] \in Seq(Byte)
      BY <3>2, <3>3
    <3> QED  BY <3>4, <3>5
  <2> HIDE DEF P
  <2>3. \A n \in 0 .. N : n \in P
    BY <1>1, <2>1, <2>2, IntervalInduction
  <2> QED  BY <2>3 DEF P
<1>10. Texts(text, list)
  <2>1. text \in [0 .. N -> Seq(Byte)] /\ text[0] = <<>>
    BY <1>1, <1>9
  <2> HIDE DEF text
  <2> QED  BY <1>8, <2>1 DEF Texts
<1>11. Text(list) = text[N]
  <2>1. N = 0 => seqs = <<>>
    BY <1>3
  <2>2. Text(list) = FlattenSeq(seqs)
    BY DEF Text, seqs
  <2> QED  BY <1>1, <1>7, <2>1, <2>2
<1> QED  BY <1>10, <1>11

-----------------------------------------------------------------------------
(* The loop over the elements *)

\* What the loop finds from byte i on, when it finds from[j] from a later byte j on.
Rest(clear, from, i) ==
  IF i + 1 > Len(clear) \/ i + 1 + clear[i + 1] > Len(clear) THEN <<>>
  ELSE <<[type |-> clear[i], value |-> SubSeq(clear, i + 2, i + 1 + clear[i + 1])]>>
       \o from[i + 2 + clear[i + 1]]

Loop(from, clear) == from = [i \in 1 .. Len(clear) + 1 |-> Rest(clear, from, i)]

\* The loop for the last k bytes.
LoopBehind(from, clear, k) ==
  /\ from = [i \in 1 .. Len(clear) + 1 |-> from[i]]
  /\ \A i \in 1 .. Len(clear) + 1 : i > Len(clear) + 1 - k => from[i] = Rest(clear, from, i)

HasLoop(clear, k) == \E from : LoopBehind(from, clear, k)

\* What the loop finds depends on later bytes only.
LEMMA RestIsBehind ==
  ASSUME NEW clear \in Seq(Byte), NEW i \in 1 .. Len(clear) + 1, NEW f, NEW g,
         \A j \in 1 .. Len(clear) + 1 : j > i => f[j] = g[j]
  PROVE  Rest(clear, f, i) = Rest(clear, g, i)
<1>1. CASE i + 1 > Len(clear) \/ i + 1 + clear[i + 1] > Len(clear)
  BY <1>1 DEF Rest
<1>2. CASE ~(i + 1 > Len(clear) \/ i + 1 + clear[i + 1] > Len(clear))
  <2>1. Len(clear) \in Nat /\ i + 1 \in 1 .. Len(clear)
    BY <1>2
  <2>2. clear[i + 1] \in Nat
    BY <2>1, RadixAssumption DEF Byte
  <2>3. i + 2 + clear[i + 1] \in 1 .. Len(clear) + 1 /\ i + 2 + clear[i + 1] > i
    BY <1>2, <2>1, <2>2
  <2>4. f[i + 2 + clear[i + 1]] = g[i + 2 + clear[i + 1]]
    BY <2>3
  <2> QED  BY <2>4 DEF Rest
<1> QED  BY <1>1, <1>2

\* The loop ends.
LEMMA LoopExists ==
  ASSUME NEW clear \in Seq(Byte)
  PROVE  \E from : Loop(from, clear)
<1> DEFINE size == Len(clear)
           P == {k \in 0 .. size + 1 : HasLoop(clear, k)}
<1>1. size \in Nat
  OBVIOUS
<1>2. 0 \in P
  <2> DEFINE f == [i \in 1 .. Len(clear) + 1 |-> <<>>]
  <2>1. f = [i \in 1 .. Len(clear) + 1 |-> f[i]]
    OBVIOUS
  <2>2. \A i \in 1 .. Len(clear) + 1 : ~(i > Len(clear) + 1 - 0)
    BY <1>1
  <2> HIDE DEF f
  <2>3. LoopBehind(f, clear, 0)
    BY <2>1, <2>2 DEF LoopBehind
  <2> QED  BY <1>1, <2>3 DEF HasLoop
<1>3. ASSUME NEW k \in 0 .. size + 1 - 1, k \in P PROVE k + 1 \in P
  <2>1. PICK f : LoopBehind(f, clear, k)
    BY <1>3 DEF HasLoop
  <2>2. PICK j \in 1 .. size + 1 : j = size + 1 - k
    <3>1. size + 1 - k \in 1 .. size + 1
      BY <1>1
    <3> QED  BY <3>1
  <2> DEFINE g == [i \in 1 .. Len(clear) + 1 |-> IF i = j THEN Rest(clear, f, j) ELSE f[i]]
  <2>3. g = [i \in 1 .. Len(clear) + 1 |-> g[i]]
    OBVIOUS
  <2>4. ASSUME NEW i \in 1 .. Len(clear) + 1, i > Len(clear) + 1 - (k + 1)
        PROVE  g[i] = Rest(clear, g, i)
    <3>1. i >= j
      BY <1>1, <2>2, <2>4
    <3>2. \A l \in 1 .. Len(clear) + 1 : l > i => f[l] = g[l]
      BY <1>1, <3>1
    <3>3. Rest(clear, f, i) = Rest(clear, g, i)
      <4> HIDE DEF g
      <4> QED  BY <3>2, RestIsBehind
    <3>4. g[i] = Rest(clear, f, i)
      <4>1. CASE i = j
        BY <4>1
      <4>2. CASE i # j
        <5>1. g[i] = f[i]
          BY <4>2
        <5>2. i > Len(clear) + 1 - k
          BY <1>1, <2>2, <3>1, <4>2
        <5>3. f[i] = Rest(clear, f, i)
          BY <2>1, <5>2 DEF LoopBehind
        <5> QED  BY <5>1, <5>3
      <4> QED  BY <4>1, <4>2
    <3> QED  BY <3>3, <3>4
  <2> HIDE DEF g
  <2>5. LoopBehind(g, clear, k + 1)
    BY <2>3, <2>4 DEF LoopBehind
  <2>6. HasLoop(clear, k + 1)
    BY <2>5 DEF HasLoop
  <2>7. k + 1 \in 0 .. size + 1
    BY <1>1
  <2> QED  BY <2>6, <2>7
<1>4. \A k \in 0 .. size + 1 : k \in P
  <2>1. PICK last \in Nat : last = size + 1
    BY <1>1
  <2>2. \A k \in 0 .. last - 1 : k \in P => k + 1 \in P
    BY <1>3, <2>1
  <2> HIDE DEF P, size
  <2>3. \A k \in 0 .. last : k \in P
    BY <1>2, <2>2, IntervalInduction
  <2> QED  BY <2>1, <2>3
<1>5. HasLoop(clear, size + 1)
  <2>1. size + 1 \in 0 .. size + 1
    BY <1>1
  <2> QED  BY <1>4, <2>1
<1>6. PICK f : LoopBehind(f, clear, size + 1)
  BY <1>5 DEF HasLoop
<1>7. ASSUME NEW i \in 1 .. Len(clear) + 1 PROVE f[i] = Rest(clear, f, i)
  <2>1. i > Len(clear) + 1 - (size + 1)
    BY <1>1
  <2> QED  BY <1>6, <2>1 DEF LoopBehind
<1>8. Loop(f, clear)
  <2>1. f = [i \in 1 .. Len(clear) + 1 |-> f[i]]
    BY <1>6 DEF LoopBehind
  <2>2. f = [i \in 1 .. Len(clear) + 1 |-> Rest(clear, f, i)]
    BY <1>7, <2>1
  <2> QED  BY <2>2 DEF Loop
<1> QED  BY <1>8

\* Elements is what the loop finds from the first byte on.
LEMMA ElementsIsLoop ==
  ASSUME NEW clear \in Seq(Byte)
  PROVE  \E from : Loop(from, clear) /\ Elements(clear) = from[1]
<1> DEFINE f == CHOOSE from : from = [i \in 1 .. Len(clear) + 1 |-> Rest(clear, from, i)]
<1>1. Loop(f, clear)
  BY LoopExists DEF Loop
<1>2. Elements(clear) = f[1]
  BY DEF Elements, Rest
<1> HIDE DEF f
<1> QED  BY <1>1, <1>2

-----------------------------------------------------------------------------
(* The loop finds the elements that were put into the text *)

\* One text is the beginning of another.
Begins(u, v) == /\ Len(u) <= Len(v)
                /\ \A j \in 1 .. Len(u) : v[j] = u[j]

\* What comes behind a text leaves its beginning.
LEMMA BeginsGlued ==
  ASSUME NEW u \in Seq(Byte), NEW v \in Seq(Byte)
  PROVE  Begins(u, u \o v)
<1>1. Len(u) \in Nat /\ Len(v) \in Nat /\ Len(u \o v) = Len(u) + Len(v)
  BY Glued
<1>2. \A i \in 1 .. Len(u) : (u \o v)[i] = u[i]
  BY Glued
<1> QED  BY <1>1, <1>2 DEF Begins

\* The beginning of a beginning.
LEMMA BeginsOn ==
  ASSUME NEW u \in Seq(Byte), NEW v \in Seq(Byte), NEW w \in Seq(Byte),
         Begins(u, v), Begins(v, w)
  PROVE  Begins(u, w)
<1>1. Len(u) \in Nat /\ Len(v) \in Nat /\ Len(w) \in Nat
  OBVIOUS
<1> QED  BY <1>1 DEF Begins

\* The next text.
LEMMA TextStep ==
  ASSUME NEW list, NEW text, Texts(text, list), NEW n \in 1 .. Len(list),
         NEW m \in 0 .. Len(list), n = m + 1
  PROVE  text[n] = text[m] \o ElementBytes(list[n])
<1>1. text[n] = text[n - 1] \o ElementBytes(list[n])
  BY DEF Texts
<1>2. n - 1 = m
  OBVIOUS
<1> QED  BY <1>1, <1>2

BeginAll(text, m) == \A n \in 0 .. m : Begins(text[n], text[m])

\* Each text is the beginning of the whole.
LEMMA TextsBegin ==
  ASSUME NEW list \in Seq(Element), \A i \in DOMAIN list : Fits(list[i]),
         NEW text, Texts(text, list)
  PROVE  \A n \in 0 .. Len(list) : Begins(text[n], text[Len(list)])
<1> DEFINE N == Len(list)
           P == {m \in 0 .. N : BeginAll(text, m)}
<1>1. N \in Nat /\ DOMAIN list = 1 .. N
  OBVIOUS
<1>2. ASSUME NEW n \in 0 .. N PROVE text[n] \in Seq(Byte)
  BY <1>2 DEF Texts
<1>3. 0 \in P
  <2>1. \A n \in 0 .. 0 : n = 0
    OBVIOUS
  <2>2. Begins(text[0], text[0])
    <3>1. text[0] \in Seq(Byte)
      BY <1>1, <1>2
    <3> QED  BY <3>1 DEF Begins
  <2> QED  BY <1>1, <2>1, <2>2 DEF BeginAll
<1>4. ASSUME NEW m \in 0 .. N - 1, m \in P PROVE m + 1 \in P
  <2>1. m \in 0 .. N /\ m + 1 \in 0 .. N /\ m + 1 \in 1 .. N /\ m + 1 - 1 = m
    BY <1>1
  <2>2. text[m + 1] = text[m] \o ElementBytes(list[m + 1])
    BY <2>1, TextStep
  <2>3. ElementBytes(list[m + 1]) \in Seq(Byte) /\ text[m] \in Seq(Byte)
        /\ text[m + 1] \in Seq(Byte)
    BY <1>1, <1>2, <2>1, BytesOfElement
  <2>4. Begins(text[m], text[m + 1])
    BY <2>2, <2>3, BeginsGlued
  <2>6. ASSUME NEW n \in 0 .. m + 1 PROVE Begins(text[n], text[m + 1])
    <3>1. text[n] \in Seq(Byte)
      BY <1>1, <1>2, <2>1
    <3>2. CASE n = m + 1
      BY <3>1, <3>2 DEF Begins
    <3>3. CASE n # m + 1
      <4>1. n \in 0 .. m
        BY <2>1, <3>3
      <4>2. Begins(text[n], text[m])
        BY <1>4, <4>1 DEF BeginAll
      <4> QED  BY <2>3, <2>4, <3>1, <4>2, BeginsOn
    <3> QED  BY <3>2, <3>3
  <2> QED  BY <2>1, <2>6 DEF BeginAll
<1>5. \A m \in 0 .. N : m \in P
  <2> HIDE DEF P
  <2> QED  BY <1>1, <1>3, <1>4, IntervalInduction
<1>6. N \in P
  BY <1>1, <1>5
<1> QED  BY <1>6 DEF BeginAll

\* Where an element is in the text.
LEMMA ElementPlaced ==
  ASSUME NEW list \in Seq(Element), \A i \in DOMAIN list : Fits(list[i]),
         NEW text, Texts(text, list), NEW n \in 1 .. Len(list)
  PROVE  LET clear == text[Len(list)]
             i == Len(text[n - 1]) + 1
             element == list[n]
         IN /\ i \in 1 .. Len(clear)
            /\ i + 1 \in 1 .. Len(clear)
            /\ clear[i] = element.type /\ clear[i + 1] = Len(element.value)
            /\ i + 1 + Len(element.value) = Len(text[n])
            /\ i + 1 + Len(element.value) <= Len(clear)
            /\ SubSeq(clear, i + 2, i + 1 + Len(element.value)) = element.value
<1> DEFINE N == Len(list)
           clear == text[N]
           before == text[n - 1]
           bytes == ElementBytes(list[n])
           value == list[n].value
           i == Len(before) + 1
<1>1. N \in Nat /\ n \in 1 .. N /\ n - 1 \in 0 .. N /\ n \in 0 .. N /\ N \in 0 .. N /\ DOMAIN list = 1 .. N
  OBVIOUS
<1>2. clear \in Seq(Byte) /\ before \in Seq(Byte) /\ text[n] \in Seq(Byte)
  BY <1>1 DEF Texts
<1>3. text[n] = before \o bytes
  BY DEF Texts
<1>4. /\ value \in Seq(Byte) /\ Len(value) \in Nat
      /\ bytes \in Seq(Byte)
      /\ Len(bytes) = 2 + Len(value)
      /\ bytes[1] = list[n].type /\ bytes[2] = Len(value)
      /\ \A k \in 1 .. Len(value) : bytes[2 + k] = value[k]
  <2>1. Fits(list[n])
    BY <1>1
  <2> QED  BY <2>1, BytesOfElement
<1>5. Begins(text[n], clear)
  BY <1>1, TextsBegin
<1> HIDE DEF clear, before, bytes, value
<1>6. /\ Len(before) \in Nat /\ Len(clear) \in Nat
      /\ Len(text[n]) = Len(before) + 2 + Len(value)
      /\ Len(text[n]) <= Len(clear)
  <2>1. Len(before \o bytes) = Len(before) + Len(bytes)
    BY <1>2, <1>4, Glued
  <2> QED  BY <1>2, <1>3, <1>4, <1>5, <2>1 DEF Begins
<1>7. ASSUME NEW k \in 1 .. 2 + Len(value) PROVE clear[Len(before) + k] = bytes[k]
  <2>1. Len(before) + k \in 1 .. Len(text[n])
    BY <1>4, <1>6
  <2>2. clear[Len(before) + k] = text[n][Len(before) + k]
    BY <1>5, <2>1 DEF Begins
  <2>3. Len(before) + k \in (Len(before) + 1) .. (Len(before) + Len(bytes))
        /\ Len(before) + k - Len(before) = k
    BY <1>4, <1>6
  <2>4. (before \o bytes)[Len(before) + k] = bytes[Len(before) + k - Len(before)]
    BY <1>2, <1>4, <2>3, Glued
  <2> QED  BY <1>3, <2>2, <2>3, <2>4
<1>8. clear[i] = list[n].type /\ clear[i + 1] = Len(value)
  <2>0. 1 \in 1 .. 2 + Len(value) /\ 2 \in 1 .. 2 + Len(value)
    BY <1>4
  <2>1. clear[Len(before) + 1] = bytes[1] /\ clear[Len(before) + 2] = bytes[2]
    BY <1>7, <2>0
  <2>2. i + 1 = Len(before) + 2
    BY <1>6
  <2> QED  BY <1>4, <2>1, <2>2
<1>9. SubSeq(clear, i + 2, i + 1 + Len(value)) = value
  <2> DEFINE part == SubSeq(clear, i + 2, i + 1 + Len(value))
  <2>1. /\ part \in Seq(Byte) /\ Len(part) = Len(value)
        /\ \A k \in 1 .. Len(value) : part[k] = clear[Len(before) + (2 + k)]
    BY <1>2, <1>4, <1>6, SMTT(30)
  <2>2. ASSUME NEW k \in 1 .. Len(value) PROVE part[k] = value[k]
    <3>1. 2 + k \in 1 .. 2 + Len(value)
      BY <1>4
    <3> QED  BY <1>4, <1>7, <2>1, <3>1
  <2> HIDE DEF part
  <2>3. part = value
    BY <1>4, <2>1, <2>2, SeqEqual
  <2> QED  BY <2>3 DEF part
<1>10. i \in 1 .. Len(clear) /\ i + 1 \in 1 .. Len(clear) /\ i + 1 + Len(value) = Len(text[n])
       /\ i + 1 + Len(value) <= Len(clear)
  BY <1>4, <1>6
<1> QED  BY <1>8, <1>9, <1>10 DEF clear, before, value

\* The rest of a list, with the element before it.
LEMMA RestOfList ==
  ASSUME NEW S, NEW list \in Seq(S), NEW n \in 1 .. Len(list)
  PROVE  <<list[n]>> \o SubSeq(list, n + 1, Len(list)) = SubSeq(list, n, Len(list))
<1> DEFINE u == SubSeq(list, n + 1, Len(list))
           v == SubSeq(list, n, Len(list))
<1>1. Len(list) \in Nat
  OBVIOUS
<1>2. PICK w \in Seq(S) : w = <<list[n]>> /\ Len(w) = 1 /\ w[1] = list[n]
  <2>1. <<list[n]>> \in Seq(S)
    OBVIOUS
  <2> QED  BY <2>1
<1>3. /\ u \in Seq(S) /\ Len(u) = Len(list) - n
      /\ \A k \in 1 .. Len(list) - n : u[k] = list[n + k]
  BY <1>1
<1>4. /\ v \in Seq(S) /\ Len(v) = Len(list) - n + 1
      /\ \A k \in 1 .. Len(list) - n + 1 : v[k] = list[n + k - 1]
  BY <1>1
<1> HIDE DEF u, v
<1>5. /\ w \o u \in Seq(S) /\ Len(w \o u) = Len(list) - n + 1
      /\ \A k \in 1 .. Len(w) : (w \o u)[k] = w[k]
      /\ \A k \in (Len(w) + 1) .. (Len(w) + Len(u)) : (w \o u)[k] = u[k - Len(w)]
  <2>1. /\ w \o u \in Seq(S) /\ Len(w \o u) = Len(w) + Len(u)
        /\ \A k \in 1 .. Len(w) : (w \o u)[k] = w[k]
        /\ \A k \in (Len(w) + 1) .. (Len(w) + Len(u)) : (w \o u)[k] = u[k - Len(w)]
    BY <1>2, <1>3, Glued
  <2> QED  BY <1>1, <1>2, <1>3, <2>1
<1>6. ASSUME NEW k \in 1 .. Len(list) - n + 1 PROVE (w \o u)[k] = v[k]
  <2>1. CASE k = 1
    <3>1. (w \o u)[1] = list[n]
      BY <1>2, <1>5
    <3>2. v[1] = list[n]
      <4>1. 1 \in 1 .. Len(list) - n + 1 /\ n + 1 - 1 = n
        BY <1>1
      <4>2. v[1] = list[n + 1 - 1]
        BY <1>4, <4>1
      <4> QED  BY <4>1, <4>2
    <3> QED  BY <2>1, <3>1, <3>2
  <2>2. CASE k # 1
    <3>1. /\ k \in (Len(w) + 1) .. (Len(w) + Len(u)) /\ k - Len(w) = k - 1
          /\ k - 1 \in 1 .. Len(list) - n /\ n + (k - 1) = n + k - 1
      BY <1>1, <1>2, <1>3, <2>2
    <3>2. (w \o u)[k] = u[k - 1]
      BY <1>5, <3>1
    <3>3. u[k - 1] = list[n + (k - 1)]
      BY <1>3, <3>1
    <3>4. v[k] = list[n + k - 1]
      BY <1>4
    <3> QED  BY <3>1, <3>2, <3>3, <3>4
  <2> QED  BY <2>1, <2>2
<1>7. w \o u = v
  BY <1>4, <1>5, <1>6, SeqEqual
<1> QED  BY <1>2, <1>7 DEF u, v

\* What parse() finds in the text of a list is the list.
THEOREM TextParsed ==
  ASSUME NEW list \in Seq(Element), \A i \in DOMAIN list : Fits(list[i])
  PROVE  Text(list) \in Seq(Byte) /\ Elements(Text(list)) = list
<1> DEFINE N == Len(list)
           clear == Text(list)
<1>1. N \in Nat /\ DOMAIN list = 1 .. N
  OBVIOUS
<1>2. PICK text : Texts(text, list) /\ clear = text[N]
  BY TextIsLast
<1>3. /\ text[0] = <<>>
      /\ \A n \in 0 .. N : text[n] \in Seq(Byte)
  BY <1>2 DEF Texts
<1>4. clear \in Seq(Byte)
  BY <1>1, <1>2, <1>3
<1>5. PICK from : Loop(from, clear) /\ Elements(clear) = from[1]
  BY <1>4, ElementsIsLoop
<1> HIDE DEF clear
<1>6. Len(clear) \in Nat
  BY <1>4
<1>7. ASSUME NEW i \in 1 .. Len(clear) + 1 PROVE from[i] = Rest(clear, from, i)
  BY <1>5 DEF Loop
<1> DEFINE P == {m \in 0 .. N :
                   from[Len(text[N - m]) + 1] = SubSeq(list, N - m + 1, N)}
<1>8. 0 \in P
  <2>1. from[Len(clear) + 1] = <<>>
    <3>1. Len(clear) + 1 \in 1 .. Len(clear) + 1 /\ Len(clear) + 1 + 1 > Len(clear)
      BY <1>6
    <3>2. from[Len(clear) + 1] = Rest(clear, from, Len(clear) + 1)
      BY <1>7, <3>1
    <3> QED  BY <3>1, <3>2 DEF Rest
  <2>2. SubSeq(list, N + 1, N) = <<>>
    BY <1>1
  <2>3. N - 0 = N /\ 0 \in 0 .. N
    BY <1>1
  <2> QED  BY <1>2, <2>1, <2>2, <2>3
<1>9. ASSUME NEW m \in 0 .. N - 1, m \in P PROVE m + 1 \in P
  <2>1. PICK n \in 1 .. N : n = N - m
    <3>1. N - m \in 1 .. N
      BY <1>1
    <3> QED  BY <3>1
  <2>2. N - (m + 1) = n - 1 /\ N - (m + 1) + 1 = n /\ m + 1 \in 0 .. N
    BY <1>1, <2>1
  <2>3. from[Len(text[n]) + 1] = SubSeq(list, n + 1, N)
    BY <1>9, <2>1
  <2> DEFINE i == Len(text[n - 1]) + 1
             element == list[n]
             length == Len(element.value)
  <2>4. /\ i \in 1 .. Len(clear) /\ i + 1 \in 1 .. Len(clear)
        /\ clear[i] = element.type /\ clear[i + 1] = length
        /\ i + 1 + length = Len(text[n])
        /\ i + 1 + length <= Len(clear)
        /\ SubSeq(clear, i + 2, i + 1 + length) = element.value
    BY <1>2, ElementPlaced
  <2>5. element \in Element /\ length \in Nat
    <3>1. Fits(element) /\ element \in Element
      BY <1>1
    <3> QED  BY <3>1, BytesOfElement
  <2> HIDE DEF i, element, length
  <2>6. i + 2 + length = Len(text[n]) + 1
    <3>1. i \in Nat /\ length \in Nat /\ i + 1 + length = Len(text[n])
      BY <1>6, <2>4, <2>5
    <3>2. i + 2 + length = i + 1 + length + 1
      BY <3>1
    <3> QED  BY <3>1, <3>2
  <2>7. from[i] = <<[type |-> element.type, value |-> element.value]>>
                  \o from[Len(text[n]) + 1]
    <3>1. i \in 1 .. Len(clear) + 1
      BY <1>6, <2>4
    <3>2. from[i] = Rest(clear, from, i)
      BY <1>7, <3>1
    <3>3. ~(i + 1 > Len(clear) \/ i + 1 + clear[i + 1] > Len(clear))
      BY <1>6, <2>4, <2>5
    <3>4. Rest(clear, from, i)
          = <<[type |-> clear[i], value |-> SubSeq(clear, i + 2, i + 1 + clear[i + 1])]>>
            \o from[i + 2 + clear[i + 1]]
      BY <3>3 DEF Rest
    <3> QED  BY <2>4, <2>6, <3>2, <3>4
  <2>8. [type |-> element.type, value |-> element.value] = element
    BY <2>5 DEF Element
  <2>9. from[i] = <<element>> \o SubSeq(list, n + 1, N)
    BY <2>3, <2>7, <2>8
  <2>10. from[i] = SubSeq(list, n, N)
    BY <2>9, RestOfList DEF element
  <2> QED  BY <2>2, <2>10 DEF i
<1>10. \A m \in 0 .. N : m \in P
  <2> HIDE DEF P
  <2> QED  BY <1>1, <1>8, <1>9, IntervalInduction
<1>11. from[1] = list
  <2>0. N \in 0 .. N
    BY <1>1
  <2>1. N \in P
    <3> HIDE DEF P
    <3> QED  BY <1>10, <2>0
  <2>2. N - N = 0 /\ 0 + 1 = 1 /\ Len(text[0]) = 0
    BY <1>1, <1>3
  <2>3. SubSeq(list, 1, N) = list
    BY <1>1
  <2> QED  BY <2>1, <2>2, <2>3
<1> QED  BY <1>4, <1>5, <1>11 DEF clear

-----------------------------------------------------------------------------
(* The table of the elements *)

\* The tables of the first elements, one after another.
Tables(table, list) ==
  /\ table \in [0 .. Len(list) -> Seq(Element)]
  /\ table[0] = <<>>
  /\ \A n \in 1 .. Len(list) : table[n] = Put(table[n - 1], list[n])

\* A table stays one.
LEMMA PutType ==
  ASSUME NEW table \in Seq(Element), NEW element \in Element
  PROVE  Put(table, element) \in Seq(Element)
<1>1. CASE Has(table, element.type)
  <2> DEFINE new == [i \in DOMAIN table |->
                       IF table[i].type = element.type THEN element ELSE table[i]]
  <2>1. DOMAIN table = 1 .. Len(table) /\ Len(table) \in Nat
    OBVIOUS
  <2>2. ASSUME NEW i \in 1 .. Len(table) PROVE new[i] \in Element
    BY <2>1
  <2>3. new \in Seq(Element)
    BY <2>1, <2>2
  <2> HIDE DEF new
  <2>4. Put(table, element) = new
    BY <1>1 DEF Put, new
  <2> QED  BY <2>3, <2>4
<1>2. CASE ~Has(table, element.type)
  BY <1>2 DEF Put
<1> QED  BY <1>1, <1>2

\* The fold over a list is the last of its tables.
LEMMA TableIsLast ==
  ASSUME NEW list \in Seq(Element)
  PROVE  \E table : Tables(table, list) /\ FoldLeft(Put, <<>>, list) = table[Len(list)]
<1> DEFINE N == Len(list)
           step == [n \in 1 .. N |-> [t \in Seq(Element) |-> Put(t, list[n])]]
           g == CHOOSE f : f = [s \in SUBSET (DOMAIN list) |->
                                  IF s = {} THEN <<>>
                                  ELSE Put(f[s \ {Max(s)}], list[Max(s)])]
<1>1. N \in Nat /\ DOMAIN list = 1 .. N /\ <<>> \in Seq(Element)
  OBVIOUS
<1>2. ASSUME NEW n \in 1 .. N PROVE list[n] \in Element
  BY <1>1
<1>3. step \in [1 .. N -> [Seq(Element) -> Seq(Element)]]
  BY <1>2, PutType
<1>4. \E f : f = [s \in SUBSET (DOMAIN list) |->
                    IF s = {} THEN <<>> ELSE Put(f[s \ {Max(s)}], list[Max(s)])]
  <2>1. PICK f \in [SUBSET (1 .. N) -> Seq(Element)] : Folds(f, N, <<>>, step)
    <3> HIDE DEF step, N
    <3> QED  BY <1>1, <1>3, FoldExists DEF Folded
  <2>2. ASSUME NEW s \in SUBSET (1 .. N), s # {}
        PROVE  f[s] = Put(f[s \ {Max(s)}], list[Max(s)])
    <3>1. Max(s) \in 1 .. N
      BY <1>1, <2>2, MaxInSet
    <3>2. f[s] = step[Max(s)][f[s \ {Max(s)}]]
      BY <2>1, <2>2 DEF Folds
    <3>3. f[s \ {Max(s)}] \in Seq(Element)
      BY <2>1
    <3> QED  BY <3>1, <3>2, <3>3
  <2>3. f[{}] = <<>>
    BY <2>1 DEF Folds
  <2>4. f = [s \in SUBSET (1 .. N) |-> f[s]]
    BY <2>1
  <2>5. f = [s \in SUBSET (1 .. N) |->
               IF s = {} THEN <<>> ELSE Put(f[s \ {Max(s)}], list[Max(s)])]
    BY <2>2, <2>3, <2>4
  <2> QED  BY <1>1, <2>5
<1>5. g = [s \in SUBSET (1 .. N) |->
             IF s = {} THEN <<>> ELSE Put(g[s \ {Max(s)}], list[Max(s)])]
  BY <1>1, <1>4
<1>6. FoldLeft(Put, <<>>, list) = g[1 .. N]
  BY <1>1 DEF FoldLeft, MapThenFoldSet
<1> DEFINE table == [n \in 0 .. N |-> g[1 .. n]]
<1> HIDE DEF g
<1>7. table[0] = <<>>
  <2>1. 1 .. 0 = {} /\ {} \in SUBSET (1 .. N)
    OBVIOUS
  <2> QED  BY <1>1, <1>5, <2>1
<1>8. ASSUME NEW n \in 1 .. N PROVE table[n] = Put(table[n - 1], list[n])
  <2>1. /\ 1 .. n # {} /\ 1 .. n \in SUBSET (1 .. N) /\ Max(1 .. n) = n
        /\ (1 .. n) \ {n} = 1 .. n - 1
    BY <1>1, FirstNumbers
  <2>2. g[1 .. n] = Put(g[1 .. n - 1], list[n])
    BY <1>5, <2>1
  <2>3. n \in 0 .. N /\ n - 1 \in 0 .. N
    BY <1>1
  <2> QED  BY <2>2, <2>3
<1> DEFINE P == {n \in 0 .. N : table[n] \in Seq(Element)}
<1> HIDE DEF table
<1>9. 0 \in P
  <2>1. table[0] \in Seq(Element) /\ 0 \in 0 .. N
    BY <1>1, <1>7
  <2> QED  BY <2>1
<1>10. ASSUME NEW n \in 0 .. N - 1, n \in P PROVE n + 1 \in P
  <2>1. PICK m \in 1 .. N : m = n + 1 /\ m - 1 = n
    <3>1. n + 1 \in 1 .. N /\ n + 1 - 1 = n
      BY <1>1
    <3> QED  BY <3>1
  <2>2. table[m] = Put(table[n], list[m])
    BY <1>8, <2>1
  <2>3. table[m] \in Seq(Element)
    BY <1>2, <1>10, <2>2, PutType
  <2> QED  BY <1>1, <2>1, <2>3
<1>11. \A n \in 0 .. N : table[n] \in Seq(Element)
  <2>1. \A n \in 0 .. N : n \in P
    <3> HIDE DEF P
    <3> QED  BY <1>1, <1>9, <1>10, IntervalInduction
  <2> QED  BY <2>1
<1>12. table \in [0 .. N -> Seq(Element)]
  BY <1>11 DEF table
<1>13. Tables(table, list)
  BY <1>7, <1>8, <1>12 DEF Tables
<1>14. table[N] = g[1 .. N]
  BY <1>1 DEF table
<1> QED  BY <1>6, <1>13, <1>14

\* Element k is the last of its type among the first n.
IsLast(list, n, k) == \A j \in 1 .. n : list[j].type = list[k].type => j <= k

\* The table holds the last element of each type among the first n.
Agrees(table, list, n) ==
  /\ \A j \in 1 .. n : Has(table, list[j].type)
  /\ \A i \in DOMAIN table : \E k \in 1 .. n : table[i] = list[k] /\ IsLast(list, n, k)
  /\ \A i, j \in DOMAIN table : table[i].type = table[j].type => i = j

\* A later element leaves the last elements of other types.
LEMMA LastStays ==
  ASSUME NEW list, NEW n \in Nat, NEW k \in 1 .. n, IsLast(list, n, k),
         list[n + 1].type # list[k].type
  PROVE  k \in 1 .. n + 1 /\ IsLast(list, n + 1, k)
<1>1. k \in 1 .. n + 1
  OBVIOUS
<1>2. ASSUME NEW j \in 1 .. n + 1, list[j].type = list[k].type PROVE j <= k
  <2>1. j # n + 1
    BY <1>2
  <2>2. j \in 1 .. n
    BY <2>1
  <2> QED  BY <1>2, <2>2 DEF IsLast
<1> QED  BY <1>1, <1>2 DEF IsLast

\* The newest element is the last of its type.
LEMMA NewestIsLast ==
  ASSUME NEW list, NEW n \in Nat
  PROVE  n + 1 \in 1 .. n + 1 /\ IsLast(list, n + 1, n + 1)
BY DEF IsLast

\* An element that is put into the table.
LEMMA PutAgrees ==
  ASSUME NEW list, NEW table \in Seq(Element), NEW n \in Nat, Agrees(table, list, n),
         NEW element \in Element, element = list[n + 1]
  PROVE  Agrees(Put(table, element), list, n + 1)
<1> DEFINE new == Put(table, element)
<1>1. DOMAIN table = 1 .. Len(table) /\ Len(table) \in Nat
  OBVIOUS
<1>2. CASE Has(table, element.type)
  <2>1. /\ DOMAIN new = DOMAIN table
        /\ \A i \in DOMAIN table :
             new[i] = IF table[i].type = element.type THEN element ELSE table[i]
    BY <1>2 DEF Put
  <2> HIDE DEF new
  <2>2. \A i \in DOMAIN table : new[i].type = table[i].type
    BY <2>1
  <2>3. ASSUME NEW j \in 1 .. n + 1 PROVE Has(new, list[j].type)
    <3>1. Has(table, list[j].type)
      <4>1. CASE j = n + 1
        BY <1>2, <4>1
      <4>2. CASE j # n + 1
        <5>1. j \in 1 .. n
          BY <4>2
        <5> QED  BY <5>1 DEF Agrees
      <4> QED  BY <4>1, <4>2
    <3> QED  BY <2>1, <2>2, <3>1 DEF Has
  <2>4. ASSUME NEW i \in DOMAIN new
        PROVE  \E k \in 1 .. n + 1 : new[i] = list[k] /\ IsLast(list, n + 1, k)
    <3>1. CASE table[i].type = element.type
      <4>1. new[i] = list[n + 1]
        BY <2>1, <3>1
      <4> QED  BY <4>1, NewestIsLast
    <3>2. CASE table[i].type # element.type
      <4>1. PICK k \in 1 .. n : table[i] = list[k] /\ IsLast(list, n, k)
        BY <2>1 DEF Agrees
      <4>2. new[i] = list[k] /\ list[n + 1].type # list[k].type
        BY <2>1, <3>2, <4>1
      <4>3. k \in 1 .. n + 1 /\ IsLast(list, n + 1, k)
        BY <4>1, <4>2, LastStays
      <4> QED  BY <4>2, <4>3
    <3> QED  BY <3>1, <3>2
  <2>5. \A i, j \in DOMAIN new : new[i].type = new[j].type => i = j
    BY <2>1, <2>2 DEF Agrees
  <2> QED  BY <2>3, <2>4, <2>5 DEF Agrees, new
<1>3. CASE ~Has(table, element.type)
  <2>1. new = Append(table, element)
    BY <1>3 DEF Put
  <2>2. /\ DOMAIN new = 1 .. Len(table) + 1
        /\ \A i \in 1 .. Len(table) : new[i] = table[i]
        /\ new[Len(table) + 1] = element
    BY <1>1, <2>1, Appended
  <2> HIDE DEF new
  <2>3. \A i \in 1 .. Len(table) : i \in DOMAIN new /\ table[i].type # element.type
    BY <1>1, <1>3, <2>2 DEF Has
  <2>4. ASSUME NEW j \in 1 .. n + 1 PROVE Has(new, list[j].type)
    <3>1. CASE j = n + 1
      <4>1. Len(table) + 1 \in DOMAIN new /\ new[Len(table) + 1].type = list[j].type
        BY <1>1, <2>2, <3>1
      <4> QED  BY <4>1 DEF Has
    <3>2. CASE j # n + 1
      <4>1. j \in 1 .. n
        BY <3>2
      <4>2. PICK i \in DOMAIN table : table[i].type = list[j].type
        BY <4>1 DEF Agrees, Has
      <4>3. i \in DOMAIN new /\ new[i].type = list[j].type
        BY <1>1, <2>2, <2>3, <4>2
      <4> QED  BY <4>3 DEF Has
    <3> QED  BY <3>1, <3>2
  <2>5. ASSUME NEW i \in DOMAIN new
        PROVE  \E k \in 1 .. n + 1 : new[i] = list[k] /\ IsLast(list, n + 1, k)
    <3>1. CASE i = Len(table) + 1
      <4>1. new[i] = list[n + 1]
        BY <2>2, <3>1
      <4> QED  BY <4>1, NewestIsLast
    <3>2. CASE i # Len(table) + 1
      <4>1. i \in 1 .. Len(table)
        BY <1>1, <2>2, <3>2
      <4>2. PICK k \in 1 .. n : table[i] = list[k] /\ IsLast(list, n, k)
        BY <1>1, <4>1 DEF Agrees
      <4>3. new[i] = list[k] /\ list[n + 1].type # list[k].type
        BY <2>2, <2>3, <4>1, <4>2
      <4>4. k \in 1 .. n + 1 /\ IsLast(list, n + 1, k)
        BY <4>2, <4>3, LastStays
      <4> QED  BY <4>3, <4>4
    <3> QED  BY <3>1, <3>2
  <2>6. ASSUME NEW i \in DOMAIN new, NEW j \in DOMAIN new, new[i].type = new[j].type
        PROVE  i = j
    <3>1. CASE i \in 1 .. Len(table) /\ j \in 1 .. Len(table)
      BY <1>1, <2>2, <2>6, <3>1 DEF Agrees
    <3>2. CASE ~(i \in 1 .. Len(table) /\ j \in 1 .. Len(table))
      BY <1>1, <2>2, <2>3, <2>6, <3>2
    <3> QED  BY <3>1, <3>2
  <2> QED  BY <2>4, <2>5, <2>6 DEF Agrees, new
<1> QED  BY <1>2, <1>3

\* The fold of a list is a table of the last elements of each type.
LEMMA TableAgrees ==
  ASSUME NEW list \in Seq(Element)
  PROVE  /\ FoldLeft(Put, <<>>, list) \in Seq(Element)
         /\ Agrees(FoldLeft(Put, <<>>, list), list, Len(list))
<1> DEFINE N == Len(list)
<1>1. N \in Nat /\ DOMAIN list = 1 .. N
  OBVIOUS
<1>2. PICK table : Tables(table, list) /\ FoldLeft(Put, <<>>, list) = table[N]
  BY TableIsLast
<1>3. ASSUME NEW n \in 0 .. N PROVE table[n] \in Seq(Element)
  BY <1>2 DEF Tables
<1> DEFINE P == {n \in 0 .. N : Agrees(table[n], list, n)}
<1>4. 0 \in P
  <2>1. 0 \in 0 .. N /\ DOMAIN (<<>>) = {} /\ 1 .. 0 = {}
    BY <1>1
  <2>2. table[0] = <<>>
    BY <1>2 DEF Tables
  <2>3. Agrees(<<>>, list, 0)
    BY <2>1 DEF Agrees
  <2> QED  BY <2>1, <2>2, <2>3
<1>5. ASSUME NEW n \in 0 .. N - 1, n \in P PROVE n + 1 \in P
  <2>1. PICK m \in 1 .. N : m = n + 1 /\ m - 1 = n
    <3>1. n + 1 \in 1 .. N /\ n + 1 - 1 = n
      BY <1>1
    <3> QED  BY <3>1
  <2>2. table[m] = Put(table[m - 1], list[m])
    BY <1>2 DEF Tables
  <2>3. n \in Nat /\ n \in 0 .. N /\ n + 1 \in 0 .. N /\ list[m] \in Element
    BY <1>1, <2>1
  <2>4. Agrees(Put(table[n], list[m]), list, n + 1)
    BY <1>3, <1>5, <2>1, <2>3, PutAgrees
  <2> QED  BY <2>1, <2>2, <2>3, <2>4
<1>6. \A n \in 0 .. N : n \in P
  <2> HIDE DEF P
  <2> QED  BY <1>1, <1>4, <1>5, IntervalInduction
<1>7. N \in 0 .. N
  BY <1>1
<1> QED  BY <1>2, <1>3, <1>6, <1>7

-----------------------------------------------------------------------------
(* Whole messages *)

\* A message: the encoding, the checksum, and the data.
Framed(out, encoding, data) ==
  /\ out \in Seq(Byte) /\ Len(out) = 5 + Len(data)
  /\ out[1] = encoding
  /\ \A i \in 1 .. 4 : out[i + 1] = HashByte(HashCode(data), i)
  /\ \A k \in 1 .. Len(data) : out[k + 5] = data[k]

\* Part of a sequence.
LEMMA PartOf ==
  ASSUME NEW S, NEW s \in Seq(S), NEW a \in 1 .. Len(s) + 1, NEW b \in a - 1 .. Len(s)
  PROVE  /\ SubSeq(s, a, b) \in Seq(S)
         /\ Len(SubSeq(s, a, b)) = b - a + 1
         /\ \A k \in 1 .. b - a + 1 : SubSeq(s, a, b)[k] = s[a + k - 1]
<1>1. Len(s) \in Nat
  OBVIOUS
<1> QED  BY <1>1

\* The bytes of the checksum are bytes.
LEMMA HashByteType ==
  ASSUME NEW h \in Words, NEW i \in 1 .. 4
  PROVE  HashByte(h, i) \in Byte
<1> DEFINE divisor == <<Radix * Radix * Radix, Radix * Radix, Radix, 1>>[i]
<1>1. h \in Nat /\ Radix \in Nat \ {0}
  BY RadixAssumption, WordFacts DEF Words
<1>2. divisor \in Nat \ {0}
  <2>1. Radix * Radix \in Nat \ {0}
    BY <1>1
  <2>2. Radix * Radix * Radix \in Nat \ {0}
    BY <1>1, <2>1
  <2> DEFINE two == Radix * Radix
             three == Radix * Radix * Radix
  <2> HIDE DEF two, three
  <2>3. two \in Nat \ {0} /\ three \in Nat \ {0}
    BY <2>1, <2>2 DEF two, three
  <2>4. <<three, two, Radix, 1>>[i] \in Nat \ {0}
    BY <1>1, <2>3
  <2> QED  BY <2>4 DEF two, three
<1> HIDE DEF divisor
<1>3. (h \div divisor) % Radix \in 0 .. Radix - 1
  <2>1. h \div divisor \in Int
    BY <1>1, <1>2
  <2> QED  BY <1>1, <2>1
<1> QED  BY <1>3 DEF HashByte, Byte, divisor

\* A phone frames the data.
LEMMA EncodeFrames ==
  ASSUME NEW encoding \in Encodings, NEW data \in Seq(Byte)
  PROVE  Framed(<<encoding>> \o [i \in 1 .. 4 |-> HashByte(HashCode(data), i)] \o data,
                encoding, data)
<1> DEFINE sum == [i \in 1 .. 4 |-> HashByte(HashCode(data), i)]
<1>1. encoding \in Byte
  BY RadixAssumption DEF Encodings, Byte
<1>2. HashCode(data) \in Words
  <2>1. PICK hash : Hashes(hash, data) /\ HashCode(data) = hash[Len(data)]
    BY HashCodeIsLast
  <2>2. Len(data) \in 0 .. Len(data)
    OBVIOUS
  <2> QED  BY <2>1, <2>2 DEF Hashes
<1>3. sum \in Seq(Byte) /\ Len(sum) = 4
      /\ \A i \in 1 .. 4 : sum[i] = HashByte(HashCode(data), i)
  BY <1>2, HashByteType
<1> HIDE DEF sum
<1>4. PICK first \in Seq(Byte) : first = <<encoding>> /\ Len(first) = 1 /\ first[1] = encoding
  <2>1. <<encoding>> \in Seq(Byte)
    BY <1>1
  <2> QED  BY <2>1
<1> DEFINE head == first \o sum
           out == head \o data
<1>5. /\ head \in Seq(Byte) /\ Len(head) = 5
      /\ \A i \in 1 .. 1 : head[i] = first[i]
      /\ \A i \in 2 .. 5 : head[i] = sum[i - 1]
  <2>1. /\ first \o sum \in Seq(Byte)
        /\ Len(first \o sum) = Len(first) + Len(sum)
        /\ \A i \in 1 .. Len(first) : (first \o sum)[i] = first[i]
        /\ \A i \in (Len(first) + 1) .. (Len(first) + Len(sum)) :
             (first \o sum)[i] = sum[i - Len(first)]
    BY <1>3, Glued
  <2> QED  BY <1>3, <1>4, <2>1
<1> HIDE DEF head
<1>6. /\ out \in Seq(Byte) /\ Len(out) = 5 + Len(data)
      /\ \A i \in 1 .. 5 : out[i] = head[i]
      /\ \A i \in 6 .. 5 + Len(data) : out[i] = data[i - 5]
  <2>1. /\ head \o data \in Seq(Byte)
        /\ Len(head \o data) = Len(head) + Len(data)
        /\ \A i \in 1 .. Len(head) : (head \o data)[i] = head[i]
        /\ \A i \in (Len(head) + 1) .. (Len(head) + Len(data)) :
             (head \o data)[i] = data[i - Len(head)]
    BY <1>5, Glued, ZenonT(40)
  <2> QED  BY <1>5, <2>1
<1> HIDE DEF out
<1>7. out[1] = encoding
  BY <1>4, <1>5, <1>6
<1>8. ASSUME NEW i \in 1 .. 4 PROVE out[i + 1] = HashByte(HashCode(data), i)
  <2>1. i + 1 \in 1 .. 5 /\ i + 1 \in 2 .. 5 /\ i + 1 - 1 = i
    OBVIOUS
  <2>2. out[i + 1] = head[i + 1] /\ head[i + 1] = sum[i + 1 - 1]
    BY <1>5, <1>6, <2>1
  <2> QED  BY <1>3, <2>1, <2>2
<1>9. ASSUME NEW k \in 1 .. Len(data) PROVE out[k + 5] = data[k]
  <2>1. Len(data) \in Nat
    OBVIOUS
  <2>2. k + 5 \in 6 .. 5 + Len(data) /\ k + 5 - 5 = k
    BY <2>1
  <2>3. out[k + 5] = data[k + 5 - 5]
    BY <1>6, <2>2
  <2> QED  BY <2>2, <2>3
<1>10. Framed(out, encoding, data)
  BY <1>6, <1>7, <1>8, <1>9 DEF Framed
<1> QED  BY <1>4, <1>10 DEF sum, head, out

\* What parse() takes from a message: the data and the checksum.
LEMMA FrameTaken ==
  ASSUME NEW out, NEW encoding, NEW data \in Seq(Byte), Framed(out, encoding, data)
  PROVE  /\ SubSeq(out, HeaderLength + 1, Len(out)) = data
         /\ \A i \in 1 .. 4 : SubSeq(out, 2, HeaderLength)[i] = HashByte(HashCode(data), i)
<1>1. out \in Seq(Byte) /\ Len(out) = 5 + Len(data) /\ Len(data) \in Nat
  BY DEF Framed
<1> DEFINE rest == SubSeq(out, 6, Len(out))
           sum == SubSeq(out, 2, 5)
<1>2. /\ rest \in Seq(Byte) /\ Len(rest) = Len(data)
      /\ \A k \in 1 .. Len(data) : rest[k] = out[k + 5]
  <2>1. 6 \in 1 .. Len(out) + 1 /\ Len(out) \in 5 .. Len(out)
    BY <1>1
  <2>2. /\ rest \in Seq(Byte) /\ Len(rest) = Len(out) - 6 + 1
        /\ \A k \in 1 .. Len(out) - 6 + 1 : rest[k] = out[6 + k - 1]
    BY <1>1, <2>1, PartOf
  <2>3. ASSUME NEW k \in 1 .. Len(data) PROVE rest[k] = out[k + 5]
    <3>1. k \in 1 .. Len(out) - 6 + 1 /\ 6 + k - 1 = k + 5
      BY <1>1
    <3> QED  BY <2>2, <3>1
  <2> QED  BY <1>1, <2>2, <2>3
<1>3. \A i \in 1 .. 4 : sum[i] = out[i + 1]
  <2>1. 2 \in 1 .. Len(out) + 1 /\ 5 \in 1 .. Len(out)
    BY <1>1
  <2>2. \A i \in 1 .. 5 - 2 + 1 : sum[i] = out[2 + i - 1]
    BY <1>1, <2>1, PartOf
  <2>3. ASSUME NEW i \in 1 .. 4 PROVE sum[i] = out[i + 1]
    <3>1. i \in 1 .. 5 - 2 + 1 /\ 2 + i - 1 = i + 1
      OBVIOUS
    <3> QED  BY <2>2, <3>1
  <2> QED  BY <2>3
<1> HIDE DEF rest, sum
<1>4. \A k \in 1 .. Len(data) : rest[k] = data[k]
  BY <1>2 DEF Framed
<1>5. rest = data
  BY <1>2, <1>4, SeqEqual
<1>6. \A i \in 1 .. 4 : sum[i] = HashByte(HashCode(data), i)
  BY <1>3 DEF Framed
<1> QED  BY <1>5, <1>6 DEF rest, sum, HeaderLength

\* What a phone makes of a list of elements: its text, encoded and framed.
LEMMA EncodedFrames ==
  ASSUME NEW encoding \in Encodings,
         NEW list \in Seq(Element), \A i \in DOMAIN list : Fits(list[i])
  PROVE  /\ Clear(encoding, Text(list)) \in Seq(Byte)
         /\ Framed(Encode(encoding, list), encoding, Clear(encoding, Text(list)))
<1>1. Text(list) \in Seq(Byte)
  BY TextParsed
<1>2. Clear(encoding, Text(list)) \in Seq(Byte)
  BY <1>1, ClearTwice
<1> QED  BY <1>2, EncodeFrames DEF Encode

\* Parsing what a phone sends, in clear or encoded, gives the table of its elements:
\* one for each type, with the last value that was sent for it (ScProto::parse).
THEOREM EncodedParsed ==
  ASSUME NEW encoding \in Encodings,
         NEW list \in Seq(Element), \A i \in DOMAIN list : Fits(list[i])
  PROVE  /\ Parse(Encode(encoding, list)) \in Seq(Element)
         /\ Agrees(Parse(Encode(encoding, list)), list, Len(list))
<1> DEFINE out == Encode(encoding, list)
           text == Text(list)
           data == Clear(encoding, text)
<1>1. text \in Seq(Byte) /\ Elements(text) = list
  BY TextParsed
<1>2. data \in Seq(Byte) /\ Clear(encoding, data) = text
  BY <1>1, ClearTwice
<1>3. Framed(out, encoding, data)
  BY EncodedFrames
<1> HIDE DEF out, text, data
<1>4. /\ SubSeq(out, HeaderLength + 1, Len(out)) = data
      /\ CompareChecksum(HashCode(data), SubSeq(out, 2, HeaderLength))
  BY <1>2, <1>3, FrameTaken DEF CompareChecksum
<1>5. out[1] = encoding /\ ~(out[1] # 0 /\ Key = <<>>)
  BY <1>3 DEF Framed, Encodings
<1>6. Parse(out) = FoldLeft(Put, <<>>, list)
  BY <1>1, <1>2, <1>4, <1>5 DEF Parse
<1> QED  BY <1>6, TableAgrees DEF out

\* A byte of the checksum was changed.
LEMMA ChecksumDamaged ==
  ASSUME NEW out, NEW encoding, NEW data \in Seq(Byte), Framed(out, encoding, data),
         NEW i \in 2 .. 5, NEW b \in Byte, b # out[i]
  PROVE  Parse([out EXCEPT ![i] = b]) = <<>>
<1> DEFINE wrong == [out EXCEPT ![i] = b]
<1>1. out \in Seq(Byte) /\ Len(out) = 5 + Len(data) /\ Len(data) \in Nat
  BY DEF Framed
<1>2. wrong \in Seq(Byte) /\ Len(wrong) = 5 + Len(data) /\ wrong[i] = b
      /\ \A j \in 1 .. Len(out) : j # i => wrong[j] = out[j]
  BY <1>1
<1> HIDE DEF wrong
<1> DEFINE rest == SubSeq(wrong, 6, Len(wrong))
           sum == SubSeq(wrong, 2, 5)
<1>3. rest = data
  <2>1. 6 \in 1 .. Len(wrong) + 1 /\ Len(wrong) \in 5 .. Len(wrong)
    BY <1>1, <1>2
  <2>2. /\ rest \in Seq(Byte) /\ Len(rest) = Len(wrong) - 6 + 1
        /\ \A k \in 1 .. Len(wrong) - 6 + 1 : rest[k] = wrong[6 + k - 1]
    BY <1>2, <2>1, PartOf
  <2>3. ASSUME NEW k \in 1 .. Len(data) PROVE rest[k] = data[k]
    <3>1. k \in 1 .. Len(wrong) - 6 + 1 /\ 6 + k - 1 = k + 5 /\ k + 5 # i /\ k + 5 \in 1 .. Len(out)
      BY <1>1, <1>2
    <3>2. rest[k] = wrong[k + 5] /\ wrong[k + 5] = out[k + 5]
      BY <1>2, <2>2, <3>1
    <3> QED  BY <3>2 DEF Framed
  <2>4. Len(rest) = Len(data)
    BY <1>1, <1>2, <2>2
  <2> HIDE DEF rest
  <2> QED  BY <2>2, <2>3, <2>4, SeqEqual
<1>4. PICK k \in 1 .. 4 : k + 1 = i
  <2>1. i - 1 \in 1 .. 4 /\ i - 1 + 1 = i
    OBVIOUS
  <2> QED  BY <2>1
<1>5. sum[k] = b
  <2>1. 2 \in 1 .. Len(wrong) + 1 /\ 5 \in 1 .. Len(wrong)
    BY <1>1, <1>2
  <2>2. \A j \in 1 .. 5 - 2 + 1 : sum[j] = wrong[2 + j - 1]
    BY <1>2, <2>1, PartOf
  <2>3. k \in 1 .. 5 - 2 + 1 /\ 2 + k - 1 = i
    BY <1>4
  <2> QED  BY <1>2, <2>2, <2>3
<1>6. out[i] = HashByte(HashCode(data), k)
  BY <1>4 DEF Framed
<1> HIDE DEF rest, sum
<1>7. ~CompareChecksum(HashCode(data), sum)
  BY <1>5, <1>6 DEF CompareChecksum
<1>8. ~CompareChecksum(HashCode(SubSeq(wrong, HeaderLength + 1, Len(wrong))),
                       SubSeq(wrong, 2, HeaderLength))
  <2>1. HeaderLength + 1 = 6 /\ HeaderLength = 5
    BY DEF HeaderLength
  <2> QED  BY <1>3, <1>7, <2>1 DEF rest, sum
<1>9. Parse(wrong) = <<>>
  BY <1>8 DEF Parse
<1> QED  BY <1>9 DEF wrong

\* A byte of the data was changed.
LEMMA DataDamaged ==
  ASSUME NEW out, NEW encoding, NEW data \in Seq(Byte), Framed(out, encoding, data),
         NEW k \in 1 .. Len(data), NEW b \in Byte, b # out[k + 5]
  PROVE  Parse([out EXCEPT ![k + 5] = b]) = <<>>
<1> DEFINE wrong == [out EXCEPT ![k + 5] = b]
           other == [data EXCEPT ![k] = b]
<1>1. out \in Seq(Byte) /\ Len(out) = 5 + Len(data) /\ Len(data) \in Nat /\ k \in 1 .. Len(data)
      /\ data[k] = out[k + 5]
  BY DEF Framed
<1>2. wrong \in Seq(Byte) /\ Len(wrong) = 5 + Len(data) /\ wrong[k + 5] = b
      /\ \A j \in 1 .. Len(out) : j # k + 5 => wrong[j] = out[j]
  BY <1>1
<1>3. other \in Seq(Byte) /\ Len(other) = Len(data)
      /\ \A j \in 1 .. Len(data) : other[j] = IF j = k THEN b ELSE data[j]
  BY <1>1
<1>4. /\ HashCode(other) \in Words /\ HashCode(data) \in Words
      /\ HashCode(other) # HashCode(data)
  <2>1. b # data[k]
    BY <1>1
  <2> QED  BY <2>1, HashTellsByte
<1> HIDE DEF wrong, other
<1> DEFINE rest == SubSeq(wrong, 6, Len(wrong))
           sum == SubSeq(wrong, 2, 5)
<1>6. rest = other
  <2>1. 6 \in 1 .. Len(wrong) + 1 /\ Len(wrong) \in 5 .. Len(wrong)
    BY <1>1, <1>2
  <2>2. /\ rest \in Seq(Byte) /\ Len(rest) = Len(wrong) - 6 + 1
        /\ \A j \in 1 .. Len(wrong) - 6 + 1 : rest[j] = wrong[6 + j - 1]
    BY <1>2, <2>1, PartOf
  <2>3. ASSUME NEW j \in 1 .. Len(data) PROVE rest[j] = other[j]
    <3>1. j \in 1 .. Len(wrong) - 6 + 1 /\ 6 + j - 1 = j + 5 /\ j + 5 \in 1 .. Len(out)
          /\ (j + 5 = k + 5 <=> j = k)
      BY <1>1, <1>2
    <3>2. rest[j] = wrong[j + 5]
      BY <2>2, <3>1
    <3>3. CASE j = k
      BY <1>2, <1>3, <3>2, <3>3
    <3>4. CASE j # k
      <4>1. wrong[j + 5] = out[j + 5] /\ out[j + 5] = data[j]
        BY <1>2, <3>1, <3>4 DEF Framed
      <4> QED  BY <1>3, <3>2, <3>4, <4>1
    <3> QED  BY <3>3, <3>4
  <2>4. Len(rest) = Len(other)
    BY <1>1, <1>2, <1>3, <2>2
  <2> HIDE DEF rest
  <2> QED  BY <1>3, <2>2, <2>3, <2>4, SeqEqual
<1>7. ASSUME NEW i \in 1 .. 4 PROVE sum[i] = HashByte(HashCode(data), i)
  <2>1. 2 \in 1 .. Len(wrong) + 1 /\ 5 \in 1 .. Len(wrong)
    BY <1>1, <1>2
  <2>2. \A j \in 1 .. 5 - 2 + 1 : sum[j] = wrong[2 + j - 1]
    BY <1>2, <2>1, PartOf
  <2>3. i \in 1 .. 5 - 2 + 1 /\ 2 + i - 1 = i + 1 /\ i + 1 # k + 5 /\ i + 1 \in 1 .. Len(out)
    BY <1>1
  <2>4. sum[i] = wrong[i + 1] /\ wrong[i + 1] = out[i + 1]
    BY <1>2, <2>2, <2>3
  <2> QED  BY <2>4 DEF Framed
<1> HIDE DEF rest, sum
<1>8. ~CompareChecksum(HashCode(other), sum)
  <2> SUFFICES ASSUME CompareChecksum(HashCode(other), sum) PROVE FALSE
    OBVIOUS
  <2>1. \A i \in 1 .. 4 : HashByte(HashCode(other), i) = HashByte(HashCode(data), i)
    BY <1>7 DEF CompareChecksum
  <2> QED  BY <1>4, <2>1, HashBytesTell
<1>9. ~CompareChecksum(HashCode(SubSeq(wrong, HeaderLength + 1, Len(wrong))),
                       SubSeq(wrong, 2, HeaderLength))
  <2>1. HeaderLength + 1 = 6 /\ HeaderLength = 5
    BY DEF HeaderLength
  <2> QED  BY <1>6, <1>8, <2>1 DEF rest, sum
<1>10. Parse(wrong) = <<>>
  BY <1>9 DEF Parse
<1> QED  BY <1>10 DEF wrong

\* Nothing is made of a message of which one byte after the first was changed,
\* whether in the checksum or in the data (ScProto::compareChecksum).
THEOREM DamageFound ==
  ASSUME NEW encoding \in Encodings,
         NEW list \in Seq(Element), \A i \in DOMAIN list : Fits(list[i]),
         NEW i \in 2 .. Len(Encode(encoding, list)), NEW b \in Byte,
         [Encode(encoding, list) EXCEPT ![i] = b] # Encode(encoding, list)
  PROVE  Parse([Encode(encoding, list) EXCEPT ![i] = b]) = <<>>
<1> DEFINE out == Encode(encoding, list)
           data == Clear(encoding, Text(list))
<1>1. data \in Seq(Byte) /\ Framed(out, encoding, data)
  BY EncodedFrames
<1>2. [out EXCEPT ![i] = b] # out /\ i \in 2 .. Len(out)
  OBVIOUS
<1> SUFFICES Parse([out EXCEPT ![i] = b]) = <<>>
  OBVIOUS
<1> HIDE DEF out, data
<1>3. out \in Seq(Byte) /\ Len(out) = 5 + Len(data) /\ Len(data) \in Nat
  BY <1>1 DEF Framed
<1>4. b # out[i]
  BY <1>2, <1>3
<1>5. CASE i \in 2 .. 5
  BY <1>1, <1>4, <1>5, ChecksumDamaged
<1>6. CASE i \notin 2 .. 5
  <2>1. i - 5 \in 1 .. Len(data) /\ i - 5 + 5 = i
    BY <1>2, <1>3, <1>6
  <2>2. PICK k \in 1 .. Len(data) : k + 5 = i
    BY <2>1
  <2> QED  BY <1>1, <1>4, <2>2, DataDamaged
<1> QED  BY <1>5, <1>6
=============================================================================
