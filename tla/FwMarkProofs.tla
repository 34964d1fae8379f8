---------------------------- MODULE FwMarkProofs ----------------------------
(* Theorems about FwMark, for words of every width. *)
EXTENDS FwMark, TLAPS

TypeOK == /\ size \in Word /\ minVersion \in Word /\ checksum \in Word
          /\ phase \in {"idle", "erasing", "programming"}
          /\ goal \in Word
          /\ torn \in BOOLEAN

\* How far the words have been programmed: each is left erased until the one before
\* it is complete.
Progress ==
  \/ goal \subseteq size /\ minVersion = Bit /\ checksum = Bit
  \/ size = goal /\ checksum = Bit
  \/ size = goal /\ minVersion = Zero /\ goal \subseteq checksum

Inv == TypeOK /\ (~torn /\ phase # "erasing" => Progress)

\* A word xor zero is the word.
LEMMA XorZero == ASSUME NEW a PROVE Xor(a, Zero) = a
BY DEF Xor, Zero

\* Only zero xor a word gives all ones with all ones: an erased checksum matches no size.
LEMMA XorOnes == ASSUME NEW a \in Word, Xor(a, Bit) = Bit PROVE a = Zero
BY DEF Xor, Zero, Word

\* Between two words of the programming only the goal can be read.
LEMMA ProgressReads == ASSUME TypeOK, Progress PROVE Read \in {Zero, goal}
<1>1. CASE goal \subseteq size /\ minVersion = Bit /\ checksum = Bit
  BY <1>1, XorOnes DEF Read, Valid, TypeOK
<1>2. CASE size = goal
  BY <1>2 DEF Read
<1> QED  BY <1>1, <1>2 DEF Progress

\* Every step of storing and clearing a mark keeps the invariant.
LEMMA InvStep == Inv /\ [Next]_vars => Inv'
<1> SUFFICES ASSUME Inv, [Next]_vars PROVE Inv'
  OBVIOUS
<1> USE DEF Inv, TypeOK, Progress, Word, words
<1>1. ASSUME NEW s \in Word, StoreMark(s) PROVE Inv'
  BY <1>1 DEF StoreMark
<1>2. CASE Erase
  BY <1>2 DEF Erase
<1>3. CASE Erased
  BY <1>3 DEF Erased
<1>4. CASE ProgramSize
  <2>1. PICK bits \in Word : bits \cap goal = {} /\ size' = size \ bits
    BY <1>4 DEF ProgramSize
  <2>2. size' \in Word /\ (goal \subseteq size => goal \subseteq size')
        /\ (size = goal => size' = goal)
    BY <2>1
  <2> QED  BY <1>4, <2>2 DEF ProgramSize
<1>5. CASE ProgramMinVersion
  <2>1. minVersion' \in Word /\ (minVersion = Zero => minVersion' = Zero)
    BY <1>5 DEF ProgramMinVersion, Zero
  <2> QED  BY <1>5, <2>1 DEF ProgramMinVersion
<1>6. CASE ProgramChecksum
  <2>1. PICK bits \in Word : bits \cap goal = {} /\ checksum' = checksum \ bits
    BY <1>6, XorZero DEF ProgramChecksum
  <2>2. checksum' \in Word /\ (goal \subseteq checksum => goal \subseteq checksum')
    BY <2>1
  <2> QED  BY <1>6, <2>2 DEF ProgramChecksum
<1>7. CASE Stored
  BY <1>7 DEF Stored
<1>8. CASE PowerCut
  BY <1>8 DEF PowerCut
<1>9. CASE UNCHANGED vars
  BY <1>9 DEF vars
<1> QED
  BY <1>1, <1>2, <1>3, <1>4, <1>5, <1>6, <1>7, <1>8, <1>9 DEF Next

\* For words of any width, a mark whose programming was cut short reads as none or
\* as the size that was being stored.
THEOREM TornMarkHarmless == Spec => []ReadsGoalOrNone
<1>1. Init => Inv
  BY DEF Init, Inv, TypeOK, Progress, Word, Zero
<1>2. Inv => ReadsGoalOrNone
  BY ProgressReads DEF Inv, ReadsGoalOrNone
<1> QED  BY <1>1, <1>2, InvStep, PTL DEF Spec
=============================================================================
