------------------------------- MODULE FwMark -------------------------------
(***************************************************************************)
(* The update mark (storeMark, readMark and clearMark of                   *)
(* lib/core/updater.cpp): three words in a flash sector of their own, the  *)
(* size of FW1, a minimum version that is always 0, and their exclusive    *)
(* or.  A power loss may come while the sector is erased or programmed.    *)
(*                                                                         *)
(* A word is the set of its bits that are 1.  Flash is external: erasing   *)
(* turns bits to 1 in no particular order, programming turns bits to 0,    *)
(* word after word.                                                        *)
(***************************************************************************)

CONSTANT Bit            \* the bit positions of a word

Word == SUBSET Bit
Zero == {}
Xor(a, b) == (a \ b) \cup (b \ a)

VARIABLES size, minVersion, checksum,   \* the words in flash
          phase,                        \* "idle", "erasing" or "programming"
          goal,                         \* the size last given to storeMark
          torn                          \* was the last erasure cut short?

words == <<size, minVersion, checksum>>
vars == <<words, phase, goal, torn>>

\* A sector that was never written is erased.
Init == /\ size = Bit /\ minVersion = Bit /\ checksum = Bit
        /\ phase = "idle"
        /\ goal = Zero
        /\ torn = FALSE

\* Mutant: or for exclusive or.
ValidByOr == checksum = size \cup minVersion

Valid == checksum = Xor(size, minVersion)

\* readMark: an invalid mark reads as size 0, which means none.
Read == IF Valid THEN size ELSE Zero

\* storeMark; clearMark stores size 0.
StoreMark(s) == /\ phase = "idle"
                /\ phase' = "erasing"
                /\ goal' = s
                /\ UNCHANGED <<words, torn>>

Erase == /\ phase = "erasing"
         /\ \E a, b, c \in Word : /\ size' = size \cup a
                                  /\ minVersion' = minVersion \cup b
                                  /\ checksum' = checksum \cup c
         /\ UNCHANGED <<phase, goal, torn>>

Erased == /\ phase = "erasing"
          /\ size = Bit /\ minVersion = Bit /\ checksum = Bit
          /\ phase' = "programming"
          /\ torn' = FALSE
          /\ UNCHANGED <<words, goal>>

ProgramSize == /\ phase = "programming"
               /\ \E bits \in Word : bits \cap goal = {} /\ size' = size \ bits
               /\ UNCHANGED <<minVersion, checksum, phase, goal, torn>>

ProgramMinVersion == /\ phase = "programming"
                     /\ size = goal
                     /\ \E bits \in Word : minVersion' = minVersion \ bits
                     /\ UNCHANGED <<size, checksum, phase, goal, torn>>

ProgramChecksum ==
  /\ phase = "programming"
  /\ size = goal /\ minVersion = Zero
  /\ \E bits \in Word : bits \cap Xor(goal, Zero) = {} /\ checksum' = checksum \ bits
  /\ UNCHANGED <<size, minVersion, phase, goal, torn>>

Stored == /\ phase = "programming"
          /\ size = goal /\ minVersion = Zero /\ checksum = Xor(goal, Zero)
          /\ phase' = "idle"
          /\ UNCHANGED <<words, goal, torn>>

PowerCut == /\ phase # "idle"
            /\ phase' = "idle"
            /\ torn' = (torn \/ phase = "erasing")
            /\ UNCHANGED <<words, goal>>

Next == \/ \E s \in Word : StoreMark(s)
        \/ Erase \/ Erased
        \/ ProgramSize \/ ProgramMinVersion \/ ProgramChecksum \/ Stored
        \/ PowerCut

Spec == Init /\ [][Next]_vars

-----------------------------------------------------------------------------

\* However the programming of the mark is cut short, the mark reads as none or as
\* the size that was being stored, never as another size.  (A cut in the middle of
\* an erasure is excluded: the bits it leaves may happen to be valid.)
ReadsGoalOrNone == ~torn /\ phase # "erasing" => Read \in {Zero, goal}
=============================================================================
