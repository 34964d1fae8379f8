--------------------------- MODULE UpdaterProofs ---------------------------
(***************************************************************************)
(* Theorems about Updater, for every set of images.                        *)
(*                                                                         *)
(* What an update may break shows only across boots, so the properties     *)
(* are not inductive.  The invariants below say how far the one update of  *)
(* a boot has come (OneUpdate), which ROM is configured (RomInv), which    *)
(* slots are complete (SlotInv), that no update is under way while a mark  *)
(* is set (MarkFree), what CPU1 was told (AnswerInv), and what the mark    *)
(* and the region hold for CPU1 (MarkInv).  Each needs some of the three   *)
(* conditions below, and a theorem names those it needs.                   *)
(***************************************************************************)
EXTENDS Updater, TLAPS

\* CPU1 asks for one update between two boots, and for none while a mark is set.
OneOta == MaxOtas = 1 /\ ~OtaWhilePending

\* The server never answers the request for FW2 with nothing.
Fw2Answered == "FW2" \notin EmptyAnswers

\* The server never offers FW2 alone.
Fw2NotAlone == {"FW2"} \notin Offers

\* The other slot is a slot, and another one.
LEMMA SlotFacts ==
  /\ 0 \in Slot /\ 1 \in Slot
  /\ \A slot \in Slot : Other(slot) \in Slot /\ Other(slot) # slot
BY DEF Slot, Other

\* No step of the updater takes a variable out of its type.
LEMMA TypeStep == TypeOK /\ [Next]_vars => TypeOK'
<1> SUFFICES ASSUME TypeOK, [Next]_vars PROVE TypeOK'
  OBVIOUS
<1> USE ImageAssumption DEF TypeOK
<1>1. CASE PowerCycle
  BY <1>1 DEF PowerCycle, flash, boot, fetching
<1>2. CASE Restart
  BY <1>2 DEF Restart, flash, boot, fetching
<1>3. CASE Boot
  <2>1. checks' \in 0..otas' /\ otas' \in 0..MaxOtas
    BY <1>3 DEF Boot
  <2>2. running' \in Slot /\ bootConfig' \in Slot
    BY <1>3 DEF Boot
  <2>3. phase' \in {"off", "connecting", "ready"}
    BY <1>3 DEF Boot
  <2>4. fw' \subseteq FwType /\ offered' \subseteq FwType /\ items' \subseteq offered'
    BY <1>3 DEF Boot
  <2> QED  BY <1>3, <2>1, <2>2, <2>3, <2>4 DEF Boot, flash
<1>4. CASE TsbUnreachable
  BY <1>4 DEF TsbUnreachable, postVars, boot, fetching
<1>5. CASE TsbBegin
  BY <1>5 DEF TsbBegin, postVars, boot, fetching
<1>6. CASE TsbAborted
  BY <1>6 DEF TsbAborted, postVars, boot, fetching
<1>7. CASE TsbProgrammed
  BY <1>7 DEF TsbProgrammed, postVars, boot, fetching
<1>8. CASE ClearMark
  BY <1>8 DEF ClearMark, postVars, boot, fetching
<1>9. CASE OtaNoMemory
  BY <1>9 DEF OtaNoMemory, OtaCommand, OtaVars, flash, boot, fetching
<1>10. CASE OtaUpdate
  BY <1>10 DEF OtaUpdate, SendCheck, OtaCommand, OtaVars, updater, flash, boot
<1>11. CASE CheckFailed
  BY <1>11 DEF CheckFailed, OtaVars, updater, flash, boot
<1>12. ASSUME NEW offer \in Offers, CheckDone(offer) PROVE TypeOK'
  <2>1. offer \subseteq FwType
    BY DEF FwType
  <2>2. UNCHANGED <<flash, tempRom, phase, boot, restarting, signal, otas>>
        /\ checks' \in 0..otas
    BY <1>12 DEF CheckDone, OtaVars
  <2>3. CASE offer = {}
    BY <1>12, <2>2, <2>3 DEF CheckDone, DoUpdate, updater, flash, boot
  <2>4. CASE offer # {}
    BY <1>12, <2>1, <2>2, <2>4 DEF CheckDone, DoUpdate, flash, boot
  <2> QED  BY <2>3, <2>4
<1>13. CASE FetchBegin
  BY <1>13 DEF FetchBegin, fetchVars, boot
<1>14. CASE FetchEmpty
  BY <1>14 DEF FetchEmpty, Fetched, fetchVars, boot
<1>15. CASE FetchFailed
  BY <1>15 DEF FetchFailed, fetchVars, boot
<1>16. ASSUME NEW i \in Image, FetchDone(i) PROVE TypeOK'
  BY <1>16, SlotFacts DEF FetchDone, Fetched, fetchVars, boot, TargetSlot
<1>17. CASE UpdateCallBack
  BY <1>17, SlotFacts DEF UpdateCallBack, flash, boot, TargetSlot
<1>18. CASE SwitchRom
  BY <1>18, SlotFacts DEF SwitchRom, boot, fetching, TargetSlot
<1>19. CASE Crash
  BY <1>19 DEF Crash, markingVars, boot, fetching
<1>20. ASSUME NEW size \in Image \cup {Empty, Garbage}, StoreMark(size) PROVE TypeOK'
  BY <1>20 DEF StoreMark, markingVars, boot, fetching
<1>21. CASE UNCHANGED vars
  BY <1>21 DEF vars, flash, boot, fetching
<1> QED
  BY <1>1, <1>2, <1>3, <1>4, <1>5, <1>6, <1>7, <1>8, <1>9, <1>10, <1>11, <1>12, <1>13,
     <1>14, <1>15, <1>16, <1>17, <1>18, <1>19, <1>20, <1>21
  DEF Next, PostUpdate, Check, Fetch, Apply

\* Every variable of the updater keeps its type, whatever CPU1, the server and the
\* power supply do.
THEOREM TypeCorrect == Spec => []TypeOK
<1>1. Init => TypeOK
  <2> SUFFICES ASSUME Init PROVE TypeOK
    OBVIOUS
  <2>1. checks \in 0..otas /\ otas \in 0..MaxOtas
    BY ImageAssumption DEF Init
  <2>2. intact \subseteq Slot /\ fw \subseteq FwType /\ offered \subseteq FwType
        /\ items \subseteq offered
    BY DEF Init, Slot
  <2> QED  BY <2>1, <2>2, SlotFacts DEF Init, TypeOK
<1> QED  BY <1>1, TypeStep, PTL DEF Spec

-----------------------------------------------------------------------------
(* The inductive invariant *)

\* How far the one update of this boot has come.
OneUpdate ==
  /\ fw = offered
  /\ otas = 0 => checks = 0 /\ fw = {}
  /\ checks > 0 => fw = {} /\ phase \in {"ready", "off"}
  /\ download # "none" => fw # {}
  /\ download \in {"requested", "writing"} => items # {}
  /\ download = "complete" => items = {}
  /\ phase \in {"switching", "marking"} => download = "none" /\ items = {} /\ fw # {}

\* The configured ROM is the one read at the boot, until an update with FW2 has been
\* fetched, and then nothing more is fetched.
RomInv ==
  /\ phase = "off" \/ bootConfig = currentRom
       \/ ("FW2" \in fw /\ checks = 0 /\ download = "none")
  /\ phase = "switching" => "FW2" \in fw

\* The configured slot is complete, and the other one once FW2 has been fetched.
SlotInv ==
  /\ currentRom \in intact
  /\ ("FW2" \in offered \ items /\ (download # "none" \/ phase = "switching"))
       => TargetSlot \in intact

\* No update is under way while a mark is set.
MarkFree ==
  checks > 0 \/ download # "none" \/ phase \in {"switching", "marking"} => mark = None

\* What CPU1 has been told, and that nothing follows an 'X' before the next boot.
AnswerInv ==
  /\ phase # "off" /\ ~restarting => tempRom = None
  /\ signal = "X" => /\ NoResetMeansNoChange
                     /\ checks = 0 /\ download = "none" /\ phase \in {"ready", "off"}
                     /\ otas = 1

\* What awaits installation, and what CPU1 runs.
MarkInv ==
  /\ offered # {"FW2"}
  /\ mark # None => mark \in Image /\ region = mark
  /\ fw1Size # Empty => region = fw1Size /\ items = {}
  /\ cpu1 \in Image \/ (cpu1 = Partial /\ mark # None)
  /\ phase \in {"connecting", "programming", "programmed"} => mark # None
  /\ phase = "programming" => cpu1 = Partial
  /\ phase = "programmed" => cpu1 = mark

\* With one update command a boot, at most one check and one download follow it.
LEMMA OneUpdateStep ==
  ASSUME MaxOtas = 1, TypeOK, OneUpdate, [Next]_vars
  PROVE  OneUpdate'
<1> USE ImageAssumption DEF TypeOK, OneUpdate
<1>1. CASE PowerCycle
  BY <1>1 DEF PowerCycle, flash, boot, fetching
<1>2. CASE Restart
  BY <1>2 DEF Restart, flash, boot, fetching
<1>3. CASE Boot
  BY <1>3 DEF Boot, Pending, flash
<1>4. CASE TsbUnreachable
  BY <1>4 DEF TsbUnreachable, postVars, boot, fetching
<1>5. CASE TsbBegin
  BY <1>5 DEF TsbBegin, postVars, boot, fetching
<1>6. CASE TsbAborted
  BY <1>6 DEF TsbAborted, postVars, boot, fetching
<1>7. CASE TsbProgrammed
  BY <1>7 DEF TsbProgrammed, postVars, boot, fetching
<1>8. CASE ClearMark
  BY <1>8 DEF ClearMark, postVars, boot, fetching
<1>9. CASE OtaNoMemory
  BY <1>9 DEF OtaNoMemory, OtaCommand, Awake, OtaVars, flash, boot, fetching
<1>10. CASE OtaUpdate
  BY <1>10 DEF OtaUpdate, SendCheck, OtaCommand, Awake, OtaVars, updater, flash, boot
<1>11. CASE CheckFailed
  BY <1>11 DEF CheckFailed, Awake, OtaVars, updater, flash, boot
<1>12. ASSUME NEW offer \in Offers, CheckDone(offer) PROVE OneUpdate'
  <2>1. /\ phase = "ready" /\ phase' = "ready" /\ otas' = otas
        /\ checks = 1 /\ checks' = 0 /\ otas # 0 /\ fw = {}
    BY <1>12 DEF CheckDone, Awake, OtaVars
  <2>2. CASE offer = {}
    BY <1>12, <2>1, <2>2 DEF CheckDone, DoUpdate, updater
  <2>3. CASE offer # {}
    <3>1. /\ fw' = fw \cup offer /\ offered' = offer /\ items' = offer
          /\ download' = "requested"
      BY <1>12, <2>3 DEF CheckDone, DoUpdate
    <3>2. fw' = offered'
      BY <2>1, <3>1
    <3> QED  BY <2>1, <2>3, <3>1, <3>2
  <2> QED  BY <2>2, <2>3
<1>13. CASE FetchBegin
  BY <1>13 DEF FetchBegin, Awake, fetchVars, boot
<1>14. CASE FetchEmpty
  BY <1>14 DEF FetchEmpty, Fetched, Awake, fetchVars, boot
<1>15. CASE FetchFailed
  BY <1>15 DEF FetchFailed, Awake, fetchVars, boot
<1>16. ASSUME NEW i \in Image, FetchDone(i) PROVE OneUpdate'
  BY <1>16 DEF FetchDone, Fetched, Awake, fetchVars, boot
<1>17. CASE UpdateCallBack
  BY <1>17 DEF UpdateCallBack, Awake, flash, boot
<1>18. CASE SwitchRom
  BY <1>18 DEF SwitchRom, boot, fetching
<1>19. CASE Crash
  BY <1>19 DEF Crash, markingVars, boot, fetching
<1>20. ASSUME NEW size \in Image \cup {Empty, Garbage}, StoreMark(size) PROVE OneUpdate'
  BY <1>20 DEF StoreMark, markingVars, boot, fetching
<1>21. CASE UNCHANGED vars
  BY <1>21 DEF vars, flash, boot, fetching
<1> QED
  BY <1>1, <1>2, <1>3, <1>4, <1>5, <1>6, <1>7, <1>8, <1>9, <1>10, <1>11,
     <1>12, <1>13, <1>14, <1>15, <1>16, <1>17, <1>18, <1>19, <1>20, <1>21
  DEF Next, PostUpdate, Check, Fetch, Apply

\* Only an update with FW2 that has been fetched switches the configured ROM.
LEMMA RomInvStep ==
  ASSUME MaxOtas = 1, TypeOK, OneUpdate, RomInv, [Next]_vars
  PROVE  RomInv'
<1> USE ImageAssumption, SlotFacts DEF TypeOK, OneUpdate, RomInv, TargetSlot
<1>1. CASE PowerCycle
  BY <1>1 DEF PowerCycle, flash, boot, fetching
<1>2. CASE Restart
  BY <1>2 DEF Restart, flash, boot, fetching
<1>3. CASE Boot
  BY <1>3 DEF Boot, Pending, flash
<1>4. CASE TsbUnreachable
  BY <1>4 DEF TsbUnreachable, postVars, boot, fetching
<1>5. CASE TsbBegin
  BY <1>5 DEF TsbBegin, postVars, boot, fetching
<1>6. CASE TsbAborted
  BY <1>6 DEF TsbAborted, postVars, boot, fetching
<1>7. CASE TsbProgrammed
  BY <1>7 DEF TsbProgrammed, postVars, boot, fetching
<1>8. CASE ClearMark
  BY <1>8 DEF ClearMark, postVars, boot, fetching
<1>9. CASE OtaNoMemory
  BY <1>9 DEF OtaNoMemory, OtaCommand, Awake, OtaVars, flash, boot, fetching
<1>10. CASE OtaUpdate
  BY <1>10 DEF OtaUpdate, SendCheck, OtaCommand, Awake, OtaVars, updater, flash, boot
<1>11. CASE CheckFailed
  BY <1>11 DEF CheckFailed, Awake, OtaVars, updater, flash, boot
<1>12. ASSUME NEW offer \in Offers, CheckDone(offer) PROVE RomInv'
  BY <1>12 DEF CheckDone, DoUpdate, Awake, OtaVars, updater, flash, boot
<1>13. CASE FetchBegin
  BY <1>13 DEF FetchBegin, Awake, fetchVars, boot
<1>14. CASE FetchEmpty
  BY <1>14 DEF FetchEmpty, Fetched, Awake, fetchVars, boot
<1>15. CASE FetchFailed
  BY <1>15 DEF FetchFailed, Awake, fetchVars, boot
<1>16. ASSUME NEW i \in Image, FetchDone(i) PROVE RomInv'
  BY <1>16 DEF FetchDone, Fetched, Awake, fetchVars, boot
<1>17. CASE UpdateCallBack
  BY <1>17 DEF UpdateCallBack, Awake, flash, boot
<1>18. CASE SwitchRom
  BY <1>18 DEF SwitchRom, boot, fetching
<1>19. CASE Crash
  BY <1>19 DEF Crash, markingVars, boot, fetching
<1>20. ASSUME NEW size \in Image \cup {Empty, Garbage}, StoreMark(size) PROVE RomInv'
  BY <1>20 DEF StoreMark, markingVars, boot, fetching
<1>21. CASE UNCHANGED vars
  BY <1>21 DEF vars, flash, boot, fetching
<1> QED
  BY <1>1, <1>2, <1>3, <1>4, <1>5, <1>6, <1>7, <1>8, <1>9, <1>10, <1>11,
     <1>12, <1>13, <1>14, <1>15, <1>16, <1>17, <1>18, <1>19, <1>20, <1>21
  DEF Next, PostUpdate, Check, Fetch, Apply

\* Every step that writes or switches a slot leaves the configured one complete.
LEMMA SlotInvStep ==
  ASSUME MaxOtas = 1, Fw2Answered, TypeOK, OneUpdate, RomInv, SlotInv, [Next]_vars
  PROVE  SlotInv'
<1> USE ImageAssumption, SlotFacts DEF Fw2Answered, TypeOK, OneUpdate, RomInv, SlotInv, TargetSlot
<1>1. CASE PowerCycle
  BY <1>1 DEF PowerCycle, flash, boot, fetching
<1>2. CASE Restart
  BY <1>2 DEF Restart, flash, boot, fetching
<1>3. CASE Boot
  BY <1>3 DEF Boot, Pending, flash
<1>4. CASE TsbUnreachable
  BY <1>4 DEF TsbUnreachable, postVars, boot, fetching
<1>5. CASE TsbBegin
  BY <1>5 DEF TsbBegin, postVars, boot, fetching
<1>6. CASE TsbAborted
  BY <1>6 DEF TsbAborted, postVars, boot, fetching
<1>7. CASE TsbProgrammed
  BY <1>7 DEF TsbProgrammed, postVars, boot, fetching
<1>8. CASE ClearMark
  BY <1>8 DEF ClearMark, postVars, boot, fetching
<1>9. CASE OtaNoMemory
  BY <1>9 DEF OtaNoMemory, OtaCommand, Awake, OtaVars, flash, boot, fetching
<1>10. CASE OtaUpdate
  BY <1>10 DEF OtaUpdate, SendCheck, OtaCommand, Awake, OtaVars, updater, flash, boot
<1>11. CASE CheckFailed
  BY <1>11 DEF CheckFailed, Awake, OtaVars, updater, flash, boot
<1>12. ASSUME NEW offer \in Offers, CheckDone(offer) PROVE SlotInv'
  BY <1>12 DEF CheckDone, DoUpdate, Awake, OtaVars, updater, flash, boot
<1>13. CASE FetchBegin
  <2>1. bootConfig = currentRom /\ currentRom \in intact
    BY <1>13 DEF FetchBegin, Awake
  <2>2. currentRom \in intact'
    BY <1>13, <2>1 DEF FetchBegin
  <2>3. CASE Item = "FW2"
    <3>1. "FW2" \in items
      BY <2>3 DEF Item
    <3> QED  BY <1>13, <2>2, <3>1 DEF FetchBegin, Awake, fetchVars, boot
  <2>4. CASE Item # "FW2"
    BY <1>13, <2>2, <2>4 DEF FetchBegin, Awake, fetchVars, boot
  <2> QED  BY <2>3, <2>4
<1>14. CASE FetchEmpty
  <2>1. Item # "FW2"
    BY <1>14 DEF FetchEmpty
  <2> QED  BY <1>14, <2>1 DEF FetchEmpty, Fetched, Awake, fetchVars, boot
<1>15. CASE FetchFailed
  BY <1>15 DEF FetchFailed, Awake, fetchVars, boot
<1>16. ASSUME NEW i \in Image, FetchDone(i) PROVE SlotInv'
  BY <1>16 DEF FetchDone, Fetched, Awake, fetchVars, boot
<1>17. CASE UpdateCallBack
  BY <1>17 DEF UpdateCallBack, Awake, flash, boot
<1>18. CASE SwitchRom
  BY <1>18 DEF SwitchRom, boot, fetching
<1>19. CASE Crash
  BY <1>19 DEF Crash, markingVars, boot, fetching
<1>20. ASSUME NEW size \in Image \cup {Empty, Garbage}, StoreMark(size) PROVE SlotInv'
  BY <1>20 DEF StoreMark, markingVars, boot, fetching
<1>21. CASE UNCHANGED vars
  BY <1>21 DEF vars, flash, boot, fetching
<1> QED
  BY <1>1, <1>2, <1>3, <1>4, <1>5, <1>6, <1>7, <1>8, <1>9, <1>10, <1>11,
     <1>12, <1>13, <1>14, <1>15, <1>16, <1>17, <1>18, <1>19, <1>20, <1>21
  DEF Next, PostUpdate, Check, Fetch, Apply

\* No update is asked for while a mark is set, and none is under way at a boot.
LEMMA MarkFreeStep ==
  ASSUME OneOta, TypeOK, OneUpdate, MarkFree, [Next]_vars
  PROVE  MarkFree'
<1> USE ImageAssumption DEF OneOta, TypeOK, OneUpdate, MarkFree
<1>1. CASE PowerCycle
  BY <1>1 DEF PowerCycle, flash, boot, fetching
<1>2. CASE Restart
  BY <1>2 DEF Restart, flash, boot, fetching
<1>3. CASE Boot
  BY <1>3 DEF Boot, Pending, flash
<1>4. CASE TsbUnreachable
  BY <1>4 DEF TsbUnreachable, postVars, boot, fetching
<1>5. CASE TsbBegin
  BY <1>5 DEF TsbBegin, postVars, boot, fetching
<1>6. CASE TsbAborted
  BY <1>6 DEF TsbAborted, postVars, boot, fetching
<1>7. CASE TsbProgrammed
  BY <1>7 DEF TsbProgrammed, postVars, boot, fetching
<1>8. CASE ClearMark
  BY <1>8 DEF ClearMark, postVars, boot, fetching
<1>9. CASE OtaNoMemory
  BY <1>9 DEF OtaNoMemory, OtaCommand, Awake, OtaVars, flash, boot, fetching
<1>10. CASE OtaUpdate
  BY <1>10 DEF OtaUpdate, SendCheck, OtaCommand, Awake, OtaVars, updater, flash, boot
<1>11. CASE CheckFailed
  BY <1>11 DEF CheckFailed, Awake, OtaVars, updater, flash, boot
<1>12. ASSUME NEW offer \in Offers, CheckDone(offer) PROVE MarkFree'
  BY <1>12 DEF CheckDone, DoUpdate, Awake, OtaVars, updater, flash, boot
<1>13. CASE FetchBegin
  BY <1>13 DEF FetchBegin, Awake, fetchVars, boot
<1>14. CASE FetchEmpty
  BY <1>14 DEF FetchEmpty, Fetched, Awake, fetchVars, boot
<1>15. CASE FetchFailed
  BY <1>15 DEF FetchFailed, Awake, fetchVars, boot
<1>16. ASSUME NEW i \in Image, FetchDone(i) PROVE MarkFree'
  BY <1>16 DEF FetchDone, Fetched, Awake, fetchVars, boot
<1>17. CASE UpdateCallBack
  BY <1>17 DEF UpdateCallBack, Awake, flash, boot
<1>18. CASE SwitchRom
  BY <1>18 DEF SwitchRom, boot, fetching
<1>19. CASE Crash
  BY <1>19 DEF Crash, markingVars, boot, fetching
<1>20. ASSUME NEW size \in Image \cup {Empty, Garbage}, StoreMark(size) PROVE MarkFree'
  BY <1>20 DEF StoreMark, markingVars, boot, fetching
<1>21. CASE UNCHANGED vars
  BY <1>21 DEF vars, flash, boot, fetching
<1> QED
  BY <1>1, <1>2, <1>3, <1>4, <1>5, <1>6, <1>7, <1>8, <1>9, <1>10, <1>11,
     <1>12, <1>13, <1>14, <1>15, <1>16, <1>17, <1>18, <1>19, <1>20, <1>21
  DEF Next, PostUpdate, Check, Fetch, Apply

\* After an 'X' no step changes anything before the next boot.
LEMMA AnswerInvStep ==
  ASSUME OneOta, TypeOK, OneUpdate, RomInv, MarkFree, AnswerInv, [Next]_vars
  PROVE  AnswerInv'
<1> USE ImageAssumption DEF OneOta, TypeOK, OneUpdate, RomInv, MarkFree, AnswerInv,
       NoResetMeansNoChange
<1>1. CASE PowerCycle
  BY <1>1 DEF PowerCycle, flash, boot, fetching
<1>2. CASE Restart
  BY <1>2 DEF Restart, flash, boot, fetching
<1>3. CASE Boot
  <2>1. tempRom' = None /\ signal' = "none"
    BY <1>3 DEF Boot
  <2>2. phase' \in {"off", "connecting", "ready"}
    BY <1>3 DEF Boot
  <2> QED  BY <2>1, <2>2
<1>4. CASE TsbUnreachable
  BY <1>4 DEF TsbUnreachable, postVars, boot, fetching
<1>5. CASE TsbBegin
  BY <1>5 DEF TsbBegin, postVars, boot, fetching
<1>6. CASE TsbAborted
  BY <1>6 DEF TsbAborted, postVars, boot, fetching
<1>7. CASE TsbProgrammed
  BY <1>7 DEF TsbProgrammed, postVars, boot, fetching
<1>8. CASE ClearMark
  BY <1>8 DEF ClearMark, postVars, boot, fetching
<1>9. CASE OtaNoMemory
  BY <1>9 DEF OtaNoMemory, OtaCommand, Awake, OtaVars, flash, boot, fetching
<1>10. CASE OtaUpdate
  BY <1>10 DEF OtaUpdate, SendCheck, OtaCommand, Awake, OtaVars, updater, flash, boot
<1>11. CASE CheckFailed
  BY <1>11 DEF CheckFailed, Awake, OtaVars, updater, flash, boot
<1>12. ASSUME NEW offer \in Offers, CheckDone(offer) PROVE AnswerInv'
  BY <1>12 DEF CheckDone, DoUpdate, Awake, OtaVars, updater, flash, boot
<1>13. CASE FetchBegin
  BY <1>13 DEF FetchBegin, Awake, fetchVars, boot
<1>14. CASE FetchEmpty
  BY <1>14 DEF FetchEmpty, Fetched, Awake, fetchVars, boot
<1>15. CASE FetchFailed
  BY <1>15 DEF FetchFailed, Awake, fetchVars, boot
<1>16. ASSUME NEW i \in Image, FetchDone(i) PROVE AnswerInv'
  BY <1>16 DEF FetchDone, Fetched, Awake, fetchVars, boot
<1>17. CASE UpdateCallBack
  BY <1>17 DEF UpdateCallBack, OnlyFw2, Awake, flash, boot
<1>18. CASE SwitchRom
  BY <1>18 DEF SwitchRom, boot, fetching
<1>19. CASE Crash
  BY <1>19 DEF Crash, markingVars, boot, fetching
<1>20. ASSUME NEW size \in Image \cup {Empty, Garbage}, StoreMark(size) PROVE AnswerInv'
  <2>1. phase = "marking" /\ phase' = "ready" /\ mark = None /\ checks = 0
        /\ download = "none" /\ otas = 1
    BY <1>20 DEF StoreMark
  <2>2. /\ UNCHANGED <<checks, download, otas, tempRom, currentRom, bootConfig>>
        /\ restarting' = (restarting \/ "FW2" \in fw)
        /\ signal' = "X" => mark' = mark
    BY <1>20 DEF StoreMark, RestartAsked, markingVars, boot, fetching
  <2>3. restarting' \/ (tempRom' = None /\ currentRom' = bootConfig')
    BY <2>1, <2>2
  <2> QED  BY <2>1, <2>2, <2>3
<1>21. CASE UNCHANGED vars
  BY <1>21 DEF vars, flash, boot, fetching
<1> QED
  BY <1>1, <1>2, <1>3, <1>4, <1>5, <1>6, <1>7, <1>8, <1>9, <1>10, <1>11,
     <1>12, <1>13, <1>14, <1>15, <1>16, <1>17, <1>18, <1>19, <1>20, <1>21
  DEF Next, PostUpdate, Check, Fetch, Apply

\* FW2 is never offered alone, so getItem(1) is within the items.
LEMMA ItemIsThere == TypeOK /\ OneUpdate /\ MarkInv => ItemExists
<1> SUFFICES ASSUME TypeOK, OneUpdate, MarkInv, "FW2" \in fw PROVE offered = FwType
  BY DEF ItemExists
<1>1. "FW2" \in offered /\ offered \subseteq FwType /\ offered # {"FW2"}
  BY DEF TypeOK, OneUpdate, MarkInv
<1> QED  BY <1>1 DEF FwType

\* Every step that writes the region, the mark or CPU1 keeps the three consistent.
LEMMA MarkInvStep ==
  ASSUME OneOta, Fw2NotAlone, TypeOK, OneUpdate, MarkFree, MarkInv, [Next]_vars
  PROVE  MarkInv'
<1> USE ImageAssumption DEF OneOta, Fw2NotAlone, TypeOK, OneUpdate, MarkFree, MarkInv
<1>1. CASE PowerCycle
  BY <1>1 DEF PowerCycle, flash, boot, fetching
<1>2. CASE Restart
  BY <1>2 DEF Restart, flash, boot, fetching
<1>3. CASE Boot
  BY <1>3 DEF Boot, Pending, flash
<1>4. CASE TsbUnreachable
  BY <1>4 DEF TsbUnreachable, postVars, boot, fetching
<1>5. CASE TsbBegin
  BY <1>5 DEF TsbBegin, postVars, boot, fetching
<1>6. CASE TsbAborted
  BY <1>6 DEF TsbAborted, postVars, boot, fetching
<1>7. CASE TsbProgrammed
  BY <1>7 DEF TsbProgrammed, postVars, boot, fetching
<1>8. CASE ClearMark
  BY <1>8 DEF ClearMark, postVars, boot, fetching
<1>9. CASE OtaNoMemory
  BY <1>9 DEF OtaNoMemory, OtaCommand, Awake, OtaVars, flash, boot, fetching
<1>10. CASE OtaUpdate
  BY <1>10 DEF OtaUpdate, SendCheck, OtaCommand, Awake, OtaVars, updater, flash, boot
<1>11. CASE CheckFailed
  BY <1>11 DEF CheckFailed, Awake, OtaVars, updater, flash, boot
<1>12. ASSUME NEW offer \in Offers, CheckDone(offer) PROVE MarkInv'
  BY <1>12 DEF CheckDone, DoUpdate, Awake, OtaVars, updater, flash, boot
<1>13. CASE FetchBegin
  BY <1>13 DEF FetchBegin, Awake, fetchVars, boot
<1>14. CASE FetchEmpty
  BY <1>14 DEF FetchEmpty, Fetched, Awake, fetchVars, boot
<1>15. CASE FetchFailed
  BY <1>15 DEF FetchFailed, Awake, fetchVars, boot
<1>16. ASSUME NEW i \in Image, FetchDone(i) PROVE MarkInv'
  <2>1. items # {} /\ fw1Size = Empty /\ mark = None
    BY <1>16 DEF FetchDone, Awake
  <2>2. Item # "FW2" => items \ {Item} = {}
    BY DEF Item, FwType
  <2> QED  BY <1>16, <2>1, <2>2 DEF FetchDone, Fetched, Awake, fetchVars, boot
<1>17. CASE UpdateCallBack
  BY <1>17 DEF UpdateCallBack, Awake, flash, boot
<1>18. CASE SwitchRom
  BY <1>18 DEF SwitchRom, boot, fetching
<1>19. CASE Crash
  BY <1>19 DEF Crash, markingVars, boot, fetching
<1>20. ASSUME NEW size \in Image \cup {Empty, Garbage}, StoreMark(size) PROVE MarkInv'
  <2>1. size = fw1Size
    BY <1>20, ItemIsThere DEF StoreMark, ItemSizes
  <2>2. mark = None /\ download = "none" /\ checks = 0
    BY <1>20 DEF StoreMark
  <2>3. size # Empty => size \in Image /\ region = size
    BY <2>1
  <2> QED  BY <1>20, <2>2, <2>3 DEF StoreMark, markingVars, boot, fetching
<1>21. CASE UNCHANGED vars
  BY <1>21 DEF vars, flash, boot, fetching
<1> QED
  BY <1>1, <1>2, <1>3, <1>4, <1>5, <1>6, <1>7, <1>8, <1>9, <1>10, <1>11,
     <1>12, <1>13, <1>14, <1>15, <1>16, <1>17, <1>18, <1>19, <1>20, <1>21
  DEF Next, PostUpdate, Check, Fetch, Apply

\* A factory-fresh device satisfies the invariants.
LEMMA InvInitially ==
  Init => OneUpdate /\ RomInv /\ SlotInv /\ MarkFree /\ AnswerInv /\ MarkInv
<1> SUFFICES ASSUME Init
             PROVE  OneUpdate /\ RomInv /\ SlotInv /\ MarkFree /\ AnswerInv /\ MarkInv
  OBVIOUS
<1>1. OneUpdate /\ RomInv /\ MarkFree
  BY DEF Init, OneUpdate, RomInv, MarkFree
<1>2. SlotInv
  BY DEF Init, SlotInv
<1>3. AnswerInv
  BY DEF Init, AnswerInv
<1>4. MarkInv
  BY DEF Init, MarkInv
<1> QED  BY <1>1, <1>2, <1>3, <1>4

\* One update command between two boots is enough for these two.
LEMMA UpdateAlways == ASSUME MaxOtas = 1 PROVE Spec => [](OneUpdate /\ RomInv)
<1>1. TypeOK /\ OneUpdate /\ RomInv /\ [Next]_vars => (OneUpdate /\ RomInv)'
  BY OneUpdateStep, RomInvStep
<1> QED  BY <1>1, InvInitially, TypeCorrect, PTL DEF Spec

\* And none while a mark is set, for the one about marks.
LEMMA MarkFreeAlways == ASSUME OneOta PROVE Spec => []MarkFree
<1>1. MaxOtas = 1
  BY DEF OneOta
<1>2. TypeOK /\ OneUpdate /\ MarkFree /\ [Next]_vars => MarkFree'
  BY MarkFreeStep
<1> QED  BY <1>1, <1>2, InvInitially, UpdateAlways, TypeCorrect, PTL DEF Spec

\* What a delivery rests on: the mark and the region are of FW1 items that exist.
LEMMA MarkAlways == ASSUME OneOta, Fw2NotAlone PROVE Spec => []MarkInv
<1>1. MaxOtas = 1
  BY DEF OneOta
<1>2. TypeOK /\ OneUpdate /\ MarkFree /\ MarkInv /\ [Next]_vars => MarkInv'
  BY MarkInvStep
<1> QED  BY <1>1, <1>2, InvInitially, UpdateAlways, MarkFreeAlways, TypeCorrect, PTL DEF Spec

-----------------------------------------------------------------------------
(* The properties *)

\* If CPU1 asks for one update between two boots and the server never answers FW2's
\* request with nothing, the slot that rBoot boots is complete at every instant: whenever
\* the power fails, the restart comes or a download breaks off, with FW2 alone or not, and
\* whether a mark is set or not.
THEOREM AlwaysBootable ==
  ASSUME MaxOtas = 1, Fw2Answered PROVE Spec => []Bootable
<1>1. TypeOK /\ OneUpdate /\ RomInv /\ SlotInv /\ [Next]_vars => SlotInv'
  BY SlotInvStep
<1>2. SlotInv => Bootable
  BY DEF SlotInv, Bootable
<1> QED  BY <1>1, <1>2, InvInitially, UpdateAlways, TypeCorrect, PTL DEF Spec

\* If CPU1 asks for one update between two boots and none while a mark is set, and the
\* server never offers FW2 alone, CPU1 runs an image or can be given one.
THEOREM AlwaysRecoverable ==
  ASSUME OneOta, Fw2NotAlone PROVE Spec => []Cpu1Recoverable
<1>1. MarkInv => Cpu1Recoverable
  BY ImageAssumption DEF MarkInv, Cpu1Recoverable
<1> QED  BY <1>1, MarkAlways, PTL

\* If CPU1 asks for one update between two boots and none while a mark is set, it is told
\* not to reset only when nothing awaits it and a change of ROM has its restart: whatever
\* the server offers and answers.
THEOREM NoResetSound == ASSUME OneOta PROVE Spec => []NoResetMeansNoChange
<1>1. MaxOtas = 1
  BY DEF OneOta
<1>2. TypeOK /\ OneUpdate /\ RomInv /\ MarkFree /\ AnswerInv /\ [Next]_vars => AnswerInv'
  BY AnswerInvStep
<1>3. AnswerInv => NoResetMeansNoChange
  BY DEF AnswerInv, NoResetMeansNoChange
<1> QED
  BY <1>1, <1>2, <1>3, InvInitially, UpdateAlways, MarkFreeAlways, TypeCorrect, PTL DEF Spec

\* However many updates a boot makes, the running slot is not overwritten unless it
\* was booted as a temporary ROM.
THEOREM RunningSlotKept == Spec => []RunningIntact
<1>1. Init => RunningIntact
  BY DEF Init, RunningIntact
<1>2. TypeOK /\ RunningIntact /\ [Next]_vars => RunningIntact'
  <2> SUFFICES ASSUME TypeOK, RunningIntact, [Next]_vars PROVE RunningIntact'
    OBVIOUS
  <2> USE DEF RunningIntact
  <2>1. CASE Boot
    <3>1. running' \in intact \/ phase' = "off"
      BY <2>1 DEF Boot
    <3> QED  BY <2>1, <3>1 DEF Boot, flash
  <2>2. CASE FetchBegin
    <3>1. running' = running /\ bootConfig' = bootConfig /\ phase' = phase
      BY <2>2 DEF FetchBegin, fetchVars, boot
    <3>2. running = bootConfig => running # TargetSlot
      BY SlotFacts DEF TargetSlot, TypeOK
    <3> QED  BY <2>2, <3>1, <3>2 DEF FetchBegin
  <2>3. CASE PowerCycle \/ Restart
    BY <2>3 DEF PowerCycle, Restart
  <2>4. CASE PostUpdate
    BY <2>4 DEF PostUpdate, TsbUnreachable, TsbBegin, TsbAborted, TsbProgrammed,
                ClearMark, postVars, boot
  <2>5. CASE Check
    BY <2>5 DEF Check, OtaNoMemory, OtaUpdate, CheckFailed, CheckDone, DoUpdate, OtaVars, flash, boot
  <2>6. CASE FetchEmpty \/ FetchFailed \/ \E i \in Image : FetchDone(i)
    BY <2>6 DEF FetchEmpty, FetchFailed, FetchDone, fetchVars, boot
  <2>7. CASE Apply
    BY <2>7 DEF Apply, UpdateCallBack, Awake, SwitchRom, Crash, StoreMark, markingVars, flash, boot
  <2>8. CASE UNCHANGED vars
    BY <2>8 DEF vars, flash, boot
  <2> QED  BY <2>1, <2>2, <2>3, <2>4, <2>5, <2>6, <2>7, <2>8 DEF Next, Fetch
<1> QED  BY <1>1, <1>2, TypeCorrect, PTL DEF Spec

\* When the bootloader has taken all the bytes, CPU1 is not half-written any more.
Programmed == phase = "programmed" => cpu1 # Partial

\* However many updates are asked for, and whether a mark is set then or not: the mark
\* is given up only when CPU1 has been written to the end.
THEOREM MarkIsKept == Spec => MarkKept
<1>1. Init => Programmed
  BY DEF Init, Programmed
<1>2. TypeOK /\ Programmed /\ [Next]_vars => Programmed'
  <2> SUFFICES ASSUME TypeOK, Programmed, [Next]_vars PROVE Programmed'
    OBVIOUS
  <2>1. CASE TsbProgrammed
    BY <2>1, ImageAssumption DEF TsbProgrammed, Programmed, TypeOK
  <2>2. ASSUME phase' # "programmed" PROVE Programmed'
    BY <2>2 DEF Programmed
  <2>3. CASE PowerCycle \/ Restart \/ Boot
    BY <2>2, <2>3 DEF PowerCycle, Restart, Boot
  <2>4. CASE TsbUnreachable \/ TsbBegin \/ TsbAborted \/ ClearMark
    BY <2>2, <2>4 DEF TsbUnreachable, TsbBegin, TsbAborted, ClearMark
  <2>5. CASE Check
    BY <2>2, <2>5 DEF Check, OtaNoMemory, OtaUpdate, OtaCommand, CheckFailed, CheckDone,
                      OtaVars, Awake
  <2>6. CASE Fetch
    BY <2>2, <2>6 DEF Fetch, FetchBegin, FetchEmpty, FetchFailed, FetchDone, fetchVars, Awake
  <2>7. CASE Apply
    BY <2>2, <2>7 DEF Apply, UpdateCallBack, SwitchRom, Crash, StoreMark
  <2>8. CASE UNCHANGED vars
    BY <2>8 DEF vars, flash, Programmed
  <2> QED
    BY <2>1, <2>3, <2>4, <2>5, <2>6, <2>7, <2>8 DEF Next, PostUpdate
<1>3. TypeOK /\ Programmed /\ [Next]_vars => [mark # None /\ mark' = None => cpu1 # Partial]_vars
  <2> SUFFICES ASSUME TypeOK, Programmed, Next, mark # None, mark' = None
               PROVE  cpu1 # Partial
    OBVIOUS
  <2>1. ASSUME mark' = mark PROVE FALSE
    BY <2>1
  <2>2. CASE ClearMark
    BY <2>2 DEF ClearMark, Programmed
  <2>3. CASE PowerCycle \/ Restart \/ Boot
    BY <2>1, <2>3 DEF PowerCycle, Restart, Boot, flash
  <2>4. CASE TsbUnreachable \/ TsbBegin \/ TsbAborted \/ TsbProgrammed
    BY <2>1, <2>4 DEF TsbUnreachable, TsbBegin, TsbAborted, TsbProgrammed
  <2>5. CASE Check
    BY <2>1, <2>5 DEF Check, OtaNoMemory, OtaUpdate, CheckFailed, CheckDone, OtaVars, flash
  <2>6. CASE Fetch
    BY <2>1, <2>6 DEF Fetch, FetchBegin, FetchEmpty, FetchFailed, FetchDone, fetchVars
  <2>7. CASE UpdateCallBack \/ SwitchRom \/ Crash
    BY <2>1, <2>7 DEF UpdateCallBack, SwitchRom, Crash, flash
  <2>8. ASSUME NEW size \in Image \cup {Empty, Garbage}, StoreMark(size) PROVE FALSE
    BY <2>1, <2>8, ImageAssumption DEF StoreMark
  <2> QED
    BY <2>2, <2>3, <2>4, <2>5, <2>6, <2>7, <2>8 DEF Next, PostUpdate, Apply
<1> QED  BY <1>1, <1>2, <1>3, TypeCorrect, PTL DEF Spec, MarkKept

-----------------------------------------------------------------------------
(* Refinement *)

\* Each step of the updater is a step of the delivery, or leaves it alone.
LEMMA DeliveryStep ==
  ASSUME TypeOK, OneUpdate, MarkFree, MarkInv, [Next]_vars
  PROVE  [Delivery!DeliveryNext]_(Delivery!deliveryVars)
<1> USE ImageAssumption DEF Delivery!DeliveryNext, Delivery!deliveryVars
<1>1. CASE TsbBegin
  BY <1>1 DEF TsbBegin, Delivery!Begin, MarkInv
<1>2. CASE TsbProgrammed
  BY <1>2 DEF TsbProgrammed, Delivery!Finish, MarkInv
<1>3. CASE ClearMark
  BY <1>3 DEF ClearMark, Delivery!Clear, MarkInv
<1>4. ASSUME NEW size \in Image \cup {Empty, Garbage}, StoreMark(size)
      PROVE  [Delivery!DeliveryNext]_(Delivery!deliveryVars)
  <2>1. size = fw1Size
    BY <1>4, ItemIsThere DEF StoreMark, ItemSizes
  <2>2. mark = None /\ cpu1 \in Image
    BY <1>4 DEF StoreMark, MarkFree, MarkInv
  <2>3. CASE size = Empty
    BY <1>4, <2>3 DEF StoreMark, markingVars
  <2>4. CASE size # Empty
    <3>1. size \in Image
      BY <2>1, <2>4 DEF TypeOK
    <3> QED  BY <1>4, <2>2, <2>4, <3>1 DEF StoreMark, markingVars, Delivery!Store
  <2> QED  BY <2>3, <2>4
<1>5. CASE PowerCycle \/ Restart \/ Boot
  BY <1>5 DEF PowerCycle, Restart, Boot, flash
<1>6. CASE TsbUnreachable \/ TsbAborted
  BY <1>6 DEF TsbUnreachable, TsbAborted
<1>7. CASE Check
  BY <1>7 DEF Check, OtaNoMemory, OtaUpdate, CheckFailed, CheckDone, DoUpdate, OtaVars, flash
<1>8. CASE Fetch
  BY <1>8 DEF Fetch, FetchBegin, FetchEmpty, FetchFailed, FetchDone, fetchVars
<1>9. CASE UpdateCallBack \/ SwitchRom \/ Crash
  BY <1>9 DEF UpdateCallBack, SwitchRom, Crash, markingVars, flash
<1>10. CASE UNCHANGED vars
  BY <1>10 DEF vars, flash
<1> QED
  BY <1>1, <1>2, <1>3, <1>4, <1>5, <1>6, <1>7, <1>8, <1>9, <1>10
  DEF Next, PostUpdate, Apply

\* If CPU1 asks for one update between two boots and none while a mark is set, and the
\* server never offers FW2 alone, the updater delivers FW1 as the abstract specification
\* says: a mark stays until CPU1 runs the image.
THEOREM DeliversFirmware ==
  ASSUME OneOta, Fw2NotAlone PROVE Spec => Delivery!DeliverySpec
<1>1. Init => Delivery!DeliveryInit
  BY DEF Init, Delivery!DeliveryInit
<1>2. MaxOtas = 1
  BY DEF OneOta
<1>3. TypeOK /\ OneUpdate /\ MarkFree /\ MarkInv /\ [Next]_vars =>
        [Delivery!DeliveryNext]_(Delivery!deliveryVars)
  BY DeliveryStep
<1> QED
  BY <1>1, <1>2, <1>3, UpdateAlways, MarkFreeAlways, MarkAlways, TypeCorrect, PTL
  DEF Spec, Delivery!DeliverySpec
=============================================================================
