--------------------------- MODULE TestModeProofs ---------------------------
(***************************************************************************)
(* Theorems about TestMode and JsVm, for a queue of every length and crash *)
(* counts of every width.                                                  *)
(***************************************************************************)
EXTENDS TestMode, TLAPS

-----------------------------------------------------------------------------
(* The JavaScript command *)

\* The command, the timer and the task keep the types and the timer's queue.
LEMMA JsStep ==
  ASSUME JsTypeOK, TimerHasQueue, JsNext
  PROVE  JsTypeOK' /\ TimerHasQueue'
<1> USE QueueAssumption DEF JsTypeOK, TimerHasQueue
<1>1. CASE JsTick
  BY <1>1 DEF JsTick
<1>2. CASE JsStop
  BY <1>2 DEF JsStop
<1>3. CASE JsStartFails
  BY <1>3 DEF JsStartFails
<1>4. CASE JsStarted
  BY <1>4 DEF JsStarted
<1>5. ASSUME NEW ok \in BOOLEAN, JsLoop(ok) PROVE JsTypeOK' /\ TimerHasQueue'
  BY <1>5 DEF JsLoop
<1>6. ASSUME NEW ok \in BOOLEAN, JsSetupFails(ok) PROVE JsTypeOK' /\ TimerHasQueue'
  <2>1. CASE ok
    <3>1. /\ queue' = "held" /\ ticks' = 0 /\ jsTimer' = TRUE
          /\ vm' = FALSE /\ corrupt' = TRUE
      BY <1>6, <2>1 DEF JsSetupFails
    <3>2. ticks' \in 0 .. QueueLength
      BY <3>1
    <3> QED  BY <3>1, <3>2
  <2>2. CASE ~ok
    <3>1. /\ UNCHANGED <<queue, ticks, jsTimer>>
          /\ vm' = FALSE /\ corrupt' = TRUE
      BY <1>6, <2>2 DEF JsSetupFails
    <3> QED  BY <3>1
  <2> QED  BY <2>1, <2>2
<1> QED  BY <1>1, <1>2, <1>3, <1>4, <1>5, <1>6 DEF JsNext

\* So does a boot.
LEMMA JsResets ==
  ASSUME JsReset
  PROVE  JsTypeOK' /\ TimerHasQueue'
<1>1. JsTypeOK'
  <2>1. ticks' \in 0 .. QueueLength
    BY QueueAssumption DEF JsReset
  <2> QED  BY <2>1 DEF JsReset, JsTypeOK
<1>2. TimerHasQueue'
  BY DEF JsReset, TimerHasQueue
<1> QED  BY <1>1, <1>2

-----------------------------------------------------------------------------
(* Type correctness *)

\* Counting a crash keeps the counts counts.
LEMMA CountedTypes ==
  ASSUME NEW old \in [Rom -> Count]
  PROVE  Counted(old) \in [Rom -> Count]
<1>1. \A n \in Count : (n + 1) % CountRange \in Count
  BY TestModeAssumption DEF Count
<1> QED  BY <1>1 DEF Counted

\* Every step keeps the types, and the timer's queue.
LEMMA TypeStep == TypeOK /\ TimerHasQueue /\ [Next]_vars => TypeOK' /\ TimerHasQueue'
<1> SUFFICES ASSUME TypeOK, TimerHasQueue, [Next]_vars PROVE TypeOK' /\ TimerHasQueue'
  OBVIOUS
<1>0. ASSUME UNCHANGED jsVars PROVE JsTypeOK' /\ TimerHasQueue'
  BY <1>0 DEF TypeOK, JsTypeOK, TimerHasQueue, jsVars
<1>a. BlankLog \in [magic : BOOLEAN, count : [Rom -> Count]] /\ NoCrashes \in [Rom -> Count]
  BY TestModeAssumption DEF BlankLog, NoCrashes, ErasedByte, Count
<1> USE TestModeAssumption DEF TypeOK, rtc, frame, history
<1>1. CASE PowerCut
  BY <1>1, <1>0 DEF PowerCut
<1>2. CASE Restart
  BY <1>2, <1>0 DEF Restart
<1>3. CASE Boot
  BY <1>3, JsResets DEF Boot, Rom
<1>4. CASE CmdSoftReset
  BY <1>4, <1>0 DEF CmdSoftReset, commandVars
<1>5. ASSUME NEW param \in {"0", "1", "2"}, CmdRomSwitch(param) PROVE TypeOK' /\ TimerHasQueue'
  BY <1>5, <1>0 DEF CmdRomSwitch, commandVars, TempFor, ConfiguredFor, Other, Rom
<1>6. CASE JavaScript
  <2>1. JsTypeOK' /\ TimerHasQueue'
    BY <1>6, JsStep DEF JavaScript
  <2> QED  BY <1>6, <2>1 DEF JavaScript
<1>7. CASE Crash
  <2>1. Loaded \in [Rom -> Count]
    BY <1>a DEF Loaded
  <2>2. counts' \in [Rom -> Count]
    BY <1>7, <2>1, CountedTypes DEF Crash
  <2> QED  BY <1>7, <1>0, <2>2 DEF Crash
<1>8. CASE EraseLog
  BY <1>8, <1>0, <1>a DEF EraseLog, saveVars
<1>9. CASE WriteMagic
  <2>1. log' \in [magic : BOOLEAN, count : [Rom -> Count]]
    BY <1>9 DEF WriteMagic
  <2>2. written' \in 0 .. 3
    BY <1>9 DEF WriteMagic
  <2> QED  BY <1>9, <1>0, <2>1, <2>2 DEF WriteMagic, saveVars
<1>10. CASE WriteCount
  <2>1. log' \in [magic : BOOLEAN, count : [Rom -> Count]]
    BY <1>10 DEF WriteCount
  <2>2. written' \in 0 .. 3
    BY <1>10 DEF WriteCount, Rom
  <2> QED  BY <1>10, <1>0, <2>1, <2>2 DEF WriteCount, saveVars
<1>11. CASE Saved
  BY <1>11, <1>0 DEF Saved, saveVars
<1>12. CASE UNCHANGED vars
  BY <1>12, <1>0 DEF vars
<1> QED
  BY <1>1, <1>2, <1>3, <1>4, <1>5, <1>6, <1>7, <1>8, <1>9, <1>10, <1>11, <1>12 DEF Next

\* The variables start in their types, without a timer.
LEMMA TypeInit == Init => TypeOK /\ TimerHasQueue
<1> SUFFICES ASSUME Init PROVE TypeOK /\ TimerHasQueue
  OBVIOUS
<1>1. JsTypeOK
  <2>1. ticks \in 0 .. QueueLength
    BY QueueAssumption DEF Init, JsInit
  <2> QED  BY <2>1 DEF Init, JsInit, JsTypeOK
<1>2. TimerHasQueue
  BY DEF Init, JsInit, TimerHasQueue
<1>3. log \in [magic : BOOLEAN, count : [Rom -> Count]] /\ counts \in [Rom -> Count]
  BY TestModeAssumption DEF Init, BlankLog, NoCrashes, ErasedByte, Count
<1>4. written \in 0 .. 3
  BY DEF Init
<1>5. tempRom \in Rom \cup {None} /\ lastRom \in Rom /\ crashed \in SUBSET Rom
  BY DEF Init, Rom
<1> QED  BY <1>1, <1>2, <1>3, <1>4, <1>5 DEF Init, TypeOK

\* The variables of the test mode keep their types; a crash count wraps in its byte.
THEOREM TypeCorrect == Spec => []TypeOK
BY TypeInit, TypeStep, PTL DEF Spec

\* In whatever order scripts are started and stopped and fail, the timer runs only
\* while there is a queue for its ticks.
THEOREM TimerIsSafe == Spec => []TimerHasQueue
BY TypeInit, TypeStep, PTL DEF Spec

-----------------------------------------------------------------------------
(* The crash record.  Blame is fair in the callback's frame before it is in  *)
(* flash, and a record that is being written agrees with the frame as far as *)
(* it goes.                                                                  *)

Fair(count) == \A slot \in Rom : count[slot] # 0 => slot \in crashed

BlameInv ==
  /\ BlamedHasCrashed
  /\ ~torn /\ phase \in {"erase", "magic", "count"} => Fair(counts)
  /\ phase = "count" => \A slot \in Rom : slot < written => log.count[slot] = counts[slot]

\* Every step keeps the blame fair.
LEMMA BlameStep == TypeOK /\ BlameInv /\ [Next]_vars => BlameInv'
<1> SUFFICES ASSUME TypeOK, BlameInv, [Next]_vars PROVE BlameInv'
  OBVIOUS
<1> USE DEF TypeOK, BlameInv, BlamedHasCrashed, Fair, rtc, frame, history
<1>1. CASE PowerCut
  BY <1>1 DEF PowerCut
<1>2. CASE Restart
  BY <1>2 DEF Restart
<1>3. CASE Boot
  BY <1>3 DEF Boot
<1>4. CASE CmdSoftReset
  BY <1>4 DEF CmdSoftReset, commandVars, Awake
<1>5. ASSUME NEW param \in {"0", "1", "2"}, CmdRomSwitch(param) PROVE BlameInv'
  BY <1>5 DEF CmdRomSwitch, commandVars, Awake
<1>6. CASE JavaScript
  BY <1>6 DEF JavaScript
<1>7. CASE Crash
  <2>1. CASE lastMode = "temp"
    BY <1>7, <2>1 DEF Crash, Awake
  <2>2. CASE lastMode = "standard"
    <3>1. ~torn => Fair(Loaded)
      BY <1>7 DEF Loaded, NoCrashes, Crash, Awake
    <3>2. /\ counts' = Counted(Loaded) /\ crashed' = crashed \cup {lastRom}
          /\ phase' = "erase" /\ phase \in {"ready", "restart"}
          /\ UNCHANGED <<log, torn>>
      BY <1>7, <2>2 DEF Crash, Awake
    <3>3. \A slot \in Rom : slot # lastRom => counts'[slot] = Loaded[slot]
      BY <3>2 DEF Counted, Loaded, NoCrashes
    <3> QED  BY <3>1, <3>2, <3>3
  <2> QED  BY <2>1, <2>2
<1>8. CASE EraseLog
  BY <1>8 DEF EraseLog, saveVars, BlankLog
<1>9. CASE WriteMagic
  BY <1>9 DEF WriteMagic, saveVars, Rom
<1>10. CASE WriteCount
  <2>1. /\ written' = written + 1 /\ written \in Rom
        /\ log'.count = [log.count EXCEPT ![written] = counts[written]]
        /\ UNCHANGED <<phase, counts, crashed, torn>> /\ phase = "count"
    BY <1>10 DEF WriteCount, saveVars
  <2>2. \A slot \in Rom : slot < written' => log'.count[slot] = counts'[slot]
    BY <2>1 DEF Rom
  <2> QED  BY <2>1, <2>2
<1>11. CASE Saved
  <2>1. \A slot \in Rom : slot < written
    BY <1>11 DEF Saved, Rom
  <2> QED  BY <1>11, <2>1 DEF Saved, saveVars
<1>12. CASE UNCHANGED vars
  BY <1>12 DEF vars
<1> QED
  BY <1>1, <1>2, <1>3, <1>4, <1>5, <1>6, <1>7, <1>8, <1>9, <1>10, <1>11, <1>12 DEF Next

\* A ROM that the crash record blames has crashed when it was booted for good.
THEOREM BlameIsFair == Spec => []BlamedHasCrashed
<1>1. Init => BlameInv
  BY DEF Init, BlameInv, BlamedHasCrashed, BlankLog
<1>2. BlameInv => BlamedHasCrashed
  BY DEF BlameInv
<1> QED  BY <1>1, <1>2, TypeInit, TypeStep, BlameStep, PTL DEF Spec
=============================================================================
