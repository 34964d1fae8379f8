------------------------------ MODULE TestMode ------------------------------
(***************************************************************************)
(* The test build: the commands that switch the ROM, restart and crash     *)
(* (app/commands/testmode.h), the crash record (lib/core/crash.cpp) and,   *)
(* where it is built in, the JavaScript command.                           *)
(*                                                                         *)
(* rBoot is external: it boots the temporary ROM that the RTC memory names *)
(* once, and the configured one otherwise, and notes in the RTC memory     *)
(* which it was.  The RTC memory survives restarts and crashes, not a loss *)
(* of power.  A crash calls the crash callback before the restart.         *)
(***************************************************************************)
EXTENDS JsVm

CONSTANTS CountRange,  \* how many values CrashType::count has: a byte
          None

ASSUME TestModeAssumption == CountRange \in Nat \ {0} /\ None \notin 0 .. 2

Rom == 0 .. 2                    \* 2 is the factory ROM
Other(slot) == IF slot = 0 THEN 1 ELSE 0
Count == 0 .. CountRange - 1
ErasedByte == CountRange - 1

VARIABLES
  currentRom,  \* flash: the ROM that rBoot boots
  log,         \* flash: the crash record, [magic, count]
  tempRom,     \* RTC: the ROM to boot once, or None
  lastRom,     \* RTC: last_rom, the ROM that was booted
  lastMode,    \* RTC: last_mode, how it was chosen
  phase,       \* "off", "ready", "restart", or what the crash callback does next
  counts,      \* the counts in the crash callback's frame
  written,     \* of these, how many are in flash
  \* histories
  crashed,     \* the ROMs that crashed while they were the configured one
  torn,        \* was the writing of a record cut short?
  home         \* the ROM configured when a temporary one was asked for, or None

rtc     == <<tempRom, lastRom, lastMode>>
frame   == <<counts, written>>
history == <<crashed, torn, home>>
vars    == <<currentRom, log, rtc, phase, frame, history, jsVars>>

NoCrashes == [slot \in Rom |-> 0]
BlankLog  == [magic |-> FALSE, count |-> [slot \in Rom |-> ErasedByte]]

Init == /\ currentRom = 0
        /\ log = BlankLog
        /\ tempRom = None /\ lastRom = 0 /\ lastMode = "standard"
        /\ phase = "off"
        /\ counts = NoCrashes /\ written = 0
        /\ crashed = {} /\ torn = FALSE /\ home = None
        /\ JsInit

-----------------------------------------------------------------------------
(* Power, restart and the boot *)

\* A record is torn when its magic number is written and a count is not.
PowerCut == /\ phase # "off"
            /\ phase' = "off"
            /\ tempRom' = None
            /\ torn' = (torn \/ phase = "count")
            /\ UNCHANGED <<currentRom, log, lastRom, lastMode, frame, crashed, home, jsVars>>

Restart == /\ phase = "restart"
           /\ phase' = "off"
           /\ UNCHANGED <<currentRom, log, rtc, frame, history, jsVars>>

\* rBoot, and a firmware that starts from nothing.
Boot == /\ phase = "off"
        /\ phase' = "ready"
        /\ lastRom' = IF tempRom = None THEN currentRom ELSE tempRom
        /\ lastMode' = IF tempRom = None THEN "standard" ELSE "temp"
        /\ tempRom' = None
        /\ JsReset
        /\ UNCHANGED <<currentRom, log, frame, history>>

-----------------------------------------------------------------------------
(* The commands; System.restart only asks for the restart *)

Awake == phase \in {"ready", "restart"}

commandVars == <<log, lastRom, lastMode, frame, crashed, torn, jsVars>>

\* cmdSoftReset
CmdSoftReset == /\ Awake
                /\ phase' = "restart"
                /\ UNCHANGED <<commandVars, currentRom, tempRom, home>>

\* The ROM that cmdRomSwitch has booted once: '0' takes the one that does not run.
TempFor(param) == CASE param = "0" -> Other(lastRom)
                    [] param = "2" -> 2
                    [] OTHER       -> tempRom

\* The ROM configured from then on: '2' alone leaves it as it is.
ConfiguredFor(param) == IF param = "2" THEN currentRom ELSE Other(currentRom)

CmdRomSwitch(param) == /\ Awake
                       /\ phase' = "restart"
                       /\ tempRom' = TempFor(param)
                       /\ currentRom' = ConfiguredFor(param)
                       /\ home' = IF param = "1" THEN None ELSE currentRom
                       /\ UNCHANGED commandVars

\* cmdPlayJS, and the tasks it starts
JavaScript == /\ Awake
              /\ JsNext
              /\ UNCHANGED <<currentRom, log, rtc, phase, frame, history>>

-----------------------------------------------------------------------------
(* A crash, by cmdCrash or after something undefined, and the callback *)

\* Mutant: the count is not a byte.
CountUnbounded(old) == [old EXCEPT ![lastRom] = @ + 1]

\* Mutant: the configured ROM is taken for the one that runs.
CountOfConfigured(old) == [old EXCEPT ![currentRom] = (@ + 1) % CountRange]

Counted(old) == [old EXCEPT ![lastRom] = (@ + 1) % CountRange]

\* loadCrashData: without a record the callback starts from its initialised data.
Loaded == IF log.magic THEN log.count ELSE NoCrashes

\* custom_crash_callback: a crash of a temporary ROM is not recorded.
Crash == /\ Awake
         /\ \/ /\ lastMode = "temp"
               /\ phase' = "off"
               /\ UNCHANGED <<counts, crashed>>
            \/ /\ lastMode = "standard"
               /\ phase' = "erase"
               /\ counts' = Counted(Loaded)
               /\ crashed' = crashed \cup {lastRom}
         /\ UNCHANGED <<currentRom, log, rtc, written, torn, home, jsVars>>

saveVars == <<currentRom, rtc, counts, history, jsVars>>

\* saveCrashData: the sector is erased, and the words are written in their order.
EraseLog == /\ phase = "erase"
            /\ phase' = "magic"
            /\ log' = BlankLog
            /\ UNCHANGED <<saveVars, written>>

WriteMagic == /\ phase = "magic"
              /\ phase' = "count"
              /\ log' = [log EXCEPT !.magic = TRUE]
              /\ written' = 0
              /\ UNCHANGED saveVars

WriteCount == /\ phase = "count" /\ written \in Rom
              /\ log' = [log EXCEPT !.count[written] = counts[written]]
              /\ written' = written + 1
              /\ UNCHANGED <<saveVars, phase>>

Saved == /\ phase = "count" /\ written \notin Rom
         /\ phase' = "off"
         /\ UNCHANGED <<saveVars, log, written>>

Next == \/ PowerCut \/ Restart \/ Boot
        \/ CmdSoftReset
        \/ \E param \in {"0", "1", "2"} : CmdRomSwitch(param)
        \/ JavaScript
        \/ Crash \/ EraseLog \/ WriteMagic \/ WriteCount \/ Saved

Spec == Init /\ [][Next]_vars

-----------------------------------------------------------------------------
(* Properties *)

TypeOK == /\ currentRom \in {0, 1}
          /\ log \in [magic : BOOLEAN, count : [Rom -> Count]]
          /\ tempRom \in Rom \cup {None} /\ lastRom \in Rom
          /\ lastMode \in {"standard", "temp"}
          /\ phase \in {"off", "ready", "restart", "erase", "magic", "count"}
          /\ counts \in [Rom -> Count] /\ written \in 0 .. 3
          /\ crashed \in SUBSET Rom /\ torn \in BOOLEAN
          /\ home \in {0, 1, None}
          /\ JsTypeOK

\* A ROM that the crash record blames has crashed when it was booted for good: neither
\* the crash of a temporary ROM nor that of another one after a switch is put down to
\* it, wherever the power fails.  (Except for a record whose writing was cut short.)
BlamedHasCrashed ==
  log.magic /\ ~torn /\ phase # "count"
    => \A slot \in Rom : log.count[slot] # 0 => slot \in crashed

\* A switch that was asked for as temporary (testmode.h: "If param[0]== '0' - perform
\* temporary switch") ends: when a ROM is booted for good again, it is the one that
\* was configured before.
TemporarySwitchEnds ==
  phase = "ready" /\ lastMode = "standard" /\ home # None => lastRom = home
=============================================================================
