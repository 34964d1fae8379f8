------------------------------ MODULE Updater ------------------------------
(***************************************************************************)
(* The firmware updater (lib/core/updater.cpp, app/commands/ota.h and the  *)
(* OTA part of init() in app/application.cpp).                             *)
(*                                                                         *)
(* An update command asks a server which firmware to fetch.  FW2, for the  *)
(* ESP8266 itself, goes to the ROM slot that is not in use; FW1, for CPU1, *)
(* goes to a flash region, and a mark in flash says that the region awaits *)
(* installation.  At the next boot the marked region is written to CPU1    *)
(* through its bootloader (TSB) and the mark is cleared.                   *)
(*                                                                         *)
(* Flash survives everything; the RTC memory, which holds the temporary    *)
(* ROM, survives a restart but not a loss of power.  CPU1 switches the     *)
(* ESP8266 on and off, so a loss of power may come between any two steps.  *)
(*                                                                         *)
(* Modelled: ENABLE_OTA and ENABLE_OTA_TSB on, ENABLE_OTA_DEFAULT_ROM and  *)
(* TSB_CHECK_HEX off, as the makefile has them.                            *)
(***************************************************************************)
EXTENDS Naturals

CONSTANTS Image,            \* the images of FW1, each of a size of its own
          None, Partial, Garbage, Empty,
          MaxOtas,          \* bound on the update commands between two boots
          OtaWhilePending,  \* may CPU1 ask for an update while a mark is set?
          Offers,           \* the sets of firmware that the server may offer
          EmptyAnswers      \* the firmware whose request it may answer with nothing

ASSUME ImageAssumption ==
  /\ {None, Partial, Garbage, Empty} \cap Image = {}
  /\ None \notin {0, 1}
  /\ None # Partial /\ None # Garbage /\ None # Empty
  /\ Partial # Garbage /\ Partial # Empty /\ Garbage # Empty
  /\ MaxOtas \in Nat
  /\ OtaWhilePending \in BOOLEAN
  /\ Offers \subseteq SUBSET {"FW1", "FW2"} /\ EmptyAnswers \subseteq {"FW1", "FW2"}

Slot == {0, 1}
Other(slot) == 1 - slot
FwType == {"FW1", "FW2"}

VARIABLES
  currentRom,  \* flash: the slot that rBoot boots
  intact,      \* flash: the slots that hold a complete image
  mark,        \* flash: the image whose size the mark holds, None, or Garbage
  region,      \* flash: the image at TSB_CURRENT_ROM_ADDR, or Garbage
  cpu1,        \* CPU1's flash: an image, Partial, or Garbage
  tempRom,     \* RTC: the slot to boot once, or None
  phase,       \* where the firmware is, "off" without power or in a restart
  running,     \* the slot that was booted
  bootConfig,  \* FwUpdater::bootConfig.current_rom, read at construction
  fw,          \* FwUpdater::fw as a set of types
  checks,      \* update checks sent and not answered
  offered,     \* the items of otaUpdater, FW2 before FW1
  items,       \* those of them that are still to fetch
  fw1Size,     \* the size of the FW1 item fetched: an image or Empty
  download,    \* the state of otaUpdater
  restarting,  \* System.restart() was called: a restart is to come
  signal,      \* the last byte of the updater to CPU1 since the boot
  otas         \* update commands since the boot

flash == <<currentRom, intact, mark, region, cpu1>>
fetching == <<checks, offered, items, fw1Size, download>>
boot  == <<running, bootConfig>>
vars  == <<flash, tempRom, phase, boot, fw, fetching, restarting, signal, otas>>

Init == /\ currentRom = 0
        /\ intact = {0}
        /\ mark = None
        /\ region = Garbage
        /\ cpu1 \in Image
        /\ tempRom = None
        /\ phase = "off"
        /\ running = 0 /\ bootConfig = 0
        /\ fw = {}
        /\ checks = 0 /\ offered = {} /\ items = {} /\ fw1Size = Empty
        /\ download = "none"
        /\ restarting = FALSE
        /\ signal = "none"
        /\ otas = 0

-----------------------------------------------------------------------------
(* Power, restart, and the boot *)

PowerCycle == /\ phase # "off"
              /\ phase' = "off"
              /\ tempRom' = None
              /\ UNCHANGED <<flash, boot, fw, fetching, restarting, signal, otas>>

\* System.restart() returns to its caller; the restart comes at some later moment.
Restart == /\ restarting
           /\ phase # "off"
           /\ phase' = "off"
           /\ UNCHANGED <<flash, tempRom, boot, fw, fetching, restarting, signal, otas>>

\* Without ENABLE_OTA_DEFAULT_ROM an update is pending when the mark is valid.
Pending == mark # None

\* rBoot picks the slot; init() constructs the updater and looks for a mark.
Boot ==
  LET slot == IF tempRom # None THEN tempRom ELSE currentRom
  IN /\ phase = "off"
     /\ tempRom' = None
     /\ running' = slot
     /\ bootConfig' = currentRom
     /\ phase' = IF slot \notin intact THEN "off"
                 ELSE IF Pending THEN "connecting" ELSE "ready"
     /\ fw' = {}
     /\ checks' = 0 /\ offered' = {} /\ items' = {} /\ fw1Size' = Empty
     /\ download' = "none"
     /\ restarting' = FALSE
     /\ signal' = "none"
     /\ otas' = 0
     /\ UNCHANGED flash

-----------------------------------------------------------------------------
(* FwUpdater::postUpdate: the marked region goes to CPU1 *)

postVars == <<currentRom, intact, region, tempRom, boot, fw, fetching,
              restarting, signal, otas>>

\* The region cannot be read or the bootloader does not answer.
TsbUnreachable == /\ phase = "connecting"
                  /\ phase' = "ready"
                  /\ UNCHANGED <<postVars, mark, cpu1>>

TsbBegin == /\ phase = "connecting"
            /\ phase' = "programming"
            /\ cpu1' = Partial
            /\ UNCHANGED <<postVars, mark>>

\* Mutant: the number of bytes written is not looked at.
TsbAbortedUnseen == /\ phase = "programming"
                    /\ phase' = "programmed"
                    /\ UNCHANGED <<postVars, mark, cpu1>>

TsbAborted == /\ phase = "programming"
              /\ phase' = "ready"
              /\ UNCHANGED <<postVars, mark, cpu1>>

\* As many bytes as the mark says are written, whatever the region holds.
TsbProgrammed == /\ phase = "programming"
                 /\ phase' = "programmed"
                 /\ cpu1' = IF region = mark THEN mark ELSE Garbage
                 /\ UNCHANGED <<postVars, mark>>

ClearMark == /\ phase = "programmed"
             /\ phase' = "ready"
             /\ mark' = None
             /\ UNCHANGED <<postVars, cpu1>>

-----------------------------------------------------------------------------
(* The update command and the check *)

\* The main loop runs, also while a restart is to come.
Awake == phase = "ready"

OtaVars == <<flash, tempRom, phase, boot, restarting>>

\* CPU1 has to run a program to send the command.
OtaCommand == /\ Awake
              /\ cpu1 \in Image
              /\ otas < MaxOtas
              /\ mark = None \/ OtaWhilePending
              /\ otas' = otas + 1

OtaNoMemory == /\ OtaCommand
               /\ signal' = "F"
               /\ UNCHANGED <<OtaVars, fw, fetching>>

updater == <<offered, items, fw1Size, download>>

\* Mutant: a check is sent again at once.
SendCheckTwice == checks' = checks + 2

\* FwUpdater::check: nothing keeps a second check from being sent.
SendCheck == checks' = checks + 1

OtaUpdate == /\ OtaCommand
             /\ SendCheck
             /\ UNCHANGED <<OtaVars, fw, updater, signal>>

CheckFailed == /\ Awake
               /\ checks > 0
               /\ checks' = checks - 1
               /\ UNCHANGED <<OtaVars, fw, updater, signal, otas>>

\* An update under way is deleted; fw keeps its bits.
DoUpdate(offer) ==
  IF offer = {} THEN UNCHANGED <<fw, updater>>
  ELSE /\ fw' = fw \cup offer
       /\ offered' = offer /\ items' = offer /\ fw1Size' = Empty
       /\ download' = "requested"

\* offer: the types of firmware in the server's answer.
CheckDone(offer) ==
  /\ Awake
  /\ checks > 0
  /\ checks' = checks - 1
  /\ DoUpdate(offer)
  /\ UNCHANGED <<OtaVars, signal, otas>>

-----------------------------------------------------------------------------
(* rBootHttpUpdate: the items are fetched and written to flash in turn *)

fetchVars == <<currentRom, mark, cpu1, tempRom, phase, boot, fw, checks, offered,
               restarting, signal, otas>>

\* Mutant: the slot is not flipped.
SlotInUse == bootConfig

TargetSlot == Other(bootConfig)

\* doUpdate adds FW2 first.
Item == IF "FW2" \in items THEN "FW2" ELSE "FW1"

\* The first block of an item overwrites what its flash area held.
FetchBegin ==
  /\ Awake
  /\ download = "requested"
  /\ download' = "writing"
  /\ IF Item = "FW2" THEN intact' = intact \ {TargetSlot} /\ UNCHANGED region
                     ELSE region' = Garbage /\ UNCHANGED intact
  /\ UNCHANGED <<fetchVars, items, fw1Size>>

Fetched == /\ items' = items \ {Item}
           /\ download' = IF items = {Item} THEN "complete" ELSE "requested"

FetchDone(i) ==
  /\ Awake
  /\ download = "writing"
  /\ IF Item = "FW2" THEN intact' = intact \cup {TargetSlot} /\ UNCHANGED <<region, fw1Size>>
                     ELSE region' = i /\ fw1Size' = i /\ UNCHANGED intact
  /\ Fetched
  /\ UNCHANGED fetchVars

\* The server answers the request for an item with nothing: nothing is written, and
\* that is a success.  FW1's size stays what it was for a new item, 0.
FetchEmpty == /\ Awake
              /\ download = "requested"
              /\ Item \in EmptyAnswers
              /\ Fetched
              /\ UNCHANGED <<fetchVars, intact, region, fw1Size>>

\* updateCallBack with result = false does nothing.
FetchFailed == /\ Awake
               /\ download \in {"requested", "writing"}
               /\ download' = "none"
               /\ UNCHANGED <<fetchVars, intact, region, items, fw1Size>>

-----------------------------------------------------------------------------
(* FwUpdater::updateCallBack with result = true, one step per flash write *)

OnlyFw2 == fw = {"FW2"}

UpdateCallBack ==
  /\ Awake
  /\ download = "complete"
  /\ download' = "none"
  /\ IF OnlyFw2 THEN tempRom' = TargetSlot /\ restarting' = TRUE
     ELSE UNCHANGED <<tempRom, restarting>>
  /\ phase' = IF "FW2" \in fw THEN "switching" ELSE "marking"
  /\ UNCHANGED <<flash, boot, fw, checks, offered, items, fw1Size, signal, otas>>

\* With FW2 alone too, if the restart has not come yet.
SwitchRom == /\ phase = "switching"
             /\ currentRom' = TargetSlot
             /\ phase' = "marking"
             /\ UNCHANGED <<intact, mark, region, cpu1, tempRom, boot, fw, fetching,
                            restarting, signal, otas>>

\* getItem(1) if FW2 is in fw, else getItem(0): FW1's item, unless FW2 is in fw and
\* only one item was offered.
ItemExists == "FW2" \in fw => offered = FwType

\* getItem does not check its index: beyond the items the size is arbitrary.
ItemSizes == IF ItemExists THEN {fw1Size} ELSE Image \cup {Empty, Garbage}

markingVars == <<currentRom, intact, region, cpu1, tempRom, boot, fw, fetching, otas>>

\* Mutant: the restart is left to CPU1.
NoRestart == FALSE

\* A new ROM is started by the firmware itself, whatever CPU1 is told.
RestartAsked == "FW2" \in fw

StoreMark(size) ==
  /\ phase = "marking"
  /\ size \in ItemSizes
  /\ phase' = "ready"
  /\ restarting' = (restarting \/ RestartAsked)
  /\ IF size = Empty
     THEN signal' = "X" /\ UNCHANGED mark
     ELSE mark' = size /\ signal' = "F"
  /\ UNCHANGED markingVars

\* Reading beyond the items may also be fatal.
Crash == /\ phase = "marking"
         /\ ~ItemExists
         /\ phase' = "off"
         /\ UNCHANGED <<markingVars, mark, restarting, signal>>

-----------------------------------------------------------------------------

PostUpdate == TsbUnreachable \/ TsbBegin \/ TsbAborted \/ TsbProgrammed \/ ClearMark

Check == OtaNoMemory \/ OtaUpdate \/ CheckFailed \/ \E offer \in Offers : CheckDone(offer)

Fetch == FetchBegin \/ FetchEmpty \/ FetchFailed \/ \E i \in Image : FetchDone(i)

Apply == \/ UpdateCallBack \/ SwitchRom \/ Crash
         \/ \E size \in Image \cup {Empty, Garbage} : StoreMark(size)

Next == PowerCycle \/ Restart \/ Boot \/ PostUpdate \/ Check \/ Fetch \/ Apply

Spec == Init /\ [][Next]_vars

\* CPU1 keeps switching the ESP8266 off and on, and not always in the middle of
\* an installation; its bootloader does not always fail to answer.
Fairness == /\ WF_vars(PowerCycle) /\ WF_vars(Boot)
            /\ SF_vars(TsbBegin) /\ SF_vars(TsbProgrammed) /\ SF_vars(ClearMark)

FairSpec == Spec /\ Fairness

-----------------------------------------------------------------------------
(* Properties *)

TypeOK ==
  /\ currentRom \in Slot /\ intact \subseteq Slot
  /\ mark \in Image \cup {None, Garbage}
  /\ region \in Image \cup {Garbage}
  /\ cpu1 \in Image \cup {Partial, Garbage}
  /\ tempRom \in Slot \cup {None}
  /\ phase \in {"off", "connecting", "programming", "programmed", "ready",
                "switching", "marking"}
  /\ running \in Slot /\ bootConfig \in Slot
  /\ fw \subseteq FwType
  /\ checks \in 0..otas
  /\ offered \subseteq FwType /\ items \subseteq offered
  /\ fw1Size \in Image \cup {Empty}
  /\ download \in {"none", "requested", "writing", "complete"}
  /\ restarting \in BOOLEAN
  /\ signal \in {"none", "F", "X"}
  /\ otas \in 0..MaxOtas

\* updater.cpp:189: the slot that rBoot boots holds a complete image, whenever the power
\* fails.  Holds for one update command between two boots (MaxOtas = 1) and a server
\* that never answers FW2's request with nothing ("FW2" \notin EmptyAnswers).
Bootable == currentRom \in intact

\* The firmware never overwrites the slot it runs from, unless it was booted as a
\* temporary ROM.
RunningIntact == phase # "off" /\ running = bootConfig => running \in intact

\* updater.cpp:192-242: CPU1 never runs anything but an image, and while its program is
\* incomplete the mark and the region hold what completes it.  Holds for one update
\* command between two boots, none while a mark is set (~OtaWhilePending), and a server
\* that never offers FW2 alone ({"FW2"} \notin Offers): with FW2 alone the mark is made
\* from an item that does not exist.
Cpu1Recoverable == /\ cpu1 # Garbage
                   /\ cpu1 = Partial => mark \in Image /\ region = mark

\* updater.cpp:325-342: whatever CPU1 asks for in between, the mark is never given up
\* while CPU1's program is half-written.
MarkKept == [][mark # None /\ mark' = None => cpu1 # Partial]_vars

\* updater.cpp:228-233: CPU1 is told not to reset only if nothing awaits it, and if the
\* next boot takes another ROM, the firmware restarts by itself.  Holds for one update
\* command between two boots and none while a mark is set.
NoResetMeansNoChange ==
  signal = "X" => /\ mark = None
                  /\ restarting \/ (tempRom = None /\ currentRom = bootConfig)

\* A marked image is delivered to CPU1, each interrupted installation started over: under
\* the conditions of Cpu1Recoverable, and to be delivered in the end also those of Bootable.
Delivery == INSTANCE FwDelivery WITH pending <- mark
ImplementsDelivery == Delivery!DeliveryFairSpec
=============================================================================
