---------------------------- MODULE SmartConfig ----------------------------
(***************************************************************************)
(* The configuration of the kit by a phone (app/commands/core.h), the      *)
(* application data in flash (lib/core/app-data.cpp), the MQTT client and  *)
(* the answer to CPU1 (app/application.cpp).                               *)
(*                                                                         *)
(* CPU1 sends the config command; the SDK calls back when it has heard a   *)
(* phone (SC_STATUS_LINK) and again when the station has an address and    *)
(* the phone knows (SC_STATUS_LINK_OVER).  A timer looks after the         *)
(* connection in between.  CPU1 also sends events, which go to a broker.   *)
(* In a release build an answer is followed by deep sleep, from which only *)
(* CPU1 wakes the device; in a test build the firmware goes on.            *)
(*                                                                         *)
(* Callbacks run one at a time.  Those that write flash are cut into steps *)
(* (`phase`), as CPU1 may switch the power off at any moment.              *)
(***************************************************************************)
EXTENDS ScProto

CONSTANTS Owner,          \* owners that phones send
          DefaultOwner,   \* the empty string of AppDataType
          ErasedOwner,    \* what an erased owner field reads as
          Messages,       \* the lists of elements that phones send
          XByte,          \* the byte that is the character 'X'
          MaxLinks,       \* bound on the messages between two boots
          MaxEvents       \* bound on the events between two boots

\* What a phone sends, in clear or encoded, and what arrives: a message of which one
\* byte after the first was changed has another checksum.
Received ==
  LET outs(list) == {Encode(encoding, list) : encoding \in Encodings}
      damaged(out) == {[out EXCEPT ![i] = b] : i \in 2 .. Len(out), b \in Byte} \ {out}
  IN UNION {
       UNION {{[sent |-> list, intact |-> TRUE, got |-> Parse(out)] : out \in outs(list)}
              : list \in Messages},
       UNION {UNION {{[sent |-> <<>>, intact |-> FALSE, got |-> Parse(wrong)]
                      : wrong \in damaged(out)} : out \in outs(list)} : list \in Messages}}

\* A value fits in its length, and in the 255 bytes of `value` with a zero behind it.
ASSUME MessagesAssumption ==
  \A list \in Messages :
    /\ list \in Seq([type : Byte, value : Seq(Byte)])
    /\ \A i \in DOMAIN list :
         /\ Len(list[i].value) < Radix - 1
         /\ list[i].type = TYPE_OWNER => list[i].value \in Owner

ASSUME XAssumption == XByte \in Byte

ASSUME BoundAssumption == MaxLinks \in Nat /\ MaxEvents \in Nat

VARIABLES
  stored,        \* flash: the application data, [magic, owner, wifi]
  stationFlash,  \* flash: the password of the SDK's station, {} for none
  release,       \* the build: RELEASE or TEST_MODE
  phase,         \* where the firmware is, "off" without power or asleep
  finish,        \* does the handler at work end with an answer?
  data,          \* AppData::data, [owner, wifi]
  station,       \* the password of the station in RAM, {} for none
  link,          \* the station's connection
  sc,            \* SmartConfig in the SDK
  timer,         \* wifiConnectionTimer: the check it runs, or "none"
  mode,          \* the mode to answer with: "X", or another one "given" by a phone
  mqtt,          \* the client: [state, owner]
  sent, acked,   \* events published, and acknowledged to this client
  \* histories
  message,       \* the last message: [sent, intact, got]
  chosen,        \* was the mode chosen by a phone?
  links,         \* messages handled since the boot
  answered,      \* answers to them since the boot
  forced         \* was the WIFI flag set by hand or read from a torn record?

flash   == <<stored, stationFlash>>
network == <<station, link, sc, timer>>
client  == <<mqtt, sent, acked>>
history == <<chosen, links, answered, forced>>
vars    == <<flash, release, phase, finish, data, network, mode, client, message, history>>

Owners == Owner \cup {DefaultOwner, ErasedOwner}
NoClient == [state |-> "none", owner |-> DefaultOwner]

\* AppDataType as its members are initialised.
Defaults == [owner |-> DefaultOwner, wifi |-> FALSE]

\* Erased flash: all bits 1, the WIFI flag among them.
Blank == [magic |-> FALSE, owner |-> ErasedOwner, wifi |-> TRUE]

Quiet == [sent |-> <<>>, intact |-> TRUE, got |-> <<>>]

Init == /\ stored = Blank /\ stationFlash = {}
        /\ release \in BOOLEAN
        /\ phase = "off" /\ finish = FALSE
        /\ data = Defaults
        /\ station = {} /\ link = "idle" /\ sc = "off" /\ timer = "none"
        /\ mode = "unset"
        /\ mqtt = NoClient /\ sent = 0 /\ acked = 0
        /\ message = Quiet
        /\ chosen = FALSE
        /\ links = 0 /\ answered = 0
        /\ forced = FALSE

-----------------------------------------------------------------------------
(* Power and the boot *)

\* A record whose magic number is written is taken for whole.
PowerCut == /\ phase # "off"
            /\ phase' = "off"
            /\ forced' = (forced \/ phase \in {"owner", "flags"})
            /\ UNCHANGED <<flash, release, finish, data, network, mode, client, message,
                           chosen, links, answered>>

\* AppData::load.
Load == IF stored.magic THEN [owner |-> stored.owner, wifi |-> stored.wifi] ELSE Defaults

\* init(): with the WIFI flag the station is enabled; without it the SDK may still
\* connect, as it keeps its own operating mode.
Boot == /\ phase = "off"
        /\ phase' = "ready" /\ finish' = FALSE
        /\ data' = Load
        /\ station' = stationFlash
        /\ link' \in {"idle", "connecting"}
        /\ stationFlash = {} => link' = "idle"
        /\ stationFlash # {} /\ Load.wifi => link' = "connecting"
        /\ sc' = "off" /\ timer' = "none" /\ mode' = "unset"
        /\ mqtt' = NoClient /\ sent' = 0 /\ acked' = 0
        /\ message' = Quiet
        /\ chosen' = FALSE
        /\ links' = 0 /\ answered' = 0
        /\ UNCHANGED <<flash, release, forced>>

\* respondAndHalt: only a release build goes to sleep.
Halted == IF release THEN "off" ELSE "ready"

-----------------------------------------------------------------------------
(* AppData::save.  `phase` is what comes next: the sector is erased, then   *)
(* the words are written in their order, and the handler ends.              *)

saveVars == <<stationFlash, release, finish, data, network, mode, client, message, history>>

EraseSector == /\ phase = "erase"
               /\ phase' = "magic"
               /\ stored' = Blank
               /\ UNCHANGED saveVars

WriteMagic == /\ phase = "magic"
              /\ phase' = "owner"
              /\ stored' = [stored EXCEPT !.magic = TRUE]
              /\ UNCHANGED saveVars

WriteOwner == /\ phase = "owner"
              /\ phase' = "flags"
              /\ stored' = [stored EXCEPT !.owner = data.owner]
              /\ UNCHANGED saveVars

WriteFlags == /\ phase = "flags"
              /\ phase' = "end"
              /\ stored' = [stored EXCEPT !.wifi = data.wifi]
              /\ UNCHANGED saveVars

\* The end of a handler: it answers with the mode, or it only returns.
Respond == /\ phase = "end" /\ finish
           /\ phase' = Halted
           /\ answered' = answered + 1
           /\ UNCHANGED <<flash, release, finish, data, network, mode, client, message,
                          chosen, links, forced>>

Return == /\ phase = "end" /\ ~finish
          /\ phase' = "ready"
          /\ UNCHANGED <<flash, release, finish, data, network, mode, client, message, history>>

-----------------------------------------------------------------------------
(* SmartConfig *)

\* cmdModeSmartConfig: the radio is taken from the station.  The timer goes on.
StartSmartConfig == sc' = "searching" /\ link' = "idle"

CmdConfig == /\ phase = "ready"
             /\ StartSmartConfig
             /\ UNCHANGED <<flash, release, phase, finish, data, station, timer, mode,
                            client, message, history>>

\* WifiStation.connect() with what the station is configured to.
Connect(config) == link' = IF config = {} THEN "idle" ELSE "connecting"

\* Mutant: the callback breaks off without finish.
UnreadableIgnored == /\ mode' = "X" /\ chosen' = FALSE
                     /\ sc' = "linked"
                     /\ UNCHANGED <<data, station, link, timer, phase, finish>>

\* A message that parse() makes nothing of.
Unreadable == /\ mode' = "X" /\ chosen' = FALSE
              /\ sc' = "linked"
              /\ phase' = "end" /\ finish' = TRUE
              /\ UNCHANGED <<data, station, link, timer>>

\* A password and OTA start a check each; the later of the two has the timer.
StartsLast(commands, type) ==
  \E i \in DOMAIN commands :
    /\ commands[i].type = type
    /\ \A j \in DOMAIN commands :
         commands[j].type \in {TYPE_PASSWORD, TYPE_OTA} => j <= i

TimerAfter(commands) ==
  IF StartsLast(commands, TYPE_PASSWORD) THEN "connection"
  ELSE IF StartsLast(commands, TYPE_OTA) THEN "ota" ELSE timer

\* The mode is the first character of the value, and may be an 'X' as well.
ModeOf(value) == IF value # <<>> /\ value[1] = XByte THEN "X" ELSE "given"

\* The loop over the elements, and what follows it.
Obey(commands) ==
  LET newOwner == Has(commands, TYPE_OWNER)
  IN /\ data' = IF newOwner THEN [data EXCEPT !.owner = Value(commands, TYPE_OWNER)] ELSE data
     /\ mode' = IF Has(commands, TYPE_MODE) THEN ModeOf(Value(commands, TYPE_MODE)) ELSE mode
     /\ chosen' = (chosen \/ Has(commands, TYPE_MODE))
     /\ timer' = TimerAfter(commands)
     /\ \/ /\ Has(commands, TYPE_PASSWORD)
           /\ station' = {Value(commands, TYPE_PASSWORD)}
           /\ Connect(station')
           /\ sc' = "linked"
           /\ UNCHANGED <<phase, finish>>
        \/ /\ ~Has(commands, TYPE_PASSWORD)
           /\ Connect(station)
           /\ sc' = "off"
           /\ phase' = IF newOwner THEN "erase" ELSE "end"
           /\ finish' = TRUE
           /\ UNCHANGED station

\* SC_STATUS_LINK
Link(received) == /\ phase = "ready" /\ sc = "searching"
                  /\ links < MaxLinks
                  /\ links' = links + 1
                  /\ message' = received
                  /\ IF received.got = <<>> THEN Unreadable ELSE Obey(received.got)
                  /\ UNCHANGED <<flash, release, client, answered, forced>>

\* Mutant: a configuration that is already in flash is left there.
PersistFirst == stationFlash' = IF stationFlash = {} THEN station ELSE stationFlash

\* Mutant: the configuration is not made permanent.
PersistNothing == UNCHANGED stationFlash

\* persistWifiConfig: the configuration in RAM becomes the one in flash.
Persist == stationFlash' = station

\* Mutant: the timer goes on.
LinkOverTimed == /\ phase = "ready" /\ sc = "linked" /\ link = "gotIP"
                 /\ sc' = "off"
                 /\ Persist
                 /\ data' = [data EXCEPT !.wifi = TRUE]
                 /\ phase' = "erase" /\ finish' = TRUE
                 /\ UNCHANGED <<stored, release, station, link, timer, mode, client,
                                message, history>>

\* SC_STATUS_LINK_OVER
LinkOver == /\ phase = "ready" /\ sc = "linked" /\ link = "gotIP"
            /\ timer' = "none"
            /\ sc' = "off"
            /\ Persist
            /\ data' = [data EXCEPT !.wifi = TRUE]
            /\ phase' = "erase" /\ finish' = TRUE
            /\ UNCHANGED <<stored, release, station, link, mode, client, message, history>>

-----------------------------------------------------------------------------
(* The timer's checks *)

\* checkSmartConfigConnection with an address.  The client is deleted and the pointer
\* stays, so getMqttClient makes a new one only when there was none.
RenewClient == /\ mqtt' = IF mqtt.state = "none"
                          THEN [state |-> "live", owner |-> data.owner]
                          ELSE [mqtt EXCEPT !.state = "deleted"]
               /\ UNCHANGED <<sent, acked>>

\* Publishing with a deleted client is undefined: it goes on or crashes.
CheckConnected == /\ phase = "ready" /\ timer = "connection" /\ link = "gotIP"
                  /\ sc' = "off"
                  /\ Persist
                  /\ timer' = "none"
                  /\ RenewClient
                  /\ phase' \in IF mqtt'.state = "live" THEN {"end"} ELSE {"end", "off"}
                  /\ finish' = TRUE
                  /\ UNCHANGED <<stored, release, data, station, link, mode, message, history>>

\* Mutant: a station that makes no attempt is waited for.
CheckFailedOnly == /\ phase = "ready" /\ timer = "connection"
                   /\ link = "failed"
                   /\ StartSmartConfig
                   /\ timer' = "none"
                   /\ UNCHANGED <<flash, release, phase, finish, data, station, mode,
                                  client, message, history>>

\* With no address and no attempt under way the search starts over.
CheckNotConnected == /\ phase = "ready" /\ timer = "connection"
                     /\ link \in {"idle", "failed"}
                     /\ StartSmartConfig
                     /\ timer' = "none"
                     /\ UNCHANGED <<flash, release, phase, finish, data, station, mode,
                                    client, message, history>>

\* checkOTAConnection: the update it starts is in module Updater.
CheckOta == /\ phase = "ready" /\ timer = "ota" /\ link = "gotIP"
            /\ timer' = "none"
            /\ UNCHANGED <<flash, release, phase, finish, data, station, link, sc, mode,
                           client, message, history>>

-----------------------------------------------------------------------------
(* The station's connection, by the SDK *)

LinkChanges(from, to) == /\ phase = "ready"
                         /\ link = from /\ link' = to
                         /\ UNCHANGED <<flash, release, phase, finish, data, station, sc,
                                        timer, mode, client, message, history>>

AttemptEnds == LinkChanges("connecting", "gotIP") \/ LinkChanges("connecting", "failed")

ConnectionLost == LinkChanges("gotIP", "connecting") \/ LinkChanges("gotIP", "failed")

Retry == LinkChanges("failed", "connecting")

-----------------------------------------------------------------------------
(* Events: sendAndHalt and mqttPublishCompleted *)

eventVars == <<flash, release, finish, data, network, mode, message, history>>

EventSent == /\ phase = "ready" /\ link = "gotIP"
             /\ mqtt.state # "deleted" /\ sent < MaxEvents
             /\ sent' = sent + 1
             /\ mqtt' = IF mqtt.state = "none"
                        THEN [state |-> "live", owner |-> data.owner] ELSE mqtt
             /\ UNCHANGED <<eventVars, phase, acked>>

\* The client has no room or no connection: CPU1 gets no answer.
EventRefused == /\ phase = "ready" /\ link = "gotIP" /\ mqtt.state = "none"
                /\ mqtt' = [state |-> "live", owner |-> data.owner]
                /\ UNCHANGED <<eventVars, phase, sent, acked>>

\* An event with a deleted client may crash; otherwise nothing comes of it.
EventCrashes == /\ phase = "ready" /\ link = "gotIP" /\ mqtt.state = "deleted"
                /\ phase' = "off"
                /\ UNCHANGED <<eventVars, client>>

\* Mutant: an acknowledgement is not matched with an event.
PublishAnyCompleted == /\ phase = "ready" /\ mqtt.state = "live"
                       /\ acked' = acked + 1
                       /\ phase' = Halted
                       /\ UNCHANGED <<eventVars, mqtt, sent>>

\* The broker acknowledges an event, in any order and at any time, or never.
PublishCompleted == /\ phase = "ready" /\ mqtt.state = "live" /\ acked < sent
                    /\ acked' = acked + 1
                    /\ phase' = Halted
                    /\ UNCHANGED <<eventVars, mqtt, sent>>

-----------------------------------------------------------------------------
(* The test build's command w *)

CmdSaveData(on) == /\ ~release
                   /\ phase = "ready"
                   /\ data' = [data EXCEPT !.wifi = on]
                   /\ phase' = "erase" /\ finish' = FALSE
                   /\ forced' = (forced \/ on)
                   /\ UNCHANGED <<flash, release, network, mode, client, message,
                                  chosen, links, answered>>

-----------------------------------------------------------------------------
(* The specification *)

Next == \/ PowerCut \/ Boot
        \/ EraseSector \/ WriteMagic \/ WriteOwner \/ WriteFlags \/ Respond \/ Return
        \/ CmdConfig
        \/ \E received \in Received : Link(received)
        \/ LinkOver
        \/ CheckConnected \/ CheckNotConnected \/ CheckOta
        \/ AttemptEnds \/ ConnectionLost \/ Retry
        \/ EventSent \/ EventRefused \/ EventCrashes \/ PublishCompleted
        \/ \E on \in BOOLEAN : CmdSaveData(on)

Spec == Init /\ [][Next]_vars

\* A handler runs to its end; an attempt to connect ends; the timer fires every five
\* seconds and does not always meet the station in the middle of an attempt.
Fairness == /\ WF_vars(EraseSector \/ WriteMagic \/ WriteOwner \/ WriteFlags \/ Respond \/ Return)
            /\ SF_vars(AttemptEnds)
            /\ SF_vars(CheckConnected \/ CheckNotConnected)

FairSpec == Spec /\ Fairness

-----------------------------------------------------------------------------
(* Properties *)

TypeOK == /\ stored \in [magic : BOOLEAN, owner : Owners, wifi : BOOLEAN]
          /\ stationFlash \in SUBSET Seq(Byte) /\ station \in SUBSET Seq(Byte)
          /\ release \in BOOLEAN /\ finish \in BOOLEAN
          /\ chosen \in BOOLEAN /\ forced \in BOOLEAN
          /\ phase \in {"off", "ready", "erase", "magic", "owner", "flags", "end"}
          /\ data \in [owner : Owners, wifi : BOOLEAN]
          /\ link \in {"idle", "connecting", "failed", "gotIP"}
          /\ sc \in {"off", "searching", "linked"}
          /\ timer \in {"none", "connection", "ota"}
          /\ mode \in {"unset", "given", "X"}
          /\ mqtt \in [state : {"none", "live", "deleted"}, owner : Owners]
          /\ sent \in 0 .. MaxEvents /\ acked \in 0 .. sent
          /\ links \in 0 .. MaxLinks
          /\ answered \in Nat

\* What parse() makes of a message is the table the phone sent, the last value of each
\* type, whatever the encoding; nothing is made of a message damaged in transit
\* (ScProto::parse).
CommandsAreSent ==
  LET got == message.got   list == message.sent
      last(type) == CHOOSE i \in DOMAIN list :
                      /\ list[i].type = type
                      /\ \A j \in DOMAIN list : list[j].type = type => j <= i
  IN IF message.intact
     THEN /\ {got[i].type : i \in DOMAIN got} = {list[i].type : i \in DOMAIN list}
          /\ \A i, j \in DOMAIN got : got[i].type = got[j].type => i = j
          /\ \A i \in DOMAIN got : got[i].value = list[last(got[i].type)].value
     ELSE got = <<>>

\* A stored WIFI flag means that the station has a configuration in flash, also when
\* the power fails between the two writes.  (Except for a flag that was set by hand,
\* or that was read from a record whose writing was cut short.)
FlagMeansConfig ==
  stored.magic /\ stored.wifi /\ ~forced /\ phase \notin {"owner", "flags"}
    => stationFlash # {}

\* CPU1 gets at most one answer for each message of a phone, although the callback of
\* the SDK and the timer both conclude a connection and come in any order.
AnsweredOnce == answered <= links

\* When a message with a password is answered, that password is the one in flash.
ReportedIsStored ==
  [][answered' > answered /\ Has(message.got, TYPE_PASSWORD)
       => stationFlash' = {Value(message.got, TYPE_PASSWORD)}]_vars

\* core.h:143 and 157: in the release build an unreadable message is answered with X, and
\* a readable one never with an X left from an unreadable one: only if a phone, of this
\* message or an earlier one, chose the mode 'X' itself.
UnreadableMeansX ==
  [][answered' > answered /\ release
       => IF message.got = <<>> THEN mode = "X" ELSE mode = "X" => chosen]_vars

\* Every check of a new password concludes: with an answer, a new search, another
\* check in its place, or the loss of power.
CheckConcludes == timer = "connection" ~> timer # "connection" \/ phase = "off"

\* "Create a new mqtt object with the new owner": when the check has succeeded, the
\* client that registers the device is a live one of the owner in AppData.
RegisteredByOwner ==
  [][CheckConnected /\ phase' = "end"
       => mqtt'.state = "live" /\ mqtt'.owner = data.owner]_vars
=============================================================================
