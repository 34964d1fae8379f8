------------------------- MODULE SmartConfigProofs -------------------------
(***************************************************************************)
(* Theorems about SmartConfig, for every set of messages whose values fit  *)
(* in their lengths and whose owners are in Owner, every key and every     *)
(* bound.  What parse() makes of a message is in ScProtoProofs.            *)
(***************************************************************************)
EXTENDS SmartConfig, ScProtoProofs

LinkState == {"idle", "connecting", "failed", "gotIP"}

-----------------------------------------------------------------------------
(* What is received *)

\* A message as it was sent.
Whole(received, list, encoding) ==
  received = [sent |-> list, intact |-> TRUE, got |-> Parse(Encode(encoding, list))]

\* A message with a wrong byte.
Damaged(received, list, encoding) ==
  \E i \in 2 .. Len(Encode(encoding, list)), b \in Byte :
    /\ [Encode(encoding, list) EXCEPT ![i] = b] # Encode(encoding, list)
    /\ received = [sent |-> <<>>, intact |-> FALSE,
                   got |-> Parse([Encode(encoding, list) EXCEPT ![i] = b])]

\* A received message is one of the two.
LEMMA ReceivedKinds ==
  ASSUME NEW received \in Received
  PROVE  \E list \in Messages, encoding \in Encodings :
           Whole(received, list, encoding) \/ Damaged(received, list, encoding)
BY DEF Received, Whole, Damaged

\* The lists that phones send can be encoded.
LEMMA MessagesFit ==
  ASSUME NEW list \in Messages
  PROVE  /\ list \in Seq(Element)
         /\ \A i \in DOMAIN list : Fits(list[i])
<1>1. list \in Seq(Element)
  BY MessagesAssumption DEF Element
<1>2. ASSUME NEW i \in DOMAIN list PROVE Fits(list[i])
  <2>1. list[i] \in Element
    BY <1>1
  <2>2. Len(list[i].value) \in Nat /\ Len(list[i].value) < Radix - 1
    BY <2>1, MessagesAssumption DEF Element
  <2> QED  BY <2>1, <2>2, RadixAssumption DEF Fits, Byte
<1> QED  BY <1>1, <1>2

\* A message that was not damaged is parsed to the table of what was sent.
Understood(received) ==
  /\ received.got \in Seq(Element) /\ received.sent \in Messages
  /\ Agrees(received.got, received.sent, Len(received.sent))

\* Of a damaged message nothing is made.
LEMMA ReceivedFacts ==
  ASSUME NEW received \in Received
  PROVE  /\ received.intact => Understood(received)
         /\ ~received.intact => received.got = <<>>
<1>1. PICK list \in Messages, encoding \in Encodings :
        Whole(received, list, encoding) \/ Damaged(received, list, encoding)
  BY ReceivedKinds
<1>2. list \in Seq(Element) /\ \A i \in DOMAIN list : Fits(list[i])
  BY MessagesFit
<1>3. CASE Whole(received, list, encoding)
  <2>1. /\ Parse(Encode(encoding, list)) \in Seq(Element)
        /\ Agrees(Parse(Encode(encoding, list)), list, Len(list))
    BY <1>2, EncodedParsed
  <2>2. received.intact /\ received.sent = list /\ received.got = Parse(Encode(encoding, list))
    BY <1>3 DEF Whole
  <2> QED  BY <2>1, <2>2 DEF Understood
<1>4. CASE Damaged(received, list, encoding)
  <2>1. PICK i \in 2 .. Len(Encode(encoding, list)), b \in Byte :
          /\ [Encode(encoding, list) EXCEPT ![i] = b] # Encode(encoding, list)
          /\ received = [sent |-> <<>>, intact |-> FALSE,
                         got |-> Parse([Encode(encoding, list) EXCEPT ![i] = b])]
    BY <1>4 DEF Damaged
  <2>2. Parse([Encode(encoding, list) EXCEPT ![i] = b]) = <<>>
    BY <1>2, <2>1, DamageFound
  <2>3. received.intact = FALSE /\ received.got = <<>>
    BY <2>1, <2>2
  <2> QED  BY <2>3
<1> QED  BY <1>1, <1>3, <1>4

\* The value of an element that a received message has.
LEMMA ReceivedValues ==
  ASSUME NEW received \in Received, NEW type, Has(received.got, type)
  PROVE  /\ Value(received.got, type) \in Seq(Byte)
         /\ type = TYPE_OWNER => Value(received.got, type) \in Owner
<1> DEFINE got == received.got
           list == received.sent
           i == CHOOSE k \in DOMAIN received.got : received.got[k].type = type
<1>1. i \in DOMAIN got /\ got[i].type = type /\ Value(got, type) = got[i].value
  BY DEF Has, Value
<1>2. Understood(received)
  <2>1. got # <<>>
    BY <1>1
  <2> QED  BY <2>1, ReceivedFacts
<1> HIDE DEF got, list, i
<1>3. PICK k \in 1 .. Len(list) : got[i] = list[k]
  BY <1>1, <1>2 DEF Understood, Agrees, got, list
<1>4. list \in Messages
  BY <1>2 DEF Understood, list
<1>5. k \in DOMAIN list /\ list[k] \in Element
  BY <1>4, MessagesFit
<1>6. list[k].type = TYPE_OWNER => list[k].value \in Owner
  BY <1>4, <1>5, MessagesAssumption
<1> QED  BY <1>1, <1>3, <1>5, <1>6 DEF Element, got

\* The timer's check after a message is the one before it or one that it starts.
LEMMA TimerTypes ==
  ASSUME NEW commands
  PROVE  TimerAfter(commands) \in {timer, "connection", "ota"}
BY DEF TimerAfter

-----------------------------------------------------------------------------
(* Type correctness *)

\* A message keeps the types of what its handling writes.
LEMMA LinkTypes ==
  ASSUME TypeOK, NEW received \in Received, Link(received)
  PROVE  TypeOK'
<1> USE BoundAssumption DEF TypeOK
<1>1. /\ UNCHANGED <<stored, stationFlash, release, mqtt, sent, acked, answered, forced>>
      /\ links' \in 0 .. MaxLinks
  BY DEF Link, flash, client
<1>2. CASE received.got = <<>>
  BY <1>1, <1>2 DEF Link, Unreadable
<1>3. CASE received.got # <<>>
  <2> DEFINE commands == received.got
  <2>1. Obey(commands)
    BY <1>3 DEF Link
  <2>2. data' \in [owner : Owners, wifi : BOOLEAN]
    BY <2>1, ReceivedValues DEF Obey, Owners
  <2>3. mode' \in {"unset", "given", "X"} /\ timer' \in {"none", "connection", "ota"}
        /\ chosen' \in BOOLEAN
    BY <2>1, TimerTypes DEF Obey, ModeOf
  <2>4. station' \in SUBSET Seq(Byte)
    BY <2>1, ReceivedValues DEF Obey
  <2>5. link' \in LinkState /\ sc' \in {"off", "searching", "linked"}
    BY <2>1 DEF Obey, Connect, LinkState
  <2>6. phase' \in {"off", "ready", "erase", "magic", "owner", "flags", "end"}
        /\ finish' \in BOOLEAN
    BY <2>1 DEF Obey
  <2> QED  BY <1>1, <2>2, <2>3, <2>4, <2>5, <2>6 DEF LinkState
<1> QED  BY <1>2, <1>3

\* No step takes a variable out of its type.
LEMMA TypeStep == TypeOK /\ [Next]_vars => TypeOK'
<1> SUFFICES ASSUME TypeOK, [Next]_vars PROVE TypeOK'
  OBVIOUS
<1> USE BoundAssumption DEF TypeOK, flash, network, client, history
<1>1. CASE PowerCut
  BY <1>1 DEF PowerCut
<1>2. CASE Boot
  <2>1. data' \in [owner : Owners, wifi : BOOLEAN]
    BY <1>2 DEF Boot, Load, Defaults, Owners
  <2>2. mqtt' \in [state : {"none", "live", "deleted"}, owner : Owners]
    BY <1>2 DEF Boot, NoClient, Owners
  <2>3. sent' \in 0 .. MaxEvents /\ acked' \in 0 .. sent' /\ links' \in 0 .. MaxLinks
    BY <1>2 DEF Boot
  <2> QED  BY <1>2, <2>1, <2>2, <2>3 DEF Boot
<1>3. CASE EraseSector
  BY <1>3 DEF EraseSector, saveVars, Blank, Owners
<1>4. CASE WriteMagic
  <2>1. stored' \in [magic : BOOLEAN, owner : Owners, wifi : BOOLEAN]
    BY <1>4 DEF WriteMagic
  <2> QED  BY <1>4, <2>1 DEF WriteMagic, saveVars
<1>5. CASE WriteOwner
  BY <1>5 DEF WriteOwner, saveVars
<1>6. CASE WriteFlags
  BY <1>6 DEF WriteFlags, saveVars
<1>7. CASE Respond
  BY <1>7 DEF Respond, Halted
<1>8. CASE Return
  BY <1>8 DEF Return
<1>9. CASE CmdConfig
  BY <1>9 DEF CmdConfig, StartSmartConfig
<1>10. ASSUME NEW received \in Received, Link(received) PROVE TypeOK'
  BY <1>10, LinkTypes
<1>11. CASE LinkOver
  BY <1>11 DEF LinkOver, Persist
<1>12. CASE CheckConnected
  <2>1. mqtt' \in [state : {"none", "live", "deleted"}, owner : Owners]
    BY <1>12 DEF CheckConnected, RenewClient
  <2>2. phase' \in {"end", "off"}
    BY <1>12 DEF CheckConnected
  <2> QED  BY <1>12, <2>1, <2>2 DEF CheckConnected, RenewClient, Persist
<1>13. CASE CheckNotConnected
  BY <1>13 DEF CheckNotConnected, StartSmartConfig
<1>14. CASE CheckOta
  BY <1>14 DEF CheckOta
<1>15. CASE AttemptEnds \/ ConnectionLost \/ Retry
  BY <1>15 DEF AttemptEnds, ConnectionLost, Retry, LinkChanges
<1>16. CASE EventSent
  <2>1. mqtt' \in [state : {"none", "live", "deleted"}, owner : Owners]
    BY <1>16 DEF EventSent
  <2> QED  BY <1>16, <2>1 DEF EventSent, eventVars
<1>17. CASE EventRefused
  BY <1>17 DEF EventRefused, eventVars
<1>18. CASE EventCrashes
  BY <1>18 DEF EventCrashes, eventVars
<1>19. CASE PublishCompleted
  BY <1>19 DEF PublishCompleted, eventVars, Halted
<1>20. ASSUME NEW on \in BOOLEAN, CmdSaveData(on) PROVE TypeOK'
  <2>1. data' \in [owner : Owners, wifi : BOOLEAN]
    BY <1>20 DEF CmdSaveData
  <2> QED  BY <1>20, <2>1, ZenonT(60) DEF CmdSaveData
<1>21. CASE UNCHANGED vars
  BY <1>21 DEF vars
<1> QED
  BY <1>1, <1>2, <1>3, <1>4, <1>5, <1>6, <1>7, <1>8, <1>9, <1>10, <1>11, <1>12, <1>13,
     <1>14, <1>15, <1>16, <1>17, <1>18, <1>19, <1>20, <1>21 DEF Next

\* The variables start in their types.
LEMMA TypeInit == Init => TypeOK
<1> SUFFICES ASSUME Init PROVE TypeOK
  OBVIOUS
<1>1. stored \in [magic : BOOLEAN, owner : Owners, wifi : BOOLEAN]
  BY DEF Init, Blank, Owners
<1>2. data \in [owner : Owners, wifi : BOOLEAN]
  BY DEF Init, Defaults, Owners
<1>3. mqtt \in [state : {"none", "live", "deleted"}, owner : Owners]
  BY DEF Init, NoClient, Owners
<1>4. sent \in 0 .. MaxEvents /\ acked \in 0 .. sent /\ links \in 0 .. MaxLinks
  BY BoundAssumption DEF Init
<1> QED  BY <1>1, <1>2, <1>3, <1>4 DEF Init, TypeOK

\* The variables of SmartConfig, the application data and the client keep their types.
THEOREM TypeCorrect == Spec => []TypeOK
BY TypeInit, TypeStep, PTL DEF Spec

-----------------------------------------------------------------------------
(* The inductive invariant.  An answer is owed while the timer checks a      *)
(* connection or the SDK may report one, and once more by a handler that is  *)
(* about to give it.                                                         *)

Handling == phase \in {"erase", "magic", "owner", "flags", "end"}
Answering == Handling /\ finish
Owed == timer = "connection" \/ (sc = "linked" /\ link # "idle")

AnswerInv == /\ sc = "searching" => link = "idle"
             /\ answered + (IF Owed THEN 1 ELSE 0) + (IF Answering THEN 1 ELSE 0) <= links

\* A connection has a configuration, and RAM and flash agree on the WIFI flag.
ConfigInv == /\ link # "idle" => station # {}
             /\ data.wifi /\ ~forced /\ phase # "off" => stationFlash # {}
             /\ FlagMeansConfig

\* The station has the password of the last message; it is in flash before the answer.
ReportInv == Has(message.got, TYPE_PASSWORD) /\ phase # "off"
               => /\ station = {Value(message.got, TYPE_PASSWORD)}
                  /\ Answering => stationFlash = station

\* In the release build the firmware's own X is said at once or not at all.
ReadInv == release => /\ Handling => /\ finish
                                    /\ IF message.got = <<>> THEN mode = "X"
                                       ELSE mode = "X" => chosen
                      /\ phase = "ready" /\ mode = "X" => chosen
                      /\ phase = "ready" /\ (timer = "connection" \/ sc = "linked")
                           => message.got # <<>>

\* Only a message with a password starts the check of a connection.
LEMMA TimerNeedsPassword ==
  ASSUME NEW commands, TimerAfter(commands) = "connection", timer # "connection"
  PROVE  Has(commands, TYPE_PASSWORD)
BY DEF TimerAfter, StartsLast, Has

\* Every step keeps the answers within the messages.
LEMMA AnswerStep ==
  TypeOK /\ AnswerInv /\ [Next]_vars => AnswerInv'
<1> SUFFICES ASSUME TypeOK, AnswerInv, [Next]_vars PROVE AnswerInv'
  OBVIOUS
<1> USE DEF TypeOK, AnswerInv, Owed, Answering, Handling, flash, network, client, history
<1>1. CASE PowerCut
  BY <1>1 DEF PowerCut
<1>2. CASE Boot
  BY <1>2 DEF Boot
<1>3. CASE EraseSector
  BY <1>3 DEF EraseSector, saveVars, Blank
<1>4. CASE WriteMagic
  BY <1>4 DEF WriteMagic, saveVars
<1>5. CASE WriteOwner
  BY <1>5 DEF WriteOwner, saveVars
<1>6. CASE WriteFlags
  BY <1>6 DEF WriteFlags, saveVars
<1>7. CASE Respond
  BY <1>7 DEF Respond, Halted
<1>8. CASE Return
  BY <1>8 DEF Return
<1>9. CASE CmdConfig
  BY <1>9 DEF CmdConfig, StartSmartConfig
<1>10. ASSUME NEW received \in Received, Link(received) PROVE AnswerInv'
  <2>1. CASE received.got = <<>>
    BY <1>10, <2>1 DEF Link, Unreadable
  <2>2. CASE received.got # <<>>
    <3>1. Obey(received.got) /\ links' = links + 1 /\ answered' = answered
          /\ phase = "ready" /\ sc = "searching"
      BY <1>10, <2>2 DEF Link
    <3>2. timer' = "connection" => timer = "connection" \/ sc' = "linked"
      BY <3>1, TimerNeedsPassword DEF Obey
    <3> QED  BY <3>1, <3>2 DEF Obey, Connect
  <2> QED  BY <2>1, <2>2
<1>11. CASE LinkOver
  BY <1>11 DEF LinkOver, Persist
<1>12. CASE CheckConnected
  BY <1>12 DEF CheckConnected, RenewClient, Persist
<1>13. CASE CheckNotConnected
  BY <1>13 DEF CheckNotConnected, StartSmartConfig
<1>14. CASE CheckOta
  BY <1>14 DEF CheckOta
<1>15. CASE AttemptEnds \/ ConnectionLost \/ Retry
  BY <1>15 DEF AttemptEnds, ConnectionLost, Retry, LinkChanges
<1>16. CASE EventSent
  BY <1>16 DEF EventSent, eventVars
<1>17. CASE EventRefused
  BY <1>17 DEF EventRefused, eventVars
<1>18. CASE EventCrashes
  BY <1>18 DEF EventCrashes, eventVars
<1>19. CASE PublishCompleted
  BY <1>19 DEF PublishCompleted, eventVars, Halted
<1>20. ASSUME NEW on \in BOOLEAN, CmdSaveData(on) PROVE AnswerInv'
  BY <1>20 DEF CmdSaveData
<1>21. CASE UNCHANGED vars
  BY <1>21 DEF vars
<1> QED
  BY <1>1, <1>2, <1>3, <1>4, <1>5, <1>6, <1>7, <1>8, <1>9,
     <1>10, <1>11, <1>12, <1>13, <1>14, <1>15, <1>16, <1>17, <1>18,
     <1>19, <1>20, <1>21 DEF Next

\* Every step keeps a configuration behind the flag.
LEMMA ConfigStep ==
  TypeOK /\ ConfigInv /\ [Next]_vars => ConfigInv'
<1> SUFFICES ASSUME TypeOK, ConfigInv, [Next]_vars PROVE ConfigInv'
  OBVIOUS
<1> USE DEF TypeOK, ConfigInv, FlagMeansConfig, flash, network, client, history
<1>1. CASE PowerCut
  BY <1>1 DEF PowerCut
<1>2. CASE Boot
  BY <1>2 DEF Boot, Load, Defaults, FlagMeansConfig
<1>3. CASE EraseSector
  BY <1>3 DEF EraseSector, saveVars, Blank
<1>4. CASE WriteMagic
  BY <1>4 DEF WriteMagic, saveVars
<1>5. CASE WriteOwner
  BY <1>5 DEF WriteOwner, saveVars
<1>6. CASE WriteFlags
  BY <1>6 DEF WriteFlags, saveVars
<1>7. CASE Respond
  BY <1>7 DEF Respond, Halted
<1>8. CASE Return
  BY <1>8 DEF Return
<1>9. CASE CmdConfig
  BY <1>9 DEF CmdConfig, StartSmartConfig
<1>10. ASSUME NEW received \in Received, Link(received) PROVE ConfigInv'
  <2>1. CASE received.got = <<>>
    BY <1>10, <2>1 DEF Link, Unreadable, FlagMeansConfig
  <2>2. CASE received.got # <<>>
    <3>1. /\ Obey(received.got) /\ phase = "ready"
          /\ UNCHANGED <<stored, stationFlash, forced>>
      BY <1>10, <2>2 DEF Link
    <3>2. data'.wifi = data.wifi
      BY <3>1 DEF Obey
    <3>3. link' # "idle" => station' # {}
      BY <3>1 DEF Obey, Connect
    <3> QED  BY <3>1, <3>2, <3>3 DEF Obey, FlagMeansConfig
  <2> QED  BY <2>1, <2>2
<1>11. CASE LinkOver
  BY <1>11 DEF LinkOver, Persist
<1>12. CASE CheckConnected
  BY <1>12 DEF CheckConnected, RenewClient, Persist
<1>13. CASE CheckNotConnected
  BY <1>13 DEF CheckNotConnected, StartSmartConfig
<1>14. CASE CheckOta
  BY <1>14 DEF CheckOta
<1>15. CASE AttemptEnds \/ ConnectionLost \/ Retry
  BY <1>15 DEF AttemptEnds, ConnectionLost, Retry, LinkChanges
<1>16. CASE EventSent
  BY <1>16 DEF EventSent, eventVars
<1>17. CASE EventRefused
  BY <1>17 DEF EventRefused, eventVars
<1>18. CASE EventCrashes
  BY <1>18 DEF EventCrashes, eventVars
<1>19. CASE PublishCompleted
  BY <1>19 DEF PublishCompleted, eventVars, Halted
<1>20. ASSUME NEW on \in BOOLEAN, CmdSaveData(on) PROVE ConfigInv'
  BY <1>20 DEF CmdSaveData
<1>21. CASE UNCHANGED vars
  BY <1>21 DEF vars
<1> QED
  BY <1>1, <1>2, <1>3, <1>4, <1>5, <1>6, <1>7, <1>8, <1>9,
     <1>10, <1>11, <1>12, <1>13, <1>14, <1>15, <1>16, <1>17, <1>18,
     <1>19, <1>20, <1>21 DEF Next

\* Every step keeps the password with the message.
LEMMA ReportStep ==
  TypeOK /\ ConfigInv /\ ReportInv /\ [Next]_vars => ReportInv'
<1> SUFFICES ASSUME TypeOK, ConfigInv, ReportInv, [Next]_vars PROVE ReportInv'
  OBVIOUS
<1> USE DEF ReportInv, Answering, Handling, flash, network, client, history
<1>1. CASE PowerCut
  BY <1>1 DEF PowerCut
<1>2. CASE Boot
  BY <1>2 DEF Boot, Quiet, Has
<1>3. CASE EraseSector
  BY <1>3 DEF EraseSector, saveVars, Blank
<1>4. CASE WriteMagic
  BY <1>4 DEF WriteMagic, saveVars
<1>5. CASE WriteOwner
  BY <1>5 DEF WriteOwner, saveVars
<1>6. CASE WriteFlags
  BY <1>6 DEF WriteFlags, saveVars
<1>7. CASE Respond
  BY <1>7 DEF Respond, Halted
<1>8. CASE Return
  BY <1>8 DEF Return
<1>9. CASE CmdConfig
  BY <1>9 DEF CmdConfig, StartSmartConfig
<1>10. ASSUME NEW received \in Received, Link(received) PROVE ReportInv'
  <2>1. CASE received.got = <<>>
    BY <1>10, <2>1 DEF Link, Has
  <2>2. CASE received.got # <<>>
    <3>1. Obey(received.got) /\ message' = received /\ phase = "ready"
      BY <1>10, <2>2 DEF Link
    <3> QED  BY <3>1 DEF Obey
  <2> QED  BY <2>1, <2>2
<1>11. CASE LinkOver
  BY <1>11 DEF LinkOver, Persist
<1>12. CASE CheckConnected
  BY <1>12 DEF CheckConnected, RenewClient, Persist
<1>13. CASE CheckNotConnected
  BY <1>13 DEF CheckNotConnected, StartSmartConfig
<1>14. CASE CheckOta
  BY <1>14 DEF CheckOta
<1>15. CASE AttemptEnds \/ ConnectionLost \/ Retry
  BY <1>15 DEF AttemptEnds, ConnectionLost, Retry, LinkChanges
<1>16. CASE EventSent
  BY <1>16 DEF EventSent, eventVars
<1>17. CASE EventRefused
  BY <1>17 DEF EventRefused, eventVars
<1>18. CASE EventCrashes
  BY <1>18 DEF EventCrashes, eventVars
<1>19. CASE PublishCompleted
  BY <1>19 DEF PublishCompleted, eventVars, Halted
<1>20. ASSUME NEW on \in BOOLEAN, CmdSaveData(on) PROVE ReportInv'
  BY <1>20 DEF CmdSaveData
<1>21. CASE UNCHANGED vars
  BY <1>21 DEF vars
<1> QED
  BY <1>1, <1>2, <1>3, <1>4, <1>5, <1>6, <1>7, <1>8, <1>9,
     <1>10, <1>11, <1>12, <1>13, <1>14, <1>15, <1>16, <1>17, <1>18,
     <1>19, <1>20, <1>21 DEF Next

\* Every step of a release build keeps X for what cannot be read.
LEMMA ReadStep ==
  TypeOK /\ ReadInv /\ [Next]_vars => ReadInv'
<1> SUFFICES ASSUME TypeOK, ReadInv, [Next]_vars PROVE ReadInv'
  OBVIOUS
<1> USE DEF TypeOK, ReadInv, Handling, flash, network, client, history
<1>1. CASE PowerCut
  BY <1>1 DEF PowerCut
<1>2. CASE Boot
  BY <1>2 DEF Boot
<1>3. CASE EraseSector
  BY <1>3 DEF EraseSector, saveVars, Blank
<1>4. CASE WriteMagic
  BY <1>4 DEF WriteMagic, saveVars
<1>5. CASE WriteOwner
  BY <1>5 DEF WriteOwner, saveVars
<1>6. CASE WriteFlags
  BY <1>6 DEF WriteFlags, saveVars
<1>7. CASE Respond
  BY <1>7 DEF Respond, Halted
<1>8. CASE Return
  BY <1>8 DEF Return
<1>9. CASE CmdConfig
  BY <1>9 DEF CmdConfig, StartSmartConfig
<1>10. ASSUME NEW received \in Received, Link(received) PROVE ReadInv'
  <2>1. CASE received.got = <<>>
    BY <1>10, <2>1 DEF Link, Unreadable
  <2>2. CASE received.got # <<>>
    <3>1. Obey(received.got) /\ message' = received /\ phase = "ready" /\ release' = release
      BY <1>10, <2>2 DEF Link
    <3>2. mode' = "X" /\ mode # "X" => chosen'
      BY <3>1 DEF Obey
    <3>3. chosen => chosen'
      BY <3>1 DEF Obey
    <3> QED  BY <2>2, <3>1, <3>2, <3>3 DEF Obey
  <2> QED  BY <2>1, <2>2
<1>11. CASE LinkOver
  BY <1>11 DEF LinkOver, Persist
<1>12. CASE CheckConnected
  BY <1>12 DEF CheckConnected, RenewClient, Persist
<1>13. CASE CheckNotConnected
  BY <1>13 DEF CheckNotConnected, StartSmartConfig
<1>14. CASE CheckOta
  BY <1>14 DEF CheckOta
<1>15. CASE AttemptEnds \/ ConnectionLost \/ Retry
  BY <1>15 DEF AttemptEnds, ConnectionLost, Retry, LinkChanges
<1>16. CASE EventSent
  BY <1>16 DEF EventSent, eventVars
<1>17. CASE EventRefused
  BY <1>17 DEF EventRefused, eventVars
<1>18. CASE EventCrashes
  BY <1>18 DEF EventCrashes, eventVars
<1>19. CASE PublishCompleted
  BY <1>19 DEF PublishCompleted, eventVars, Halted
<1>20. ASSUME NEW on \in BOOLEAN, CmdSaveData(on) PROVE ReadInv'
  BY <1>20 DEF CmdSaveData
<1>21. CASE UNCHANGED vars
  BY <1>21 DEF vars
<1> QED
  BY <1>1, <1>2, <1>3, <1>4, <1>5, <1>6, <1>7, <1>8, <1>9,
     <1>10, <1>11, <1>12, <1>13, <1>14, <1>15, <1>16, <1>17, <1>18,
     <1>19, <1>20, <1>21 DEF Next

-----------------------------------------------------------------------------
(* The message of which the rest of the state remembers something *)

\* It was received since the boot, or there was none.
MessageInv == message \in Received \cup {Quiet}

\* Only a boot and a phone change it.
LEMMA MessageStep ==
  MessageInv /\ [Next]_vars => MessageInv'
<1> SUFFICES ASSUME MessageInv, [Next]_vars PROVE MessageInv'
  OBVIOUS
<1> USE DEF MessageInv
<1>1. CASE PowerCut
  BY <1>1 DEF PowerCut
<1>2. CASE Boot
  BY <1>2 DEF Boot
<1>3. CASE EraseSector
  BY <1>3 DEF EraseSector, saveVars
<1>4. CASE WriteMagic
  BY <1>4 DEF WriteMagic, saveVars
<1>5. CASE WriteOwner
  BY <1>5 DEF WriteOwner, saveVars
<1>6. CASE WriteFlags
  BY <1>6 DEF WriteFlags, saveVars
<1>7. CASE Respond
  BY <1>7 DEF Respond
<1>8. CASE Return
  BY <1>8 DEF Return
<1>9. CASE CmdConfig
  BY <1>9 DEF CmdConfig
<1>10. ASSUME NEW received \in Received, Link(received) PROVE MessageInv'
  BY <1>10 DEF Link
<1>11. CASE LinkOver
  BY <1>11 DEF LinkOver
<1>12. CASE CheckConnected
  BY <1>12 DEF CheckConnected
<1>13. CASE CheckNotConnected
  BY <1>13 DEF CheckNotConnected
<1>14. CASE CheckOta
  BY <1>14 DEF CheckOta
<1>15. CASE AttemptEnds \/ ConnectionLost \/ Retry
  BY <1>15 DEF AttemptEnds, ConnectionLost, Retry, LinkChanges
<1>16. CASE EventSent
  BY <1>16 DEF EventSent, eventVars
<1>17. CASE EventRefused
  BY <1>17 DEF EventRefused, eventVars
<1>18. CASE EventCrashes
  BY <1>18 DEF EventCrashes, eventVars
<1>19. CASE PublishCompleted
  BY <1>19 DEF PublishCompleted, eventVars
<1>20. ASSUME NEW on \in BOOLEAN, CmdSaveData(on) PROVE MessageInv'
  BY <1>20 DEF CmdSaveData
<1>21. CASE UNCHANGED vars
  BY <1>21 DEF vars
<1> QED
  BY <1>1, <1>2, <1>3, <1>4, <1>5, <1>6, <1>7, <1>8, <1>9,
     <1>10, <1>11, <1>12, <1>13, <1>14, <1>15, <1>16, <1>17, <1>18,
     <1>19, <1>20, <1>21 DEF Next

-----------------------------------------------------------------------------
(* The start *)

\* The invariant holds at the start.
LEMMA InvInit == Init => AnswerInv /\ ConfigInv /\ ReportInv /\ ReadInv
<1> SUFFICES ASSUME Init PROVE AnswerInv /\ ConfigInv /\ ReportInv /\ ReadInv
  OBVIOUS
<1>1. AnswerInv
  BY DEF Init, AnswerInv, Owed, Answering, Handling
<1>2. ConfigInv
  BY DEF Init, ConfigInv, FlagMeansConfig, Blank, Defaults
<1>3. ReportInv /\ ReadInv
  BY DEF Init, ReportInv, ReadInv, Handling
<1> QED  BY <1>1, <1>2, <1>3

-----------------------------------------------------------------------------
(* The theorems *)

\* CPU1 gets at most one answer for each message, in whatever order the callback and
\* the timer conclude.
THEOREM AnswersBounded == Spec => []AnsweredOnce
<1>1. TypeOK /\ AnswerInv => AnsweredOnce
  BY BoundAssumption DEF TypeOK, AnswerInv, AnsweredOnce
<1> QED  BY <1>1, TypeInit, TypeStep, InvInit, AnswerStep, PTL DEF Spec

\* Behind a stored WIFI flag there is a configuration, wherever the power fails.
THEOREM FlagBacked == Spec => []FlagMeansConfig
<1>1. ConfigInv => FlagMeansConfig
  BY DEF ConfigInv
<1> QED  BY <1>1, TypeInit, TypeStep, InvInit, ConfigStep, PTL DEF Spec

\* Only the end of a handler answers.
LEMMA OnlyRespondAnswers ==
  ASSUME TypeOK, [Next]_vars, answered' > answered
  PROVE  Respond
<1> USE DEF TypeOK, flash, network, client, history
<1>1. CASE PowerCut
  BY <1>1 DEF PowerCut
<1>2. CASE Boot
  BY <1>2 DEF Boot
<1>3. CASE EraseSector
  BY <1>3 DEF EraseSector, saveVars
<1>4. CASE WriteMagic
  BY <1>4 DEF WriteMagic, saveVars
<1>5. CASE WriteOwner
  BY <1>5 DEF WriteOwner, saveVars
<1>6. CASE WriteFlags
  BY <1>6 DEF WriteFlags, saveVars
<1>7. CASE Return
  BY <1>7 DEF Return
<1>8. CASE CmdConfig
  BY <1>8 DEF CmdConfig
<1>9. ASSUME NEW received \in Received, Link(received) PROVE FALSE
  BY <1>9 DEF Link
<1>10. CASE LinkOver
  BY <1>10 DEF LinkOver
<1>11. CASE CheckConnected
  BY <1>11 DEF CheckConnected
<1>12. CASE CheckNotConnected
  BY <1>12 DEF CheckNotConnected
<1>13. CASE CheckOta
  BY <1>13 DEF CheckOta
<1>14. CASE AttemptEnds \/ ConnectionLost \/ Retry
  BY <1>14 DEF AttemptEnds, ConnectionLost, Retry, LinkChanges
<1>15. CASE EventSent
  BY <1>15 DEF EventSent, eventVars
<1>16. CASE EventRefused
  BY <1>16 DEF EventRefused, eventVars
<1>17. CASE EventCrashes
  BY <1>17 DEF EventCrashes, eventVars
<1>18. CASE PublishCompleted
  BY <1>18 DEF PublishCompleted, eventVars
<1>19. ASSUME NEW on \in BOOLEAN, CmdSaveData(on) PROVE FALSE
  BY <1>19 DEF CmdSaveData
<1>20. CASE UNCHANGED vars
  BY <1>20 DEF vars
<1> QED
  BY <1>1, <1>2, <1>3, <1>4, <1>5, <1>6, <1>7, <1>8, <1>9,
     <1>10, <1>11, <1>12, <1>13, <1>14, <1>15, <1>16, <1>17, <1>18,
     <1>19, <1>20 DEF Next

\* The password that CPU1 hears about is in flash by then.
THEOREM PasswordStored == Spec => ReportedIsStored
<1> DEFINE Reported == answered' > answered /\ Has(message.got, TYPE_PASSWORD)
                         => stationFlash' = {Value(message.got, TYPE_PASSWORD)}
<1>1. TypeOK /\ ReportInv /\ [Next]_vars => [Reported]_vars
  <2> SUFFICES ASSUME TypeOK, ReportInv, [Next]_vars PROVE Reported
    OBVIOUS
  <2>1. CASE answered' > answered
    <3>1. Respond
      BY <2>1, OnlyRespondAnswers
    <3> QED  BY <3>1 DEF Respond, ReportInv, Answering, Handling, flash
  <2> QED  BY <2>1
<1> QED  BY <1>1, TypeInit, TypeStep, InvInit, ConfigStep, ReportStep, PTL
         DEF Spec, ReportedIsStored

\* In a release build an unreadable message is answered with X, and a readable one only
\* if a phone chose the mode 'X'.
THEOREM UnreadableAnswered == Spec => UnreadableMeansX
<1> DEFINE Answer == answered' > answered /\ release
                       => IF message.got = <<>> THEN mode = "X" ELSE mode = "X" => chosen
<1>1. TypeOK /\ ReadInv /\ [Next]_vars => [Answer]_vars
  <2> SUFFICES ASSUME TypeOK, ReadInv, [Next]_vars PROVE Answer
    OBVIOUS
  <2>1. CASE answered' > answered
    <3>1. Respond
      BY <2>1, OnlyRespondAnswers
    <3> QED  BY <3>1 DEF Respond, ReadInv, Handling
  <2> QED  BY <2>1
<1> QED  BY <1>1, TypeInit, TypeStep, InvInit, ReadStep, PTL DEF Spec, UnreadableMeansX

\* A message is acted on as it was sent, whatever its encoding, or, with a wrong byte,
\* not at all.
THEOREM CommandsCorrect == Spec => []CommandsAreSent
<1>1. MessageInv => CommandsAreSent
  <2> SUFFICES ASSUME MessageInv PROVE CommandsAreSent
    OBVIOUS
  <2>1. CASE message = Quiet
    BY <2>1 DEF Quiet, CommandsAreSent
  <2>2. CASE message \in Received /\ ~message.intact
    BY <2>2, ReceivedFacts DEF CommandsAreSent
  <2>3. CASE message \in Received /\ message.intact
    <3> DEFINE got == message.got
               list == message.sent
               last(type) == CHOOSE i \in DOMAIN list :
                               /\ list[i].type = type
                               /\ \A j \in DOMAIN list : list[j].type = type => j <= i
    <3>1. Understood(message)
      BY <2>3, ReceivedFacts
    <3>2. /\ got \in Seq(Element) /\ list \in Seq(Element)
          /\ Agrees(got, list, Len(list))
      BY <3>1, MessagesFit DEF Understood
    <3> HIDE DEF got, list
    <3>3. DOMAIN list = 1 .. Len(list) /\ Len(list) \in Nat
      BY <3>2
    <3>4. ASSUME NEW i \in DOMAIN got
          PROVE  /\ \E k \in DOMAIN list : got[i].type = list[k].type
                 /\ got[i].value = list[last(got[i].type)].value
      <4>1. PICK k \in 1 .. Len(list) : got[i] = list[k] /\ IsLast(list, Len(list), k)
        BY <3>2 DEF Agrees
      <4> DEFINE type == got[i].type
      <4>2. /\ k \in DOMAIN list /\ list[k].type = type
            /\ \A j \in DOMAIN list : list[j].type = type => j <= k
        BY <3>3, <4>1 DEF IsLast
      <4>3. ASSUME NEW m \in DOMAIN list, list[m].type = type,
                   \A j \in DOMAIN list : list[j].type = type => j <= m
            PROVE  m = k
        <5>1. m <= k /\ k <= m
          BY <4>2, <4>3
        <5> QED  BY <3>3, <4>2, <5>1
      <4> HIDE DEF type
      <4>4. last(type) = k
        BY <4>2, <4>3
      <4> QED  BY <3>3, <4>1, <4>4 DEF type
    <3>5. ASSUME NEW j \in DOMAIN list PROVE \E i \in DOMAIN got : got[i].type = list[j].type
      BY <3>2, <3>3 DEF Agrees, Has
    <3>6. {got[i].type : i \in DOMAIN got} = {list[i].type : i \in DOMAIN list}
      BY <3>4, <3>5
    <3>7. \A i, j \in DOMAIN got : got[i].type = got[j].type => i = j
      BY <3>2 DEF Agrees
    <3> QED  BY <2>3, <3>4, <3>6, <3>7 DEF CommandsAreSent, got, list
  <2> QED  BY <2>1, <2>2, <2>3 DEF MessageInv
<1>2. Init => MessageInv
  BY DEF Init, MessageInv
<1> QED  BY <1>1, <1>2, MessageStep, PTL DEF Spec
=============================================================================
