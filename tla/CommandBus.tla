----------------------------- MODULE CommandBus -----------------------------
(***************************************************************************)
(* What the sensor processor (CPU1) may expect of the serial command line  *)
(* of the ESP8266: every command it sends is executed once, in the order   *)
(* of sending and with the parameters it was sent with.  Module Cli is     *)
(* compared with this specification.                                       *)
(***************************************************************************)
EXTENDS Naturals, Sequences

CONSTANT Frame          \* the commands CPU1 may send, each with its parameters

VARIABLES sent,         \* the frames sent so far
          executed      \* the frames whose handler has been called

busVars == <<sent, executed>>

BusInit == /\ sent = <<>>
           /\ executed = <<>>

Send(f) == /\ sent' = Append(sent, f)
           /\ UNCHANGED executed

Execute == /\ Len(executed) < Len(sent)
           /\ executed' = Append(executed, sent[Len(executed) + 1])
           /\ UNCHANGED sent

BusNext == Execute \/ \E f \in Frame : Send(f)

BusSpec == BusInit /\ [][BusNext]_busVars

\* The handler is eventually called for every frame.
BusFairSpec == BusSpec /\ WF_busVars(Execute)
=============================================================================
