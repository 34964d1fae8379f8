-------------------------------- MODULE Cli --------------------------------
(***************************************************************************)
(* The command line interpreter of the firmware (lib/core/cli.cpp).        *)
(*                                                                         *)
(* CPU1 sends commands over a UART: one byte that names the command and a  *)
(* fixed number of parameter bytes.  The UART interrupt stores each byte   *)
(* and posts one callback; the callbacks run later, one at a time, on the  *)
(* cooperative task loop.  A command whose type is not enabled yet (the    *)
(* network commands while the station has no address) is queued and        *)
(* replayed when setFlag enables its type.                                 *)
(*                                                                         *)
(* setFlag is a loop over the queued bytes.  No other task runs until it   *)
(* ends, but the UART interrupt does, so each turn of it is a step here.   *)
(***************************************************************************)
EXTENDS Naturals, Sequences

CONSTANTS Byte,        \* the bytes that travel on the line
          NUL,         \* the zero byte, which also means "no current command"
          Command,     \* the registered command codes
          Types,       \* the command types: the bits of Cli::flag
          SIMPLE,      \* CLI_CMD_SIMPLE, the type enabled from the start
          Size,        \* Size[c]: parameter bytes that c is registered with
          Type,        \* Type[c]: the type c is registered with
          PeerSize,    \* PeerSize[c]: parameter bytes that CPU1 sends with c
          MaxFrames    \* bound on the number of frames that CPU1 sends

ASSUME TableAssumption ==
  /\ NUL \in Byte
  /\ Command \subseteq Byte \ {NUL}
  /\ SIMPLE \in Types
  /\ Size \in [Command -> Nat]
  /\ Type \in [Command -> Types]
  /\ PeerSize \in [Command -> Nat]
  /\ MaxFrames \in Nat

VARIABLES
  line,             \* bytes of the last frame still on the wire
  rx,               \* the UART receive buffer
  events,           \* receive callbacks posted and not yet run
  currentCommand,   \* Cli::currentCommand
  flag,             \* Cli::flag, as a set of types
  pendingCommands,  \* Cli::pendingCommands: the queued bytes of each type
  replaying,        \* the types that the running setFlag has yet to drain
  sent,             \* history: the frames CPU1 sent
  executed          \* history: the commands whose handler was called

lineVars == <<line, rx, events>>
cliVars  == <<currentCommand, flag, pendingCommands, replaying>>
vars     == <<line, rx, events, currentCommand, flag, pendingCommands,
              replaying, sent, executed>>

\* A command with parameters, as CPU1 sends it or as a handler gets it.
FrameOf(c, params) == [cmd |-> c, params |-> params]

PeerFrame == UNION {{FrameOf(c, p) : p \in [1..PeerSize[c] -> Byte]} : c \in Command}

Init == /\ line = <<>>
        /\ rx = <<>>
        /\ events = 0
        /\ currentCommand = NUL
        /\ flag = {SIMPLE}
        /\ pendingCommands = [t \in Types |-> <<>>]
        /\ replaying = {}
        /\ sent = <<>>
        /\ executed = <<>>

-----------------------------------------------------------------------------
(* CPU1 and the UART *)

Transmit(f) == /\ line = <<>>
               /\ Len(sent) < MaxFrames
               /\ line' = <<f.cmd>> \o f.params
               /\ sent' = Append(sent, f)
               /\ UNCHANGED <<rx, events, cliVars, executed>>

\* The interrupt: it may come between any two steps of the firmware.
Arrive == /\ line # <<>>
          /\ rx' = Append(rx, Head(line))
          /\ line' = Tail(line)
          /\ events' = events + 1
          /\ UNCHANGED <<cliVars, sent, executed>>

-----------------------------------------------------------------------------
(* Cli::commandProcessor on a stream s *)

\* The command in hand once the call has read a command byte if it needs one.
\* Reading an empty stream yields a byte that is no command.
Code(s) == IF currentCommand # NUL THEN currentCommand
           ELSE IF s # <<>> THEN Head(s) ELSE NUL

AfterCode(s) == IF currentCommand = NUL /\ s # <<>> THEN Tail(s) ELSE s

\* Mutant: > for >=.
CompleteOffByOne(s) == /\ Code(s) \in Command
                       /\ Len(AfterCode(s)) > Size[Code(s)]

Complete(s) == /\ Code(s) \in Command
               /\ Len(AfterCode(s)) >= Size[Code(s)]

Params(s) == SubSeq(AfterCode(s), 1, Size[Code(s)])

\* Mutant: the command byte is only peeked at.
UnreadAfterPeek(s) == IF Complete(s)
                      THEN SubSeq(AfterCode(s), Size[Code(s)] + 1, Len(AfterCode(s)))
                      ELSE s

\* What the call leaves in the stream.
Unread(s) == IF Complete(s)
             THEN SubSeq(AfterCode(s), Size[Code(s)] + 1, Len(AfterCode(s)))
             ELSE AfterCode(s)

Skip(s, streams) ==
  /\ Code(s) \notin Command
  /\ currentCommand' = NUL
  /\ pendingCommands' = streams
  /\ UNCHANGED executed

Await(s, streams) ==
  /\ Code(s) \in Command
  /\ ~Complete(s)
  /\ currentCommand' = Code(s)
  /\ pendingCommands' = streams
  /\ UNCHANGED executed

\* Mutant: the parameters are not queued.
QueuedCodeOnly(s) == <<Code(s)>>

Queued(s) == <<Code(s)>> \o Params(s)

\* The early return of this branch leaves currentCommand as it is.
Enqueue(s, streams) ==
  /\ Complete(s)
  /\ Type[Code(s)] \notin flag
  /\ currentCommand' = Code(s)
  /\ pendingCommands' = [streams EXCEPT ![Type[Code(s)]] = @ \o Queued(s)]
  /\ UNCHANGED executed

Execute(s, streams) ==
  /\ Complete(s)
  /\ Type[Code(s)] \in flag
  /\ currentCommand' = NUL
  /\ pendingCommands' = streams
  /\ executed' = Append(executed, FrameOf(Code(s), Params(s)))

\* streams: the queued bytes of each type once s has been read.
CommandProcessor(s, streams) == \/ Skip(s, streams)
                                \/ Await(s, streams)
                                \/ Enqueue(s, streams)
                                \/ Execute(s, streams)

-----------------------------------------------------------------------------
(* The tasks of the firmware that enter the interpreter *)

DataReceived == /\ replaying = {}
                /\ events > 0
                /\ events' = events - 1
                /\ CommandProcessor(rx, pendingCommands)
                /\ rx' = Unread(rx)
                /\ UNCHANGED <<line, flag, replaying, sent>>

\* Mutant: the queues are not replayed.
NoReplay(flags) == {}

ToReplay(flags) == {k \in flags : pendingCommands[k] # <<>>}

SetFlag(t) == /\ replaying = {}
              /\ flag' = flag \cup {t}
              /\ replaying' = ToReplay(flag')
              /\ UNCHANGED <<lineVars, currentCommand, pendingCommands, sent, executed>>

\* One turn of setFlag's loop on the queue of type t.
Replay(t) == /\ t \in replaying
             /\ pendingCommands[t] # <<>>
             /\ CommandProcessor(pendingCommands[t],
                  [pendingCommands EXCEPT ![t] = Unread(pendingCommands[t])])
             /\ UNCHANGED <<lineVars, flag, replaying, sent>>

ReplayDone(t) == /\ t \in replaying
                 /\ pendingCommands[t] = <<>>
                 /\ replaying' = replaying \ {t}
                 /\ UNCHANGED <<lineVars, currentCommand, flag, pendingCommands,
                                sent, executed>>

UnsetFlag(t) == /\ replaying = {}
                /\ flag' = flag \ {t}
                /\ UNCHANGED <<lineVars, currentCommand, pendingCommands, replaying,
                               sent, executed>>

\* Mutant: all the flags are cleared.
SwitchableAll == Types

\* connectOk and connectFail pass CLI_CMD_NETWORK, never CLI_CMD_SIMPLE.
Switchable == Types \ {SIMPLE}

Next == \/ \E f \in PeerFrame : Transmit(f)
        \/ Arrive
        \/ DataReceived
        \/ \E t \in Switchable : SetFlag(t) \/ UnsetFlag(t)
        \/ \E t \in Types : Replay(t) \/ ReplayDone(t)

Spec == Init /\ [][Next]_vars

\* The wire delivers what was sent and the task loop keeps running; CPU1 need
\* not send anything and the network need not come up.
Fairness == /\ WF_vars(Arrive)
            /\ WF_vars(DataReceived)
            /\ \A t \in Types : WF_vars(Replay(t)) /\ WF_vars(ReplayDone(t))

FairSpec == Spec /\ Fairness

-----------------------------------------------------------------------------
(* Properties *)

TypeOK == /\ line \in Seq(Byte)
          /\ rx \in Seq(Byte)
          /\ events \in Nat
          /\ currentCommand \in Command \cup {NUL}
          /\ SIMPLE \in flag /\ flag \subseteq Types
          /\ pendingCommands \in [Types -> Seq(Byte)]
          /\ replaying \subseteq flag
          /\ sent \in Seq(PeerFrame)
          /\ executed \in Seq([cmd : Command, params : Seq(Byte)])

\* The release build's commands: one parameter byte for each command that can
\* be queued, at most one for the others.
OneByteTable == \A c \in Command : /\ Size[c] <= 1
                                   /\ Type[c] # SIMPLE => Size[c] = 1

\* commandProcessor runs once per received byte and handles at most one
\* command, and setFlag's replay takes the command in hand away from the line.
\* Yet when the last callback has run, no received byte is left unread.
NoStrandedInput == events = 0 => rx = <<>>

\* Whatever the interleaving of arrivals, queueing and replays, a queue that is
\* not being replayed holds whole frames: a command byte of the queue's type,
\* then that command's one parameter byte.
Framed(q, t) ==
  /\ Len(q) % 2 = 0
  /\ \A i \in DOMAIN q : i % 2 = 1 => q[i] \in Command /\ Type[q[i]] = t

PendingFramed == \A t \in Types \ replaying : Framed(pendingCommands[t], t)

\* A command from the line is never executed while an earlier command of its
\* type still waits in the queue: setFlag empties the queue before it returns.
NoOvertaking ==
  [][executed' # executed /\ replaying = {} =>
       pendingCommands[Type[executed'[Len(executed')].cmd]] = <<>>]_vars

\* setFlag returns: its loop on available() reads every queued byte.
ReplayTerminates == replaying # {} ~> replaying = {}

\* The handlers are called for the commands CPU1 sent, in the order of sending,
\* each once and with its parameters.
Bus == INSTANCE CommandBus WITH Frame <- PeerFrame
ImplementsBus == Bus!BusFairSpec

\* A handler is only called for a command and the parameters that CPU1 sent.
ExecutedWasSent == \A i \in DOMAIN executed : \E j \in DOMAIN sent : executed[i] = sent[j]
=============================================================================
