----------------------------- MODULE CliProofs -----------------------------
(***************************************************************************)
(* Theorems about Cli, for every table of commands and every number of     *)
(* frames.  CommandProcessor is common to the two tasks that enter the     *)
(* interpreter, so what it preserves is stated in lemmas first.            *)
(***************************************************************************)
EXTENDS Cli, SeqLemmas

Executed == [cmd : Command, params : Seq(Byte)]
Streams == [Types -> Seq(Byte)]

-----------------------------------------------------------------------------
(* What one call of commandProcessor reads and writes *)

\* The command in hand is a byte, and the rest of the stream a stream.
LEMMA CodeType ==
  ASSUME TypeOK, NEW s \in Seq(Byte)
  PROVE  Code(s) \in Byte /\ AfterCode(s) \in Seq(Byte)
BY TableAssumption DEF TypeOK, Code, AfterCode

\* A complete command has as many parameters as it is registered with.
LEMMA ParamsType ==
  ASSUME TypeOK, NEW s \in Seq(Byte), Complete(s)
  PROVE  /\ Code(s) \in Command
         /\ Params(s) \in Seq(Byte)
         /\ Len(Params(s)) = Size[Code(s)]
         /\ Unread(s) \in Seq(Byte)
         /\ Len(Unread(s)) = Len(AfterCode(s)) - Size[Code(s)]
<1>1. Code(s) \in Command /\ AfterCode(s) \in Seq(Byte)
  BY CodeType DEF Complete
<1>2. Size[Code(s)] \in Nat /\ Size[Code(s)] <= Len(AfterCode(s))
  BY <1>1, TableAssumption DEF Complete
<1>3. Params(s) \in Seq(Byte) /\ Len(Params(s)) = Size[Code(s)]
  BY <1>1, <1>2 DEF Params
<1>4. Unread(s) \in Seq(Byte) /\ Len(Unread(s)) = Len(AfterCode(s)) - Size[Code(s)]
  BY <1>1, <1>2 DEF Unread
<1> QED  BY <1>1, <1>3, <1>4

\* What a call leaves in the stream is a stream.
LEMMA UnreadType ==
  ASSUME TypeOK, NEW s \in Seq(Byte)
  PROVE  Unread(s) \in Seq(Byte)
BY CodeType, ParamsType DEF Unread

\* A call of commandProcessor keeps the types of what it writes.
LEMMA ProcessorType ==
  ASSUME TypeOK, NEW s \in Seq(Byte), NEW streams \in Streams,
         CommandProcessor(s, streams)
  PROVE  /\ currentCommand' \in Command \cup {NUL}
         /\ pendingCommands' \in Streams
         /\ executed' \in Seq(Executed)
<1>1. CASE Skip(s, streams)
  BY <1>1 DEF Skip, TypeOK, Executed
<1>2. CASE Await(s, streams)
  BY <1>2 DEF Await, TypeOK, Executed
<1>3. CASE Enqueue(s, streams)
  <2>1. Code(s) \in Command /\ Params(s) \in Seq(Byte) /\ Type[Code(s)] \in Types
    BY <1>3, ParamsType, TableAssumption DEF Enqueue
  <2>2. <<Code(s)>> \o Params(s) \in Seq(Byte)
    BY <2>1, CodeType
  <2>3. streams[Type[Code(s)]] \o (<<Code(s)>> \o Params(s)) \in Seq(Byte)
    BY <2>1, <2>2 DEF Streams
  <2> QED  BY <1>3, <2>1, <2>3 DEF Enqueue, Queued, TypeOK, Executed, Streams
<1>4. CASE Execute(s, streams)
  <2>1. FrameOf(Code(s), Params(s)) \in Executed
    BY <1>4, ParamsType DEF Execute, FrameOf, Executed
  <2> QED  BY <1>4, <2>1 DEF Execute, TypeOK, Executed
<1> QED  BY <1>1, <1>2, <1>3, <1>4 DEF CommandProcessor

\* The bytes of a frame that CPU1 sends.
LEMMA FrameBytes ==
  ASSUME NEW f \in PeerFrame
  PROVE  <<f.cmd>> \o f.params \in Seq(Byte)
<1>1. PICK c \in Command : \E p \in [1..PeerSize[c] -> Byte] : f = FrameOf(c, p)
  BY DEF PeerFrame
<1>2. PICK p \in [1..PeerSize[c] -> Byte] : f = FrameOf(c, p)
  BY <1>1
<1>3. p \in Seq(Byte) /\ c \in Byte
  BY <1>2, TableAssumption, SeqDef
<1> QED  BY <1>2, <1>3 DEF FrameOf

-----------------------------------------------------------------------------
(* Type correctness *)

\* The bytes, queues and flags of the interpreter keep their types: currentCommand
\* is always a registered command or zero, and the simple commands stay enabled.
THEOREM TypeCorrect == Spec => []TypeOK
<1>1. Init => TypeOK
  BY TableAssumption DEF Init, TypeOK
<1>2. TypeOK /\ [Next]_vars => TypeOK'
  <2> SUFFICES ASSUME TypeOK, [Next]_vars PROVE TypeOK'
    OBVIOUS
  <2> USE TableAssumption
  <2>1. ASSUME NEW f \in PeerFrame, Transmit(f) PROVE TypeOK'
    BY <2>1, FrameBytes DEF Transmit, TypeOK, cliVars
  <2>2. CASE Arrive
    BY <2>2 DEF Arrive, TypeOK, cliVars
  <2>3. CASE DataReceived
    <3>1. rx \in Seq(Byte) /\ pendingCommands \in Streams
      BY DEF TypeOK, Streams
    <3>2. /\ currentCommand' \in Command \cup {NUL}
          /\ pendingCommands' \in Streams
          /\ executed' \in Seq(Executed)
      BY <2>3, <3>1, ProcessorType DEF DataReceived
    <3>3. rx' \in Seq(Byte)
      BY <2>3, <3>1, UnreadType DEF DataReceived
    <3> QED  BY SMTT(30), <2>3, <3>2, <3>3 DEF DataReceived, TypeOK, Streams, Executed
  <2>4. ASSUME NEW t \in Switchable, SetFlag(t) PROVE TypeOK'
    BY <2>4 DEF SetFlag, ToReplay, Switchable, TypeOK, lineVars
  <2>5. ASSUME NEW t \in Switchable, UnsetFlag(t) PROVE TypeOK'
    BY <2>5 DEF UnsetFlag, Switchable, TypeOK, lineVars
  <2>6. ASSUME NEW t \in Types, Replay(t) PROVE TypeOK'
    <3>1. /\ pendingCommands[t] \in Seq(Byte)
          /\ [pendingCommands EXCEPT ![t] = Unread(pendingCommands[t])] \in Streams
      BY UnreadType DEF TypeOK, Streams
    <3>2. /\ currentCommand' \in Command \cup {NUL}
          /\ pendingCommands' \in Streams
          /\ executed' \in Seq(Executed)
      BY <2>6, <3>1, ProcessorType DEF Replay
    <3> QED  BY <2>6, <3>2 DEF Replay, TypeOK, lineVars, Streams, Executed
  <2>7. ASSUME NEW t \in Types, ReplayDone(t) PROVE TypeOK'
    BY <2>7 DEF ReplayDone, TypeOK, lineVars
  <2>8. CASE UNCHANGED vars
    BY <2>8 DEF vars, TypeOK
  <2> QED  BY <2>1, <2>2, <2>3, <2>4, <2>5, <2>6, <2>7, <2>8 DEF Next
<1> QED  BY <1>1, <1>2, PTL DEF Spec

-----------------------------------------------------------------------------
(* Ordering: the queue stays in front of the line *)

\* Only the queue of a disabled type, or one that setFlag is emptying, holds
\* anything.
QueueDisabled == \A t \in flag \ replaying : pendingCommands[t] = <<>>

\* Nothing is queued when the firmware starts.
LEMMA QueueDisabledInitially == Init => QueueDisabled
BY TableAssumption DEF Init, QueueDisabled

\* A call of commandProcessor writes only to the queue of a disabled type.
LEMMA ProcessorQueues ==
  ASSUME TypeOK, NEW s \in Seq(Byte), NEW streams \in Streams,
         CommandProcessor(s, streams), NEW t \in flag
  PROVE  pendingCommands'[t] = streams[t]
<1>1. t \in Types
  BY DEF TypeOK
<1>2. CASE Enqueue(s, streams)
  BY <1>1, <1>2 DEF Enqueue, Streams
<1> QED  BY <1>1, <1>2 DEF CommandProcessor, Skip, Await, Execute

\* Every step leaves the queues of the enabled types empty, or being replayed.
LEMMA QueueDisabledStep ==
  TypeOK /\ QueueDisabled /\ [Next]_vars => QueueDisabled'
<1> SUFFICES ASSUME TypeOK, QueueDisabled, [Next]_vars PROVE QueueDisabled'
  OBVIOUS
<1>1. ASSUME NEW f \in PeerFrame, Transmit(f) PROVE QueueDisabled'
  BY <1>1 DEF Transmit, cliVars, QueueDisabled
<1>2. CASE Arrive
  BY <1>2 DEF Arrive, cliVars, QueueDisabled
<1>3. CASE DataReceived
  <2>1. rx \in Seq(Byte) /\ pendingCommands \in Streams
    BY DEF TypeOK, Streams
  <2>2. \A t \in flag : pendingCommands'[t] = pendingCommands[t]
    BY <1>3, <2>1, ProcessorQueues DEF DataReceived
  <2> QED  BY <1>3, <2>2 DEF DataReceived, QueueDisabled
<1>4. ASSUME NEW t \in Switchable, SetFlag(t) PROVE QueueDisabled'
  BY <1>4 DEF SetFlag, ToReplay, QueueDisabled
<1>5. ASSUME NEW t \in Switchable, UnsetFlag(t) PROVE QueueDisabled'
  BY <1>5 DEF UnsetFlag, QueueDisabled
<1>6. ASSUME NEW t \in Types, Replay(t) PROVE QueueDisabled'
  <2> DEFINE streams == [pendingCommands EXCEPT ![t] = Unread(pendingCommands[t])]
  <2>1. pendingCommands[t] \in Seq(Byte) /\ streams \in Streams
    BY UnreadType DEF TypeOK, Streams
  <2>2. \A k \in flag : pendingCommands'[k] = streams[k]
    BY <1>6, <2>1, ProcessorQueues DEF Replay
  <2>3. \A k \in flag \ replaying : streams[k] = pendingCommands[k]
    BY <1>6 DEF Replay, TypeOK
  <2> QED  BY <1>6, <2>2, <2>3 DEF Replay, QueueDisabled
<1>7. ASSUME NEW t \in Types, ReplayDone(t) PROVE QueueDisabled'
  BY <1>7 DEF ReplayDone, QueueDisabled
<1>8. CASE UNCHANGED vars
  BY <1>8 DEF vars, QueueDisabled
<1> QED  BY <1>1, <1>2, <1>3, <1>4, <1>5, <1>6, <1>7, <1>8 DEF Next

\* While no replay runs, a handler is only called by DataReceived, and then the
\* queue of the command's type is empty: it is enabled.
LEMMA ExecuteBehindQueue ==
  ASSUME TypeOK, QueueDisabled, Next, executed' # executed, replaying = {}
  PROVE  pendingCommands[Type[executed'[Len(executed')].cmd]] = <<>>
<1>1. DataReceived
  BY DEF Next, Transmit, Arrive, SetFlag, UnsetFlag, Replay, ReplayDone
<1>2. Execute(rx, pendingCommands)
  BY <1>1 DEF DataReceived, CommandProcessor, Skip, Await, Enqueue
<1>3. executed' = Append(executed, FrameOf(Code(rx), Params(rx)))
  BY <1>2 DEF Execute
<1>4. executed'[Len(executed')] = FrameOf(Code(rx), Params(rx))
  BY <1>3 DEF TypeOK
<1>5. executed'[Len(executed')].cmd = Code(rx)
  BY <1>4 DEF FrameOf
<1> QED  BY <1>2, <1>5 DEF Execute, QueueDisabled

\* A command from the line is never executed while an earlier one of its type is
\* still queued, for every table of commands.
THEOREM QueueInFront == Spec => NoOvertaking
<1>1. TypeOK /\ QueueDisabled /\ [Next]_vars =>
        [executed' # executed /\ replaying = {} =>
           pendingCommands[Type[executed'[Len(executed')].cmd]] = <<>>]_vars
  BY ExecuteBehindQueue
<1>2. Spec => []TypeOK
  BY TypeCorrect
<1> QED  BY <1>1, <1>2, QueueDisabledInitially, QueueDisabledStep, PTL
         DEF Spec, NoOvertaking

-----------------------------------------------------------------------------
(* No byte is left behind *)

\* There is a callback to come for every unread byte.
ReadsAll == Len(rx) <= events

\* With at most one parameter byte, a call that finds anything to read reads it.
LEMMA ProcessorReads ==
  ASSUME TypeOK, OneByteTable, currentCommand = NUL \/ Size[currentCommand] = 1,
         NEW s \in Seq(Byte)
  PROVE  Len(Unread(s)) <= Len(s) /\ (s # <<>> => Len(Unread(s)) < Len(s))
<1>1. Len(AfterCode(s)) \in Nat /\ Len(s) \in Nat
  BY CodeType
<1>2. CASE currentCommand = NUL
  <2>1. /\ s # <<>> => Len(AfterCode(s)) = Len(s) - 1
        /\ s = <<>> => AfterCode(s) = s
    BY <1>2 DEF AfterCode
  <2>2. Len(Unread(s)) <= Len(AfterCode(s))
    <3>1. CASE Complete(s)
      BY <1>1, <3>1, ParamsType, TableAssumption
    <3>2. CASE ~Complete(s)
      BY <1>1, <3>2 DEF Unread
    <3> QED  BY <3>1, <3>2
  <2>3. Len(Unread(s)) \in Nat
    BY UnreadType
  <2> QED  BY <1>1, <2>1, <2>2, <2>3
<1>3. CASE currentCommand # NUL
  <2>1. AfterCode(s) = s /\ Code(s) = currentCommand /\ Code(s) \in Command
        /\ Size[Code(s)] = 1
    BY <1>3 DEF AfterCode, Code, TypeOK
  <2>2. CASE s = <<>>
    BY <2>1, <2>2 DEF Unread, Complete
  <2>3. CASE s # <<>>
    <3>1. Complete(s)
      BY <2>1, <2>3, <1>1 DEF Complete
    <3> QED  BY <3>1, <2>1, <1>1, ParamsType
  <2> QED  BY <2>2, <2>3
<1> QED  BY <1>2, <1>3

\* A command that waits for more input waits for its one parameter byte.
OneByteInHand == currentCommand = NUL \/ Size[currentCommand] = 1

\* A call of commandProcessor leaves a command in hand only if it has one parameter.
LEMMA ProcessorInHand ==
  ASSUME TypeOK, OneByteTable, OneByteInHand,
         NEW s \in Seq(Byte), NEW streams \in Streams, CommandProcessor(s, streams)
  PROVE  OneByteInHand'
<1>1. CASE Await(s, streams)
  <2>1. Code(s) \in Command /\ Len(AfterCode(s)) \in Nat
    BY <1>1, CodeType DEF Await
  <2>2. Size[Code(s)] \in Nat /\ Size[Code(s)] <= 1 /\ ~(Len(AfterCode(s)) >= Size[Code(s)])
    BY <1>1, <2>1, TableAssumption DEF Await, Complete, OneByteTable
  <2> QED  BY <1>1, <2>1, <2>2 DEF Await, OneByteInHand
<1>2. CASE Enqueue(s, streams)
  <2>1. Code(s) \in Command /\ Type[Code(s)] # SIMPLE
    BY <1>2, ParamsType DEF Enqueue, TypeOK
  <2> QED  BY <1>2, <2>1 DEF Enqueue, OneByteInHand, OneByteTable
<1> QED  BY <1>1, <1>2 DEF CommandProcessor, Skip, Execute, OneByteInHand

InputInv == ReadsAll /\ OneByteInHand

\* Every step keeps a callback for each unread byte.
LEMMA InputInvStep ==
  ASSUME OneByteTable
  PROVE  TypeOK /\ InputInv /\ [Next]_vars => InputInv'
<1> SUFFICES ASSUME TypeOK, InputInv, [Next]_vars PROVE InputInv'
  OBVIOUS
<1> USE DEF InputInv
<1>1. ASSUME NEW f \in PeerFrame, Transmit(f) PROVE InputInv'
  BY <1>1 DEF Transmit, cliVars, ReadsAll, OneByteInHand
<1>2. CASE Arrive
  <2>1. Len(rx') = Len(rx) + 1
    BY <1>2 DEF Arrive, TypeOK
  <2> QED  BY <1>2, <2>1 DEF Arrive, cliVars, ReadsAll, OneByteInHand, TypeOK
<1>3. CASE DataReceived
  <2>1. rx \in Seq(Byte) /\ pendingCommands \in Streams
    BY DEF TypeOK, Streams
  <2>2. OneByteInHand'
    BY <1>3, <2>1, ProcessorInHand DEF DataReceived
  <2>3. Len(Unread(rx)) <= Len(rx) /\ (rx # <<>> => Len(Unread(rx)) < Len(rx))
    BY <2>1, ProcessorReads DEF OneByteInHand
  <2>4. Len(rx) \in Nat /\ (rx = <<>> => Len(rx) = 0)
        /\ Unread(rx) \in Seq(Byte) /\ Len(Unread(rx)) \in Nat
    BY <2>1, UnreadType
  <2>5. ReadsAll'
    BY <1>3, <2>3, <2>4 DEF DataReceived, ReadsAll, TypeOK
  <2> QED  BY <2>2, <2>5
<1>4. ASSUME NEW t \in Switchable, SetFlag(t) PROVE InputInv'
  BY <1>4 DEF SetFlag, lineVars, ReadsAll, OneByteInHand
<1>5. ASSUME NEW t \in Switchable, UnsetFlag(t) PROVE InputInv'
  BY <1>5 DEF UnsetFlag, lineVars, ReadsAll, OneByteInHand
<1>6. ASSUME NEW t \in Types, Replay(t) PROVE InputInv'
  <2>1. /\ pendingCommands[t] \in Seq(Byte)
        /\ [pendingCommands EXCEPT ![t] = Unread(pendingCommands[t])] \in Streams
    BY UnreadType DEF TypeOK, Streams
  <2>2. OneByteInHand'
    BY <1>6, <2>1, ProcessorInHand DEF Replay
  <2> QED  BY <1>6, <2>2 DEF Replay, lineVars, ReadsAll
<1>7. ASSUME NEW t \in Types, ReplayDone(t) PROVE InputInv'
  BY <1>7 DEF ReplayDone, lineVars, ReadsAll, OneByteInHand
<1>8. CASE UNCHANGED vars
  BY <1>8 DEF vars, ReadsAll, OneByteInHand
<1> QED  BY <1>1, <1>2, <1>3, <1>4, <1>5, <1>6, <1>7, <1>8 DEF Next

\* When the last receive callback has run, every received byte has been read,
\* for every table whose commands take at most one parameter byte.
THEOREM InputRead == ASSUME OneByteTable PROVE Spec => []NoStrandedInput
<1>1. Init => InputInv
  BY DEF Init, InputInv, ReadsAll, OneByteInHand
<1>2. TypeOK /\ InputInv => NoStrandedInput
  <2> SUFFICES ASSUME TypeOK, Len(rx) <= 0 PROVE rx = <<>>
    BY DEF InputInv, ReadsAll, NoStrandedInput
  <2> QED  BY DEF TypeOK
<1> QED  BY <1>1, <1>2, InputInvStep, TypeCorrect, PTL DEF Spec

-----------------------------------------------------------------------------
(* The queue holds whole frames *)

\* Numbers of one parity: the arithmetic of appending a frame of two bytes.
LEMMA Parity ==
  ASSUME NEW n \in Nat, n % 2 = 0
  PROVE  (n + 2) % 2 = 0
OBVIOUS

\* A frame appended to a framed queue keeps it framed.
LEMMA FramedAppend ==
  ASSUME NEW q \in Seq(Byte), NEW t \in Types, NEW c \in Command, NEW p \in Seq(Byte),
         Type[c] = t, Len(p) = 1, Framed(q, t)
  PROVE  Framed(q \o (<<c>> \o p), t)
<1> DEFINE r == q \o (<<c>> \o p)
<1>1. c \in Byte
  BY TableAssumption
<1>2. <<c>> \o p \in Seq(Byte) /\ Len(<<c>> \o p) = 2 /\ (<<c>> \o p)[1] = c
  <2>1. <<c>> \in Seq(Byte) /\ Len(<<c>>) = 1 /\ <<c>>[1] = c
    BY <1>1
  <2>2. ASSUME NEW h \in Seq(Byte), Len(h) = 1, h[1] = c
        PROVE  h \o p \in Seq(Byte) /\ Len(h \o p) = 2 /\ (h \o p)[1] = c
    <3>1. /\ h \o p \in Seq(Byte)
          /\ Len(h \o p) = Len(h) + Len(p)
          /\ \A i \in 1..(Len(h) + Len(p)) :
               (h \o p)[i] = IF i <= Len(h) THEN h[i] ELSE p[i - Len(h)]
      BY <2>2, ConcatProperties
    <3> QED  BY <2>2, <3>1
  <2> QED  BY <2>1, <2>2
<1>3. r \in Seq(Byte) /\ Len(r) = Len(q) + 2 /\ Len(q) \in Nat
  BY <1>2
<1>4. \A i \in 1..Len(q) : r[i] = q[i]
  BY <1>2
<1>5. r[Len(q) + 1] = c
  BY <1>2
<1> HIDE DEF r
<1>6. Len(r) % 2 = 0
  BY <1>3, Parity DEF Framed
<1>7. ASSUME NEW i \in DOMAIN r, i % 2 = 1 PROVE r[i] \in Command /\ Type[r[i]] = t
  <2>1. i \in 1..Len(q) \/ i = Len(q) + 1 \/ i = Len(q) + 2
    BY <1>3
  <2>2. i # Len(q) + 2
    BY <1>3, <1>6, <1>7
  <2>3. CASE i \in 1..Len(q)
    BY <2>3, <1>4, <1>7 DEF Framed
  <2>4. CASE i = Len(q) + 1
    BY <2>4, <1>5
  <2> QED  BY <2>1, <2>2, <2>3, <2>4
<1> QED  BY <1>6, <1>7 DEF Framed, r

\* commandProcessor appends one whole frame, or nothing, to a queue it is not
\* reading from.
LEMMA ProcessorFrames ==
  ASSUME TypeOK, OneByteTable, NEW s \in Seq(Byte), NEW streams \in Streams,
         CommandProcessor(s, streams), NEW t \in Types,
         Framed(streams[t], t)
  PROVE  Framed(pendingCommands'[t], t)
<1>1. CASE Enqueue(s, streams) /\ Type[Code(s)] = t
  <2>1. Code(s) \in Command /\ Params(s) \in Seq(Byte) /\ Type[Code(s)] # SIMPLE
    BY <1>1, ParamsType DEF Enqueue, TypeOK
  <2>2. Len(Params(s)) = 1
    BY <1>1, <2>1, ParamsType DEF Enqueue, OneByteTable
  <2>3. pendingCommands'[t] = streams[t] \o (<<Code(s)>> \o Params(s))
    BY <1>1 DEF Enqueue, Queued, Streams
  <2>4. streams[t] \in Seq(Byte)
    BY DEF Streams
  <2> QED  BY <1>1, <2>1, <2>2, <2>3, <2>4, FramedAppend
<1>2. CASE ~(Enqueue(s, streams) /\ Type[Code(s)] = t)
  BY <1>2 DEF CommandProcessor, Skip, Await, Execute, Enqueue, Streams
<1> QED  BY <1>1, <1>2

\* The empty queue is framed.
LEMMA EmptyFramed == ASSUME NEW t PROVE Framed(<<>>, t)
BY DEF Framed

\* Every step keeps the queues that are not being replayed framed.
LEMMA PendingFramedStep ==
  ASSUME OneByteTable
  PROVE  TypeOK /\ PendingFramed /\ [Next]_vars => PendingFramed'
<1> SUFFICES ASSUME TypeOK, PendingFramed, [Next]_vars PROVE PendingFramed'
  OBVIOUS
<1>0. replaying' = replaying /\ pendingCommands' = pendingCommands => PendingFramed'
  BY DEF PendingFramed
<1>1. ASSUME NEW f \in PeerFrame, Transmit(f) PROVE PendingFramed'
  BY <1>0, <1>1 DEF Transmit, cliVars
<1>2. CASE Arrive
  BY <1>0, <1>2 DEF Arrive, cliVars
<1>3. CASE DataReceived
  <2>1. rx \in Seq(Byte) /\ pendingCommands \in Streams
    BY DEF TypeOK, Streams
  <2>2. \A t \in Types \ replaying : Framed(pendingCommands'[t], t)
    BY <1>3, <2>1, ProcessorFrames DEF DataReceived, PendingFramed
  <2> QED  BY <1>3, <2>2 DEF DataReceived, PendingFramed
<1>4. ASSUME NEW t \in Switchable, SetFlag(t) PROVE PendingFramed'
  BY <1>4 DEF SetFlag, PendingFramed
<1>5. ASSUME NEW t \in Switchable, UnsetFlag(t) PROVE PendingFramed'
  BY <1>0, <1>5 DEF UnsetFlag
<1>6. ASSUME NEW t \in Types, Replay(t) PROVE PendingFramed'
  <2> DEFINE streams == [pendingCommands EXCEPT ![t] = Unread(pendingCommands[t])]
  <2>1. pendingCommands[t] \in Seq(Byte) /\ streams \in Streams
    BY UnreadType DEF TypeOK, Streams
  <2>2. \A k \in Types \ replaying : streams[k] = pendingCommands[k]
    BY <1>6 DEF Replay, TypeOK
  <2>3. CommandProcessor(pendingCommands[t], streams)
    BY <1>6 DEF Replay
  <2> HIDE DEF streams
  <2>4. \A k \in Types \ replaying : Framed(pendingCommands'[k], k)
    BY <2>1, <2>2, <2>3, ProcessorFrames DEF PendingFramed
  <2> QED  BY <1>6, <2>4 DEF Replay, PendingFramed
<1>7. ASSUME NEW t \in Types, ReplayDone(t) PROVE PendingFramed'
  BY <1>7, EmptyFramed DEF ReplayDone, PendingFramed
<1>8. CASE UNCHANGED vars
  BY <1>0, <1>8 DEF vars
<1> QED  BY <1>1, <1>2, <1>3, <1>4, <1>5, <1>6, <1>7, <1>8 DEF Next

\* The queues hold whole frames of their type, for every table in which a command
\* that can be queued takes one parameter byte.
THEOREM QueueFramed == ASSUME OneByteTable PROVE Spec => []PendingFramed
<1>1. Init => PendingFramed
  BY EmptyFramed DEF Init, PendingFramed
<1> QED  BY <1>1, PendingFramedStep, TypeCorrect, PTL DEF Spec

-----------------------------------------------------------------------------
(* Refinement *)

\* The commands that need no network and take the parameters that CPU1 sends.
SimpleTable == \A c \in Command : Type[c] = SIMPLE /\ Size[c] = PeerSize[c]

\* The bytes of CPU1 for which no handler has been called, and the command in hand.
InHand == IF currentCommand = NUL THEN <<>> ELSE <<currentCommand>>
Unhandled == InHand \o (rx \o line)

\* The stream u holds the frames behind the first k, one behind the other: frame i
\* ends at the byte at[i].
Cut(at, frames, k, u) ==
  /\ at[k] = 0
  /\ at[Len(frames)] = Len(u)
  /\ \A i, j \in k..Len(frames) : i <= j => at[i] <= at[j]
  /\ \A i \in (k + 1)..Len(frames) :
       /\ at[i] = at[i - 1] + 1 + Len(frames[i].params)
       /\ u[at[i - 1] + 1] = frames[i].cmd
       /\ \A j \in 1..Len(frames[i].params) : u[at[i - 1] + 1 + j] = frames[i].params[j]

Carries(frames, k, u) == \E at \in [k..Len(frames) -> 0..Len(u)] : Cut(at, frames, k, u)

\* What CPU1 sends is a command and as many parameters as it sends with it.
LEMMA FrameFacts ==
  ASSUME NEW f \in PeerFrame
  PROVE  /\ f.cmd \in Command /\ f.params \in Seq(Byte)
         /\ Len(f.params) = PeerSize[f.cmd] /\ Len(f.params) \in Nat
         /\ f = FrameOf(f.cmd, f.params)
<1>1. PICK c \in Command : \E p \in [1..PeerSize[c] -> Byte] : f = FrameOf(c, p)
  BY DEF PeerFrame
<1>2. PICK p \in [1..PeerSize[c] -> Byte] : f = FrameOf(c, p)
  BY <1>1
<1>3. PeerSize[c] \in Nat
  BY TableAssumption
<1>4. p \in Seq(Byte) /\ Len(p) = PeerSize[c]
  BY <1>2, <1>3
<1> QED  BY <1>2, <1>3, <1>4 DEF FrameOf

\* The frames that are carried can be followed by another.
LEMMA CarriesAnother ==
  ASSUME NEW frames \in Seq(PeerFrame), NEW k \in 0..Len(frames), NEW u \in Seq(Byte),
         Carries(frames, k, u), NEW f \in PeerFrame,
         NEW c \in Byte, NEW p \in Seq(Byte), f = FrameOf(c, p)
  PROVE  Carries(Append(frames, f), k, u \o (<<c>> \o p))
<1> DEFINE n == Len(frames)
           v == u \o (<<c>> \o p)
           more == Append(frames, f)
<1>1. PICK at \in [k..n -> 0..Len(u)] : Cut(at, frames, k, u)
  BY DEF Carries
<1>2. n \in Nat /\ Len(u) \in Nat /\ k \in 0..n
  OBVIOUS
<1>3. f.cmd = c /\ f.params = p /\ Len(p) \in Nat
  BY DEF FrameOf
<1>4. /\ Len(v) = Len(u) + 1 + Len(p)
      /\ \A i \in 1..Len(u) : v[i] = u[i]
      /\ v[Len(u) + 1] = c
      /\ \A j \in 1..Len(p) : v[Len(u) + 1 + j] = p[j]
  BY Followed
<1> HIDE DEF v
<1>5. Len(v) \in Nat /\ Len(u) <= Len(v)
  <2>1. Len(p) \in Nat /\ Len(v) = Len(u) + 1 + Len(p)
    BY <1>3, <1>4
  <2> QED  BY <1>2, <2>1
<1>6. /\ more \in Seq(PeerFrame) /\ Len(more) = n + 1 /\ more[n + 1] = f
      /\ \A i \in 1..n : more[i] = frames[i]
  BY Appended
<1> HIDE DEF more
<1> HIDE DEF n
<1>7. /\ at \in [k..n -> 0..Len(u)] /\ at[k] = 0 /\ at[n] = Len(u)
      /\ \A i, j \in k..n : i <= j => at[i] <= at[j]
      /\ \A i \in (k + 1)..n :
           /\ at[i] = at[i - 1] + 1 + Len(frames[i].params)
           /\ u[at[i - 1] + 1] = frames[i].cmd
           /\ \A j \in 1..Len(frames[i].params) :
                u[at[i - 1] + 1 + j] = frames[i].params[j]
  BY <1>1 DEF Cut, n
<1> DEFINE to == [i \in k..(n + 1) |-> IF i = n + 1 THEN Len(v) ELSE at[i]]
<1>8. \A i \in k..n : to[i] = at[i] /\ at[i] \in 0..Len(u) /\ i \in k..(n + 1) /\ i # n + 1
  BY <1>2, <1>7
<1>9. to[n + 1] = Len(v) /\ n + 1 \in k..(n + 1)
  BY <1>2
<1>10. to \in [k..(n + 1) -> 0..Len(v)]
  <2>1. ASSUME NEW i \in k..(n + 1) PROVE to[i] \in 0..Len(v)
    <3>1. i = n + 1 \/ i \in k..n
      BY <1>2
    <3> QED  BY <1>2, <1>5, <1>8, <1>9, <3>1
  <2> QED  BY <2>1
<1> HIDE DEF to
<1>11. ASSUME NEW i \in (k + 1)..(n + 1)
       PROVE  /\ to[i] = to[i - 1] + 1 + Len(more[i].params)
              /\ v[to[i - 1] + 1] = more[i].cmd
              /\ \A j \in 1..Len(more[i].params) : v[to[i - 1] + 1 + j] = more[i].params[j]
  <2>1. CASE i \in (k + 1)..n
    <3>1. i \in 1..n /\ i \in k..n /\ i - 1 \in k..n
      BY <1>2, <2>1
    <3>2. frames[i] \in PeerFrame
      BY <3>1 DEF n
    <3>3. frames[i].params \in Seq(Byte)
      BY <3>2, FrameFacts
    <3>4. more[i] = frames[i] /\ to[i] = at[i] /\ to[i - 1] = at[i - 1]
      BY <1>6, <1>8, <3>1
    <3>5. at[i] \in 0..Len(u) /\ at[i - 1] \in 0..Len(u)
      BY <1>8, <3>1
    <3>6. /\ at[i] = at[i - 1] + 1 + Len(frames[i].params)
          /\ u[at[i - 1] + 1] = frames[i].cmd
          /\ \A j \in 1..Len(frames[i].params) :
               u[at[i - 1] + 1 + j] = frames[i].params[j]
      BY <1>7, <2>1
    <3>7. ASSUME NEW a \in Nat, NEW q \in Seq(Byte), a + 1 + Len(q) <= Len(u)
          PROVE  v[a + 1] = u[a + 1] /\ \A j \in 1..Len(q) : v[a + 1 + j] = u[a + 1 + j]
      <4>1. \A m \in 1..Len(u) : v[m] = u[m]
        BY <1>4
      <4> QED  BY <3>7, <4>1, Within
    <3>8. at[i - 1] \in Nat /\ at[i - 1] + 1 + Len(frames[i].params) <= Len(u)
      <4>1. at[i] = at[i - 1] + 1 + Len(frames[i].params)
        BY <3>6
      <4>2. Len(u) \in Nat
        BY <1>2
      <4> QED  BY <3>5, <4>1, <4>2
    <3>9. /\ v[at[i - 1] + 1] = u[at[i - 1] + 1]
          /\ \A j \in 1..Len(frames[i].params) :
               v[at[i - 1] + 1 + j] = u[at[i - 1] + 1 + j]
      BY <3>3, <3>7, <3>8
    <3>10. /\ at[i] = at[i - 1] + 1 + Len(frames[i].params)
           /\ v[at[i - 1] + 1] = frames[i].cmd
           /\ \A j \in 1..Len(frames[i].params) :
                v[at[i - 1] + 1 + j] = frames[i].params[j]
      BY <3>6, <3>9
    <3> QED  BY <3>4, <3>10
  <2>2. CASE i = n + 1
    <3>1. i - 1 = n /\ n \in k..n
      BY <1>2, <2>2
    <3>2. to[i - 1] = Len(u) /\ to[i] = Len(v) /\ more[i] = f
      BY <1>6, <1>7, <1>8, <1>9, <2>2, <3>1
    <3> QED  BY <1>3, <1>4, <3>2
  <2>3. i \in (k + 1)..n \/ i = n + 1
    BY <1>2
  <2> QED  BY <2>1, <2>2, <2>3
<1>12. ASSUME NEW i \in k..(n + 1), NEW j \in k..(n + 1), i <= j PROVE to[i] <= to[j]
  <2>1. CASE j = n + 1
    BY <1>2, <1>5, <1>9, <1>10, <2>1
  <2>2. CASE j # n + 1
    <3>1. i \in k..n /\ j \in k..n
      BY <1>2, <1>12, <2>2
    <3> QED  BY <1>7, <1>8, <1>12, <3>1
  <2> QED  BY <2>1, <2>2
<1>13. to[k] = 0
  BY <1>2, <1>7, <1>8
<1>14. Cut(to, more, k, v)
  BY <1>6, <1>9, <1>11, <1>12, <1>13 DEF Cut
<1> QED  BY <1>6, <1>10, <1>14 DEF Carries, v, more

\* The stream begins with the next frame.
LEMMA CarriesHead ==
  ASSUME NEW frames \in Seq(PeerFrame), NEW k \in 0..Len(frames), NEW u \in Seq(Byte),
         Carries(frames, k, u), u # <<>>
  PROVE  /\ k + 1 \in 1..Len(frames) /\ frames[k + 1] \in PeerFrame
         /\ u[1] = frames[k + 1].cmd
         /\ 1 + Len(frames[k + 1].params) <= Len(u)
         /\ \A j \in 1..Len(frames[k + 1].params) : u[1 + j] = frames[k + 1].params[j]
<1> DEFINE n == Len(frames)
<1>1. PICK at \in [k..n -> 0..Len(u)] : Cut(at, frames, k, u)
  BY DEF Carries
<1>2. n \in Nat /\ k \in 0..n /\ Len(u) \in Nat \ {0}
  BY EmptySeq
<1>3. k + 1 \in 1..n
  <2>1. at[k] = 0 /\ at[n] = Len(u)
    BY <1>1 DEF Cut
  <2> QED  BY <1>2, <2>1
<1>4. frames[k + 1] \in PeerFrame
  BY <1>3
<1>5. k + 1 \in (k + 1)..n /\ k + 1 \in k..n /\ (k + 1) - 1 = k
  BY <1>2, <1>3
<1>6. at[k] = 0 /\ at[k + 1] \in 0..Len(u)
  BY <1>1, <1>5 DEF Cut
<1>7. /\ at[k + 1] = at[(k + 1) - 1] + 1 + Len(frames[k + 1].params)
      /\ u[at[(k + 1) - 1] + 1] = frames[k + 1].cmd
      /\ \A j \in 1..Len(frames[k + 1].params) :
           u[at[(k + 1) - 1] + 1 + j] = frames[k + 1].params[j]
  BY <1>1, <1>5 DEF Cut
<1>8. /\ at[k + 1] = 0 + 1 + Len(frames[k + 1].params)
      /\ u[0 + 1] = frames[k + 1].cmd
      /\ \A j \in 1..Len(frames[k + 1].params) : u[0 + 1 + j] = frames[k + 1].params[j]
  BY <1>5, <1>6, <1>7
<1>9. 1 + Len(frames[k + 1].params) <= Len(u)
  <2>1. at[k + 1] = 0 + 1 + Len(frames[k + 1].params)
    BY <1>8
  <2> QED  BY <1>6, <2>1
<1>10. 0 + 1 = 1
  OBVIOUS
<1> QED  BY <1>3, <1>4, <1>8, <1>9, <1>10

\* The bytes of a frame on the line.
FrameLen(f) == 1 + Len(f.params)

\* Behind the next frame the stream carries the others.
LEMMA CarriesRest ==
  ASSUME NEW frames \in Seq(PeerFrame), NEW k \in 0..Len(frames), NEW u \in Seq(Byte),
         Carries(frames, k, u), u # <<>>, NEW m \in Nat,
         m = FrameLen(frames[k + 1]), NEW v \in Seq(Byte),
         Without(v, u, m)
  PROVE  Carries(frames, k + 1, v)
<1> DEFINE n == Len(frames)
<1>1. PICK at \in [k..n -> 0..Len(u)] : Cut(at, frames, k, u)
  BY DEF Carries
<1>2. n \in Nat /\ k \in 0..n /\ Len(u) \in Nat /\ Len(v) \in Nat /\ Len(v) = Len(u) - m
  BY DEF Without
<1>3. k + 1 \in 1..n
  BY CarriesHead
<1>4. k + 1 \in (k + 1)..n /\ k + 1 \in k..n /\ (k + 1) - 1 = k /\ n \in (k + 1)..n
  BY <1>2, <1>3
<1>5. at[k + 1] = m
  <2>1. at[k] = 0 /\ at[k + 1] = at[(k + 1) - 1] + 1 + Len(frames[k + 1].params)
    BY <1>1, <1>4 DEF Cut
  <2>2. at[k + 1] = 0 + m
    BY <1>4, <2>1 DEF FrameLen
  <2> QED  BY <2>2
<1>6. /\ at[n] = Len(u)
      /\ \A i, j \in k..n : i <= j => at[i] <= at[j]
      /\ \A i \in (k + 1)..n :
           /\ at[i] = at[i - 1] + 1 + Len(frames[i].params)
           /\ u[at[i - 1] + 1] = frames[i].cmd
           /\ \A j \in 1..Len(frames[i].params) :
                u[at[i - 1] + 1 + j] = frames[i].params[j]
  BY <1>1 DEF Cut
<1> HIDE DEF n
<1>7. \A i \in (k + 1)..n : at[i] \in m..Len(u) /\ i \in k..n
  <2>1. ASSUME NEW i \in (k + 1)..n PROVE at[i] \in m..Len(u) /\ i \in k..n
    <3>1. i \in k..n /\ k + 1 <= i
      BY <1>2
    <3>2. at[k + 1] <= at[i] /\ at[i] \in 0..Len(u)
      BY <1>4, <1>6, <3>1
    <3> QED  BY <1>2, <1>5, <3>1, <3>2
  <2> QED  BY <2>1
<1> DEFINE to == [i \in (k + 1)..n |-> at[i] - m]
<1>8. \A i \in (k + 1)..n : to[i] = at[i] - m
  OBVIOUS
<1>9. to \in [(k + 1)..n -> 0..Len(v)]
  <2>1. ASSUME NEW i \in (k + 1)..n PROVE at[i] - m \in 0..Len(v)
    <3>1. at[i] \in m..Len(u)
      BY <1>7
    <3> QED  BY SMTT(30), <1>2, <3>1
  <2> QED  BY <2>1
<1> HIDE DEF to
<1>10. to[k + 1] = 0 /\ to[n] = Len(v)
  <2>1. to[k + 1] = at[k + 1] - m /\ to[n] = at[n] - m /\ at[n] = Len(u)
    BY <1>4, <1>6, <1>8
  <2> QED  BY <1>2, <1>5, <2>1
<1>11. ASSUME NEW i \in (k + 1)..n, NEW j \in (k + 1)..n, i <= j PROVE to[i] <= to[j]
  <2>1. at[i] <= at[j]
    BY <1>6, <1>7, <1>11
  <2>2. to[i] = at[i] - m /\ to[j] = at[j] - m /\ at[i] \in m..Len(u) /\ at[j] \in m..Len(u)
    BY <1>7, <1>8
  <2>3. at[i] <= at[j] => at[i] - m <= at[j] - m
    BY <1>2, <2>2, ShiftedOrder
  <2> QED  BY <2>1, <2>2, <2>3
<1>12. ASSUME NEW i \in (k + 2)..n
       PROVE  /\ to[i] = to[i - 1] + 1 + Len(frames[i].params)
              /\ v[to[i - 1] + 1] = frames[i].cmd
              /\ \A j \in 1..Len(frames[i].params) :
                   v[to[i - 1] + 1 + j] = frames[i].params[j]
  <2>1. i \in (k + 1)..n /\ i - 1 \in (k + 1)..n /\ i \in 1..n
    BY <1>2
  <2>2. frames[i] \in PeerFrame
    BY <2>1 DEF n
  <2>3. frames[i].params \in Seq(Byte)
    BY <2>2, FrameFacts
  <2>4. /\ at[i] = at[i - 1] + 1 + Len(frames[i].params)
        /\ u[at[i - 1] + 1] = frames[i].cmd
        /\ \A j \in 1..Len(frames[i].params) : u[at[i - 1] + 1 + j] = frames[i].params[j]
    BY <1>6, <2>1
  <2>5. to[i] = at[i] - m /\ to[i - 1] = at[i - 1] - m
    BY <1>8, <2>1
  <2>6. at[i] \in m..Len(u) /\ at[i - 1] \in m..Len(u)
    BY <1>7, <2>1
  <2>7. ASSUME NEW q \in Seq(Byte), at[i] = at[i - 1] + 1 + Len(q)
        PROVE  /\ to[i] = to[i - 1] + 1 + Len(q)
               /\ v[to[i - 1] + 1] = u[at[i - 1] + 1]
               /\ \A j \in 1..Len(q) : v[to[i - 1] + 1 + j] = u[at[i - 1] + 1 + j]
    <3>1. Len(q) \in Nat
      OBVIOUS
    <3>2. ASSUME NEW x \in m..Len(u), NEW y \in m..Len(u), x = y + 1 + Len(q)
          PROVE  /\ x - m = (y - m) + 1 + Len(q)
                 /\ (y - m) + 1 \in 1..Len(v) /\ m + ((y - m) + 1) = y + 1
                 /\ \A j \in 1..Len(q) : /\ (y - m) + 1 + j \in 1..Len(v)
                                         /\ m + ((y - m) + 1 + j) = y + 1 + j
      <4>1. Len(u) \in Nat
        BY <1>2
      <4>2. /\ x - m = (y - m) + 1 + Len(q)
            /\ (y - m) + 1 \in 1..(Len(u) - m) /\ m + ((y - m) + 1) = y + 1
        BY SMTT(30), <3>1, <3>2, <4>1, Shifted
      <4>3. ASSUME NEW j \in 1..Len(q)
            PROVE  /\ (y - m) + 1 + j \in 1..(Len(u) - m)
                   /\ m + ((y - m) + 1 + j) = y + 1 + j
        BY SMTT(30), <3>1, <3>2, <4>1, ShiftedAt
      <4>4. Len(v) = Len(u) - m
        BY <1>2
      <4> QED  BY <4>2, <4>3, <4>4
    <3>3. /\ at[i] - m = (at[i - 1] - m) + 1 + Len(q)
          /\ (at[i - 1] - m) + 1 \in 1..Len(v) /\ m + ((at[i - 1] - m) + 1) = at[i - 1] + 1
          /\ \A j \in 1..Len(q) : /\ (at[i - 1] - m) + 1 + j \in 1..Len(v)
                                  /\ m + ((at[i - 1] - m) + 1 + j) = at[i - 1] + 1 + j
      BY <2>6, <2>7, <3>2
    <3>4. \A j \in 1..Len(v) : v[j] = u[m + j]
      BY DEF Without
    <3>5. v[(at[i - 1] - m) + 1] = u[at[i - 1] + 1]
      BY <3>3, <3>4
    <3>6. \A j \in 1..Len(q) : v[(at[i - 1] - m) + 1 + j] = u[at[i - 1] + 1 + j]
      BY <3>3, <3>4
    <3> QED  BY <2>5, <3>3, <3>5, <3>6
  <2>8. /\ to[i] = to[i - 1] + 1 + Len(frames[i].params)
        /\ v[to[i - 1] + 1] = u[at[i - 1] + 1]
        /\ \A j \in 1..Len(frames[i].params) :
             v[to[i - 1] + 1 + j] = u[at[i - 1] + 1 + j]
    BY <2>3, <2>4, <2>7
  <2> QED  BY <2>4, <2>8
<1>13. (k + 1) + 1 = k + 2
  BY <1>2
<1>14. Cut(to, frames, k + 1, v)
  BY <1>10, <1>11, <1>12, <1>13 DEF Cut, n
<1> QED  BY <1>9, <1>14 DEF Carries, n

\* With a command in hand or a byte in the buffer, the stream is the command code,
\* what the call sees behind it, and the wire.
LEMMA UnhandledSplit ==
  ASSUME TypeOK, rx # <<>> \/ currentCommand # NUL
  PROVE  /\ Code(rx) \in Byte /\ AfterCode(rx) \in Seq(Byte)
         /\ Unhandled = <<Code(rx)>> \o (AfterCode(rx) \o line)
<1>1. rx \in Seq(Byte) /\ line \in Seq(Byte)
  BY DEF TypeOK
<1>2. CASE currentCommand # NUL
  BY <1>1, <1>2, CodeType DEF Unhandled, InHand, Code, AfterCode
<1>3. CASE currentCommand = NUL
  <2>1. rx # <<>>
    BY <1>3
  <2>2. <<>> \o (rx \o line) = <<Head(rx)>> \o (Tail(rx) \o line)
    BY <1>1, <2>1, HeadFirst
  <2>3. /\ Unhandled = <<>> \o (rx \o line)
        /\ Code(rx) = Head(rx) /\ AfterCode(rx) = Tail(rx)
    BY <1>3, <2>1 DEF Unhandled, InHand, Code, AfterCode
  <2> QED  BY <1>1, <2>2, <2>3, CodeType
<1> QED  BY <1>2, <1>3

\* The command that the call has before it is the next one CPU1 sent, and when it is
\* complete so are its parameters, and the rest carries the other commands.
LEMMA NextCommand ==
  ASSUME TypeOK, SimpleTable, NEW k \in 0..Len(sent), Carries(sent, k, Unhandled),
         rx # <<>> \/ currentCommand # NUL
  PROVE  /\ k + 1 \in 1..Len(sent)
         /\ Code(rx) \in Command
         /\ Complete(rx) =>
              /\ FrameOf(Code(rx), Params(rx)) = sent[k + 1]
              /\ Carries(sent, k + 1, Unread(rx) \o line)
<1> DEFINE c == Code(rx)
           a == AfterCode(rx)
           u == <<c>> \o (a \o line)
<1>1. c \in Byte /\ a \in Seq(Byte) /\ line \in Seq(Byte) /\ rx \in Seq(Byte)
      /\ sent \in Seq(PeerFrame) /\ Unhandled = u
  BY UnhandledSplit DEF TypeOK
<1> HIDE DEF c, a
<1>2. ASSUME NEW z \in 0..Len(a)
      PROVE  /\ u \in Seq(Byte) /\ u # <<>> /\ u[1] = c
             /\ \A j \in 1..Len(a) : u[1 + j] = a[j]
             /\ SubSeq(a, z + 1, Len(a)) \o line \in Seq(Byte)
             /\ Without(SubSeq(a, z + 1, Len(a)) \o line, u, 1 + z)
  BY <1>1, Dropped
<1>3. /\ u \in Seq(Byte) /\ u # <<>> /\ u[1] = c
      /\ \A j \in 1..Len(a) : u[1 + j] = a[j]
  <2>1. 0 \in 0..Len(a)
    BY <1>1
  <2> QED  BY <1>2, <2>1
<1> HIDE DEF u
<1>4. Carries(sent, k, u)
  BY <1>1
<1>5. PICK f : f = sent[k + 1]
  OBVIOUS
<1>6. /\ k + 1 \in 1..Len(sent) /\ f \in PeerFrame
      /\ u[1] = f.cmd
      /\ \A j \in 1..Len(f.params) : u[1 + j] = f.params[j]
  BY <1>1, <1>3, <1>4, <1>5, CarriesHead
<1>7. c = f.cmd /\ c \in Command
  BY <1>3, <1>6, FrameFacts
<1>8. ASSUME Complete(rx)
      PROVE  FrameOf(c, Params(rx)) = f /\ Carries(sent, k + 1, Unread(rx) \o line)
  <2> DEFINE z == Size[c]
  <2>1. /\ Params(rx) = SubSeq(a, 1, z)
        /\ Unread(rx) = SubSeq(a, z + 1, Len(a))
    BY <1>8 DEF Params, Unread, a, c
  <2>2. z \in 0..Len(a)
    <3>1. z \in Nat /\ Len(a) \in Nat /\ z <= Len(a)
      BY <1>1, <1>7, <1>8, TableAssumption DEF Complete, a, c
    <3> QED  BY <3>1
  <2>3. f.params \in Seq(Byte) /\ Len(f.params) = z
    BY <1>6, <1>7, FrameFacts DEF SimpleTable
  <2> HIDE DEF z
  <2>4. Params(rx) = f.params
    <3> DEFINE p == Params(rx)
    <3>1. /\ p \in Seq(Byte) /\ Len(p) = z
          /\ \A j \in 1..z : p[j] = a[j]
      BY <1>1, <2>1, <2>2
    <3> HIDE DEF p
    <3>2. ASSUME NEW j \in 1..Len(p) PROVE p[j] = f.params[j]
      <4>1. j \in 1..z /\ j \in 1..Len(a)
        BY <1>1, <2>2, <3>1
      <4>2. u[1 + j] = a[j]
        BY <1>3, <4>1
      <4>3. u[1 + j] = f.params[j]
        BY <1>6, <2>3, <4>1
      <4> QED  BY <3>1, <4>1, <4>2, <4>3
    <3> QED  BY <2>3, <3>1, <3>2, SeqEqual DEF p
  <2>5. FrameOf(c, Params(rx)) = f
    BY <1>6, <1>7, <2>4, FrameFacts
  <2>6. Carries(sent, k + 1, Unread(rx) \o line)
    <3> DEFINE v == Unread(rx) \o line
    <3>1. v \in Seq(Byte) /\ Without(v, u, 1 + z)
      BY <1>2, <2>1, <2>2
    <3>2. 1 + z \in Nat /\ 1 + z = FrameLen(sent[k + 1])
      BY <1>5, <2>2, <2>3 DEF FrameLen
    <3> HIDE DEF v
    <3> QED  BY <1>1, <1>3, <1>4, <3>1, <3>2, CarriesRest DEF v
  <2> QED  BY <2>5, <2>6
<1> QED  BY <1>5, <1>6, <1>7, <1>8 DEF c

\* Nothing is ever queued, and the bytes on their way carry the commands whose
\* handler has not been called.
BusInv == /\ replaying = {}
          /\ pendingCommands = [t \in Types |-> <<>>]
          /\ Len(executed) <= Len(sent)
          /\ Carries(sent, Len(executed), Unhandled)

\* Nothing has been sent at first.
LEMMA BusInvInitially == Init => BusInv
<1> SUFFICES ASSUME Init PROVE BusInv
  OBVIOUS
<1> DEFINE none == <<>>
<1>1. /\ sent = <<>> /\ executed = <<>> /\ Len(sent) = 0 /\ Len(executed) = 0
      /\ rx = <<>> /\ line = <<>> /\ currentCommand = NUL
  BY DEF Init
<1>2. Unhandled = none /\ Len(none) = 0
  <2>1. none \in Seq(Byte)
    OBVIOUS
  <2>2. none \o (none \o none) = none
    BY <2>1, ConcatEmptySeq
  <2> QED  BY <1>1, <2>2 DEF Unhandled, InHand
<1>3. Carries(sent, Len(executed), Unhandled)
  <2> DEFINE at == [i \in 0..0 |-> 0]
  <2>1. at \in [0..0 -> 0..0] /\ at[0] = 0
    OBVIOUS
  <2>2. Cut(at, none, 0, none)
    BY <2>1 DEF Cut
  <2>3. Carries(none, 0, none)
    BY <1>2, <2>1, <2>2 DEF Carries
  <2> QED  BY <1>1, <1>2, <2>3
<1> QED  BY <1>1, <1>3 DEF Init, BusInv

\* A call on the line: the handler that it calls is that of the next command.
LEMMA CallOnLine ==
  ASSUME TypeOK, SimpleTable, BusInv, DataReceived
  PROVE  BusInv' /\ (UNCHANGED <<sent, executed>> \/ Bus!Execute)
<1> DEFINE k == Len(executed)
           none == [t \in Types |-> <<>>]
<1>1. /\ rx \in Seq(Byte) /\ line \in Seq(Byte) /\ sent \in Seq(PeerFrame)
      /\ executed \in Seq(Executed)
  BY DEF TypeOK, Executed
<1>2. /\ k \in 0..Len(sent) /\ Carries(sent, k, Unhandled)
      /\ replaying = {} /\ pendingCommands = none
  BY <1>1 DEF BusInv
<1>3. /\ CommandProcessor(rx, none) /\ rx' = Unread(rx)
      /\ UNCHANGED <<line, flag, replaying, sent>>
  BY <1>2 DEF DataReceived
<1> HIDE DEF k, none
<1>4. rx # <<>> \/ currentCommand # NUL =>
        /\ k + 1 \in 1..Len(sent)
        /\ Code(rx) \in Command
        /\ Complete(rx) => /\ FrameOf(Code(rx), Params(rx)) = sent[k + 1]
                           /\ Carries(sent, k + 1, Unread(rx) \o line)
  BY <1>2, NextCommand
<1>5. ASSUME UNCHANGED executed, pendingCommands' = none, Unhandled' = Unhandled
      PROVE  BusInv' /\ UNCHANGED <<sent, executed>>
  BY <1>2, <1>3, <1>5 DEF BusInv, k, none
<1>6. CASE Skip(rx, none)
  <2>1. rx = <<>> /\ currentCommand = NUL
    BY <1>4, <1>6 DEF Skip
  <2>2. Unread(rx) = rx /\ currentCommand' = NUL
    BY <1>6, <2>1 DEF Skip, Unread, AfterCode, Complete
  <2>3. Unhandled' = Unhandled
    BY <1>3, <2>1, <2>2 DEF Unhandled, InHand
  <2> QED  BY <1>5, <1>6, <2>3 DEF Skip
<1>7. CASE Await(rx, none)
  <2>1. Code(rx) # NUL /\ (rx # <<>> \/ currentCommand # NUL)
    BY <1>7, TableAssumption DEF Await, Code
  <2>2. Unread(rx) = AfterCode(rx) /\ currentCommand' = Code(rx)
    BY <1>7 DEF Await, Unread
  <2>3. Unhandled' = <<Code(rx)>> \o (AfterCode(rx) \o line)
    BY <1>3, <2>1, <2>2 DEF Unhandled, InHand
  <2>4. Unhandled' = Unhandled
    BY <2>1, <2>3, UnhandledSplit
  <2> QED  BY <1>5, <1>7, <2>4 DEF Await
<1>8. CASE Enqueue(rx, none)
  BY <1>8, TableAssumption DEF Enqueue, Complete, SimpleTable, TypeOK
<1>9. CASE Execute(rx, none)
  <2>1. /\ Complete(rx) /\ Code(rx) \in Command /\ Code(rx) # NUL
        /\ (rx # <<>> \/ currentCommand # NUL)
    BY <1>9, TableAssumption DEF Execute, Complete, Code
  <2>2. /\ k + 1 \in 1..Len(sent)
        /\ FrameOf(Code(rx), Params(rx)) = sent[k + 1]
        /\ Carries(sent, k + 1, Unread(rx) \o line)
    BY <1>4, <2>1
  <2>3. executed' = Append(executed, sent[k + 1])
    BY <1>9, <2>2 DEF Execute
  <2>4. Bus!Execute
    BY <1>1, <1>2, <1>3, <2>2, <2>3 DEF Bus!Execute, k
  <2>5. Len(executed') = k + 1
    BY <1>1, <2>3, <1>9, ParamsType, Appended DEF Execute, FrameOf, Executed, k
  <2>6. Unhandled' = <<>> \o (Unread(rx) \o line)
    BY <1>3, <1>9 DEF Execute, Unhandled, InHand
  <2>7. Unhandled' = Unread(rx) \o line
    <3>1. Unread(rx) \o line \in Seq(Byte)
      BY <1>1, UnreadType, Glued
    <3> QED  BY <2>6, <3>1, ConcatEmptySeq
  <2>8. k + 1 <= Len(sent')
    BY <1>1, <1>3, <2>2
  <2> QED  BY <1>2, <1>3, <1>9, <2>2, <2>4, <2>5, <2>7, <2>8 DEF Execute, BusInv, none
<1> QED  BY <1>3, <1>6, <1>7, <1>8, <1>9 DEF CommandProcessor

\* A step of the interpreter is a step of the bus.
LEMMA BusStep ==
  ASSUME TypeOK, SimpleTable, BusInv, [Next]_vars
  PROVE  BusInv' /\ [Bus!BusNext]_(Bus!busVars)
<1>1. /\ rx \in Seq(Byte) /\ line \in Seq(Byte) /\ sent \in Seq(PeerFrame)
      /\ executed \in Seq(Executed)
  BY DEF TypeOK, Executed
<1>2. ASSUME NEW f \in PeerFrame, Transmit(f)
      PROVE  BusInv' /\ Bus!Send(f)
  <2> DEFINE w == <<f.cmd>> \o f.params
  <2>1. /\ line = <<>> /\ line' = w /\ sent' = Append(sent, f)
        /\ UNCHANGED <<rx, currentCommand, pendingCommands, replaying, executed>>
    BY <1>2 DEF Transmit, cliVars
  <2>2. f.cmd \in Byte /\ f.params \in Seq(Byte) /\ w \in Seq(Byte)
    BY FrameFacts, FrameBytes, TableAssumption
  <2>3. Unhandled \in Seq(Byte) /\ Unhandled' = Unhandled \o w
    <3> HIDE DEF w
    <3> DEFINE h == InHand
    <3>1. h \in Seq(Byte) /\ InHand' = h
      BY <2>1, TableAssumption DEF InHand, TypeOK
    <3> HIDE DEF h
    <3>2. rx \o line = rx
      BY <1>1, <2>1, ConcatEmptySeq
    <3>3. Unhandled = h \o rx /\ Unhandled' = h \o (rx \o w)
      BY <2>1, <3>1, <3>2 DEF Unhandled, h
    <3>4. (h \o rx) \o w = h \o (rx \o w)
      <4>1. h \in Seq(Byte) /\ rx \in Seq(Byte) /\ w \in Seq(Byte)
        BY <1>1, <2>2, <3>1
      <4> QED  BY <4>1, ConcatAssociative
    <3>5. h \o rx \in Seq(Byte)
      BY <1>1, <3>1, Glued
    <3> QED  BY <3>3, <3>4, <3>5
  <2>4. Len(executed) \in 0..Len(sent)
    BY <1>1 DEF BusInv
  <2>5. Carries(sent', Len(executed), Unhandled')
    <3>1. f = FrameOf(f.cmd, f.params)
      BY FrameFacts
    <3>2. Carries(sent, Len(executed), Unhandled)
      BY DEF BusInv
    <3> QED  BY <1>1, <2>1, <2>2, <2>3, <2>4, <3>1, <3>2, CarriesAnother
  <2>6. Len(sent') = Len(sent) + 1
    BY <1>1, <2>1, Appended
  <2>7. Len(executed) <= Len(sent')
    BY <1>1, <2>4, <2>6
  <2> QED  BY <2>1, <2>5, <2>7 DEF BusInv, Bus!Send
<1>3. CASE Arrive
  <2>1. /\ line # <<>> /\ rx' = Append(rx, Head(line)) /\ line' = Tail(line)
        /\ UNCHANGED <<currentCommand, pendingCommands, replaying, sent, executed>>
    BY <1>3 DEF Arrive, cliVars
  <2>2. Append(rx, Head(line)) \o Tail(line) = rx \o line
    BY <1>1, <2>1, Moved
  <2>3. Unhandled' = Unhandled
    BY <2>1, <2>2 DEF Unhandled, InHand
  <2> QED  BY <2>1, <2>3 DEF BusInv, Bus!busVars
<1>4. CASE DataReceived
  BY <1>4, CallOnLine DEF Bus!BusNext, Bus!busVars
<1>5. ASSUME UNCHANGED <<line, rx, currentCommand, pendingCommands, sent, executed>>,
             replaying' = {}
      PROVE  BusInv' /\ UNCHANGED <<sent, executed>>
  BY <1>5 DEF BusInv, Unhandled, InHand
<1>6. ASSUME NEW t \in Switchable, SetFlag(t)
      PROVE  BusInv' /\ UNCHANGED <<sent, executed>>
  <2>1. flag' \subseteq Types
    BY <1>6 DEF SetFlag, Switchable, TypeOK
  <2>2. replaying' = {}
    BY <1>6, <2>1 DEF SetFlag, ToReplay, BusInv
  <2> QED  BY <1>5, <1>6, <2>2 DEF SetFlag, lineVars
<1>7. ASSUME NEW t \in Switchable, UnsetFlag(t)
      PROVE  BusInv' /\ UNCHANGED <<sent, executed>>
  BY <1>5, <1>7 DEF UnsetFlag, lineVars, BusInv
<1>8. ASSUME NEW t \in Types PROVE ~Replay(t) /\ ~ReplayDone(t)
  BY DEF BusInv, Replay, ReplayDone
<1>9. CASE UNCHANGED vars
  BY <1>5, <1>9 DEF vars, BusInv, Bus!busVars
<1> QED
  BY <1>2, <1>3, <1>4, <1>6, <1>7, <1>8, <1>9 DEF Next, Bus!BusNext, Bus!busVars

\* The handlers are called for the commands that CPU1 sent, in the order of sending,
\* each at most once and with its parameters, for every table of commands that need
\* no network: the safety part of what the run compares with CommandBus.
THEOREM DeliversCommands == ASSUME SimpleTable PROVE Spec => Bus!BusSpec
<1>1. Init => Bus!BusInit
  BY DEF Init, Bus!BusInit
<1>2. TypeOK /\ BusInv /\ [Next]_vars => BusInv' /\ [Bus!BusNext]_(Bus!busVars)
  BY BusStep
<1> QED  BY <1>1, <1>2, BusInvInitially, TypeCorrect, PTL DEF Spec, Bus!BusSpec
=============================================================================
