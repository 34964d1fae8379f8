-------------------------------- MODULE JsVm --------------------------------
(***************************************************************************)
(* The JavaScript command (app/commands/jsvm.h): a timer posts a tick into *)
(* a task queue, and the task runs the script's function loop.             *)
(*                                                                         *)
(* The engine is one for the whole firmware (lib/jsvm/jsvm.cpp): deleting  *)
(* the Jsvm object shuts it down, and a function run while it is down is   *)
(* undefined, as are freeing the queue twice and using it when it is free. *)
(* From then on the firmware is `corrupt`: it goes on, and may crash at    *)
(* any time.                                                               *)
(***************************************************************************)
EXTENDS Naturals

CONSTANT QueueLength      \* TASK_JS_Q_LENGTH

ASSUME QueueAssumption == QueueLength \in Nat \ {0}

VARIABLES vm,        \* is there a Jsvm, and the engine up?
          jsTimer,   \* does jsLoopTimer run?
          queue,     \* jsTaskQueue: "none", "held" or "freed"
          ticks,     \* events posted to the task and not handled
          corrupt    \* has something undefined been done?

jsVars == <<vm, jsTimer, queue, ticks, corrupt>>

JsInit == /\ vm = FALSE /\ jsTimer = FALSE /\ queue = "none" /\ ticks = 0
          /\ corrupt = FALSE

JsReset == /\ vm' = FALSE /\ jsTimer' = FALSE /\ queue' = "none" /\ ticks' = 0
           /\ corrupt' = FALSE

\* jsLoopTicker; a full queue refuses the event.
JsTick == /\ jsTimer /\ ticks < QueueLength
          /\ ticks' = ticks + 1
          /\ corrupt' = (corrupt \/ queue # "held")
          /\ UNCHANGED <<vm, jsTimer, queue>>

\* jsLoop: when loop fails the timer is stopped and the rest is kept.
JsLoop(success) == /\ ticks > 0
                   /\ ticks' = ticks - 1
                   /\ corrupt' = (corrupt \/ queue # "held" \/ ~vm)
                   /\ jsTimer' = (jsTimer /\ success)
                   /\ UNCHANGED <<vm, queue>>

\* cmdPlayJS with '0': the posted ticks stay in the queue that is freed.
JsStop == /\ vm
          /\ vm' = FALSE /\ jsTimer' = FALSE
          /\ queue' = "freed"
          /\ corrupt' = (corrupt \/ queue = "freed")
          /\ UNCHANGED ticks

\* cmdPlayJS with '1' when the snapshot or loop fails: the object is deleted, and the
\* timer of an earlier start goes on.
JsStartFails == /\ vm' = FALSE
                /\ UNCHANGED <<jsTimer, queue, ticks, corrupt>>

\* When setup fails the object is deleted and loop is run all the same; that it
\* fails too is one of the things that may happen.
JsSetupFails(loops) ==
  /\ vm' = FALSE
  /\ corrupt' = TRUE
  /\ IF loops THEN /\ queue' = "held" /\ ticks' = 0 /\ jsTimer' = TRUE
     ELSE UNCHANGED <<queue, ticks, jsTimer>>

\* Mutant: the timer is started before there is a queue.
JsStartedEarly == /\ vm' = TRUE /\ jsTimer' = TRUE
                  /\ queue' = queue /\ ticks' = 0
                  /\ corrupt' = (corrupt \/ queue = "freed")

\* When everything succeeds the queue is allocated anew and the timer started.  The
\* old queue is freed first, also when a stop has freed it.
JsStarted == /\ vm' = TRUE /\ jsTimer' = TRUE
             /\ queue' = "held" /\ ticks' = 0
             /\ corrupt' = (corrupt \/ queue = "freed")

JsNext == \/ JsTick \/ JsStop \/ JsStartFails \/ JsStarted
          \/ \E ok \in BOOLEAN : JsLoop(ok) \/ JsSetupFails(ok)

-----------------------------------------------------------------------------

JsTypeOK == /\ vm \in BOOLEAN /\ jsTimer \in BOOLEAN
            /\ queue \in {"none", "held", "freed"}
            /\ ticks \in 0 .. QueueLength
            /\ corrupt \in BOOLEAN

\* jsvm.h:95-125: the timer runs only while there is a queue for its ticks, in whatever
\* order starts, failing starts, failing ticks and stops come.  (Of the ticks that are
\* already in the queue, and of a second start after a stop, this cannot be said.)
TimerHasQueue == jsTimer => queue = "held"
=============================================================================
