------------------------------ MODULE Service ------------------------------
(***************************************************************************)
(* A background service (process/service.go) and the scheduler loop it     *)
(* runs (process/scheduler.go), one step per access to a shared field.     *)
(* The worker of every connection and the accept loop of every endpoint is *)
(* such a service.  No field of it is guarded by a lock.                   *)
(*                                                                         *)
(* Threads terminate the service from outside, or, as the handlers of      *)
(* nets/ do on a read error, from inside the loop body.                    *)
(***************************************************************************)
EXTENDS Naturals

CONSTANTS Threads,    \* goroutines that call Terminate
          Body        \* the one that stands for the loop body calling it

ASSUME ThreadsAssumption == Body \notin Threads

Callers == Threads \cup {Body}

VARIABLES signal,     \* service.signal, of capacity 1
          killing,    \* service.killing
          terminated, \* scheduler.terminated
          loop,       \* the goroutine that runs scheduler.schedule
          at,         \* where each caller of Terminate is
          sync,       \* the last call of Sync
          recycled,   \* how often the recycle function ran
          listed      \* the service is in _processors

serviceVars == <<signal, killing, terminated, loop, at, sync, recycled, listed>>

Signals == {"nil", "empty", "full", "closed"}
LoopPcs == {"none", "boot", "test", "task", "inTerminate", "left"}
CallPcs == {"idle", "test", "mark", "stop", "send", "close", "recycle", "remove",
            "returned", "panicked", "hung"}

ServiceTypeOK ==
    /\ signal \in Signals
    /\ killing \in BOOLEAN /\ terminated \in BOOLEAN /\ listed \in BOOLEAN
    /\ loop \in LoopPcs
    /\ at \in [Callers -> CallPcs]
    /\ sync \in {"idle", "waiting", "returned"}
    /\ recycled \in Nat

ServiceInit ==
    /\ signal = "nil"
    /\ killing = FALSE /\ terminated = FALSE
    /\ loop = "none"
    /\ at = [t \in Callers |-> "idle"]
    /\ sync = "idle"
    /\ recycled = 0
    /\ listed = TRUE

GoTo(t, p) == at' = [at EXCEPT ![t] = p]
-----------------------------------------------------------------------------
(* Start and the scheduler loop (StartTick differs in the sleep only).     *)

Start ==
    /\ loop = "none"
    /\ signal' = "empty"
    /\ loop' = "boot"
    /\ UNCHANGED <<killing, terminated, at, sync, recycled, listed>>

\* The first statement of the new goroutine: s.terminated = false.
Boot ==
    /\ loop = "boot"
    /\ terminated' = FALSE
    /\ loop' = "test"
    /\ UNCHANGED <<signal, killing, at, sync, recycled, listed>>

Test ==
    /\ loop = "test"
    /\ loop' = IF terminated THEN "left" ELSE "task"
    /\ UNCHANGED <<signal, killing, terminated, at, sync, recycled, listed>>

\* The task returns, or calls Terminate (once) and goes on when that returns
\* or panics; the scheduler's Try recovers the panic.
Task ==
    /\ loop = "task"
    /\ \/ loop' = "test" /\ UNCHANGED at
       \/ at[Body] = "idle" /\ GoTo(Body, "test") /\ loop' = "inTerminate"
    /\ UNCHANGED <<signal, killing, terminated, sync, recycled, listed>>

TaskEnd ==
    /\ loop = "inTerminate" /\ at[Body] \in {"returned", "panicked"}
    /\ loop' = "test"
    /\ UNCHANGED <<signal, killing, terminated, at, sync, recycled, listed>>
-----------------------------------------------------------------------------
(* Terminate.                                                              *)

Call(t) ==
    /\ at[t] = "idle"
    /\ GoTo(t, "test")
    /\ UNCHANGED <<signal, killing, terminated, loop, sync, recycled, listed>>

TestKilling(t) ==
    /\ at[t] = "test"
    /\ GoTo(t, IF killing THEN "returned" ELSE "mark")
    /\ UNCHANGED <<signal, killing, terminated, loop, sync, recycled, listed>>

MarkKilling(t) ==
    /\ at[t] = "mark"
    /\ killing' = TRUE
    /\ GoTo(t, "stop")
    /\ UNCHANGED <<signal, terminated, loop, sync, recycled, listed>>

\* Mutant: the scheduler is not told.
Stop_missing(t) ==
    /\ at[t] = "stop"
    /\ GoTo(t, "send")
    /\ UNCHANGED <<signal, killing, terminated, loop, sync, recycled, listed>>

Stop(t) ==
    /\ at[t] = "stop"
    /\ terminated' = TRUE
    /\ GoTo(t, "send")
    /\ UNCHANGED <<signal, killing, loop, sync, recycled, listed>>

\* s.signal <- 0: blocks for ever on the nil channel of a service that was not
\* started, and while the channel is full.
SendSignal(t) ==
    /\ at[t] = "send"
    /\ \/ signal = "nil" /\ GoTo(t, "hung") /\ UNCHANGED signal
       \/ signal = "empty" /\ signal' = "full" /\ GoTo(t, "close")
       \/ signal = "closed" /\ GoTo(t, "panicked") /\ UNCHANGED signal
    /\ UNCHANGED <<killing, terminated, loop, sync, recycled, listed>>

\* Mutant: the channel is left open after the one signal.
CloseSignal_open(t) ==
    /\ at[t] = "close"
    /\ GoTo(t, "recycle")
    /\ UNCHANGED <<signal, killing, terminated, loop, sync, recycled, listed>>

\* Mutant: closing a closed channel goes unnoticed.
CloseSignal_twice(t) ==
    /\ at[t] = "close"
    /\ signal' = "closed" /\ GoTo(t, "recycle")
    /\ UNCHANGED <<killing, terminated, loop, sync, recycled, listed>>

CloseSignal(t) ==
    /\ at[t] = "close"
    /\ signal' = "closed"
    /\ GoTo(t, IF signal = "closed" THEN "panicked" ELSE "recycle")
    /\ UNCHANGED <<killing, terminated, loop, sync, recycled, listed>>

Recycle(t) ==
    /\ at[t] = "recycle"
    /\ recycled' = recycled + 1
    /\ GoTo(t, "remove")
    /\ UNCHANGED <<signal, killing, terminated, loop, sync, listed>>

RemoveService(t) ==
    /\ at[t] = "remove"
    /\ listed' = FALSE
    /\ GoTo(t, "returned")
    /\ UNCHANGED <<signal, killing, terminated, loop, sync, recycled>>
-----------------------------------------------------------------------------
(* Sync, by one goroutine after the other: returns false before Start.     *)

SyncCall ==
    /\ sync # "waiting"
    /\ sync' = IF signal = "nil" THEN "returned" ELSE "waiting"
    /\ UNCHANGED <<signal, killing, terminated, loop, at, recycled, listed>>

SyncReceive ==
    /\ sync = "waiting" /\ signal \in {"full", "closed"}
    /\ signal' = IF signal = "full" THEN "empty" ELSE "closed"
    /\ sync' = "returned"
    /\ UNCHANGED <<killing, terminated, loop, at, recycled, listed>>
-----------------------------------------------------------------------------
Terminating(t) ==
    \/ TestKilling(t) \/ MarkKilling(t) \/ Stop(t) \/ SendSignal(t) \/ CloseSignal(t)
    \/ Recycle(t) \/ RemoveService(t)

Looping == Boot \/ Test \/ Task \/ TaskEnd

ServiceNext ==
    \/ Start \/ Looping \/ SyncCall \/ SyncReceive
    \/ \E t \in Threads : Call(t)
    \/ \E t \in Callers : Terminating(t)

ServiceSpec == ServiceInit /\ [][ServiceNext]_serviceVars

\* The loop goroutine, a running Terminate and a woken Sync make progress.
ServiceFairSpec ==
    /\ ServiceSpec
    /\ WF_serviceVars(Looping) /\ WF_serviceVars(SyncReceive)
    /\ \A t \in Callers : WF_serviceVars(Terminating(t))
-----------------------------------------------------------------------------
(* Properties.                                                             *)

\* The recycle function, which frees the receive buffer, runs at most once and
\* only behind a closed signal channel, however many Terminate calls get past
\* the unguarded test of killing.
RecycledOnce == recycled <= 1 /\ (recycled = 1 => signal = "closed")

\* A Terminate that finds the loop already under way ends it, also when other
\* calls race with it and panic.
RunningLoopEnds ==
    (\E t \in Callers : at[t] = "mark" /\ loop \notin {"none", "boot"}) ~> loop = "left"

\* Whoever waits in Sync of a started service is released by a Terminate that
\* gets as far as the signal channel, also when two calls race for it and the
\* one signal went to another goroutine that called Sync.
SyncReleased ==
    (\E t \in Callers : sync = "waiting" /\ at[t] \in {"send", "close"} /\ signal # "nil")
        ~> sync = "returned"

\* "Runs without a break until it is forcibly interrupted" (README.md:70): a
\* service that was started and terminated stops running its task.
TerminatedLoopEnds == killing /\ loop # "none" ~> loop = "left"
=============================================================================
