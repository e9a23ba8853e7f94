----------------------------- MODULE Processor -----------------------------
(***************************************************************************)
(* A processor (process/processor.go) and its executors                    *)
(* (process/executor.go): a task queue served by Multi goroutines.         *)
(* Execute and Terminate hold the processor's lock for reading only, so    *)
(* they run side by side, and the fields of an executor have no lock.      *)
(* (With multi <= 0 Execute runs the task itself and shares nothing.)      *)
(***************************************************************************)
EXTENDS Integers, Sequences, Functions

CONSTANTS Multi,       \* number of executors
          Capacity,    \* capacity of their queues
          Producers,   \* goroutines that call Execute
          Rounds,      \* how many tasks each of them hands over
          Terminators, \* goroutines that call Terminate
          Nil          \* the nil task Terminate puts into the queues

Exes == 1 .. Multi
Tasks == Producers \X (1 .. Rounds)

ASSUME ProcessorAssumption ==
    /\ Multi \in Nat \ {0} /\ Capacity \in Nat \ {0} /\ Rounds \in Nat
    /\ Nil \notin Tasks

VARIABLES killing,    \* processor.killing
          tasks,      \* executor.tasks: "open", "closed" or "nil"
          queue,      \* what the channel of an executor holds
          terminated, \* executor.terminated
          loop,       \* the goroutine that runs executor.boot
          cur,        \* the task it took
          ran,        \* the tasks each executor has run, in order
          ppc,        \* where a producer is in Execute
          round,      \* the number of its current task
          scan,       \* the loop variables of Execute: i, index and min
          early,      \* tasks handed over before killing was set
          tpc,        \* where a caller of Terminate is
          at          \* the executor it deals with

vars == <<killing, tasks, queue, terminated, loop, cur, ran, ppc, round, scan,
          early, tpc, at>>
exes == <<tasks, queue, terminated, loop, cur, ran>>
producer == <<ppc, round, scan, early>>
terminator == <<tpc, at>>

TypeOK ==
    /\ killing \in BOOLEAN
    /\ tasks \in [Exes -> {"open", "closed", "nil"}]
    /\ queue \in [Exes -> Seq(Tasks \cup {Nil})]
    /\ \A e \in Exes : Len(queue[e]) <= Capacity
    /\ terminated \in [Exes -> BOOLEAN]
    /\ loop \in [Exes -> {"boot", "take", "run", "close", "drop", "left"}]
    /\ cur \in [Exes -> Tasks \cup {Nil}]
    /\ ran \in [Exes -> Seq(Tasks)]
    /\ ppc \in [Producers -> {"idle", "scan", "load", "send", "panicked", "hung"}]
    /\ round \in [Producers -> 1 .. Rounds + 1]
    /\ scan \in [Producers -> [i : Exes, index : Exes, min : Nat]]
    /\ early \subseteq Tasks
    /\ tpc \in [Terminators -> {"idle", "mark", "flag", "check", "load", "send",
                                "done", "panicked", "hung"}]
    /\ at \in [Terminators -> 1 .. Multi + 1]

\* min before the first turn: longer than any queue.
Far == 999999

NoScan == [i |-> 1, index |-> 1, min |-> Far]

Init ==
    /\ killing = FALSE
    /\ tasks = [e \in Exes |-> "open"]
    /\ queue = [e \in Exes |-> <<>>]
    /\ terminated = [e \in Exes |-> FALSE]
    /\ loop = [e \in Exes |-> "boot"]
    /\ cur = [e \in Exes |-> Nil]
    /\ ran = [e \in Exes |-> <<>>]
    /\ ppc = [p \in Producers |-> "idle"]
    /\ round = [p \in Producers |-> 1]
    /\ scan = [p \in Producers |-> NoScan]
    /\ early = {}
    /\ tpc = [k \in Terminators |-> "idle"]
    /\ at = [k \in Terminators |-> 1]

LoopGoTo(e, l) == loop' = [loop EXCEPT ![e] = l]
ProducerGoTo(p, l) == ppc' = [ppc EXCEPT ![p] = l]
TerminatorGoTo(k, l) == tpc' = [tpc EXCEPT ![k] = l]
-----------------------------------------------------------------------------
(* executor.boot.                                                          *)

Boot(e) ==
    /\ loop[e] = "boot"
    /\ terminated' = [terminated EXCEPT ![e] = FALSE]
    /\ LoopGoTo(e, "take")
    /\ UNCHANGED <<killing, tasks, queue, cur, ran, producer, terminator>>

\* Mutant: every task but the one that ends the loop is run.
Take_unchecked(e) ==
    /\ loop[e] = "take" /\ queue[e] # <<>>
    /\ queue' = [queue EXCEPT ![e] = Tail(@)]
    /\ cur' = [cur EXCEPT ![e] = Head(queue[e])]
    /\ LoopGoTo(e, IF Head(queue[e]) = Nil /\ terminated[e] THEN "close" ELSE "run")
    /\ UNCHANGED <<killing, tasks, terminated, ran, producer, terminator>>

\* A nil task ends the loop only once terminated is set.
Take(e) ==
    /\ loop[e] = "take" /\ queue[e] # <<>>
    /\ queue' = [queue EXCEPT ![e] = Tail(@)]
    /\ cur' = [cur EXCEPT ![e] = Head(queue[e])]
    /\ LoopGoTo(e, IF Head(queue[e]) # Nil THEN "run"
                   ELSE IF terminated[e] THEN "close" ELSE "take")
    /\ UNCHANGED <<killing, tasks, terminated, ran, producer, terminator>>

Run(e) ==
    /\ loop[e] = "run"
    /\ ran' = [ran EXCEPT ![e] = Append(@, cur[e])]
    /\ cur' = [cur EXCEPT ![e] = Nil]
    /\ LoopGoTo(e, "take")
    /\ UNCHANGED <<killing, tasks, queue, terminated, producer, terminator>>

\* The deferred function: close the channel, then drop it.
CloseTasks(e) ==
    /\ loop[e] = "close"
    /\ tasks' = [tasks EXCEPT ![e] = "closed"]
    /\ LoopGoTo(e, "drop")
    /\ UNCHANGED <<killing, queue, terminated, cur, ran, producer, terminator>>

DropTasks(e) ==
    /\ loop[e] = "drop"
    /\ tasks' = [tasks EXCEPT ![e] = "nil"]
    /\ LoopGoTo(e, "left")
    /\ UNCHANGED <<killing, queue, terminated, cur, ran, producer, terminator>>
-----------------------------------------------------------------------------
(* Execute.                                                                *)

NextRound(p) == /\ round' = [round EXCEPT ![p] = @ + 1]
                /\ scan' = [scan EXCEPT ![p] = NoScan]

\* Execute returns false once killing is set.
Execute(p) ==
    /\ ppc[p] = "idle" /\ round[p] <= Rounds
    /\ IF killing THEN NextRound(p) /\ UNCHANGED ppc
       ELSE /\ ProducerGoTo(p, IF Multi = 1 THEN "load" ELSE "scan")
            /\ UNCHANGED <<round, scan>>
    /\ UNCHANGED <<killing, exes, early, terminator>>

tasklen(e) == IF tasks[e] = "nil" THEN 0 ELSE Len(queue[e])

\* One turn of the loop that looks for the shortest queue.
Scan(p) ==
    /\ ppc[p] = "scan"
    /\ LET i == scan[p].i
           shorter == tasklen(i) < scan[p].min
           index == IF shorter THEN i ELSE scan[p].index
           min == IF shorter THEN tasklen(i) ELSE scan[p].min IN
         scan' = [scan EXCEPT ![p] =
                    IF i = Multi THEN [NoScan EXCEPT !.index = index]
                    ELSE [i |-> i + 1, index |-> index, min |-> min]]
    /\ ProducerGoTo(p, IF scan[p].i = Multi THEN "load" ELSE "scan")
    /\ UNCHANGED <<killing, exes, round, early, terminator>>

\* The channel of the send statement; a send on a nil channel never ends.
Load(p) ==
    /\ ppc[p] = "load"
    /\ ProducerGoTo(p, IF tasks[scan[p].index] = "nil" THEN "hung" ELSE "send")
    /\ UNCHANGED <<killing, exes, round, scan, early, terminator>>

\* Mutant: the caller of Execute runs the task itself when the queue is full.
Send_inline(p) ==
    /\ ppc[p] = "send"
    /\ LET e == scan[p].index IN
         IF tasks[e] = "open"
           THEN /\ IF Len(queue[e]) < Capacity
                     THEN /\ queue' = [queue EXCEPT ![e] = Append(@, <<p, round[p]>>)]
                          /\ UNCHANGED ran
                     ELSE /\ ran' = [ran EXCEPT ![e] = Append(@, <<p, round[p]>>)]
                          /\ UNCHANGED queue
                /\ early' = IF killing THEN early ELSE early \cup {<<p, round[p]>>}
                /\ ProducerGoTo(p, "idle") /\ NextRound(p)
           ELSE /\ ProducerGoTo(p, "panicked")
                /\ UNCHANGED <<queue, ran, early, round, scan>>
    /\ UNCHANGED <<killing, tasks, terminated, loop, cur, terminator>>

\* The send waits for room; on a closed channel it panics.
Send(p) ==
    /\ ppc[p] = "send"
    /\ LET e == scan[p].index IN
        \/ /\ tasks[e] = "open" /\ Len(queue[e]) < Capacity
           /\ queue' = [queue EXCEPT ![e] = Append(@, <<p, round[p]>>)]
           /\ early' = IF killing THEN early ELSE early \cup {<<p, round[p]>>}
           /\ ProducerGoTo(p, "idle") /\ NextRound(p)
        \/ /\ tasks[e] # "open"
           /\ ProducerGoTo(p, "panicked")
           /\ UNCHANGED <<queue, early, round, scan>>
    /\ UNCHANGED <<killing, tasks, terminated, loop, cur, ran, terminator>>
-----------------------------------------------------------------------------
(* Terminate.                                                              *)

Terminate(k) ==
    /\ tpc[k] = "idle"
    /\ TerminatorGoTo(k, IF killing THEN "done" ELSE "mark")
    /\ UNCHANGED <<killing, exes, producer, at>>

\* Mutant: killing is not set.
Mark_missing(k) ==
    /\ tpc[k] = "mark"
    /\ TerminatorGoTo(k, "flag")
    /\ UNCHANGED <<killing, exes, producer, at>>

Mark(k) ==
    /\ tpc[k] = "mark"
    /\ killing' = TRUE
    /\ TerminatorGoTo(k, "flag")
    /\ UNCHANGED <<exes, producer, at>>

\* executor.terminate, for one executor after the other.
Flag(k) ==
    /\ tpc[k] = "flag" /\ at[k] <= Multi
    /\ terminated' = [terminated EXCEPT ![at[k]] = TRUE]
    /\ TerminatorGoTo(k, "check")
    /\ UNCHANGED <<killing, tasks, queue, loop, cur, ran, producer, at>>

NextExecutor(k) == /\ TerminatorGoTo(k, "flag")
                   /\ at' = [at EXCEPT ![k] = @ + 1]

CheckTasks(k) ==
    /\ tpc[k] = "check"
    /\ IF tasks[at[k]] = "nil" THEN NextExecutor(k)
       ELSE TerminatorGoTo(k, "load") /\ UNCHANGED at
    /\ UNCHANGED <<killing, exes, producer>>

LoadTasks(k) ==
    /\ tpc[k] = "load"
    /\ TerminatorGoTo(k, IF tasks[at[k]] = "nil" THEN "hung" ELSE "send")
    /\ UNCHANGED <<killing, exes, producer, at>>

\* Mutant: a full queue gets no nil task.
SendNil_nowait(k) ==
    /\ tpc[k] = "send"
    /\ LET e == at[k] IN
        \/ /\ tasks[e] = "open" /\ Len(queue[e]) < Capacity
           /\ queue' = [queue EXCEPT ![e] = Append(@, Nil)]
           /\ NextExecutor(k)
        \/ /\ tasks[e] = "open" /\ Len(queue[e]) = Capacity
           /\ NextExecutor(k) /\ UNCHANGED queue
        \/ /\ tasks[e] # "open"
           /\ TerminatorGoTo(k, "panicked") /\ UNCHANGED <<queue, at>>
    /\ UNCHANGED <<killing, tasks, terminated, loop, cur, ran, producer>>

SendNil(k) ==
    /\ tpc[k] = "send"
    /\ LET e == at[k] IN
        \/ /\ tasks[e] = "open" /\ Len(queue[e]) < Capacity
           /\ queue' = [queue EXCEPT ![e] = Append(@, Nil)]
           /\ NextExecutor(k)
        \/ /\ tasks[e] # "open"
           /\ TerminatorGoTo(k, "panicked") /\ UNCHANGED <<queue, at>>
    /\ UNCHANGED <<killing, tasks, terminated, loop, cur, ran, producer>>

RemoveProcessor(k) ==
    /\ tpc[k] = "flag" /\ at[k] > Multi
    /\ TerminatorGoTo(k, "done")
    /\ UNCHANGED <<killing, exes, producer, at>>
-----------------------------------------------------------------------------
Looping(e) == Boot(e) \/ Take(e) \/ Run(e) \/ CloseTasks(e) \/ DropTasks(e)
Executing(p) == Scan(p) \/ Load(p) \/ Send(p)
Terminating(k) == \/ Mark(k) \/ Flag(k) \/ CheckTasks(k) \/ LoadTasks(k)
                  \/ SendNil(k) \/ RemoveProcessor(k)

Next == \/ \E e \in Exes : Looping(e)
        \/ \E p \in Producers : Execute(p) \/ Executing(p)
        \/ \E k \in Terminators : Terminate(k) \/ Terminating(k)

Spec == Init /\ [][Next]_vars

\* Executors, and calls that are under way, go on while they can.
FairSpec == /\ Spec
            /\ \A e \in Exes : WF_vars(Looping(e))
            /\ \A p \in Producers : WF_vars(Executing(p))
            /\ \A k \in Terminators : WF_vars(Terminating(k))
-----------------------------------------------------------------------------
(* Properties.                                                             *)

HasRun(t) == \E e \in Exes : t \in Range(ran[e])

\* Tasks one goroutine hands over, which one executor runs, are run in the
\* order they were handed over and none of them twice: the sequential context
\* a processor with one executor promises.
RunInOrder ==
    \A e \in Exes : \A i, j \in DOMAIN ran[e] :
        i < j /\ ran[e][i][1] = ran[e][j][1] => ran[e][i][2] < ran[e][j][2]

\* A task that was handed over before killing was set is run, also when
\* Terminate follows at once: nothing is put in front of it.
EarlyTasksRun == \A t \in Tasks : t \in early ~> HasRun(t)

\* An executor that is told to terminate once its goroutine has begun ends,
\* whatever other Terminate and Execute calls do. (Told before that, it forgets
\* it and waits for ever: boot starts by clearing the flag.)
ExecutorsEnd ==
    \A e \in Exes : terminated[e] /\ loop[e] # "boot" ~> loop[e] = "left"
=============================================================================
