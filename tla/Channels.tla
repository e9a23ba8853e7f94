------------------------------ MODULE Channels ------------------------------
(***************************************************************************)
(* A message channel (process/channel): Publish calls the functions of the *)
(* subscribers while it holds the channel's read lock, or hands them to    *)
(* the processor of the subscriber, whose queue may be full.  Subscribing  *)
(* and unsubscribing take the lock.  A function may unsubscribe itself or  *)
(* publish on the channel that called it; it does not publish again over   *)
(* what a function has published.                                          *)
(*                                                                         *)
(* The lock is Go's RWMutex: a writer that waits keeps new readers out.  A *)
(* processor is one executor; module Processor has its details.            *)
(***************************************************************************)
EXTENDS Naturals, Sequences

CONSTANTS Seqs,       \* the sequence numbers of subscriptions
          Processed,  \* those that come with a processor, one for each
          Publishers, Users,
          Subscribed, \* what the functions of the subscribers may do
          TaskCapacity,
          Ops,        \* bound of the model: calls of the users
          NoSeq

\* A function calls Unsubscribe for itself (NumOfSubscriber takes the lock as
\* well), Chan, or Publish.
Deeds == {"leave", "fetch", "publish"}

ASSUME ChannelsAssumption ==
    /\ Processed \subseteq Seqs /\ NoSeq \notin Seqs
    /\ Subscribed \subseteq [Seqs -> Deeds]
    /\ TaskCapacity \in Nat \ {0} /\ Ops \in Nat

\* The calls of Publish: of a goroutine, of a function it calls, and of a
\* function in an executor.
Publications == ({"outer", "inner"} \X Publishers) \cup ({"task"} \X Processed)

Inner(p) == <<"inner", p>>
Outer(p) == <<"outer", p>>
InTask(s) == <<"task", s>>

VARIABLES deed,        \* what the function of a subscriber does
          subscribers, \* the channel's map
          used,        \* the sequence numbers given so far
          pubAt,       \* where a Publish is
          todo,        \* the subscribers it has not called yet
          current,     \* the one it is at
          wish,        \* what a user waits for the lock for
          ops,         \* calls of the users
          killed,      \* the processor is terminated: "no", "flagged", "told"
          tasks,       \* the executor's queue
          exeAt        \* where the executor is

publishing == <<pubAt, todo, current>>
users == <<wish, ops>>
processors == <<killed, tasks, exeAt>>
channelsVars == <<deed, subscribers, used, pubAt, todo, current, wish, ops,
                  killed, tasks, exeAt>>

Wishes == {"none", "subscribe", "unsubscribe", "all", "close"}

ChannelsTypeOK ==
    /\ deed \in [Seqs -> Deeds]
    /\ subscribers \subseteq used /\ used \subseteq Seqs
    /\ pubAt \in [Publications -> {"idle", "lock", "next", "inline", "nested", "execute",
                                   "send", "stuck", "hung"}]
    /\ todo \in [Publications -> SUBSET Seqs]
    /\ current \in [Publications -> Seqs \cup {NoSeq}]
    /\ wish \in [Users -> Wishes \X (Seqs \cup {NoSeq})]
    /\ ops \in 0..Ops
    /\ killed \in [Processed -> {"no", "flagged", "told"}]
    /\ tasks \in [Processed -> Seq({"task", "echo", "nil"})]
    /\ \A s \in Processed : Len(tasks[s]) <= TaskCapacity
    /\ exeAt \in [Processed -> {"idle", "task", "echo", "lock", "publish", "ended"}]

ChannelsInit ==
    /\ deed \in Subscribed
    /\ subscribers = {} /\ used = {}
    /\ pubAt = [x \in Publications |-> "idle"]
    /\ todo = [x \in Publications |-> {}]
    /\ current = [x \in Publications |-> NoSeq]
    /\ wish = [u \in Users |-> <<"none", NoSeq>>]
    /\ ops = 0
    /\ killed = [s \in Processed |-> "no"]
    /\ tasks = [s \in Processed |-> <<>>]
    /\ exeAt = [s \in Processed |-> "idle"]
-----------------------------------------------------------------------------
(* The lock of the channel.                                                *)

Reading(x) == pubAt[x] \notin {"idle", "lock"}

\* Mutant: the readers are not waited for.
Free_readers == TRUE

Free == \A x \in Publications : ~Reading(x)

WriterWaits ==
    \/ \E u \in Users : wish[u][1] # "none"
    \/ \E s \in Processed : exeAt[s] = "lock"
    \/ \E x \in Publications : pubAt[x] = "stuck"
-----------------------------------------------------------------------------
(* Subscribe, Unsubscribe, UnsubscribeAll and Close.                       *)

Ask(u, w, s) ==
    /\ wish[u][1] = "none" /\ ops < Ops
    /\ w = "subscribe" => s \in Seqs \ used
    /\ w = "unsubscribe" => s \in used
    /\ w \in {"all", "close"} => s = NoSeq
    /\ wish' = [wish EXCEPT ![u] = <<w, s>>]
    /\ ops' = ops + 1
    /\ UNCHANGED <<deed, subscribers, used, publishing, processors>>

Obtained(u) == wish' = [wish EXCEPT ![u] = <<"none", NoSeq>>]

\* GenerateRaw gives the sequence number under the lock.
Subscribe(u) ==
    /\ wish[u][1] = "subscribe" /\ Free
    /\ LET s == wish[u][2] IN
         /\ subscribers' = IF s \in used THEN subscribers ELSE subscribers \cup {s}
         /\ used' = used \cup {s}
    /\ Obtained(u)
    /\ UNCHANGED <<deed, ops, publishing, processors>>

Unsubscribe(u) ==
    /\ wish[u][1] = "unsubscribe" /\ Free
    /\ subscribers' = subscribers \ {wish[u][2]}
    /\ Obtained(u)
    /\ UNCHANGED <<deed, used, ops, publishing, processors>>

UnsubscribeAll(u) ==
    /\ wish[u][1] \in {"all", "close"} /\ Free
    /\ subscribers' = {}
    /\ Obtained(u)
    /\ UNCHANGED <<deed, used, ops, publishing, processors>>

\* Close has the lock of the table of channels all the time it waits for the
\* channel's; who had the channel before may go on using it.
TableHeld == \E u \in Users : wish[u][1] = "close"

\* The function of s can run to its end, or to its own Unsubscribe.
Runs(s) == deed[s] = "fetch" => ~TableHeld
-----------------------------------------------------------------------------
(* Publish.                                                                *)

PubGo(x, from, to) == pubAt[x] = from /\ pubAt' = [pubAt EXCEPT ![x] = to]

Publish(p) ==
    /\ PubGo(Outer(p), "idle", "lock")
    /\ UNCHANGED <<deed, subscribers, used, todo, current, users, processors>>

\* A Publish in a function waits here as any other does, although its goroutine
\* may have the read lock already.
ReadLock(x) ==
    /\ PubGo(x, "lock", "next") /\ ~WriterWaits
    /\ todo' = [todo EXCEPT ![x] = subscribers]
    /\ UNCHANGED <<deed, subscribers, used, current, users, processors>>

\* subscriber.publish: a processor that is not running any more leaves the
\* function to this goroutine.
Reach(x, s) ==
    /\ s \in todo[x]
    /\ PubGo(x, "next", IF s \in Processed /\ killed[s] = "no" THEN "execute"
                        ELSE "inline")
    /\ todo' = [todo EXCEPT ![x] = @ \ {s}]
    /\ current' = [current EXCEPT ![x] = s]
    /\ UNCHANGED <<deed, subscribers, used, users, processors>>

Reached(x) == current' = [current EXCEPT ![x] = NoSeq]

\* A function that unsubscribes waits for the lock its own goroutine reads.
Inline(x) ==
    /\ pubAt[x] = "inline" /\ Runs(current[x])
    /\ ~(deed[current[x]] = "publish" /\ x[1] = "outer")
    /\ IF deed[current[x]] = "leave" THEN PubGo(x, "inline", "stuck") /\ UNCHANGED current
       ELSE PubGo(x, "inline", "next") /\ Reached(x)
    /\ UNCHANGED <<deed, subscribers, used, todo, users, processors>>

\* The function publishes.
Nest(p) ==
    /\ pubAt[Outer(p)] = "inline" /\ deed[current[Outer(p)]] = "publish"
    /\ pubAt' = [pubAt EXCEPT ![Outer(p)] = "nested", ![Inner(p)] = "lock"]
    /\ UNCHANGED <<deed, subscribers, used, todo, current, users, processors>>

\* Its Publish has returned, or ended in a panic that the Try around it recovers.
Unnest(p) ==
    /\ pubAt[Inner(p)] = "idle"
    /\ PubGo(Outer(p), "nested", "next") /\ Reached(Outer(p))
    /\ UNCHANGED <<deed, subscribers, used, todo, users, processors>>

\* Execute of a processor that was terminated returns false; nobody looks.
FindKilling(x) ==
    /\ pubAt[x] = "execute"
    /\ \/ killed[current[x]] = "no" /\ PubGo(x, "execute", "send") /\ UNCHANGED current
       \/ killed[current[x]] # "no" /\ PubGo(x, "execute", "next") /\ Reached(x)
    /\ UNCHANGED <<deed, subscribers, used, todo, users, processors>>

HasRoom(s) == Len(tasks[s]) < TaskCapacity

SendTask(x) ==
    /\ pubAt[x] = "send"
    /\ exeAt[current[x]] # "ended" /\ HasRoom(current[x])
    /\ tasks' = [tasks EXCEPT ![current[x]] =
                    Append(@, IF x[1] = "outer" THEN "task" ELSE "echo")]
    /\ PubGo(x, "send", "next") /\ Reached(x)
    /\ UNCHANGED <<deed, subscribers, used, todo, users, killed, exeAt>>

\* The executor ended in between: the send panics on the closed channel, which
\* ends Publish, or waits for ever on the nil one.
SendFails(x) ==
    /\ pubAt[x] = "send" /\ exeAt[current[x]] = "ended"
    /\ \/ PubGo(x, "send", "idle") /\ Reached(x) /\ todo' = [todo EXCEPT ![x] = {}]
       \/ PubGo(x, "send", "hung") /\ UNCHANGED <<todo, current>>
    /\ UNCHANGED <<deed, subscribers, used, users, processors>>

Return(x) ==
    /\ todo[x] = {} /\ PubGo(x, "next", "idle")
    /\ UNCHANGED <<deed, subscribers, used, todo, current, users, processors>>

Publishing(x) ==
    \/ ReadLock(x) \/ (\E s \in Seqs : Reach(x, s)) \/ Inline(x) \/ FindKilling(x)
    \/ SendTask(x) \/ SendFails(x) \/ Return(x)
    \/ \E p \in Publishers : x = Outer(p) /\ (Nest(p) \/ Unnest(p))
-----------------------------------------------------------------------------
(* The processors of the subscribers.                                      *)

TerminateProcessor(s) ==
    /\ killed[s] = "no"
    /\ killed' = [killed EXCEPT ![s] = "flagged"]
    /\ UNCHANGED <<deed, subscribers, used, publishing, users, tasks, exeAt>>

SendNil(s) ==
    /\ killed[s] = "flagged" /\ HasRoom(s)
    /\ killed' = [killed EXCEPT ![s] = "told"]
    /\ tasks' = [tasks EXCEPT ![s] = Append(@, "nil")]
    /\ UNCHANGED <<deed, subscribers, used, publishing, users, exeAt>>

\* Mutant: an executor that is told to end takes no more tasks.
TakeTask_ends(s) ==
    /\ exeAt[s] = "idle" /\ killed[s] = "no" /\ tasks[s] # <<>>
    /\ exeAt' = [exeAt EXCEPT ![s] = Head(tasks[s])]
    /\ tasks' = [tasks EXCEPT ![s] = Tail(@)]
    /\ UNCHANGED <<deed, subscribers, used, publishing, users, killed>>

TakeTask(s) ==
    /\ exeAt[s] = "idle" /\ tasks[s] # <<>>
    /\ IF Head(tasks[s]) = "nil"
       THEN /\ exeAt' = [exeAt EXCEPT ![s] = "ended"]
            /\ tasks' = [tasks EXCEPT ![s] = <<>>]
       ELSE /\ exeAt' = [exeAt EXCEPT ![s] = Head(tasks[s])]
            /\ tasks' = [tasks EXCEPT ![s] = Tail(@)]
    /\ UNCHANGED <<deed, subscribers, used, publishing, users, killed>>

Called(s) == exeAt[s] \in {"task", "echo"}

Publishes(s) == exeAt[s] = "task" /\ deed[s] = "publish"

RunTask(s) ==
    /\ Called(s) /\ Runs(s) /\ ~Publishes(s)
    /\ exeAt' = [exeAt EXCEPT ![s] = IF deed[s] = "leave" THEN "lock" ELSE "idle"]
    /\ UNCHANGED <<deed, subscribers, used, publishing, users, killed, tasks>>

\* The executor is in the Publish of the function, until that is over.
PublishTask(s) ==
    /\ Publishes(s)
    /\ pubAt' = [pubAt EXCEPT ![InTask(s)] = "lock"]
    /\ exeAt' = [exeAt EXCEPT ![s] = "publish"]
    /\ UNCHANGED <<deed, subscribers, used, todo, current, users, killed, tasks>>

Published(s) ==
    /\ exeAt[s] = "publish" /\ pubAt[InTask(s)] = "idle"
    /\ exeAt' = [exeAt EXCEPT ![s] = "idle"]
    /\ UNCHANGED <<deed, subscribers, used, publishing, users, killed, tasks>>

UnsubscribeSelf(s) ==
    /\ exeAt[s] = "lock" /\ Free
    /\ subscribers' = subscribers \ {s}
    /\ exeAt' = [exeAt EXCEPT ![s] = "idle"]
    /\ UNCHANGED <<deed, used, publishing, users, killed, tasks>>

Executing(s) ==
    \/ SendNil(s) \/ TakeTask(s) \/ RunTask(s) \/ PublishTask(s) \/ Published(s)
    \/ UnsubscribeSelf(s)
-----------------------------------------------------------------------------
Obtaining(u) == Subscribe(u) \/ Unsubscribe(u) \/ UnsubscribeAll(u)

ChannelsNext ==
    \/ \E p \in Publishers : Publish(p)
    \/ \E x \in Publications : Publishing(x)
    \/ \E u \in Users : Obtaining(u)
    \/ \E u \in Users, w \in Wishes \ {"none"}, s \in Seqs \cup {NoSeq} : Ask(u, w, s)
    \/ \E s \in Processed : TerminateProcessor(s) \/ Executing(s)

ChannelsSpec == ChannelsInit /\ [][ChannelsNext]_channelsVars

\* The goroutine p runs, and that of the executor of s in the function's Publish.
PublisherRuns(p) == Publishing(Outer(p)) \/ Publishing(Inner(p))
PublisherSends(p) == SendTask(Outer(p)) \/ SendTask(Inner(p))

\* The goroutines run; who waits for the lock gets it when it stays free; who waits
\* for room in a queue gets it in turn, as Go's channels serve senders in order.
ChannelsFairSpec ==
    /\ ChannelsSpec
    /\ \A p \in Publishers :
          WF_channelsVars(PublisherRuns(p)) /\ SF_channelsVars(PublisherSends(p))
    /\ \A s \in Processed :
          WF_channelsVars(Publishing(InTask(s))) /\ SF_channelsVars(SendTask(InTask(s)))
    /\ \A u \in Users : WF_channelsVars(Obtaining(u))
    /\ \A s \in Processed : WF_channelsVars(Executing(s))
-----------------------------------------------------------------------------
(* Properties.                                                             *)

\* Once Unsubscribe, UnsubscribeAll or Close has returned no Publish calls the
\* function or puts it in the queue of its processor, also one that began
\* before, and whether a function called it or not (msgchannel.go:27-58).
QuietAfterUnsubscribe ==
    \A x \in Publications :
        /\ todo[x] \subseteq subscribers
        /\ current[x] \in subscribers \cup {NoSeq}

\* What x waits for comes only after a call of Publish in X has returned.  Whoever
\* waits for the write lock, Close with the table too, waits for every reader.
WaitsFor(x, X) ==
    \/ /\ pubAt[x] = "lock" /\ WriterWaits
       /\ \E y \in X : Reading(y)
    \/ /\ pubAt[x] = "send" /\ ~HasRoom(current[x])
       /\ \/ exeAt[current[x]] = "lock"
          \/ Called(current[x]) /\ ~Runs(current[x])
          \/ exeAt[current[x]] = "publish" /\ InTask(current[x]) \in X
    \/ pubAt[x] = "inline" /\ ~Runs(current[x])
    \/ pubAt[x] = "nested" /\ \E p \in Publishers : x = Outer(p) /\ Inner(p) \in X

\* Calls of Publish that wait for one another: an executor whose function waits
\* for the lock or for the table that a Close holds, and a Publish that waits with
\* the read lock for room in its queue; a function called inline that waits for
\* that table; a function called inline that publishes while a writer waits for
\* the Publish it is called by; functions of executors that publish and wait for
\* room in their own queue or in one another's, or for the lock that a writer
\* cannot get while a Publish waits for them.
Crossed ==
    \E X \in SUBSET Publications : X # {} /\ \A x \in X : WaitsFor(x, X)

\* A Publish returns however the others subscribe, publish and terminate, but
\* for these cases: a function called inline unsubscribes, an executor has ended
\* between the test of killing and the send, or calls of Publish wait for one
\* another in one of the ways above (msgchannel.go:27, subscriber.go:22).
PublishReturns ==
    \A x \in {Outer(p) : p \in Publishers} \cup {InTask(s) : s \in Processed} :
        []<>(\/ pubAt[x] = "idle"
             \/ \E y \in Publications : pubAt[y] \in {"stuck", "hung"}
             \/ Crossed)
=============================================================================
