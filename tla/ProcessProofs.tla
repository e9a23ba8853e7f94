---------------------------- MODULE ProcessProofs ----------------------------
(***************************************************************************)
(* Proofs about Service, Channels and FileLog: the goroutines of process/  *)
(* and of the file log, for any number of them.                            *)
(***************************************************************************)
EXTENDS Service, Channels, FileLog, TLAPS

-----------------------------------------------------------------------------
(* A service (Service.tla).                                                *)

\* Only the call that closes the signal channel goes on to the recycle
\* function, and the channel of a started service stays closed.
SInv ==
    /\ ServiceTypeOK
    /\ signal = "nil" <=> loop = "none"
    /\ recycled <= 1
    /\ recycled = 1 => signal = "closed"
    /\ \A t \in Callers :
         /\ at[t] = "close" => signal # "nil"
         /\ at[t] = "recycle" => signal = "closed" /\ recycled = 0
    /\ \A t, u \in Callers : at[t] = "recycle" /\ at[u] = "recycle" => t = u
-----------------------------------------------------------------------------
LEMMA SInvInit == ServiceInit => SInv
<1> SUFFICES ASSUME ServiceInit PROVE SInv
  OBVIOUS
<1>1. killing \in BOOLEAN /\ terminated \in BOOLEAN /\ listed \in BOOLEAN
  BY DEF ServiceInit
<1>2. ServiceTypeOK
  BY <1>1 DEF ServiceInit, ServiceTypeOK, Signals, LoopPcs, CallPcs
<1>3. \A t \in Callers : at[t] = "idle"
  BY DEF ServiceInit
<1>4. signal = "nil" /\ loop = "none" /\ recycled = 0
  BY DEF ServiceInit
<1> QED BY <1>2, <1>3, <1>4 DEF SInv

LEMMA SInvStep == SInv /\ [ServiceNext]_serviceVars => SInv'
<1> SUFFICES ASSUME SInv, [ServiceNext]_serviceVars PROVE SInv'
  OBVIOUS
<1> USE ThreadsAssumption DEF SInv, ServiceTypeOK, Signals, LoopPcs, CallPcs, GoTo, Callers
<1>1. ASSUME Start PROVE SInv'
  BY <1>1 DEF Start
<1>2. ASSUME Boot PROVE SInv'
  BY <1>2 DEF Boot
<1>3. ASSUME Test PROVE SInv'
  BY <1>3 DEF Test
<1>4. ASSUME Task PROVE SInv'
  BY <1>4 DEF Task
<1>5. ASSUME TaskEnd PROVE SInv'
  BY <1>5 DEF TaskEnd
<1>6. ASSUME SyncCall PROVE SInv'
  BY <1>6 DEF SyncCall
<1>7. ASSUME SyncReceive PROVE SInv'
  BY <1>7 DEF SyncReceive
<1>8. ASSUME NEW t \in Threads, Call(t) PROVE SInv'
  BY <1>8 DEF Call
<1>9. ASSUME NEW t \in Callers, TestKilling(t) PROVE SInv'
  BY <1>9 DEF TestKilling
<1>10. ASSUME NEW t \in Callers, MarkKilling(t) PROVE SInv'
  BY <1>10 DEF MarkKilling
<1>11. ASSUME NEW t \in Callers, Stop(t) PROVE SInv'
  BY <1>11 DEF Stop
<1>12. ASSUME NEW t \in Callers, SendSignal(t) PROVE SInv'
  BY <1>12 DEF SendSignal
<1>13. ASSUME NEW t \in Callers, CloseSignal(t) PROVE SInv'
  <2>1. CASE signal = "closed"
    BY <1>13, <2>1 DEF CloseSignal
  <2>2. CASE signal # "closed"
    BY <1>13, <2>2 DEF CloseSignal
  <2> QED BY <2>1, <2>2
<1>14. ASSUME NEW t \in Callers, Recycle(t) PROVE SInv'
  BY <1>14 DEF Recycle
<1>15. ASSUME NEW t \in Callers, RemoveService(t) PROVE SInv'
  BY <1>15 DEF RemoveService
<1>16. ASSUME UNCHANGED serviceVars PROVE SInv'
  BY <1>16 DEF serviceVars
<1> HIDE DEF SInv
<1> QED
  BY <1>1, <1>2, <1>3, <1>4, <1>5, <1>6, <1>7, <1>8, <1>9, <1>10, <1>11, <1>12,
     <1>13, <1>14, <1>15, <1>16 DEF ServiceNext, Looping, Terminating

LEMMA SInvCorrect == ServiceSpec => []SInv
<1>1. ServiceInit => SInv
  BY SInvInit
<1>2. SInv /\ [ServiceNext]_serviceVars => SInv'
  BY SInvStep
<1> QED BY <1>1, <1>2, PTL DEF ServiceSpec

\* RecycledOnce: however many Terminate calls race, the receive buffer is freed
\* at most once, and only behind a closed signal channel.
THEOREM RecycledOnceCorrect == ServiceSpec => []RecycledOnce
<1>1. SInv => RecycledOnce
  BY DEF SInv, RecycledOnce
<1> QED BY <1>1, SInvCorrect, PTL

\* ServiceTypeOK: the fields of the service and the goroutines keep their types.
THEOREM ServiceTypeCorrect == ServiceSpec => []ServiceTypeOK
<1>1. SInv => ServiceTypeOK
  BY DEF SInv
<1> QED BY <1>1, SInvCorrect, PTL
-----------------------------------------------------------------------------
\* What SyncReleased rests on: the signal in the channel comes with a caller that will
\* close the channel, so that neither a second Terminate, which waits for room, nor
\* Sync, whose signal another goroutine took, is left behind.
SignalAttended ==
    /\ signal = "full" => \E t \in Callers : at[t] = "close"
    /\ \A t \in Callers : at[t] \in {"recycle", "remove"} => signal = "closed"
    /\ sync = "waiting" => signal # "nil"

LEMMA SignalStep == SInv /\ SignalAttended /\ [ServiceNext]_serviceVars => SignalAttended'
<1> SUFFICES ASSUME SInv, SignalAttended, [ServiceNext]_serviceVars PROVE SignalAttended'
  OBVIOUS
<1> USE DEF SInv, ServiceTypeOK, SignalAttended, GoTo
<1>1. CASE Start
  BY <1>1 DEF Start
<1>2. CASE Looping
  <2>1. /\ UNCHANGED <<signal, sync>>
        /\ \/ UNCHANGED at
           \/ at[Body] = "idle" /\ at' = [at EXCEPT ![Body] = "test"]
    BY <1>2 DEF Looping, Boot, Test, Task, TaskEnd
  <2>2. \A t \in Callers : at'[t] = at[t] \/ (at[t] = "idle" /\ at'[t] = "test")
    BY <2>1
  <2> QED BY <2>1, <2>2
<1>3. CASE SyncCall \/ SyncReceive
  BY <1>3 DEF SyncCall, SyncReceive
<1>4. ASSUME NEW t \in Threads, Call(t) PROVE SignalAttended'
  BY <1>4 DEF Call
<1>5. ASSUME NEW t \in Callers, TestKilling(t) \/ MarkKilling(t) \/ Stop(t) PROVE SignalAttended'
  BY <1>5 DEF TestKilling, MarkKilling, Stop
<1>6. ASSUME NEW t \in Callers, SendSignal(t) PROVE SignalAttended'
  BY <1>6 DEF SendSignal
<1>7. ASSUME NEW t \in Callers, CloseSignal(t) PROVE SignalAttended'
  BY <1>7 DEF CloseSignal
<1>8. ASSUME NEW t \in Callers, Recycle(t) \/ RemoveService(t) PROVE SignalAttended'
  BY <1>8 DEF Recycle, RemoveService
<1>9. CASE UNCHANGED serviceVars
  BY <1>9 DEF serviceVars
<1> QED
  BY <1>1, <1>2, <1>3, <1>4, <1>5, <1>6, <1>7, <1>8, <1>9 DEF ServiceNext, Terminating

\* However many Terminate calls race, with Sync calls taking the signal from them, a
\* full signal channel is about to be closed.
THEOREM SignalAttendedCorrect == ServiceSpec => []SignalAttended
<1>1. ServiceInit => SignalAttended
  BY DEF ServiceInit, SignalAttended
<1>2. SInv /\ SignalAttended /\ [ServiceNext]_serviceVars => SignalAttended'
  BY SignalStep
<1> QED BY <1>1, <1>2, SInvCorrect, PTL DEF ServiceSpec
-----------------------------------------------------------------------------
(* A message channel (Channels.tla).                                       *)

\* Only a Publish that has the read lock has somebody left to call, and it has
\* a current subscriber only while it is at one, with a processor where it
\* uses that.
Calling == {"inline", "nested", "execute", "send", "stuck", "hung"}
ReadersOnly ==
    \A x \in Publications :
        /\ ~Reading(x) => todo[x] = {}
        /\ pubAt[x] \in Calling <=> current[x] # NoSeq
        /\ pubAt[x] \in {"execute", "send", "hung"} => current[x] \in Processed

\* A function is in Publish only while the one who called it waits for that.
Within ==
    /\ \A p \in Publishers : pubAt[Outer(p)] = "nested" \/ pubAt[Inner(p)] = "idle"
    /\ \A s \in Processed : exeAt[s] = "publish" \/ pubAt[InTask(s)] = "idle"

\* Who waits to subscribe has chosen a number.
Numbered == \A u \in Users : wish[u][1] = "subscribe" => wish[u][2] \in Seqs

\* QuietAfterUnsubscribe made inductive.
CCore == ChannelsTypeOK /\ Numbered /\ ReadersOnly /\ QuietAfterUnsubscribe
CInv == CCore /\ Within
-----------------------------------------------------------------------------
LEMMA Three ==
    /\ \A p \in Publishers : Outer(p) \in Publications /\ Inner(p) \in Publications
    /\ \A s \in Processed : InTask(s) \in Publications
    /\ \A p, q : Outer(p) # Inner(q) /\ Outer(p) # InTask(q) /\ Inner(p) # InTask(q)
    /\ \A p, q : /\ Outer(p) = Outer(q) => p = q
                 /\ Inner(p) = Inner(q) => p = q
                 /\ InTask(p) = InTask(q) => p = q
  BY DEF Publications, Outer, Inner, InTask

LEMMA CInvInit == ChannelsInit => CInv
  BY ChannelsAssumption, Three
  DEF ChannelsInit, CInv, CCore, ChannelsTypeOK, Numbered, ReadersOnly, Within,
      QuietAfterUnsubscribe, Reading, Calling, Wishes

\* A Publish that goes on, or comes to its end, leaves the others where they are.
LEMMA WithinGo ==
    ASSUME DOMAIN pubAt = Publications, pubAt = [y \in Publications |-> pubAt[y]],
           Within, NEW x \in Publications, NEW to,
           pubAt[x] \notin {"idle", "nested"}, pubAt' = [pubAt EXCEPT ![x] = to],
           UNCHANGED exeAt
    PROVE  Within'
<1>1. ASSUME NEW p \in Publishers PROVE pubAt'[Outer(p)] = "nested" \/ pubAt'[Inner(p)] = "idle"
  <2>1. pubAt[Outer(p)] = "nested" \/ pubAt[Inner(p)] = "idle"
    BY DEF Within
  <2> QED BY <2>1, Three
<1>2. ASSUME NEW s \in Processed PROVE exeAt'[s] = "publish" \/ pubAt'[InTask(s)] = "idle"
  <2>1. exeAt[s] = "publish" \/ pubAt[InTask(s)] = "idle"
    BY DEF Within
  <2> QED BY <2>1, Three
<1> QED BY <1>1, <1>2 DEF Within

LEMMA WithinSame == ASSUME Within, UNCHANGED <<pubAt, exeAt>> PROVE Within'
  BY DEF Within

LEMMA CCoreStep == CInv /\ [ChannelsNext]_channelsVars => CCore'
<1> SUFFICES ASSUME CCore, Within, ChannelsNext \/ UNCHANGED channelsVars PROVE CCore'
  BY DEF CInv
<1> USE ChannelsAssumption
    DEF CCore, ChannelsTypeOK, Numbered, ReadersOnly, QuietAfterUnsubscribe,
        Reading, Calling, Wishes, publishing, users, processors, PubGo, Reached, Obtained
<1>1. ASSUME NEW p \in Publishers, Publish(p) PROVE CCore'
  BY <1>1, Three DEF Publish
<1>2. ASSUME NEW x \in Publications, ReadLock(x) PROVE CCore'
  BY <1>2 DEF ReadLock
<1>3. ASSUME NEW x \in Publications, NEW s \in Seqs, Reach(x, s) PROVE CCore'
  BY <1>3 DEF Reach
<1>4. ASSUME NEW x \in Publications, Inline(x) PROVE CCore'
  <2>1. ChannelsTypeOK'
    BY <1>4 DEF Inline
  <2>2. ReadersOnly'
    <3>1. CASE deed[current[x]] = "leave"
      <4>1. pubAt[x] = "inline" /\ pubAt' = [pubAt EXCEPT ![x] = "stuck"]
        BY <1>4, <3>1 DEF Inline
      <4>2. UNCHANGED <<current, todo>>
        BY <1>4, <3>1 DEF Inline
      <4> QED BY <4>1, <4>2
    <3>2. CASE deed[current[x]] # "leave"
      <4>1. /\ pubAt[x] = "inline" /\ pubAt' = [pubAt EXCEPT ![x] = "next"]
            /\ current' = [current EXCEPT ![x] = NoSeq] /\ UNCHANGED todo
        BY <1>4, <3>2 DEF Inline
      <4> QED BY <4>1
    <3> QED BY <3>1, <3>2
  <2>3. QuietAfterUnsubscribe'
    BY <1>4 DEF Inline
  <2>4. Numbered'
    BY <1>4 DEF Inline
  <2> QED BY <2>1, <2>2, <2>3, <2>4
<1>5. ASSUME NEW x \in Publications, FindKilling(x) PROVE CCore'
  <2>1. CASE pubAt' = [pubAt EXCEPT ![x] = "send"] /\ UNCHANGED current
    BY <1>5, <2>1 DEF FindKilling
  <2>2. CASE pubAt' = [pubAt EXCEPT ![x] = "next"] /\ current' = [current EXCEPT ![x] = NoSeq]
    <3>1. /\ UNCHANGED <<deed, subscribers, used, todo, wish, ops, killed, tasks, exeAt>>
          /\ pubAt[x] = "execute"
      BY <1>5 DEF FindKilling
    <3> QED BY <2>2, <3>1
  <2> QED BY <1>5, <2>1, <2>2 DEF FindKilling
<1>6. ASSUME NEW x \in Publications, SendTask(x) PROVE CCore'
  <2>0. current[x] \in Processed /\ Len(tasks[current[x]]) < TaskCapacity
    BY <1>6 DEF SendTask, HasRoom
  <2>k. PICK kind \in {"task", "echo"} :
            tasks' = [tasks EXCEPT ![current[x]] = Append(tasks[current[x]], kind)]
    BY <1>6 DEF SendTask
  <2>1. ChannelsTypeOK'
    <3>1. /\ Append(tasks[current[x]], kind) \in Seq({"task", "echo", "nil"})
          /\ Len(Append(tasks[current[x]], kind)) <= TaskCapacity
      BY <2>0
    <3> QED BY <1>6, <2>0, <2>k, <3>1 DEF SendTask
  <2>2. ReadersOnly'
    BY <1>6 DEF SendTask, HasRoom
  <2>3. QuietAfterUnsubscribe'
    BY <1>6 DEF SendTask, HasRoom
  <2>4. Numbered'
    BY <1>6 DEF SendTask, HasRoom
  <2> QED BY <2>1, <2>2, <2>3, <2>4
<1>7. ASSUME NEW x \in Publications, SendFails(x) PROVE CCore'
  <2>1. CASE PubGo(x, "send", "idle") /\ Reached(x) /\ todo' = [todo EXCEPT ![x] = {}]
    BY <1>7, <2>1 DEF SendFails
  <2>2. CASE PubGo(x, "send", "hung") /\ UNCHANGED <<todo, current>>
    BY <1>7, <2>2 DEF SendFails
  <2> QED BY <1>7, <2>1, <2>2 DEF SendFails
<1>8. ASSUME NEW x \in Publications, Return(x) PROVE CCore'
  BY <1>8 DEF Return
<1>9. ASSUME NEW u \in Users, Subscribe(u) PROVE CCore'
  <2>1. ChannelsTypeOK'
    BY <1>9 DEF Subscribe, Free
  <2>2. ReadersOnly'
    BY <1>9 DEF Subscribe, Free
  <2>3. QuietAfterUnsubscribe'
    BY <1>9 DEF Subscribe, Free
  <2>4. Numbered'
    BY <1>9 DEF Subscribe, Free
  <2> QED BY <2>1, <2>2, <2>3, <2>4
<1>10. ASSUME NEW u \in Users, Unsubscribe(u) PROVE CCore'
  <2>1. ChannelsTypeOK'
    BY <1>10 DEF Unsubscribe, Free
  <2>2. ReadersOnly'
    BY <1>10 DEF Unsubscribe, Free
  <2>3. QuietAfterUnsubscribe'
    BY <1>10 DEF Unsubscribe, Free
  <2>4. Numbered'
    BY <1>10 DEF Unsubscribe, Free
  <2> QED BY <2>1, <2>2, <2>3, <2>4
<1>11. ASSUME NEW u \in Users, UnsubscribeAll(u) PROVE CCore'
  <2>1. ChannelsTypeOK'
    BY <1>11 DEF UnsubscribeAll, Free
  <2>2. ReadersOnly'
    BY <1>11 DEF UnsubscribeAll, Free
  <2>3. QuietAfterUnsubscribe'
    BY <1>11 DEF UnsubscribeAll, Free
  <2>4. Numbered'
    BY <1>11 DEF UnsubscribeAll, Free
  <2> QED BY <2>1, <2>2, <2>3, <2>4
<1>12. ASSUME NEW u \in Users, NEW w \in Wishes \ {"none"}, NEW s \in Seqs \cup {NoSeq},
              Ask(u, w, s)
       PROVE CCore'
  BY <1>12 DEF Ask
<1>13. ASSUME NEW s \in Processed, TerminateProcessor(s) PROVE CCore'
  BY <1>13 DEF TerminateProcessor
<1>14. ASSUME NEW s \in Processed, SendNil(s) PROVE CCore'
  BY <1>14 DEF SendNil, HasRoom
<1>15. ASSUME NEW s \in Processed, TakeTask(s) PROVE CCore'
  <2>1. ChannelsTypeOK'
    <3>1. /\ tasks[s] \in Seq({"task", "echo", "nil"}) /\ tasks[s] # <<>>
          /\ Len(tasks[s]) <= TaskCapacity
      BY <1>15 DEF TakeTask
    <3>2. /\ Tail(tasks[s]) \in Seq({"task", "echo", "nil"}) /\ Len(Tail(tasks[s])) <= TaskCapacity
          /\ <<>> \in Seq({"task", "echo", "nil"}) /\ Len(<<>>) <= TaskCapacity
      BY ONLY <3>1, ChannelsAssumption
    <3> DEFINE nil == Head(tasks[s]) = "nil"
               q == IF nil THEN <<>> ELSE Tail(tasks[s])
               e == IF nil THEN "ended" ELSE Head(tasks[s])
    <3>3. tasks' = [tasks EXCEPT ![s] = q] /\ exeAt' = [exeAt EXCEPT ![s] = e]
      BY <1>15 DEF TakeTask
    <3>4. q \in Seq({"task", "echo", "nil"}) /\ Len(q) <= TaskCapacity
      BY ONLY <3>2
    <3>5. e \in {"idle", "task", "echo", "lock", "publish", "ended"}
      <4>1. Head(tasks[s]) \in {"task", "echo", "nil"}
        BY ONLY <3>1
      <4> QED BY <4>1
    <3> HIDE DEF q, e
    <3> QED BY <1>15, <3>3, <3>4, <3>5 DEF TakeTask
  <2>2. ReadersOnly'
    BY <1>15 DEF TakeTask
  <2>3. QuietAfterUnsubscribe'
    BY <1>15 DEF TakeTask
  <2>4. Numbered'
    BY <1>15 DEF TakeTask
  <2> QED BY <2>1, <2>2, <2>3, <2>4
<1>16. ASSUME NEW s \in Processed, RunTask(s) PROVE CCore'
  BY <1>16 DEF RunTask, Called
<1>17. ASSUME NEW s \in Processed, UnsubscribeSelf(s) PROVE CCore'
  BY <1>17 DEF UnsubscribeSelf, Free
<1>18. CASE UNCHANGED channelsVars
  BY <1>18 DEF channelsVars
<1>19. ASSUME NEW p \in Publishers, Nest(p) PROVE CCore'
  <2>1. Outer(p) \in Publications /\ Inner(p) \in Publications /\ Outer(p) # Inner(p)
    BY Three
  <2>2. pubAt[Inner(p)] = "idle"
    BY <1>19 DEF Within, Nest
  <2> QED BY <1>19, <2>1, <2>2 DEF Nest
<1>20. ASSUME NEW p \in Publishers, Unnest(p) PROVE CCore'
  BY <1>20, Three DEF Unnest
<1>21. ASSUME NEW s \in Processed, PublishTask(s) PROVE CCore'
  <2>1. InTask(s) \in Publications
    BY Three
  <2>2. pubAt[InTask(s)] = "idle"
    BY <1>21 DEF Within, PublishTask, Publishes
  <2> QED BY <1>21, <2>1, <2>2 DEF PublishTask
<1>22. ASSUME NEW s \in Processed, Published(s) PROVE CCore'
  BY <1>22 DEF Published
<1> QED
  BY <1>1, <1>2, <1>3, <1>4, <1>5, <1>6, <1>7, <1>8, <1>9, <1>10, <1>11, <1>12,
     <1>13, <1>14, <1>15, <1>16, <1>17, <1>18, <1>19, <1>20, <1>21, <1>22
  DEF ChannelsNext, Publishing, Obtaining, Executing

LEMMA WithinStep == CInv /\ [ChannelsNext]_channelsVars => Within'
<1> SUFFICES ASSUME CCore, Within, ChannelsNext \/ UNCHANGED channelsVars PROVE Within'
  BY DEF CInv
<1>t. /\ DOMAIN pubAt = Publications /\ pubAt = [x \in Publications |-> pubAt[x]]
      /\ DOMAIN exeAt = Processed /\ exeAt = [s \in Processed |-> exeAt[s]]
  BY DEF CCore, ChannelsTypeOK
<1>1. ASSUME NEW p \in Publishers, Publish(p) PROVE Within'
  <2>1. /\ pubAt[Outer(p)] = "idle" /\ pubAt' = [pubAt EXCEPT ![Outer(p)] = "lock"]
        /\ UNCHANGED exeAt
    BY <1>1 DEF Publish, PubGo, processors
  <2>2. /\ \A q \in Publishers : pubAt'[Inner(q)] = pubAt[Inner(q)]
        /\ \A q \in Publishers : q # p => pubAt'[Outer(q)] = pubAt[Outer(q)]
        /\ \A s \in Processed : pubAt'[InTask(s)] = pubAt[InTask(s)]
    BY <1>t, <2>1, Three
  <2>3. pubAt[Inner(p)] = "idle"
    BY <2>1 DEF Within
  <2> QED BY <2>1, <2>2, <2>3 DEF Within
<1>2. ASSUME NEW x \in Publications,
             \/ ReadLock(x) \/ (\E s \in Seqs : Reach(x, s)) \/ Inline(x)
             \/ FindKilling(x) \/ SendTask(x) \/ SendFails(x) \/ Return(x)
      PROVE  Within'
  <2>1. \A from, to : PubGo(x, from, to) /\ from \notin {"idle", "nested"} /\ UNCHANGED exeAt
                      => Within'
    BY <1>t, WithinGo DEF PubGo
  <2>2. ReadLock(x) \/ SendTask(x) \/ Return(x) => Within'
    BY <2>1 DEF ReadLock, SendTask, Return, processors
  <2>3. ASSUME NEW s \in Seqs, Reach(x, s) PROVE Within'
    BY <2>1, <2>3 DEF Reach, processors
  <2>4. Inline(x) => Within'
    BY <2>1 DEF Inline, processors
  <2>5. FindKilling(x) => Within'
    BY <2>1 DEF FindKilling, processors
  <2>6. SendFails(x) => Within'
    BY <2>1 DEF SendFails, processors
  <2> QED BY <1>2, <2>2, <2>3, <2>4, <2>5, <2>6
<1>3. ASSUME NEW p \in Publishers, Nest(p) PROVE Within'
  BY <1>3, <1>t, Three DEF Within, Nest, processors
<1>4. ASSUME NEW p \in Publishers, Unnest(p) PROVE Within'
  BY <1>4, <1>t, Three DEF Within, Unnest, PubGo, processors
<1>5. ASSUME NEW u \in Users, Obtaining(u) PROVE Within'
  BY <1>5, WithinSame
  DEF Obtaining, Subscribe, Unsubscribe, UnsubscribeAll, publishing, processors
<1>6. ASSUME NEW u \in Users, NEW w \in Wishes \ {"none"}, NEW s \in Seqs \cup {NoSeq},
             Ask(u, w, s)
      PROVE  Within'
  BY <1>6, WithinSame DEF Ask, publishing, processors
<1>7. ASSUME NEW s \in Processed, TerminateProcessor(s) \/ SendNil(s) PROVE Within'
  BY <1>7, WithinSame DEF TerminateProcessor, SendNil, publishing
<1>8. ASSUME NEW s \in Processed, TakeTask(s) \/ RunTask(s) \/ UnsubscribeSelf(s) PROVE Within'
  <2>1. UNCHANGED pubAt /\ exeAt[s] # "publish"
    BY <1>8 DEF TakeTask, RunTask, UnsubscribeSelf, Called, publishing
  <2>2. \A r \in Processed : r # s => exeAt'[r] = exeAt[r]
    BY <1>8, <1>t DEF TakeTask, RunTask, UnsubscribeSelf
  <2> QED BY <2>1, <2>2 DEF Within
<1>9. ASSUME NEW s \in Processed, PublishTask(s) PROVE Within'
  BY <1>9, <1>t, Three DEF Within, PublishTask
<1>10. ASSUME NEW s \in Processed, Published(s) PROVE Within'
  BY <1>10, <1>t DEF Within, Published, publishing
<1>11. CASE UNCHANGED channelsVars
  BY <1>11, WithinSame DEF channelsVars
<1> QED
  BY <1>1, <1>2, <1>3, <1>4, <1>5, <1>6, <1>7, <1>8, <1>9, <1>10, <1>11
  DEF ChannelsNext, Publishing, Executing

LEMMA CInvCorrect == ChannelsSpec => []CInv
<1>1. CInv /\ [ChannelsNext]_channelsVars => CInv'
  BY CCoreStep, WithinStep DEF CInv
<1> QED BY <1>1, CInvInit, PTL DEF ChannelsSpec

\* QuietAfterUnsubscribe: the lock that Publish reads is enough for any number
\* of publishers, also when functions unsubscribe themselves inline or from an
\* executor, and processors are terminated in between.
THEOREM QuietCorrect == ChannelsSpec => []QuietAfterUnsubscribe
<1>1. CInv => QuietAfterUnsubscribe
  BY DEF CInv, CCore
<1> QED BY <1>1, CInvCorrect, PTL

\* ChannelsTypeOK: the channel's map, the publishers and the executors keep their types, and
\* no executor's queue gets over its capacity.
THEOREM ChannelsTypeCorrect == ChannelsSpec => []ChannelsTypeOK
<1>1. CInv => ChannelsTypeOK
  BY DEF CInv, CCore
<1> QED BY <1>1, CInvCorrect, PTL
-----------------------------------------------------------------------------
(* A log file (FileLog.tla).                                               *)

\* A line that is in the file, or in the channel before any nil.
Written(f, line) == \E i \in 1 .. Len(disk[f]) : disk[f][i] = line
Underway(f, line) ==
    \E i \in 1 .. Len(logchan[f]) :
        logchan[f][i] = line /\ \A j \in 1 .. i : logchan[f][j] # Nil

\* Only a BindWriter that has begun to close a writer ends its goroutine, but
\* for a write that fails; and nil is in the channel for it alone.
ClosedByBinder ==
    \A f \in Files :
        /\ writerAt[f] # "range" => failed[f] \/ Closing(f)
        /\ \A i \in 1 .. Len(logchan[f]) : logchan[f][i] = Nil => Closing(f)

\* SwitchKeepsLines in two parts: a line taken early is in the file, or is still
\* on its way to a goroutine that will write it.
EarlyKept ==
    \A f \in Files : ~failed[f] =>
        \A line \in early[f] : Written(f, line) \/ (writerAt[f] = "range" /\ Underway(f, line))

\* A call of Log under way has a line.
Counted == \A g \in Loggers : logAt[g] = "write" => logged[g] \in 1 .. Lines

FInv == FileLogTypeOK /\ Counted /\ ClosedByBinder /\ EarlyKept
-----------------------------------------------------------------------------
LEMMA LinesNotNil == Nil \notin LogLine
  BY DEF Nil, LogLine

LEMMA FInvInit == FileLogInit => FInv
  BY FileLogAssumption
  DEF FileLogInit, FInv, FileLogTypeOK, Counted, ClosedByBinder, EarlyKept

\* What is written stays written, and what is under way stays so when others
\* follow in the channel.
LEMMA AppendedKept ==
    ASSUME NEW T, NEW s \in Seq(T), NEW v \in T
    PROVE  /\ Append(s, v) \in Seq(T) /\ Len(Append(s, v)) = Len(s) + 1
           /\ \A i \in 1 .. Len(s) : Append(s, v)[i] = s[i]
           /\ Append(s, v)[Len(s) + 1] = v
  OBVIOUS

LEMMA TailShifted ==
    ASSUME NEW T, NEW s \in Seq(T), s # <<>>
    PROVE  /\ Tail(s) \in Seq(T) /\ Len(Tail(s)) = Len(s) - 1 /\ Len(s) \in Nat \ {0}
           /\ \A i \in 1 .. Len(Tail(s)) : Tail(s)[i] = s[i + 1]
           /\ Head(s) = s[1]
  OBVIOUS

\* A file that is not looked at by the step keeps its lines.
LEMMA SameLines ==
    ASSUME NEW f, logchan'[f] = logchan[f], disk'[f] = disk[f], NEW line
    PROVE  (Written(f, line))' = Written(f, line) /\ (Underway(f, line))' = Underway(f, line)
  BY DEF Written, Underway

\* A step that leaves the channels, the files and the binders alone.
LEMMA QuietStep ==
    ASSUME FInv, FileLogTypeOK', Counted', UNCHANGED <<logchan, files, early, bindAt, bindFrom>>
    PROVE  FInv'
  BY DEF FInv, ClosedByBinder, EarlyKept, Closing, Written, Underway, files

\* A step of a binder that only moves on.
LEMMA BinderStep ==
    ASSUME FInv, FileLogTypeOK', Counted', UNCHANGED <<logchan, files, early>>,
           \A f \in Files : Closing(f) => Closing(f)'
    PROVE  FInv'
  BY DEF FInv, ClosedByBinder, EarlyKept, Written, Underway, files

\* What follows in a channel leaves alone what is before it.
LEMMA FollowedKept ==
    ASSUME NEW f, NEW l, Len(logchan[f]) \in Nat, Len(logchan'[f]) = Len(logchan[f]) + 1,
           \A i \in 1 .. Len(logchan[f]) : logchan'[f][i] = logchan[f][i]
    PROVE  Underway(f, l) => (Underway(f, l))'
<1> SUFFICES ASSUME NEW i \in 1 .. Len(logchan[f]), logchan[f][i] = l,
                    \A j \in 1 .. i : logchan[f][j] # Nil
             PROVE  (Underway(f, l))'
  BY DEF Underway
<1>1. i \in 1 .. Len(logchan'[f]) /\ logchan'[f][i] = l
  OBVIOUS
<1>2. \A j \in 1 .. i : logchan'[f][j] # Nil
  OBVIOUS
<1> QED BY <1>1, <1>2 DEF Underway

LEMMA WriteStep == ASSUME FInv, NEW g \in Loggers, Write(g) PROVE FInv'
<1> PICK f \in Files : f = logTo[g]
  BY DEF FInv, FileLogTypeOK
<1> PICK line : line = <<g, logged[g]>>
  OBVIOUS
<1>1. f \in Files /\ line \in LogLine /\ line # Nil
  BY LinesNotNil DEF Write, FInv, FileLogTypeOK, Counted, LogLine
<1>2. /\ logchan[f] \in Seq(LogLine \cup {Nil}) /\ Len(logchan[f]) < ChanRoom
      /\ logchan' = [logchan EXCEPT ![f] = Append(logchan[f], line)]
      /\ early' = [early EXCEPT ![f] = IF Closing(f) THEN early[f] ELSE early[f] \cup {line}]
      /\ logAt' = [logAt EXCEPT ![g] = "idle"]
      /\ UNCHANGED <<logged, logTo, logWriter, bindAt, bindFrom, writerAt, disk, failed>>
  BY <1>1 DEF Write, HasChanRoom, FInv, FileLogTypeOK, binds, files
<1>3. /\ logchan'[f] \in Seq(LogLine \cup {Nil}) /\ Len(logchan'[f]) = Len(logchan[f]) + 1
      /\ \A i \in 1 .. Len(logchan[f]) : logchan'[f][i] = logchan[f][i]
      /\ logchan'[f][Len(logchan[f]) + 1] = line
  <2>1. logchan'[f] = Append(logchan[f], line)
    BY <1>1, <1>2 DEF FInv, FileLogTypeOK
  <2>2. line \in LogLine \cup {Nil}
    BY <1>1
  <2> QED BY ONLY <1>2, <2>1, <2>2, AppendedKept
<1>4. Len(logchan[f]) \in Nat
  BY <1>2
<1>5. FileLogTypeOK'
  <2>1. ASSUME NEW h \in Files
        PROVE  logchan'[h] \in Seq(LogLine \cup {Nil}) /\ Len(logchan'[h]) <= ChanRoom
    <3>1. CASE h = f
      BY <1>2, <1>3, <1>4, <3>1, FileLogAssumption
    <3>2. CASE h # f
      BY <1>2, <3>2 DEF FInv, FileLogTypeOK
    <3> QED BY <3>1, <3>2
  <2>2. logchan' \in [Files -> Seq(LogLine \cup {Nil})]
    BY <1>2, <2>1 DEF FInv, FileLogTypeOK
  <2>3. early' \in [Files -> SUBSET LogLine]
    BY <1>1, <1>2 DEF FInv, FileLogTypeOK
  <2> QED BY <1>2, <2>1, <2>2, <2>3 DEF FInv, FileLogTypeOK
<1>6. Counted'
  BY <1>2 DEF FInv, FileLogTypeOK, Counted
<1>7. ClosedByBinder'
  <2>1. \A h \in Files : Closing(h)' = Closing(h)
    BY <1>2 DEF Closing
  <2>2. ASSUME NEW h \in Files, NEW i \in 1 .. Len(logchan'[h]), logchan'[h][i] = Nil
        PROVE  Closing(h)
    <3>1. CASE h = f
      <4>1. i \in 1 .. Len(logchan[f])
        BY <1>1, <1>3, <1>4, <2>2, <3>1
      <4>2. logchan[f][i] = Nil
        BY <1>3, <2>2, <3>1, <4>1
      <4> QED BY <3>1, <4>1, <4>2 DEF FInv, ClosedByBinder
    <3>2. CASE h # f
      BY <1>2, <2>2, <3>2 DEF FInv, FileLogTypeOK, ClosedByBinder
    <3> QED BY <3>1, <3>2
  <2> QED BY <1>2, <2>1, <2>2 DEF FInv, ClosedByBinder
<1>8. EarlyKept'
  <2> SUFFICES ASSUME NEW h \in Files, ~failed[h], NEW l \in early'[h]
               PROVE  (Written(h, l))' \/ (writerAt[h] = "range" /\ (Underway(h, l))')
    BY <1>2 DEF EarlyKept
  <2>1. CASE h # f
    BY <1>2, <2>1, SameLines DEF FInv, FileLogTypeOK, EarlyKept
  <2>2. CASE h = f /\ l \in early[f]
    <3>1. Written(f, l) => (Written(f, l))'
      BY <1>2 DEF Written
    <3>2. Underway(f, l) => (Underway(f, l))'
      BY <1>3, <1>4, FollowedKept
    <3> QED BY <1>2, <2>2, <3>1, <3>2 DEF FInv, EarlyKept
  <2>3. CASE h = f /\ l = line /\ ~Closing(f)
    <3>1. (Underway(f, line))'
      <4>1. \A i \in 1 .. Len(logchan[f]) : logchan[f][i] # Nil
        BY <1>1, <2>3 DEF FInv, ClosedByBinder
      <4> DEFINE n == Len(logchan[f]) + 1
      <4>2. n \in 1 .. Len(logchan'[f]) /\ logchan'[f][n] = line
        BY <1>3, <1>4
      <4>3. \A j \in 1 .. n : logchan'[f][j] # Nil
        <5> SUFFICES ASSUME NEW j \in 1 .. n PROVE logchan'[f][j] # Nil
          OBVIOUS
        <5>1. CASE j = n
          BY <1>1, <4>2, <5>1
        <5>2. CASE j # n
          <6>1. j \in 1 .. Len(logchan[f])
            BY <1>4, <5>2
          <6> QED BY <1>3, <4>1, <6>1
        <5> QED BY <5>1, <5>2
      <4> QED BY <4>2, <4>3 DEF Underway
    <3>2. writerAt[f] = "range"
      BY <1>1, <2>3 DEF FInv, ClosedByBinder
    <3> QED BY <2>3, <3>1, <3>2
  <2> QED BY <1>1, <1>2, <2>1, <2>2, <2>3 DEF FInv, FileLogTypeOK
<1> QED BY <1>5, <1>6, <1>7, <1>8 DEF FInv

LEMMA CloseStep == ASSUME FInv, NEW b \in Binders, Close(b) PROVE FInv'
<1> PICK f \in Files : f = bindFrom[b]
  BY DEF FInv, FileLogTypeOK
<1>1. /\ logchan[f] \in Seq(LogLine \cup {Nil}) /\ Len(logchan[f]) < ChanRoom
      /\ logchan' = [logchan EXCEPT ![f] = Append(logchan[f], Nil)]
      /\ bindAt' = [bindAt EXCEPT ![b] = "bind"]
      /\ UNCHANGED <<logWriter, bindFrom, logged, logAt, logTo, writerAt, disk, failed, early>>
  BY DEF Close, HasChanRoom, FInv, FileLogTypeOK, logs, files
<1>2. /\ logchan'[f] \in Seq(LogLine \cup {Nil}) /\ Len(logchan'[f]) = Len(logchan[f]) + 1
      /\ \A i \in 1 .. Len(logchan[f]) : logchan'[f][i] = logchan[f][i]
  <2>1. logchan'[f] = Append(logchan[f], Nil)
    BY <1>1 DEF FInv, FileLogTypeOK
  <2>2. Nil \in LogLine \cup {Nil}
    OBVIOUS
  <2> QED BY ONLY <1>1, <2>1, <2>2, AppendedKept
<1>3. Len(logchan[f]) \in Nat
  BY <1>1
<1>4. Closing(f)' /\ \A h \in Files : Closing(h) => Closing(h)'
  BY <1>1 DEF Closing, FInv, FileLogTypeOK
<1>5. FileLogTypeOK'
  <2>1. \A h \in Files : logchan'[h] \in Seq(LogLine \cup {Nil}) /\ Len(logchan'[h]) <= ChanRoom
    BY <1>1, <1>2, <1>3, FileLogAssumption DEF FInv, FileLogTypeOK
  <2> QED BY <1>1, <2>1 DEF FInv, FileLogTypeOK
<1>6. Counted'
  BY <1>1 DEF FInv, Counted
<1>7. ClosedByBinder'
  <2> SUFFICES ASSUME NEW h \in Files, ~Closing(h)'
               PROVE  /\ writerAt[h] # "range" => failed[h]
                      /\ \A i \in 1 .. Len(logchan'[h]) : logchan'[h][i] # Nil
    BY <1>1 DEF ClosedByBinder
  <2>1. h # f /\ ~Closing(h)
    BY <1>4
  <2> QED BY <1>1, <2>1 DEF FInv, FileLogTypeOK, ClosedByBinder
<1>8. EarlyKept'
  <2> SUFFICES ASSUME NEW h \in Files, ~failed[h], NEW l \in early[h]
               PROVE  (Written(h, l))' \/ (writerAt[h] = "range" /\ (Underway(h, l))')
    BY <1>1 DEF EarlyKept
  <2>1. CASE h # f
    BY <1>1, <2>1, SameLines DEF FInv, FileLogTypeOK, EarlyKept
  <2>2. CASE h = f
    <3>1. Written(f, l) => (Written(f, l))'
      BY <1>1 DEF Written
    <3>2. Underway(f, l) => (Underway(f, l))'
      BY <1>2, <1>3, FollowedKept
    <3> QED BY <2>2, <3>1, <3>2 DEF FInv, EarlyKept
  <2> QED BY <2>1, <2>2
<1> QED BY <1>5, <1>6, <1>7, <1>8 DEF FInv

\* The goroutine of a writer takes the head of its channel.
LEMMA TakenKept ==
    ASSUME FInv, NEW f \in Files, logchan[f] # <<>>, Received(f)
    PROVE  /\ logchan[f] \in Seq(LogLine \cup {Nil})
           /\ logchan'[f] \in Seq(LogLine \cup {Nil}) /\ Len(logchan'[f]) = Len(logchan[f]) - 1
           /\ Len(logchan[f]) \in Nat \ {0} /\ Head(logchan[f]) = logchan[f][1]
           /\ \A i \in 1 .. Len(logchan'[f]) : logchan'[f][i] = logchan[f][i + 1]
           /\ \A h \in Files : h # f => logchan'[h] = logchan[h]
           /\ logchan' \in [Files -> Seq(LogLine \cup {Nil})]
           /\ \A h \in Files : Len(logchan'[h]) <= ChanRoom
<1>1. logchan \in [Files -> Seq(LogLine \cup {Nil})]
  BY DEF FInv, FileLogTypeOK
<1>2. logchan'[f] = Tail(logchan[f]) /\ \A h \in Files : h # f => logchan'[h] = logchan[h]
  BY <1>1 DEF Received
<1>3. /\ logchan'[f] \in Seq(LogLine \cup {Nil}) /\ Len(logchan'[f]) = Len(logchan[f]) - 1
      /\ Len(logchan[f]) \in Nat \ {0} /\ Head(logchan[f]) = logchan[f][1]
      /\ \A i \in 1 .. Len(logchan'[f]) : logchan'[f][i] = logchan[f][i + 1]
  <2>1. logchan[f] \in Seq(LogLine \cup {Nil})
    BY <1>1
  <2> QED BY ONLY <1>2, <2>1, logchan[f] # <<>>, TailShifted
<1>4. logchan' \in [Files -> Seq(LogLine \cup {Nil})]
  BY <1>1, <1>2, <1>3 DEF Received
<1>5. ASSUME NEW h \in Files PROVE Len(logchan'[h]) <= ChanRoom
  <2>1. Len(logchan[h]) <= ChanRoom
    BY DEF FInv, FileLogTypeOK
  <2>2. CASE h = f
    BY <1>3, <2>1, <2>2, FileLogAssumption
  <2>3. CASE h # f
    BY <1>2, <2>1, <2>3
  <2> QED BY <2>2, <2>3
<1> QED BY <1>1, <1>2, <1>3, <1>4, <1>5

\* What the step of a writer's goroutine leaves of ClosedByBinder: no nil is new.
LEMMA TakenClosed ==
    ASSUME FInv, NEW f \in Files, logchan[f] # <<>>, Received(f), UNCHANGED <<bindAt, bindFrom>>
    PROVE  \A h \in Files : /\ Closing(h)' = Closing(h)
                            /\ \A i \in 1 .. Len(logchan'[h]) : logchan'[h][i] = Nil => Closing(h)
<1>1. \A h \in Files : Closing(h)' = Closing(h)
  BY DEF Closing
<1>2. ASSUME NEW i \in 1 .. Len(logchan'[f]), logchan'[f][i] = Nil PROVE Closing(f)
  <2>1. i + 1 \in 1 .. Len(logchan[f]) /\ logchan[f][i + 1] = Nil
    BY <1>2, TakenKept
  <2> QED BY <2>1 DEF FInv, ClosedByBinder
<1>3. ASSUME NEW h \in Files, h # f, NEW i \in 1 .. Len(logchan'[h]), logchan'[h][i] = Nil
      PROVE  Closing(h)
  BY <1>3, TakenKept DEF FInv, ClosedByBinder
<1> QED BY <1>1, <1>2, <1>3

LEMMA TakeLineStep == ASSUME FInv, NEW f \in Files, TakeLine(f) PROVE FInv'
<1>1. /\ writerAt[f] = "range" /\ logchan[f] # <<>> /\ Received(f)
      /\ UNCHANGED <<logWriter, logged, logAt, logTo, bindAt, bindFrom, early>>
  BY DEF TakeLine, logs, binds
<1>2. Head(logchan[f]) = logchan[f][1] /\ Head(logchan[f]) # Nil /\ Head(logchan[f]) \in LogLine
  BY <1>1, TakenKept DEF TakeLine
<1>3. Counted'
  BY <1>1 DEF FInv, Counted
<1>4. \A h \in Files : Len(logchan'[h]) <= ChanRoom
  BY <1>1, TakenKept
<1>5. CASE disk' = [disk EXCEPT ![f] = Append(@, Head(logchan[f]))] /\ UNCHANGED <<writerAt, failed>>
  <2>1. /\ disk'[f] = Append(disk[f], Head(logchan[f])) /\ disk[f] \in Seq(LogLine)
        /\ \A h \in Files : h # f => disk'[h] = disk[h]
    BY <1>5 DEF FInv, FileLogTypeOK
  <2>2. /\ disk'[f] \in Seq(LogLine) /\ Len(disk'[f]) = Len(disk[f]) + 1
        /\ \A i \in 1 .. Len(disk[f]) : disk'[f][i] = disk[f][i]
        /\ disk'[f][Len(disk[f]) + 1] = Head(logchan[f]) /\ Len(disk[f]) \in Nat
    <3>1. Len(disk[f]) \in Nat
      BY <2>1
    <3> QED BY ONLY <1>2, <2>1, <3>1, AppendedKept
  <2>3. FileLogTypeOK'
    BY <1>1, <1>4, <1>5, <2>1, <2>2, TakenKept DEF FInv, FileLogTypeOK
  <2>4. ClosedByBinder'
    BY <1>1, <1>5, TakenClosed DEF FInv, ClosedByBinder
  <2>5. EarlyKept'
    <3> SUFFICES ASSUME NEW h \in Files, ~failed[h], NEW l \in early[h]
                 PROVE  (Written(h, l))' \/ (writerAt[h] = "range" /\ (Underway(h, l))')
      BY <1>1, <1>5 DEF EarlyKept
    <3>1. CASE h # f
      <4>1. disk'[h] = disk[h] /\ logchan'[h] = logchan[h]
        BY <1>1, <2>1, <3>1, TakenKept
      <4> QED BY <1>1, <4>1, SameLines DEF FInv, EarlyKept
    <3>2. CASE h = f /\ Written(f, l)
      <4>1. PICK i \in 1 .. Len(disk[f]) : disk[f][i] = l
        BY <3>2 DEF Written
      <4>2. i \in 1 .. Len(disk'[f])
        BY <2>2
      <4>3. disk'[f][i] = l
        BY <2>2, <4>1
      <4> QED BY <3>2, <4>2, <4>3 DEF Written
    <3>3. CASE h = f /\ Underway(f, l)
      <4>1. PICK i \in 1 .. Len(logchan[f]) :
              logchan[f][i] = l /\ \A j \in 1 .. i : logchan[f][j] # Nil
        BY <3>3 DEF Underway
      <4>2. CASE i = 1
        <5>1. Len(disk[f]) + 1 \in 1 .. Len(disk'[f])
          BY <2>2
        <5>2. disk'[f][Len(disk[f]) + 1] = l
          BY <1>2, <2>2, <4>1, <4>2
        <5> QED BY <3>3, <5>1, <5>2 DEF Written
      <4>3. CASE i # 1
        <5>1. /\ i - 1 \in 1 .. Len(logchan'[f]) /\ logchan'[f][i - 1] = l
              /\ \A j \in 1 .. i - 1 : logchan'[f][j] # Nil
          <6>1. i - 1 \in 1 .. Len(logchan'[f])
            BY <1>1, <4>3, TakenKept
          <6>2. logchan'[f][i - 1] = l
            <7>1. logchan'[f][i - 1] = logchan[f][(i - 1) + 1]
              BY <1>1, <6>1, TakenKept
            <7>2. (i - 1) + 1 = i
              OBVIOUS
            <7> QED BY <4>1, <7>1, <7>2
          <6>3. ASSUME NEW j \in 1 .. i - 1 PROVE logchan'[f][j] # Nil
            <7>1. j \in 1 .. Len(logchan'[f]) /\ j + 1 \in 1 .. i
              BY <6>1, <1>1, TakenKept
            <7> QED BY <1>1, <4>1, <7>1, TakenKept
          <6> QED BY <6>1, <6>2, <6>3
        <5> QED BY <1>1, <3>3, <5>1 DEF Underway
      <4> QED BY <4>2, <4>3
    <3> QED BY <1>1, <3>1, <3>2, <3>3 DEF FInv, EarlyKept
  <2> QED BY <1>3, <2>3, <2>4, <2>5 DEF FInv
<1>6. CASE /\ failed' = [failed EXCEPT ![f] = TRUE]
           /\ writerAt' = [writerAt EXCEPT ![f] = "dispose"]
           /\ UNCHANGED disk
  <2>1. FileLogTypeOK'
    BY <1>1, <1>4, <1>6, TakenKept DEF FInv, FileLogTypeOK
  <2>2. ClosedByBinder'
    BY <1>1, <1>6, TakenClosed DEF FInv, FileLogTypeOK, ClosedByBinder
  <2>3. EarlyKept'
    <3> SUFFICES ASSUME NEW h \in Files, ~failed'[h], NEW l \in early[h]
                 PROVE  (Written(h, l))' \/ (writerAt'[h] = "range" /\ (Underway(h, l))')
      BY <1>1 DEF EarlyKept
    <3>1. h # f /\ ~failed[h] /\ writerAt'[h] = writerAt[h]
      BY <1>6 DEF FInv, FileLogTypeOK
    <3> QED BY <1>1, <1>6, <3>1, TakenKept, SameLines DEF FInv, EarlyKept
  <2> QED BY <1>3, <2>1, <2>2, <2>3 DEF FInv
<1> QED BY <1>5, <1>6 DEF TakeLine

LEMMA TakeNilStep == ASSUME FInv, NEW f \in Files, TakeNil(f) PROVE FInv'
<1>1. /\ writerAt[f] = "range" /\ logchan[f] # <<>> /\ Received(f) /\ Head(logchan[f]) = Nil
      /\ writerAt' = [writerAt EXCEPT ![f] = "dispose"]
      /\ UNCHANGED <<logWriter, logged, logAt, logTo, bindAt, bindFrom, disk, failed, early>>
  BY DEF TakeNil, logs, binds
<1>2. Counted'
  BY <1>1 DEF FInv, Counted
<1>3. FileLogTypeOK'
  BY <1>1, TakenKept DEF FInv, FileLogTypeOK
<1>4. 1 \in 1 .. Len(logchan[f]) /\ logchan[f][1] = Nil
  BY <1>1, TakenKept
<1>5. ClosedByBinder'
  BY <1>1, <1>4, TakenClosed DEF FInv, FileLogTypeOK, ClosedByBinder
<1>6. EarlyKept'
  <2> SUFFICES ASSUME NEW h \in Files, ~failed[h], NEW l \in early[h]
               PROVE  (Written(h, l))' \/ (writerAt'[h] = "range" /\ (Underway(h, l))')
    BY <1>1 DEF EarlyKept
  <2>1. CASE h # f
    <3>1. disk'[h] = disk[h] /\ logchan'[h] = logchan[h]
      BY <1>1, <2>1, TakenKept
    <3>2. writerAt'[h] = writerAt[h]
      BY <1>1, <2>1 DEF FInv, FileLogTypeOK
    <3> QED BY <1>1, <3>1, <3>2, SameLines DEF FInv, EarlyKept
  <2>2. CASE h = f
    <3>1. ~Underway(f, l)
      BY <1>4 DEF Underway
    <3> QED BY <1>1, <2>2, <3>1 DEF FInv, EarlyKept, Written
  <2> QED BY <2>1, <2>2
<1> QED BY <1>2, <1>3, <1>5, <1>6 DEF FInv

LEMMA DisposeStep == ASSUME FInv, NEW f \in Files, Dispose(f) PROVE FInv'
<1>1. /\ writerAt[f] = "dispose" /\ writerAt' = [writerAt EXCEPT ![f] = "ended"]
      /\ UNCHANGED <<logWriter, logged, logAt, logTo, bindAt, bindFrom, logchan, disk, failed, early>>
  BY DEF Dispose, logs, binds
<1>2. FileLogTypeOK' /\ Counted'
  BY <1>1 DEF FInv, FileLogTypeOK, Counted
<1>3. ClosedByBinder'
  BY <1>1 DEF FInv, FileLogTypeOK, ClosedByBinder, Closing
<1>4. EarlyKept'
  BY <1>1, SameLines DEF FInv, FileLogTypeOK, EarlyKept
<1> QED BY <1>2, <1>3, <1>4 DEF FInv

LEMMA FInvStep == FInv /\ [FileLogNext]_fileLogVars => FInv'
<1> SUFFICES ASSUME FInv, [FileLogNext]_fileLogVars PROVE FInv'
  OBVIOUS
<1>1. ASSUME NEW g \in Loggers, DoLog(g) PROVE FInv'
  <2>1. UNCHANGED <<logchan, files, early, bindAt, bindFrom>>
    BY <1>1 DEF DoLog, binds
  <2>2. FileLogTypeOK'
    <3>1. /\ logAt' = [logAt EXCEPT ![g] = "write"] /\ logTo' = [logTo EXCEPT ![g] = logWriter]
          /\ logged' = [logged EXCEPT ![g] = @ + 1] /\ logged[g] < Lines
          /\ UNCHANGED <<logWriter, bindAt, bindFrom, logchan, writerAt, disk, failed, early>>
      BY <1>1 DEF DoLog, binds, files
    <3>2. logged' \in [Loggers -> 0 .. Lines]
      BY <3>1, FileLogAssumption DEF FInv, FileLogTypeOK
    <3> QED BY <3>1, <3>2 DEF FInv, FileLogTypeOK
  <2>3. Counted'
    BY <1>1, FileLogAssumption DEF DoLog, FInv, FileLogTypeOK, Counted
  <2> QED BY <2>1, <2>2, <2>3, QuietStep
<1>2. ASSUME NEW g \in Loggers, Logging(g) PROVE FInv'
  BY <1>2, WriteStep, QuietStep
  DEF Logging, WritePanics, Recovered, binds, files, FInv, FileLogTypeOK, Counted
<1>3. ASSUME NEW b \in Binders, BindWriter(b) PROVE FInv'
  BY <1>3, BinderStep DEF BindWriter, logs, files, FInv, FileLogTypeOK, Counted, Closing
<1>4. ASSUME NEW b \in Binders, Binding(b) PROVE FInv'
  <2>1. CASE ClosePanics(b)
    BY <2>1, BinderStep DEF ClosePanics, logs, files, FInv, FileLogTypeOK, Counted, Closing
  <2>2. CASE Bind(b)
    BY <2>2, BinderStep, FileLogAssumption
    DEF Bind, logs, files, FInv, FileLogTypeOK, Counted, Closing
  <2> QED BY <1>4, <2>1, <2>2, CloseStep DEF Binding
<1>5. ASSUME NEW f \in Files, Writing(f) PROVE FInv'
  BY <1>5, TakeLineStep, TakeNilStep, DisposeStep DEF Writing
<1>6. CASE UNCHANGED fileLogVars
  BY <1>6, QuietStep DEF fileLogVars, files, FInv, FileLogTypeOK, Counted
<1> QED BY <1>1, <1>2, <1>3, <1>4, <1>5, <1>6 DEF FileLogNext

LEMMA FInvCorrect == FileLogSpec => []FInv
  BY FInvInit, FInvStep, PTL DEF FileLogSpec
-----------------------------------------------------------------------------
\* FileLogTypeOK: the channels, files and goroutines keep their types, and the
\* goroutines that log and bind without a lock leave the channel of every writer
\* within its capacity.
THEOREM FileLogTypeCorrect == FileLogSpec => []FileLogTypeOK
<1>1. FInv => FileLogTypeOK
  BY DEF FInv
<1> QED BY <1>1, FInvCorrect, PTL

\* SwitchKeepsLines: however goroutines that log and that bind writers
\* interleave, with any number of them and a channel of any capacity, a file that
\* was closed without a write error has every line that was taken before the
\* closing began.
THEOREM SwitchKeepsLinesCorrect == FileLogSpec => []SwitchKeepsLines
<1>1. FInv => SwitchKeepsLines
  BY DEF FInv, EarlyKept, Written, SwitchKeepsLines
<1> QED BY <1>1, FInvCorrect, PTL
=============================================================================
