-------------------------- MODULE PeerCallsProofs --------------------------
(* Proofs about PeerCalls, for every set of calls and every timeout.       *)
EXTENDS PeerCalls, TLAPS

\* How often a call that is still in the table has been told: once if it is a
\* Call whose request failed.
Told(c) == IF cpc[c] = "aborted" /\ c \notin Sync THEN 1 ELSE 0

\* The timeout loop completes entries of the table only, each once, and leaves
\* nothing behind when it gives p.lock back.
ScanInv ==
    /\ scan \subseteq table /\ dirty \subseteq table
    /\ \A c \in scan : c \notin dirty
    /\ ~lock => scan = {} /\ dirty = {}

\* Who holds the entry of a call, the table or the goroutine that took it out,
\* is the only one left to complete it.
CallInv(c) ==
    /\ cpc[c] = "idle" => /\ done[c] = 0 /\ c \notin table
                          /\ net[c] = "none" /\ hpc[c] = "none"
    /\ hpc[c] = "taken" => c \notin table
    /\ c \in table \ dirty \/ hpc[c] = "taken" => done[c] = Told(c)
    /\ done[c] <= Told(c) + 1
    /\ net[c] # "none" \/ hpc[c] # "none" => cpc[c] \in {"sent", "returned"}
    /\ closed[c] = TRUE => cpc[c] = "returned"
    /\ cpc[c] = "returned" => c \in Sync /\ done[c] = 1

IInv == TypeOK /\ ScanInv /\ \A c \in Calls : CallInv(c)
-----------------------------------------------------------------------------
LEMMA IInvInit == Init => IInv
<1> SUFFICES ASSUME Init PROVE IInv
  OBVIOUS
<1>0. /\ closed \in [Calls -> BOOLEAN]
      /\ \A c \in Calls : closed[c] = FALSE
  BY Zenon DEF Init
<1>1. TypeOK
  <2>1. left \in [Calls -> 0 .. Timeout] /\ wake \in 0 .. Every
    BY CallsAssumption DEF Init
  <2>2. lock \in BOOLEAN /\ stuck \in BOOLEAN /\ disposing \in BOOLEAN
    BY DEF Init
  <2> QED BY <1>0, <2>1, <2>2 DEF Init, TypeOK, CallerPcs, NetStates, DealPcs
<1>2. ScanInv
  BY DEF Init, ScanInv
<1>3. \A c \in Calls : CallInv(c)
  <2>1. \A c \in Calls : /\ cpc[c] = "idle" /\ done[c] = 0
                          /\ net[c] = "none" /\ hpc[c] = "none"
    BY DEF Init
  <2>2. table = {}
    BY DEF Init
  <2>3. \A c \in Calls : ~(closed[c] = TRUE)
    BY <1>0
  <2>4. ASSUME NEW c \in Calls PROVE CallInv(c)
    <3>1. Told(c) = 0
      BY <2>1 DEF Told
    <3> QED BY <2>1, <2>2, <2>3, <3>1 DEF CallInv
  <2> QED BY <2>4
<1> QED BY <1>1, <1>2, <1>3 DEF IInv

LEMMA IInvStep == IInv /\ [Next]_vars => IInv'
<1> SUFFICES ASSUME IInv, [Next]_vars PROVE IInv'
  OBVIOUS
<1> USE CallsAssumption
    DEF IInv, TypeOK, ScanInv, CallInv, Told, CallerPcs, NetStates, DealPcs,
        timer, CallerGoTo, DealGoTo, Complete
<1>1. ASSUME NEW c \in Calls, buildCall(c) PROVE IInv'
  BY <1>1 DEF buildCall
<1>2. ASSUME NEW c \in Calls, RequestFail(c) PROVE IInv'
  BY <1>2 DEF RequestFail
<1>3. ASSUME NEW c \in Calls, RequestSend(c) PROVE IInv'
  BY <1>3 DEF RequestSend
<1>4. ASSUME NEW c \in Calls, ReportFailure(c) PROVE IInv'
  BY <1>4 DEF ReportFailure
<1>5. ASSUME NEW c \in Calls, InvokeReturn(c) PROVE IInv'
  BY <1>5 DEF InvokeReturn
<1>6. ASSUME NEW c \in Calls, RemoteServe(c) PROVE IInv'
  BY <1>6 DEF RemoteServe
<1>7. ASSUME NEW c \in Calls, LocalServe(c) PROVE IInv'
  BY <1>7 DEF LocalServe
<1>8. ASSUME NEW c \in Calls, LocalAnswer(c) PROVE IInv'
  BY <1>8 DEF LocalAnswer
<1>9. ASSUME NEW c \in Calls, takeoutCall(c) PROVE IInv'
  BY <1>9 DEF takeoutCall
<1>10. ASSUME NEW c \in Calls, CompleteTaken(c) PROVE IInv'
  BY <1>10 DEF CompleteTaken
<1>11. ASSUME Tick PROVE IInv'
  BY <1>11 DEF Tick
<1>12. ASSUME CheckBegin PROVE IInv'
  <2>1. CASE disposing
    BY <1>12, <2>1 DEF CheckBegin
  <2>2. CASE ~disposing
    <3>1. scan' \subseteq table /\ dirty = {} /\ lock' = TRUE /\ ~lock
      BY <1>12, <2>2 DEF CheckBegin
    <3>2. TypeOK'
      <4>1. lock' \in BOOLEAN BY <3>1
      <4>2. wake' = wake /\ UNCHANGED <<cpc, table, left, net, hpc, done, closed,
                                         dirty, stuck, disposing>>
        BY <1>12, <2>2 DEF CheckBegin
      <4> QED BY <3>1, <4>1, <4>2
    <3>3. ScanInv'
      BY <1>12, <3>1 DEF CheckBegin
    <3>4. \A c \in Calls : CallInv(c)'
      BY <1>12 DEF CheckBegin
    <3> QED BY <3>2, <3>3, <3>4
  <2> QED BY <2>1, <2>2
<1>13. ASSUME NEW c \in Calls, CheckExpire(c) PROVE IInv'
  BY <1>13 DEF CheckExpire
<1>14. ASSUME CheckEnd PROVE IInv'
  <2>1. table' = table \ dirty /\ dirty' = {} /\ scan' = {} /\ scan = {}
    BY <1>14 DEF CheckEnd
  <2>2. TypeOK'
    <3>1. lock' = FALSE /\ wake' = 0
      BY <1>14 DEF CheckEnd
    <3>2. UNCHANGED <<cpc, left, net, hpc, done, closed, stuck, disposing>>
      BY <1>14 DEF CheckEnd
    <3>3. lock' \in BOOLEAN
      BY <3>1
    <3>4. wake' \in 0 .. Every
      BY <3>1
    <3>5. table' \subseteq Calls
      BY <2>1
    <3> QED BY <2>1, <3>2, <3>3, <3>4, <3>5
  <2>3. ScanInv'
    BY <2>1
  <2>4. \A c \in Calls : CallInv(c)'
    BY <1>14, <2>1 DEF CheckEnd
  <2> QED BY <2>2, <2>3, <2>4
<1>15. ASSUME Dispose PROVE IInv'
  BY <1>15 DEF Dispose
<1>16. ASSUME UNCHANGED vars PROVE IInv'
  BY <1>16 DEF vars
<1> HIDE DEF IInv
<1> QED
  BY <1>1, <1>2, <1>3, <1>4, <1>5, <1>6, <1>7, <1>8, <1>9, <1>10, <1>11, <1>12,
     <1>13, <1>14, <1>15, <1>16 DEF Next, Calling, Dealing, Checking
-----------------------------------------------------------------------------
LEMMA IInvCorrect == Spec => []IInv
<1>1. Init => IInv
  BY IInvInit
<1>2. IInv /\ [Next]_vars => IInv'
  BY IInvStep
<1> QED BY <1>1, <1>2, PTL DEF Spec

\* TypeOK: every variable of the callback table keeps its type.
THEOREM TypeCorrect == Spec => []TypeOK
<1>1. IInv => TypeOK
  BY DEF IInv
<1> QED BY <1>1, IInvCorrect, PTL

\* CompletedOnce: the response, the timeout loop and a failed request between
\* them complete a call at most once, twice after a failed request.
THEOREM CompletedOnceCorrect == Spec => []CompletedOnce
<1>1. IInv => CompletedOnce
  <2> SUFFICES ASSUME IInv, NEW c \in Calls
               PROVE done[c] <= IF cpc[c] = "aborted" /\ c \notin Sync THEN 2 ELSE 1
    BY DEF CompletedOnce
  <2> QED BY DEF IInv, TypeOK, CallInv, Told
<1> QED BY <1>1, IInvCorrect, PTL

\* NoSendOnClosed: no goroutine is left that could send on the channel which
\* Invoke has closed.
THEOREM NoSendOnClosedCorrect == Spec => []NoSendOnClosed
<1>1. IInv => NoSendOnClosed
  <2> SUFFICES ASSUME IInv, NEW c \in Calls, closed[c] = TRUE
               PROVE hpc[c] # "taken" /\ c \notin scan
    BY DEF NoSendOnClosed, IInv, TypeOK
  <2>1. cpc[c] = "returned" /\ done[c] = 1 /\ Told(c) = 0
    BY DEF IInv, CallInv, Told
  <2> QED BY <2>1 DEF IInv, CallInv, ScanInv
<1> QED BY <1>1, IInvCorrect, PTL

\* ReplyStable: a response is written into the reply object only while the
\* caller still waits for it.
THEOREM ReplyStableCorrect == Spec => []ReplyStable
<1>1. IInv => ReplyStable
  <2> SUFFICES ASSUME IInv, NEW c \in Calls, hpc[c] = "taken"
               PROVE done[c] = 0 /\ cpc[c] = "sent"
    BY DEF ReplyStable
  <2> QED BY DEF IInv, CallInv, Told
<1> QED BY <1>1, IInvCorrect, PTL
-----------------------------------------------------------------------------
(* What SentCompletes rests on.                                            *)

\* A call nobody has been told about is in the table, where the timeout loop finds
\* it, or with the goroutine that took it out.
PendingKept ==
    \A c \in Calls : cpc[c] # "idle" /\ done[c] = 0
                        => c \in table \ dirty \/ hpc[c] = "taken"

\* An exchange is under way or somebody deals with it, never both: a request that
\* came again would take the goroutine of a call away.
OnePlace == \A c \in Calls : net[c] = "none" \/ hpc[c] = "none"

LEMMA OnePlaceStep == IInv /\ OnePlace /\ [Next]_vars => OnePlace'
<1> SUFFICES ASSUME IInv, OnePlace, [Next]_vars PROVE OnePlace'
  OBVIOUS
<1> USE DEF OnePlace, timer, CallerGoTo, DealGoTo, Complete
<1>t. /\ TypeOK
      /\ \A c \in Calls : CallInv(c)
  BY DEF IInv
<1>1. ASSUME NEW c \in Calls, buildCall(c) \/ Calling(c) PROVE OnePlace'
  BY <1>1, <1>t DEF buildCall, Calling, RequestFail, RequestSend, ReportFailure, InvokeReturn,
                    TypeOK, CallInv
<1>2. ASSUME NEW c \in Calls, RemoteServe(c) \/ LocalServe(c) \/ LocalAnswer(c)
      PROVE  OnePlace'
  BY <1>2, <1>t DEF RemoteServe, LocalServe, LocalAnswer, TypeOK
<1>3. ASSUME NEW c \in Calls, Dealing(c) PROVE OnePlace'
  BY <1>3, <1>t DEF Dealing, takeoutCall, CompleteTaken, TypeOK
<1>4. CASE Checking \/ Tick \/ Dispose \/ UNCHANGED vars
  BY <1>4 DEF Checking, CheckBegin, CheckExpire, CheckEnd, Tick, Dispose, vars
<1> QED
  BY <1>1, <1>2, <1>3, <1>4 DEF Next

LEMMA PendingStep == IInv /\ OnePlace /\ PendingKept /\ [Next]_vars => PendingKept'
<1> SUFFICES ASSUME IInv, OnePlace, PendingKept, [Next]_vars PROVE PendingKept'
  OBVIOUS
<1> USE DEF PendingKept, timer, CallerGoTo, DealGoTo, Complete
<1>t. /\ TypeOK
      /\ \A c \in Calls : CallInv(c)
      /\ ~lock => dirty = {}
  BY DEF IInv, ScanInv
<1>1. ASSUME NEW c \in Calls, buildCall(c) PROVE PendingKept'
  BY <1>1, <1>t DEF buildCall, TypeOK
<1>2. ASSUME NEW c \in Calls, Calling(c) PROVE PendingKept'
  BY <1>2, <1>t DEF Calling, RequestFail, RequestSend, ReportFailure, InvokeReturn, TypeOK
<1>3. ASSUME NEW c \in Calls, RemoteServe(c) \/ LocalServe(c) \/ LocalAnswer(c)
      PROVE  PendingKept'
  BY <1>3, <1>t DEF RemoteServe, LocalServe, LocalAnswer, TypeOK, OnePlace
<1>4. ASSUME NEW c \in Calls, takeoutCall(c) PROVE PendingKept'
  BY <1>4, <1>t DEF takeoutCall, TypeOK
<1>5. ASSUME NEW c \in Calls, CompleteTaken(c) PROVE PendingKept'
  BY <1>5, <1>t DEF CompleteTaken, TypeOK
<1>6. ASSUME CheckBegin \/ Tick \/ Dispose PROVE PendingKept'
  BY <1>6 DEF CheckBegin, Tick, Dispose
<1>7. ASSUME NEW c \in Calls, CheckExpire(c) PROVE PendingKept'
  BY <1>7, <1>t DEF CheckExpire, TypeOK
<1>8. ASSUME CheckEnd PROVE PendingKept'
  BY <1>8 DEF CheckEnd
<1>9. CASE UNCHANGED vars
  BY <1>9 DEF vars
<1> QED
  BY <1>1, <1>2, <1>3, <1>4, <1>5, <1>6, <1>7, <1>8, <1>9 DEF Next, Dealing, Checking

\* No call is forgotten: until somebody has been told that it is over, its entry is in
\* p.callbacks, not among those checkTimeOut is about to delete, or takeoutCall's
\* goroutine has it, whatever answers come, however late, and whatever fails.
THEOREM PendingKeptCorrect == Spec => []PendingKept
<1>1. Init => OnePlace /\ PendingKept
  BY DEF Init, OnePlace, PendingKept
<1>2. IInv /\ OnePlace /\ PendingKept /\ [Next]_vars => OnePlace' /\ PendingKept'
  BY OnePlaceStep, PendingStep
<1> QED
  BY <1>1, <1>2, IInvCorrect, PTL DEF Spec
=============================================================================
