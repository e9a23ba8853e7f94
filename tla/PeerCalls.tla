----------------------------- MODULE PeerCalls -----------------------------
(***************************************************************************)
(* The callback table of one peer (peers/peer.go): Invoke and Call         *)
(* register a call and send a request; the response, the 7 s timeout loop  *)
(* and a failed request complete it.  The other side of a call is another  *)
(* node, or a peer of this node for a call to the own node id.             *)
(*                                                                         *)
(* Every section under p.lock is one step, except checkTimeOut, which runs *)
(* the callers' callbacks while it holds p.lock and the peers' _lock.      *)
(***************************************************************************)
EXTENDS Integers

CONSTANTS Calls,      \* the calls of the instance, each with its seq
          Sync,       \* calls made by Invoke; the others by Call
          Local,      \* calls to a peer of this node
          Failing,    \* calls whose request() may return an error
          Chained,    \* Call()s whose callback makes a call on the same peer
          Timeout,    \* _setup.Timeout
          Every       \* period of loopCheck (7 s in Boot)

ASSUME CallsAssumption ==
    /\ Sync \subseteq Calls /\ Local \subseteq Calls /\ Failing \subseteq Calls
    /\ Chained \subseteq Calls \ Sync
    /\ Timeout \in Nat \ {0} /\ Every \in Nat \ {0}

VARIABLES cpc,        \* the goroutine that makes the call
          table,      \* keys of p.callbacks
          left,       \* callFunc.TimeOut - now, not below 0
          net,        \* the exchange of the call that is under way
          hpc,        \* the goroutine that deals with that exchange
          done,       \* how often Done ran, or the call's channel was sent to
          closed,     \* the call's channel has been closed
          lock,       \* TRUE while checkTimeOut holds p.lock and _lock
          scan,       \* expired calls checkTimeOut has still to complete
          dirty,      \* dirtyList
          stuck,      \* a callback waits for the lock its own goroutine holds
          wake,       \* time since the last loopCheck
          disposing

vars == <<cpc, table, left, net, hpc, done, closed, lock, scan, dirty, stuck,
          wake, disposing>>
timer == <<lock, scan, dirty, stuck, wake>>

CallerPcs == {"idle", "built", "failed", "sent", "returned", "aborted"}
NetStates == {"none", "request", "response"}
DealPcs == {"none", "bound", "own", "taken"}

TypeOK ==
    /\ cpc \in [Calls -> CallerPcs]
    /\ table \subseteq Calls
    /\ left \in [Calls -> 0 .. Timeout]
    /\ net \in [Calls -> NetStates]
    /\ hpc \in [Calls -> DealPcs]
    /\ done \in [Calls -> 0 .. 2]
    /\ closed \in [Calls -> BOOLEAN]
    /\ lock \in BOOLEAN /\ stuck \in BOOLEAN /\ disposing \in BOOLEAN
    /\ scan \subseteq Calls /\ dirty \subseteq Calls
    /\ wake \in 0 .. Every

Init ==
    /\ cpc = [c \in Calls |-> "idle"]
    /\ table = {}
    /\ left = [c \in Calls |-> 0]
    /\ net = [c \in Calls |-> "none"]
    /\ hpc = [c \in Calls |-> "none"]
    /\ done = [c \in Calls |-> 0]
    /\ closed = [c \in Calls |-> FALSE]
    /\ lock = FALSE /\ stuck = FALSE /\ disposing = FALSE
    /\ scan = {} /\ dirty = {}
    /\ wake = 0

CallerGoTo(c, p) == cpc' = [cpc EXCEPT ![c] = p]
DealGoTo(c, p) == hpc' = [hpc EXCEPT ![c] = p]
Complete(c) == done' = [done EXCEPT ![c] = @ + 1]
-----------------------------------------------------------------------------
(* request, Invoke and Call.                                               *)

buildCall(c) ==
    /\ cpc[c] = "idle" /\ ~lock
    /\ table' = table \cup {c}
    /\ left' = [left EXCEPT ![c] = Timeout]
    /\ CallerGoTo(c, "built")
    /\ UNCHANGED <<net, hpc, done, closed, timer, disposing>>

\* Bad method name, marshalling error or failed Send: the entry of p.callbacks
\* stays behind.
RequestFail(c) ==
    /\ cpc[c] = "built" /\ c \in Failing
    /\ CallerGoTo(c, "failed")
    /\ UNCHANGED <<table, left, net, hpc, done, closed, timer, disposing>>

RequestSend(c) ==
    /\ cpc[c] = "built"
    /\ net' = [net EXCEPT ![c] = "request"]
    /\ CallerGoTo(c, "sent")
    /\ UNCHANGED <<table, left, hpc, done, closed, timer, disposing>>

\* Call hands the error to done; Invoke returns it and drops the channel.
ReportFailure(c) ==
    /\ cpc[c] = "failed"
    /\ IF c \in Sync THEN UNCHANGED done ELSE Complete(c)
    /\ CallerGoTo(c, "aborted")
    /\ UNCHANGED <<table, left, net, hpc, closed, timer, disposing>>

\* The end of Invoke: receive from the channel and close it.
InvokeReturn(c) ==
    /\ cpc[c] = "sent" /\ c \in Sync /\ done[c] > 0
    /\ closed' = [closed EXCEPT ![c] = TRUE]
    /\ CallerGoTo(c, "returned")
    /\ UNCHANGED <<table, left, net, hpc, done, timer, disposing>>
-----------------------------------------------------------------------------
(* dealExchange.                                                           *)

\* Another node answers, or never does (its handler panicked, the answer
\* could not be sent, the connection is gone).
RemoteServe(c) ==
    /\ c \notin Local /\ net[c] = "request"
    /\ \E answer \in {"response", "none"} : net' = [net EXCEPT ![c] = answer]
    /\ UNCHANGED <<cpc, table, left, hpc, done, closed, timer, disposing>>

\* A local handler works on the caller's own reply object while the call is in
\* the table, else on a bean of its own; a disposed peer drops the request.
LocalServe(c) ==
    /\ c \in Local /\ net[c] = "request" /\ ~lock
    /\ net' = [net EXCEPT ![c] = "none"]
    /\ DealGoTo(c, IF disposing THEN "none"
                   ELSE IF c \in table THEN "bound" ELSE "own")
    /\ UNCHANGED <<cpc, table, left, done, closed, timer, disposing>>

LocalAnswer(c) ==
    /\ hpc[c] \in {"bound", "own"}
    /\ DealGoTo(c, "none")
    /\ \E answer \in {"response", "none"} : net' = [net EXCEPT ![c] = answer]
    /\ UNCHANGED <<cpc, table, left, done, closed, timer, disposing>>

\* Mutant: the response path looks the call up without taking it out.
takeoutCall_get(c) ==
    /\ net[c] = "response" /\ ~lock
    /\ net' = [net EXCEPT ![c] = "none"]
    /\ IF c \in table /\ ~disposing THEN DealGoTo(c, "taken") ELSE UNCHANGED hpc
    /\ UNCHANGED <<cpc, table, left, done, closed, timer, disposing>>

\* A response: getpeer and takeoutCall.
takeoutCall(c) ==
    /\ net[c] = "response" /\ ~lock
    /\ net' = [net EXCEPT ![c] = "none"]
    /\ IF c \in table /\ ~disposing
         THEN table' = table \ {c} /\ DealGoTo(c, "taken")
         ELSE UNCHANGED <<table, hpc>>
    /\ UNCHANGED <<cpc, left, done, closed, timer, disposing>>

\* FetchArgs has filled call.Reply: Done, or the send on the channel.
CompleteTaken(c) ==
    /\ hpc[c] = "taken"
    /\ Complete(c) /\ DealGoTo(c, "none")
    /\ UNCHANGED <<cpc, table, left, net, closed, timer, disposing>>
-----------------------------------------------------------------------------
(* loopCheck and checkTimeOut.                                             *)

\* Time passes while loopCheck sleeps.
Tick ==
    /\ ~lock /\ wake < Every
    /\ wake' = wake + 1
    /\ left' = [c \in Calls |-> IF left[c] > 0 THEN left[c] - 1 ELSE 0]
    /\ UNCHANGED <<cpc, table, net, hpc, done, closed, lock, scan, dirty, stuck,
                   disposing>>

\* The comparison of the code: call.TimeOut > now.
CheckBegin ==
    /\ wake = Every /\ ~lock
    /\ IF disposing THEN wake' = 0 /\ UNCHANGED <<lock, scan>>
       ELSE lock' = TRUE /\ scan' = {c \in table : left[c] > 0} /\ UNCHANGED wake
    /\ UNCHANGED <<cpc, table, left, net, hpc, done, closed, dirty, stuck, disposing>>

\* Mutant: only calls with a Done callback are told.
CheckExpire_doneOnly(c) ==
    /\ lock /\ ~stuck /\ c \in scan
    /\ scan' = scan \ {c} /\ dirty' = dirty \cup {c}
    /\ IF c \in Sync THEN UNCHANGED done ELSE Complete(c)
    /\ stuck' = (c \in Chained)
    /\ UNCHANGED <<cpc, table, left, net, hpc, closed, lock, wake, disposing>>

\* Completes one call.  The next call its callback makes needs p.lock, and the
\* goroutine that holds it is the one that runs the callback.
CheckExpire(c) ==
    /\ lock /\ ~stuck /\ c \in scan
    /\ scan' = scan \ {c} /\ dirty' = dirty \cup {c}
    /\ Complete(c)
    /\ stuck' = (c \in Chained)
    /\ UNCHANGED <<cpc, table, left, net, hpc, closed, lock, wake, disposing>>

\* Mutant: the completed calls are not deleted.
CheckEnd_keep ==
    /\ lock /\ ~stuck /\ scan = {}
    /\ dirty' = {}
    /\ lock' = FALSE /\ wake' = 0
    /\ UNCHANGED <<cpc, table, left, net, hpc, done, closed, scan, stuck, disposing>>

CheckEnd ==
    /\ lock /\ ~stuck /\ scan = {}
    /\ table' = table \ dirty /\ dirty' = {}
    /\ lock' = FALSE /\ wake' = 0
    /\ UNCHANGED <<cpc, left, net, hpc, done, closed, scan, stuck, disposing>>

Dispose ==
    /\ ~lock /\ ~disposing
    /\ disposing' = TRUE
    /\ UNCHANGED <<cpc, table, left, net, hpc, done, closed, timer>>
-----------------------------------------------------------------------------
Calling(c) == \/ RequestFail(c) \/ RequestSend(c) \/ ReportFailure(c)
              \/ InvokeReturn(c)
Dealing(c) == takeoutCall(c) \/ CompleteTaken(c)
Checking == CheckBegin \/ CheckEnd \/ \E c \in Calls : CheckExpire(c)

Next == \/ \E c \in Calls : \/ buildCall(c) \/ Calling(c) \/ Dealing(c)
                            \/ RemoteServe(c) \/ LocalServe(c) \/ LocalAnswer(c)
        \/ Checking \/ Tick \/ Dispose

Spec == Init /\ [][Next]_vars

\* Goroutines that can run do, and time passes; nothing makes another node or
\* a handler answer.
FairSpec == /\ Spec
            /\ \A c \in Calls : WF_vars(Calling(c)) /\ WF_vars(Dealing(c))
            /\ WF_vars(Checking) /\ WF_vars(Tick)
-----------------------------------------------------------------------------
(* Properties.                                                             *)

\* A call is completed at most once, whichever of the response and the timeout
\* loop comes first; a Call whose request failed may be told a second time,
\* because its entry stays in the table.
CompletedOnce ==
    \A c \in Calls :
        done[c] <= IF cpc[c] = "aborted" /\ c \notin Sync THEN 2 ELSE 1

\* Nobody is about to send on the channel Invoke has closed.
NoSendOnClosed ==
    \A c \in Calls : closed[c] => hpc[c] # "taken" /\ c \notin scan

\* The reply object of a call to another node is not written any more once the
\* caller has been told that the call is over.
ReplyStable ==
    \A c \in Calls \ Local : hpc[c] = "taken" => done[c] = 0 /\ cpc[c] = "sent"

\* Every request that was sent is answered or times out, unless the peer is
\* disposed of or a callback has blocked the timeout loop for good.
SentCompletes ==
    \A c \in Calls :
        cpc[c] = "sent" ~> done[c] > 0 \/ disposing \/ stuck

\* The timeout loop reports only calls whose time is over ("the request timed
\* out", peer.go:226).
OnlyExpiredTimeOut == \A c \in scan : left[c] = 0
=============================================================================
