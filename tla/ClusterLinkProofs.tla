-------------------------- MODULE ClusterLinkProofs --------------------------
(***************************************************************************)
(* Cluster implements ClusterLink: what happens to each connection of the  *)
(* cluster is a behaviour of the abstract one, for any set of nodes, names *)
(* and slots and any bound on faults.                                      *)
(***************************************************************************)
EXTENDS ClusterProofs

-----------------------------------------------------------------------------
(* The inductive invariant.                                                *)

\* A process that does not run has no connections and does not listen.
DownIsClosed ==
    /\ \A s \in Socks : /\ phase[From[s]] = "down" => dial[s] = "closed"
                        /\ phase[To[s]] = "down" => acc[s] = "closed"
    /\ \A n \in Node : listening[n] => phase[n] # "down"

LInv == AInv /\ DownIsClosed

LEMMA SockEnds ==
    ASSUME NEW s \in Socks
    PROVE  From[s] \in Node /\ To[s] \in Node /\ From[s] # To[s]
  BY ClusterAssumption

LEMMA LInvInit == Init => LInv
<1> SUFFICES ASSUME Init PROVE LInv
  OBVIOUS
<1>1. AInv
  BY IInvInit DEF Init, AInv, AnswersVetted, LinksAnswered, Registered
<1>2. DownIsClosed
  BY DEF Init, DownIsClosed
<1> QED BY <1>1, <1>2 DEF LInv

\* A step of one slot whose processes run.
LEMMA SlotClosed ==
    ASSUME DownIsClosed, NEW s \in Socks, UNCHANGED <<phase, listening>>,
           \A t \in Socks \ {s} : dial'[t] = dial[t] /\ acc'[t] = acc[t],
           dial'[s] = dial[s] \/ phase[From[s]] # "down",
           acc'[s] = acc[s] \/ phase[To[s]] # "down" \/ acc'[s] = "closed"
    PROVE  DownIsClosed'
  BY DEF DownIsClosed

LEMMA LInvStep == LInv /\ [Next]_vars => LInv'
<1> SUFFICES ASSUME LInv, [Next]_vars PROVE DownIsClosed'
  BY AInvStep DEF LInv
<1> USE DEF LInv, reg, node, scanning, sockets, ScanGoTo, ScanOn, Accepting
<1>t. /\ dial \in [Socks -> DialStates] /\ acc \in [Socks -> AccStates]
      /\ phase \in [Node -> {"down", "boot", "run"}]
      /\ listening \in [Node -> BOOLEAN]
  BY DEF AInv, IInv, TypeOK
<1>d. ASSUME NEW s \in Socks
      PROVE  /\ dial[s] # "closed" => phase[From[s]] # "down"
             /\ acc[s] # "closed" => phase[To[s]] # "down"
  BY DEF DownIsClosed
<1>1. ASSUME NEW n \in Node, Serve(n) PROVE DownIsClosed'
  BY <1>1, <1>t, ClusterAssumption DEF Serve, DownIsClosed
<1>2. ASSUME NEW n \in Node, Listen(n) PROVE DownIsClosed'
  BY <1>2, <1>t DEF Listen, DownIsClosed
<1>3. ASSUME NEW n \in Node, ClusterServe(n) PROVE DownIsClosed'
  BY <1>3, <1>t, ClusterAssumption DEF ClusterServe, DownIsClosed
<1>4. ASSUME NEW n \in Node, Stop(n) PROVE DownIsClosed'
  BY <1>4, <1>t, ClusterAssumption DEF Stop, DownIsClosed
<1>5. ASSUME NEW n \in Node, nodeScanning(n) \/ onScanning(n) PROVE DownIsClosed'
  BY <1>5 DEF nodeScanning, onScanning, DownIsClosed
<1>6. ASSUME NEW n \in Node, Connect(n) PROVE DownIsClosed'
  <2>1. CASE UNCHANGED sockets
    BY <1>6, <2>1 DEF Connect, DownIsClosed
  <2>2. CASE ~UNCHANGED sockets
    <3> PICK s : s = CHOOSE t \in FreeSocks(n, target[n]) : TRUE
      OBVIOUS
    <3>1. /\ FreeSocks(n, target[n]) # {} /\ listening[target[n]] /\ scan[n] # "off"
          /\ dial' = [dial EXCEPT ![s] = IF AcceptedFrom(n, target[n])
                                           THEN "hs_alias" ELSE "hs"]
          /\ acc' = [acc EXCEPT ![s] = "check"]
          /\ UNCHANGED <<phase, listening>>
      BY <1>6, <2>2 DEF Connect
    <3>2. s \in Socks /\ From[s] = n /\ To[s] = target[n]
      BY <3>1 DEF FreeSocks
    <3>3. phase[From[s]] # "down" /\ phase[To[s]] # "down"
      BY <3>1, <3>2, SockEnds DEF AInv, IInv, ScansRegistered, DownIsClosed
    <3> QED BY <1>t, <3>1, <3>2, <3>3, SlotClosed
  <2> QED BY <2>1, <2>2
<1>7. ASSUME NEW s \in Socks,
             \/ HandShakeOk(s) \/ HandShakeFail(s) \/ HandShakeTimeout(s)
             \/ Finalize(s) \/ DialEof(s)
      PROVE  DownIsClosed'
  <2>1. /\ dial[s] # "closed" /\ acc' = acc /\ UNCHANGED <<phase, listening>>
        /\ \A t \in Socks \ {s} : dial'[t] = dial[t]
    BY <1>7, <1>t DEF HandShakeOk, HandShakeFail, HandShakeTimeout, Finalize,
                      DialEof, EndDial, Waiting, Registered
  <2> QED BY <2>1, <1>d, SlotClosed
<1>8. ASSUME NEW s \in Socks, AcceptStep(s) \/ CheckFails(s) PROVE DownIsClosed'
  <2>1. /\ acc[s] # "closed" /\ dial' = dial /\ UNCHANGED <<phase, listening>>
        /\ \A t \in Socks \ {s} : acc'[t] = acc[t]
    BY <1>8, <1>t DEF AcceptStep, CheckNodeSig, VetAndAnswer, AnswerFails,
                      AcceptAdd, AcceptEof, CheckFails, Registered
  <2> QED BY <2>1, <1>d, SlotClosed
<1>9. ASSUME NEW e \in entries, Expire(e) \/ Unregister(e) PROVE DownIsClosed'
  BY <1>9 DEF Expire, Unregister, DownIsClosed
<1>10. CASE UNCHANGED vars
  BY <1>10 DEF vars, DownIsClosed
<1> QED
  BY <1>1, <1>2, <1>3, <1>4, <1>5, <1>6, <1>7, <1>8, <1>9, <1>10
  DEF Next, ScanStep, DialStep
-----------------------------------------------------------------------------
(* The refinement.                                                         *)

LEMMA LinkInit == Init => \A s \in Socks : Link(s)!Init
<1> SUFFICES ASSUME Init, NEW s \in Socks PROVE Link(s)!Init
  OBVIOUS
<1>1. /\ dial[s] = "closed" /\ acc[s] = "closed" /\ hsuc[s] = FALSE
      /\ phase[From[s]] = "down" /\ phase[To[s]] = "down"
  BY SockEnds DEF Init
<1>2. DiallerOf(s) = "none" /\ AcceptorOf(s) = "none"
  BY <1>1 DEF DiallerOf, AcceptorOf, Waiting, Registered
<1> QED BY <1>1, <1>2 DEF Link!Init

\* What the step of one slot may do to it, in terms of the abstract connection.
SlotNext(s) == [Link(s)!Next]_(Link(s)!vars)

\* Two processes and a slot none of which a step touches.
LEMMA SlotUntouched ==
    ASSUME NEW s \in Socks,
           dial'[s] = dial[s], acc'[s] = acc[s], hsuc'[s] = hsuc[s],
           (phase[From[s]] # "down")' = (phase[From[s]] # "down"),
           (phase[To[s]] # "down")' = (phase[To[s]] # "down")
    PROVE  SlotNext(s)
<1>1. DiallerOf(s)' = DiallerOf(s) /\ AcceptorOf(s)' = AcceptorOf(s)
  BY DEF DiallerOf, AcceptorOf, Waiting
<1> QED BY <1>1 DEF SlotNext, Link!vars

\* A step of one slot only.
LEMMA OneSlot ==
    ASSUME NEW s \in Socks, SlotNext(s), UNCHANGED phase,
           \A t \in Socks \ {s} : dial'[t] = dial[t] /\ acc'[t] = acc[t] /\ hsuc'[t] = hsuc[t]
    PROVE  \A t \in Socks : SlotNext(t)
  BY SlotUntouched

\* A step of the tables, the registry or the scan alone.
LEMMA NoSlot ==
    ASSUME UNCHANGED <<phase, sockets>>
    PROVE  \A t \in Socks : SlotNext(t)
  BY SlotUntouched DEF sockets

\* The slot's view of a step that changes one of its ends.
LEMMA DiallerSteps ==
    ASSUME LInv, NEW s \in Socks, acc' = acc, UNCHANGED phase,
           \/ HandShakeOk(s) \/ HandShakeFail(s) \/ HandShakeTimeout(s)
           \/ Finalize(s) \/ DialEof(s)
    PROVE  SlotNext(s)
<1>t. /\ dial \in [Socks -> DialStates] /\ hsuc \in [Socks -> BOOLEAN]
      /\ AcceptorOf(s)' = AcceptorOf(s)
  BY DEF LInv, AInv, IInv, TypeOK, AcceptorOf
<1>1. CASE HandShakeOk(s)
  <2>1. /\ Waiting(s) /\ hsuc[s] /\ hsuc'[s] = FALSE
        /\ dial'[s] \in {"link", "alias", "closed"}
    BY <1>1, <1>t DEF HandShakeOk, EndDial
  <2>2. DiallerOf(s) = "asks" /\ DiallerOf(s)' \in {"linked", "none"}
    BY <2>1 DEF DiallerOf, Waiting, Registered
  <2> QED BY <1>t, <2>1, <2>2
          DEF SlotNext, Link!Next, Link!RegisterDialler, Link!GiveUp, Link!processes
<1>2. CASE HandShakeFail(s) \/ HandShakeTimeout(s)
  <2>1. Waiting(s) /\ hsuc'[s] = FALSE /\ dial'[s] = "leaked"
    BY <1>2, <1>t DEF HandShakeFail, HandShakeTimeout, EndDial
  <2>2. DiallerOf(s) = "asks" /\ DiallerOf(s)' = "lost"
    BY <2>1 DEF DiallerOf, Waiting, Registered
  <2> QED BY <1>t, <2>1, <2>2 DEF SlotNext, Link!Next, Link!GiveUp, Link!processes
<1>3. CASE Finalize(s)
  <2>1. dial[s] = "leaked" /\ dial'[s] = "closed" /\ hsuc' = hsuc
    BY <1>3, <1>t DEF Finalize, sockets
  <2>2. DiallerOf(s) = "lost" /\ DiallerOf(s)' = "none"
    BY <2>1 DEF DiallerOf, Waiting, Registered
  <2> QED BY <1>t, <2>1, <2>2 DEF SlotNext, Link!Next, Link!Collect, Link!processes
<1>4. CASE DialEof(s)
  <2>1. /\ dial[s] \in Registered /\ dial'[s] = "closed" /\ hsuc' = hsuc
        /\ acc[s] = "closed"
    BY <1>4, <1>t DEF DialEof, sockets
  <2>2. DiallerOf(s) = "linked" /\ DiallerOf(s)' = "none" /\ AcceptorOf(s) = "none"
    BY <2>1 DEF DiallerOf, AcceptorOf, Waiting, Registered
  <2> QED BY <1>t, <2>1, <2>2
          DEF SlotNext, Link!Next, Link!DiallerReadsEnd, Link!processes
<1> QED BY <1>1, <1>2, <1>3, <1>4

LEMMA AcceptorSteps ==
    ASSUME LInv, NEW s \in Socks, dial' = dial, UNCHANGED phase,
           AcceptStep(s) \/ CheckFails(s)
    PROVE  SlotNext(s)
<1>t. /\ acc \in [Socks -> AccStates] /\ hsuc \in [Socks -> BOOLEAN]
      /\ DiallerOf(s)' = DiallerOf(s)
  BY DEF LInv, AInv, IInv, TypeOK, DiallerOf, Waiting
<1>w. (DiallerOf(s) = "asks") = Waiting(s)
  BY DEF DiallerOf, Waiting, Registered
<1>b. Waiting(s) \in BOOLEAN
  BY DEF Waiting
\* The acceptor refuses, or admits.
<1>r. ASSUME acc[s] \in {"check", "vet", "add", "add_guest"}, hsuc'[s] = hsuc[s],
             acc'[s] \in {"closed", "hung"}
      PROVE  SlotNext(s)
  <2>1. AcceptorOf(s) \in {"asked", "admits"} /\ AcceptorOf(s)' = "none"
    BY <1>r DEF AcceptorOf, Registered
  <2> QED BY <1>t, <1>r, <2>1 DEF SlotNext, Link!Next, Link!Refuse, Link!processes
<1>a. ASSUME acc[s] \in {"check", "vet"}, acc'[s] \in {"add", "add_guest"},
             hsuc'[s] = Waiting(s)
      PROVE  SlotNext(s)
  <2>1. AcceptorOf(s) = "asked" /\ AcceptorOf(s)' = "admits"
    BY <1>a DEF AcceptorOf, Registered
  <2> QED BY <1>t, <1>a, <1>w, <2>1 DEF SlotNext, Link!Next, Link!Admit, Link!processes
<1>u. ASSUME acc[s] \in {"check", "vet"} PROVE hsuc[s] = FALSE
  BY <1>t, <1>u DEF LInv, AInv, AnswersVetted, Unvetted
<1>1. CASE CheckNodeSig(s)
  <2>1. /\ acc[s] = "check" /\ acc'[s] \in {"closed", "vet", "add_guest"}
        /\ hsuc'[s] = (acc'[s] = "add_guest" /\ Waiting(s))
    BY <1>1, <1>t DEF CheckNodeSig, Accepting
  <2>2. CASE acc'[s] = "vet"
    <3>1. AcceptorOf(s) = "asked" /\ AcceptorOf(s)' = "asked" /\ hsuc'[s] = hsuc[s]
      BY <1>u, <2>1, <2>2 DEF AcceptorOf
    <3> QED BY <1>t, <3>1 DEF SlotNext, Link!vars
  <2>3. CASE acc'[s] = "add_guest"
    <3>1. hsuc'[s] = Waiting(s)
      BY <1>b, <2>1, <2>3
    <3> QED BY <1>a, <2>1, <2>3, <3>1
  <2>4. CASE acc'[s] = "closed"
    <3>1. hsuc'[s] = hsuc[s]
      BY <1>u, <2>1, <2>4
    <3> QED BY <1>r, <2>1, <2>4, <3>1
  <2> QED BY <2>1, <2>2, <2>3, <2>4
<1>2. CASE VetAndAnswer(s)
  <2>1. /\ acc[s] = "vet" /\ acc'[s] \in {"closed", "add"}
        /\ hsuc'[s] = (acc'[s] = "add" /\ Waiting(s))
    BY <1>2, <1>t DEF VetAndAnswer, Accepting
  <2>2. CASE acc'[s] = "add"
    <3>1. hsuc'[s] = Waiting(s)
      BY <1>b, <2>1, <2>2
    <3> QED BY <1>a, <2>1, <2>2, <3>1
  <2>3. CASE acc'[s] = "closed"
    <3>1. hsuc'[s] = hsuc[s]
      BY <1>u, <2>1, <2>3
    <3> QED BY <1>r, <2>1, <2>3, <3>1
  <2> QED BY <2>1, <2>2, <2>3
<1>3. CASE AnswerFails(s) \/ CheckFails(s)
  BY <1>3, <1>r, <1>t DEF AnswerFails, CheckFails, Accepting, sockets
<1>4. CASE AcceptAdd(s)
  <2>1. /\ acc[s] \in {"add", "add_guest"} /\ hsuc' = hsuc
        /\ acc'[s] \in {"closed", "link", "guest"}
    BY <1>4, <1>t DEF AcceptAdd, Accepting
  <2>2. CASE acc'[s] # "closed"
    <3>1. AcceptorOf(s) = "admits" /\ AcceptorOf(s)' = "linked"
      BY <2>1, <2>2 DEF AcceptorOf, Registered
    <3> QED BY <1>t, <2>1, <3>1
            DEF SlotNext, Link!Next, Link!RegisterAcceptor, Link!processes
  <2> QED BY <1>r, <2>1, <2>2
<1>5. CASE AcceptEof(s)
  <2>1. /\ acc[s] \in Registered /\ acc'[s] = "closed" /\ hsuc' = hsuc
        /\ dial[s] = "closed"
    BY <1>5, <1>t DEF AcceptEof, Accepting
  <2>2. AcceptorOf(s) = "linked" /\ AcceptorOf(s)' = "none" /\ DiallerOf(s) = "none"
    BY <2>1 DEF DiallerOf, AcceptorOf, Waiting, Registered
  <2> QED BY <1>t, <2>1, <2>2
          DEF SlotNext, Link!Next, Link!AcceptorReadsEnd, Link!processes
<1> QED BY <1>1, <1>2, <1>3, <1>4, <1>5 DEF AcceptStep

\* A dial from a to b.
LEMMA ConnectStep ==
    ASSUME LInv, NEW n \in Node, Connect(n)
    PROVE  \A t \in Socks : SlotNext(t)
<1>0. phase' = phase
  BY DEF Connect, node
<1>1. CASE UNCHANGED sockets
  BY <1>0, <1>1, NoSlot
<1>2. CASE ~UNCHANGED sockets
  <2> PICK s : s = CHOOSE t \in FreeSocks(n, target[n]) : TRUE
    OBVIOUS
  <2>1. /\ FreeSocks(n, target[n]) # {} /\ listening[target[n]] /\ scan[n] # "off"
        /\ dial' = [dial EXCEPT ![s] = IF AcceptedFrom(n, target[n])
                                         THEN "hs_alias" ELSE "hs"]
        /\ acc' = [acc EXCEPT ![s] = "check"]
        /\ hsuc' = hsuc
    BY <1>2 DEF Connect, sockets, ScanGoTo, ScanOn
  <2>2. /\ s \in Socks /\ From[s] = n /\ To[s] = target[n]
        /\ dial[s] = "closed" /\ acc[s] \in {"closed", "hung"}
    BY <2>1 DEF FreeSocks
  <2>3. phase[From[s]] # "down" /\ phase[To[s]] # "down"
    BY <2>1, <2>2, SockEnds DEF LInv, AInv, IInv, ScansRegistered, DownIsClosed
  <2>4. dial'[s] \in {"hs", "hs_alias"} /\ acc'[s] = "check"
    BY <2>1, <2>2 DEF LInv, AInv, IInv, TypeOK
  <2>5. /\ DiallerOf(s) = "none" /\ AcceptorOf(s) = "none"
        /\ DiallerOf(s)' = "asks" /\ AcceptorOf(s)' = "asked"
    BY <2>2, <2>4 DEF DiallerOf, AcceptorOf, Waiting, Registered
  <2>6. SlotNext(s)
    BY <1>0, <2>1, <2>3, <2>5 DEF SlotNext, Link!Next, Link!Ask, Link!processes
  <2>7. \A t \in Socks \ {s} : dial'[t] = dial[t] /\ acc'[t] = acc[t] /\ hsuc'[t] = hsuc[t]
    BY <2>1 DEF LInv, AInv, IInv, TypeOK
  <2> QED BY <1>0, <2>2, <2>6, <2>7, OneSlot
<1> QED BY <1>1, <1>2

\* A node starts or stops.
LEMMA ServeStep ==
    ASSUME LInv, NEW n \in Node, Serve(n)
    PROVE  \A t \in Socks : SlotNext(t)
<1> SUFFICES ASSUME NEW s \in Socks PROVE SlotNext(s)
  OBVIOUS
<1>1. /\ phase[n] = "down" /\ phase'[n] = "boot" /\ UNCHANGED sockets
      /\ \A m \in Node \ {n} : phase'[m] = phase[m]
  BY DEF Serve, LInv, AInv, IInv, TypeOK
<1>2. dial' = dial /\ acc' = acc /\ hsuc' = hsuc
  BY <1>1 DEF sockets
<1>3. DiallerOf(s)' = DiallerOf(s) /\ AcceptorOf(s)' = AcceptorOf(s)
  BY <1>2 DEF DiallerOf, AcceptorOf, Waiting
<1>4. CASE From[s] = n
  <2>1. phase'[To[s]] = phase[To[s]] /\ DiallerOf(s) = "none"
    BY <1>1, <1>4, SockEnds DEF LInv, DownIsClosed, DiallerOf, Waiting, Registered
  <2> QED BY <1>1, <1>2, <1>3, <1>4, <2>1 DEF SlotNext, Link!Next, Link!StartDialler
<1>5. CASE To[s] = n
  <2>1. phase'[From[s]] = phase[From[s]] /\ AcceptorOf(s) = "none"
    BY <1>1, <1>5, SockEnds DEF LInv, DownIsClosed, AcceptorOf, Registered
  <2> QED BY <1>1, <1>2, <1>3, <1>5, <2>1 DEF SlotNext, Link!Next, Link!StartAcceptor
<1>6. CASE From[s] # n /\ To[s] # n
  BY <1>1, <1>2, <1>6, SockEnds, SlotUntouched
<1> QED BY <1>4, <1>5, <1>6

LEMMA StopStep ==
    ASSUME LInv, NEW n \in Node, Stop(n)
    PROVE  \A t \in Socks : SlotNext(t)
<1> SUFFICES ASSUME NEW s \in Socks PROVE SlotNext(s)
  OBVIOUS
<1>1. /\ phase[n] # "down" /\ phase'[n] = "down"
      /\ \A m \in Node \ {n} : phase'[m] = phase[m]
  BY DEF Stop, LInv, AInv, IInv, TypeOK
<1>2. /\ dial'[s] = (IF From[s] = n THEN "closed" ELSE dial[s])
      /\ acc'[s] = (IF To[s] = n THEN "closed" ELSE acc[s])
      /\ hsuc'[s] = (hsuc[s] /\ From[s] # n) /\ hsuc[s] \in BOOLEAN
  BY DEF Stop, LInv, AInv, IInv, TypeOK
<1>3. CASE From[s] = n
  <2>1. /\ dial'[s] = "closed" /\ acc'[s] = acc[s] /\ hsuc'[s] = FALSE
        /\ phase'[To[s]] = phase[To[s]]
    BY <1>1, <1>2, <1>3, SockEnds
  <2>2. DiallerOf(s)' = "none" /\ AcceptorOf(s)' = AcceptorOf(s)
    BY <2>1 DEF DiallerOf, AcceptorOf, Waiting, Registered
  <2> QED BY <1>1, <1>3, <2>1, <2>2 DEF SlotNext, Link!Next, Link!StopDialler
<1>4. CASE To[s] = n
  <2>1. /\ dial'[s] = dial[s] /\ acc'[s] = "closed"
        /\ phase'[From[s]] = phase[From[s]]
    BY <1>1, <1>2, <1>4, SockEnds
  <2>2. hsuc'[s] = hsuc[s]
    BY <1>2, <1>4, SockEnds
  <2>3. DiallerOf(s)' = DiallerOf(s) /\ AcceptorOf(s)' = "none"
    BY <2>1 DEF DiallerOf, AcceptorOf, Waiting, Registered
  <2> QED BY <1>1, <1>4, <2>1, <2>2, <2>3 DEF SlotNext, Link!Next, Link!StopAcceptor
<1>5. CASE From[s] # n /\ To[s] # n
  <2>1. hsuc'[s] = hsuc[s]
    BY <1>2, <1>5
  <2> QED BY <1>1, <1>2, <1>5, <2>1, SockEnds, SlotUntouched
<1> QED BY <1>3, <1>4, <1>5

\* Every step of the cluster is, for each slot, a step of the abstract
\* connection or none.
LEMMA LinkStep == LInv /\ [Next]_vars => \A s \in Socks : SlotNext(s)
<1> SUFFICES ASSUME LInv, [Next]_vars PROVE \A s \in Socks : SlotNext(s)
  OBVIOUS
<1>t. /\ dial \in [Socks -> DialStates] /\ acc \in [Socks -> AccStates]
      /\ hsuc \in [Socks -> BOOLEAN] /\ phase \in [Node -> {"down", "boot", "run"}]
  BY DEF LInv, AInv, IInv, TypeOK
<1>1. ASSUME NEW n \in Node, Serve(n) \/ Stop(n) PROVE \A s \in Socks : SlotNext(s)
  BY <1>1, ServeStep, StopStep
<1>2. ASSUME NEW n \in Node, ClusterServe(n) PROVE \A s \in Socks : SlotNext(s)
  <2>1. UNCHANGED sockets /\ \A m \in Node : (phase[m] # "down")' = (phase[m] # "down")
    BY <1>2, <1>t DEF ClusterServe
  <2>2. dial' = dial /\ acc' = acc /\ hsuc' = hsuc
    BY <2>1 DEF sockets
  <2> QED BY <2>1, <2>2, SockEnds, SlotUntouched
<1>3. ASSUME NEW n \in Node, Listen(n) \/ nodeScanning(n) \/ onScanning(n)
      PROVE  \A s \in Socks : SlotNext(s)
  BY <1>3, NoSlot DEF Listen, nodeScanning, onScanning, node
<1>4. ASSUME NEW n \in Node, Connect(n) PROVE \A s \in Socks : SlotNext(s)
  BY <1>4, ConnectStep
<1>5. ASSUME NEW s \in Socks,
             \/ HandShakeOk(s) \/ HandShakeFail(s) \/ HandShakeTimeout(s)
             \/ Finalize(s) \/ DialEof(s)
      PROVE  \A t \in Socks : SlotNext(t)
  <2>1. /\ acc' = acc /\ UNCHANGED phase
        /\ \A t \in Socks \ {s} : dial'[t] = dial[t] /\ hsuc'[t] = hsuc[t]
    BY <1>5, <1>t DEF HandShakeOk, HandShakeFail, HandShakeTimeout, Finalize,
                      DialEof, EndDial, node
  <2>2. SlotNext(s)
    BY <1>5, <2>1, DiallerSteps
  <2> QED BY <2>1, <2>2, OneSlot
<1>6. ASSUME NEW s \in Socks, AcceptStep(s) \/ CheckFails(s)
      PROVE  \A t \in Socks : SlotNext(t)
  <2>1. /\ dial' = dial /\ UNCHANGED phase
        /\ \A t \in Socks \ {s} : acc'[t] = acc[t] /\ hsuc'[t] = hsuc[t]
    BY <1>6, <1>t DEF AcceptStep, CheckNodeSig, VetAndAnswer, AnswerFails,
                      AcceptAdd, AcceptEof, CheckFails, Accepting, node
  <2>2. SlotNext(s)
    BY <1>6, <2>1, AcceptorSteps
  <2> QED BY <2>1, <2>2, OneSlot
<1>7. ASSUME NEW e \in entries, Expire(e) \/ Unregister(e)
      PROVE  \A s \in Socks : SlotNext(s)
  BY <1>7, NoSlot DEF Expire, Unregister, node
<1>8. CASE UNCHANGED vars
  BY <1>8, NoSlot DEF vars, sockets
<1> QED
  BY <1>1, <1>2, <1>3, <1>4, <1>5, <1>6, <1>7, <1>8 DEF Next, ScanStep, DialStep

\* A process that is down has no connection and does not listen, in every
\* reachable state; with it AInv.
LEMMA LInvAlways == Spec => []LInv
  BY LInvInit, LInvStep, PTL DEF Spec

\* Every connection of a cluster behaves as ClusterLink says, its answer and its
\* registrations included: the nodes' crashes and time-outs, the registries'
\* answers and the other connections do to it nothing but what ClusterLink
\* allows.
THEOREM ImplementsClusterLink ==
    ASSUME NEW s \in Socks PROVE Spec => Link(s)!Spec
<1>1. Init => Link(s)!Init
  BY LinkInit
<1>2. LInv /\ [Next]_vars => [Link(s)!Next]_(Link(s)!vars)
  BY LinkStep DEF SlotNext
<1> QED BY LInvAlways, <1>1, <1>2, PTL DEF Spec, Link!Spec

\* The same in the form TLC checks, for all slots at once.
THEOREM LinksAreInOrder == Spec => LinksInOrder
<1>1. Init => \A s \in Socks : Link(s)!Init
  BY LinkInit
<1>2. LInv /\ [Next]_vars =>
        [\A s \in Socks : [Link(s)!Next]_(Link(s)!vars)]_vars
  BY LinkStep DEF SlotNext
<1> QED BY LInvAlways, <1>1, <1>2, PTL DEF Spec, LinksInOrder
=============================================================================
