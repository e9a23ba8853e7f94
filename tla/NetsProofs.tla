----------------------------- MODULE NetsProofs -----------------------------
(***************************************************************************)
(* Proofs about Nets, for any set of node ids, connections and closers.    *)
(***************************************************************************)
EXTENDS Nets, TLAPS

-----------------------------------------------------------------------------
(* The inductive invariant.                                                *)

\* A connection that has not been through AddConnectInfo yet.
EarlyPcs == {"idle", "dial", "hs", "check", "add"}

\* Where the owner goroutine is about to use the id of its connection.
NidPcs == {"dial", "hs", "add", "announce", "msg", "more", "cl_ev", "cl_rm"}

\* Inside onError, where ret matters.
ErrorPcs == {"err", "cl_ev", "cl_rm", "cl_sock"}

ConnInv(c) ==
    /\ vk[c] # None => /\ vk[c] = nid[c]
                       /\ pc[c] \notin EarlyPcs
    /\ pc[c] \in NidPcs => nid[c] # None
    /\ pc[c] = "cl_sock" => vk[c] = None
    /\ pc[c] \notin ErrorPcs => ret[c] = "loop"
    /\ ret[c] = "more" => nid[c] # None

CloserInv(k) ==
    /\ kpc[k] # "idle" => kc[k] # None
    /\ kc[k] # None => /\ nid[kc[k]] # None
                       /\ pc[kc[k]] \notin EarlyPcs
    /\ kpc[k] = "sock" => vk[kc[k]] = None

IInv == /\ TypeOK
        /\ KvBacked
        /\ \A c \in Conns : ConnInv(c)
        /\ \A k \in Closers : CloserInv(k)
-----------------------------------------------------------------------------
LEMMA IInvInit == Init => IInv
  BY NodesAssumption, ConnsAssumption
  DEF Init, IInv, TypeOK, KvBacked, ConnInv, CloserInv, EarlyPcs, NidPcs, ErrorPcs,
      ConnPcs, RetPcs, CloserPcs, Events

THEOREM IInvStep == IInv /\ [Next]_vars => IInv'
<1> SUFFICES ASSUME IInv, Next PROVE IInv'
  BY DEF IInv, vars, TypeOK, KvBacked, ConnInv, CloserInv, EarlyPcs, NidPcs, ErrorPcs
<1> USE NodesAssumption, ConnsAssumption
    DEF IInv, TypeOK, KvBacked, ConnInv, CloserInv, EarlyPcs, NidPcs, ErrorPcs,
        ConnPcs, RetPcs, CloserPcs, Events, tables, worker, closer, GoTo,
        GoToError, ReturnFromError, Emit, Silent, CloserGoTo, AfterConn, IsWs, Disposed,
        NoEvent, Event, AwaitsOrigin, RemoveConnectInfo, Terminate, Outer
<1>1. ASSUME NEW c \in Conns, DialOk(c) PROVE IInv'
  BY <1>1 DEF DialOk
<1>2. ASSUME NEW c \in Conns, DialFail(c) PROVE IInv'
  BY <1>2 DEF DialFail
<1>3. ASSUME NEW c \in Conns, HandShakeOk(c) PROVE IInv'
  BY <1>3 DEF HandShakeOk
<1>4. ASSUME NEW c \in Conns, HandShakeFail(c) PROVE IInv'
  BY <1>4 DEF HandShakeFail
<1>5. ASSUME NEW c \in Conns, Accept(c) PROVE IInv'
  BY <1>5 DEF Accept
<1>6. ASSUME NEW c \in Conns, HandShakeReject(c) PROVE IInv'
  BY <1>6 DEF HandShakeReject
<1>7. ASSUME NEW c \in Conns, HandShakePanic(c) PROVE IInv'
  BY <1>7 DEF HandShakePanic
<1>8. ASSUME NEW c \in Conns, Register(c) PROVE IInv'
  <2>1. CASE kv[nid[c]] = None /\ vk[c] = None
    <3>1. /\ kv' = [kv EXCEPT ![nid[c]] = c]
          /\ vk' = [vk EXCEPT ![c] = nid[c]]
          /\ pc' = [pc EXCEPT ![c] = "announce"]
          /\ ret' = ret /\ pc[c] = "add"
      BY <1>8, <2>1 DEF Register
    <3>2. PICK m \in Nodes : m = nid[c]
      BY <1>8, <3>1
    <3>3. TypeOK' /\ KvBacked'
      BY <1>8, <3>1, <3>2, <2>1, SMTT(30) DEF Register
    <3>4. \A d \in Conns : ConnInv(d)'
      BY <1>8, <3>1, <3>2, <2>1, SMTT(30) DEF Register
    <3>5. \A k \in Closers : CloserInv(k)'
      BY <1>8, <3>1, <3>2, <2>1, SMTT(30) DEF Register
    <3> QED BY <3>3, <3>4, <3>5
  <2>2. CASE ~(kv[nid[c]] = None /\ vk[c] = None)
    BY <1>8, <2>2, SMTT(30) DEF Register
  <2> QED BY <2>1, <2>2
<1>9. ASSUME NEW c \in Conns, Announce(c) PROVE IInv'
  BY <1>9 DEF Announce
<1>10. ASSUME NEW c \in Conns, StartWorker(c) PROVE IInv'
  BY <1>10 DEF StartWorker
<1>11. ASSUME NEW c \in Conns, Boot(c) PROVE IInv'
  BY <1>11 DEF Boot
<1>12. ASSUME NEW c \in Conns, Loop(c) PROVE IInv'
  BY <1>12 DEF Loop
<1>13. ASSUME NEW c \in Conns, ReadData(c) PROVE IInv'
  BY <1>13 DEF ReadData
<1>14. ASSUME NEW c \in Conns, ReadError(c) PROVE IInv'
  BY <1>14 DEF ReadError
<1>15. ASSUME NEW c \in Conns, ReadEmpty(c) PROVE IInv'
  BY <1>15 DEF ReadEmpty
<1>16. ASSUME NEW c \in Conns, Packet(c) PROVE IInv'
  BY <1>16 DEF Packet
<1>17. ASSUME NEW c \in Conns, Message(c) PROVE IInv'
  BY <1>17 DEF Message
<1>18. ASSUME NEW c \in Conns, More(c) PROVE IInv'
  BY <1>18 DEF More
<1>19. ASSUME NEW c \in Conns, OnError(c) PROVE IInv'
  <2>1. TypeOK'
    BY <1>19 DEF OnError
  <2>2. KvBacked'
    BY <1>19 DEF OnError
  <2>3. ASSUME NEW d \in Conns PROVE ConnInv(d)'
    <3>1. CASE d = c
      BY <1>19, <3>1 DEF OnError
    <3>2. CASE d # c
      BY <1>19, <3>2 DEF OnError
    <3> QED BY <3>1, <3>2
  <2>4. ASSUME NEW j \in Closers PROVE CloserInv(j)'
    BY <1>19 DEF OnError
  <2> QED BY <2>1, <2>2, <2>3, <2>4
<1>20. ASSUME NEW c \in Conns, OnCloseEvent(c) PROVE IInv'
  BY <1>20 DEF OnCloseEvent
<1>21. ASSUME NEW c \in Conns, OnCloseRemove(c) PROVE IInv'
  BY <1>21 DEF OnCloseRemove
<1>22. ASSUME NEW c \in Conns, OnCloseSock(c) PROVE IInv'
  <2>1. TypeOK'
    BY <1>22 DEF OnCloseSock
  <2>2. KvBacked'
    BY <1>22 DEF OnCloseSock
  <2>3. ASSUME NEW d \in Conns PROVE ConnInv(d)'
    <3>1. CASE d = c
      BY <1>22, <3>1 DEF OnCloseSock
    <3>2. CASE d # c
      BY <1>22, <3>2 DEF OnCloseSock
    <3> QED BY <3>1, <3>2
  <2>4. ASSUME NEW j \in Closers PROVE CloserInv(j)'
    BY <1>22 DEF OnCloseSock
  <2> QED BY <2>1, <2>2, <2>3, <2>4
<1>23. ASSUME NEW c \in Conns, TerminateSelf(c) PROVE IInv'
  <2>1. TypeOK'
    BY <1>23 DEF TerminateSelf
  <2>2. KvBacked'
    BY <1>23 DEF TerminateSelf
  <2>3. ASSUME NEW d \in Conns PROVE ConnInv(d)'
    <3>1. CASE d = c
      BY <1>23, <3>1 DEF TerminateSelf
    <3>2. CASE d # c
      BY <1>23, <3>2 DEF TerminateSelf
    <3> QED BY <3>1, <3>2
  <2>4. ASSUME NEW j \in Closers PROVE CloserInv(j)'
    BY <1>23 DEF TerminateSelf
  <2> QED BY <2>1, <2>2, <2>3, <2>4
<1>24. ASSUME NEW c \in Conns, RemoteClose(c) PROVE IInv'
  BY <1>24 DEF RemoteClose
<1>25. ASSUME NEW c \in Conns, Collect(c) PROVE IInv'
  BY <1>25 DEF Collect
<1>26. ASSUME NEW k \in Closers, CloseTerminate(k) PROVE IInv'
  <2>0. kc[k] \in Conns /\ kpc[k] = "term"
    BY <1>26 DEF CloseTerminate
  <2>1. /\ UNCHANGED <<kv, vk, sock, rclosed, nid, pc, ret, kc>>
        /\ event' = NoEvent
    BY <1>26 DEF CloseTerminate
  <2>2. /\ killing' \in [Conns -> BOOLEAN]
        /\ term' \in [Conns -> BOOLEAN]
        /\ signal' \in [Conns -> {"nil", "open", "closed"}]
    <3>1. CASE signal[kc[k]] = "nil" /\ ~killing[kc[k]]
      <4>1. /\ killing' = [killing EXCEPT ![kc[k]] = TRUE]
            /\ term' = [term EXCEPT ![kc[k]] = TRUE]
            /\ signal' = signal
        BY <1>26, <3>1 DEF CloseTerminate
      <4> QED BY <2>0, <4>1
    <3>2. CASE ~(signal[kc[k]] = "nil" /\ ~killing[kc[k]])
      <4>1. Terminate(kc[k])
        BY <1>26, <3>2 DEF CloseTerminate
      <4> QED BY <2>0, <4>1
    <3> QED BY <3>1, <3>2
  <2>3. \/ kpc' = [kpc EXCEPT ![k] = "hung"]
        \/ kpc' = [kpc EXCEPT ![k] = "ev"]
    BY <1>26 DEF CloseTerminate
  <2> QED BY <2>0, <2>1, <2>2, <2>3
<1>27. ASSUME NEW k \in Closers, CloseEvent(k) PROVE IInv'
  BY <1>27 DEF CloseEvent
<1>28. ASSUME NEW k \in Closers, CloseRemove(k) PROVE IInv'
  BY <1>28 DEF CloseRemove
<1>29. ASSUME NEW k \in Closers, CloseSock(k) PROVE IInv'
  BY <1>29 DEF CloseSock
<1>30. ASSUME NEW c \in Conns, NEW n \in Inner, NEW b \in BOOLEAN, Dial(c, n, b) PROVE IInv'
  BY <1>30 DEF Dial
<1>31. ASSUME NEW c \in Conns, NEW o \in Origins, NEW v \in Verdicts, HandShakeAccept(c, o, v) PROVE IInv'
  BY <1>31 DEF HandShakeAccept, onCheckNode, Origins, Verdicts
<1>32. ASSUME NEW k \in Closers, NEW n \in Nodes, CloseLookup(k, n) PROVE IInv'
  BY <1>32 DEF CloseLookup
<1>33. ASSUME NEW c \in Conns, HandlerReturn(c) PROVE IInv'
  BY <1>33 DEF HandlerReturn
<1> HIDE DEF IInv, TypeOK, KvBacked, ConnInv, CloserInv
<1>q. QED
  BY <1>1, <1>2, <1>3, <1>4, <1>5, <1>6, <1>7, <1>8, <1>9, <1>10, <1>11, <1>12, <1>13, <1>14, <1>15, <1>16, <1>17, <1>18, <1>19, <1>20, <1>21, <1>22, <1>23, <1>24, <1>25, <1>26, <1>27, <1>28, <1>29, <1>30, <1>31, <1>32, <1>33 DEF Next, Opening, Advance, HandShakeIn, Handling, Closing

THEOREM IInvCorrect == Spec => []IInv
  BY IInvInit, IInvStep, PTL DEF Spec

\* The type invariant, for every number of nodes, connections and closers.
THEOREM TypeCorrect == Spec => []TypeOK
  BY IInvCorrect, PTL DEF IInv

\* Close calls racing the workers never leave an id that Send resolves to a
\* connection that is not registered under it.
THEOREM KvBackedCorrect == Spec => []KvBacked
  BY IInvCorrect, PTL DEF IInv

-----------------------------------------------------------------------------
(* Without callers of Close, only the owner goroutine removes a connection. *)

\* Between its lookup and its removal a connection stays registered.
OwnedPcs == {"announce", "msg", "cl_ev", "cl_rm"}

SoloInv == /\ IInv
           /\ TablesAgree
           /\ \A c \in Conns : pc[c] \in OwnedPcs => vk[c] = nid[c]

LEMMA SoloInit == Init => SoloInv
<1>1. Init => TablesAgree /\ \A c \in Conns : pc[c] \in OwnedPcs => vk[c] = nid[c]
  BY ConnsAssumption DEF Init, TablesAgree, OwnedPcs
<1> QED BY <1>1, IInvInit DEF SoloInv

LEMMA SoloStep ==
  ASSUME Closers = {}, SoloInv, [Next]_vars
  PROVE  SoloInv'
<1>1. IInv'
  BY IInvStep DEF SoloInv
<1> DEFINE Agree == TablesAgree /\ \A c \in Conns : pc[c] \in OwnedPcs => vk[c] = nid[c]
<1>2. Agree'
  <2> USE DEF SoloInv, IInv, TypeOK, ConnInv, TablesAgree, OwnedPcs, EarlyPcs,
              tables, GoTo, GoToError, ReturnFromError, AfterConn, RetPcs
  <2> USE ConnsAssumption
  <2>1. ASSUME NEW c \in Conns, DialOk(c) PROVE Agree'
    BY <2>1 DEF DialOk
  <2>2. ASSUME NEW c \in Conns, DialFail(c) PROVE Agree'
    BY <2>2 DEF DialFail
  <2>3. ASSUME NEW c \in Conns, HandShakeOk(c) PROVE Agree'
    BY <2>3 DEF HandShakeOk
  <2>4. ASSUME NEW c \in Conns, HandShakeFail(c) PROVE Agree'
    BY <2>4 DEF HandShakeFail
  <2>5. ASSUME NEW c \in Conns, Accept(c) PROVE Agree'
    BY <2>5 DEF Accept
  <2>6. ASSUME NEW c \in Conns, HandShakeReject(c) PROVE Agree'
    BY <2>6 DEF HandShakeReject
  <2>7. ASSUME NEW c \in Conns, HandShakePanic(c) PROVE Agree'
    BY <2>7 DEF HandShakePanic
  <2>8. ASSUME NEW c \in Conns, Register(c) PROVE Agree'
    BY <2>8 DEF Register
  <2>9. ASSUME NEW c \in Conns, Announce(c) PROVE Agree'
    BY <2>9 DEF Announce
  <2>10. ASSUME NEW c \in Conns, StartWorker(c) PROVE Agree'
    BY <2>10 DEF StartWorker
  <2>11. ASSUME NEW c \in Conns, Boot(c) PROVE Agree'
    BY <2>11 DEF Boot
  <2>12. ASSUME NEW c \in Conns, Loop(c) PROVE Agree'
    BY <2>12 DEF Loop
  <2>13. ASSUME NEW c \in Conns, ReadData(c) PROVE Agree'
    BY <2>13 DEF ReadData
  <2>14. ASSUME NEW c \in Conns, ReadError(c) PROVE Agree'
    BY <2>14 DEF ReadError
  <2>15. ASSUME NEW c \in Conns, ReadEmpty(c) PROVE Agree'
    BY <2>15 DEF ReadEmpty
  <2>16. ASSUME NEW c \in Conns, Packet(c) PROVE Agree'
    BY <2>16 DEF Packet
  <2>17. ASSUME NEW c \in Conns, Message(c) PROVE Agree'
    BY <2>17 DEF Message
  <2>18. ASSUME NEW c \in Conns, More(c) PROVE Agree'
    BY <2>18 DEF More
  <2>19. ASSUME NEW c \in Conns, OnError(c) PROVE Agree'
    BY <2>19 DEF OnError
  <2>20. ASSUME NEW c \in Conns, OnCloseEvent(c) PROVE Agree'
    BY <2>20 DEF OnCloseEvent
  <2>21. ASSUME NEW c \in Conns, OnCloseRemove(c) PROVE Agree'
    BY <2>21 DEF OnCloseRemove, RemoveConnectInfo
  <2>22. ASSUME NEW c \in Conns, OnCloseSock(c) PROVE Agree'
    BY <2>22 DEF OnCloseSock
  <2>23. ASSUME NEW c \in Conns, TerminateSelf(c) PROVE Agree'
    BY <2>23 DEF TerminateSelf
  <2>24. ASSUME NEW c \in Conns, RemoteClose(c) PROVE Agree'
    BY <2>24 DEF RemoteClose
  <2>25. ASSUME NEW c \in Conns, Collect(c) PROVE Agree'
    BY <2>25 DEF Collect
  <2>26. ASSUME NEW c \in Conns, NEW n \in Inner, NEW b \in BOOLEAN, Dial(c, n, b) PROVE Agree'
    BY <2>26 DEF Dial
  <2>27. ASSUME NEW c \in Conns, NEW o \in Origins, NEW v \in Verdicts,
                HandShakeAccept(c, o, v)
         PROVE Agree'
    BY <2>27 DEF HandShakeAccept, AwaitsOrigin
  <2>28. CASE UNCHANGED vars
    BY <2>28 DEF vars
  <2>29. ASSUME NEW c \in Conns, HandlerReturn(c) PROVE Agree'
    BY <2>29 DEF HandlerReturn
  <2> HIDE DEF SoloInv, Agree
  <2> QED
    BY <2>1, <2>2, <2>3, <2>4, <2>5, <2>6, <2>7, <2>8, <2>9, <2>10, <2>11, <2>12, <2>13, <2>14, <2>15, <2>16, <2>17, <2>18, <2>19, <2>20, <2>21, <2>22, <2>23, <2>24, <2>25, <2>26, <2>27, <2>28, <2>29
    DEF Next, Opening, Advance, HandShakeIn, Handling
<1> QED BY <1>1, <1>2 DEF SoloInv

LEMMA SoloCorrect == ASSUME Closers = {} PROVE Spec => []SoloInv
  BY SoloInit, SoloStep, PTL DEF Spec

\* As long as nobody calls Close, kv and vk stay inverse to each other, for
\* every number of connections: whatever the workers, the dialling goroutines
\* and the remote ends do.
THEOREM TablesAgreeCorrect == ASSUME Closers = {} PROVE Spec => []TablesAgree
  BY SoloCorrect, PTL DEF SoloInv

\* ... and no two live connections share a node id.
THEOREM OneConnCorrect == ASSUME Closers = {} PROVE Spec => []OneConnPerNode
<1>1. SoloInv => OneConnPerNode
  BY DEF SoloInv, IInv, TypeOK, TablesAgree, OneConnPerNode
<1> QED BY <1>1, SoloCorrect, PTL
-----------------------------------------------------------------------------
(* The workers implement NetEvents.                                        *)

LEMMA ListenerInit == Init => Listener!Init
<1> SUFFICES ASSUME Init PROVE Listener!Init
  OBVIOUS
<1>1. \A n \in Nodes : Linked(n) = FALSE
  BY DEF Init, Linked
<1>2. event = Listener!NoEvent
  BY DEF Init, NoEvent, Listener!NoEvent
<1> QED BY <1>1, <1>2, Zenon DEF Listener!Init

\* A step that calls no listener function leaves the link state alone.
LEMMA ListenerQuiet ==
  ASSUME \A n \in Nodes : Linked(n)' = Linked(n), event' = NoEvent
  PROVE  Listener!Next
  BY DEF Listener!Next, Listener!Quiet, Listener!NoEvent, NoEvent

LEMMA ListenerUp ==
  ASSUME NEW m \in Nodes, ~Linked(m), Linked(m)',
         \A n \in Nodes \ {m} : Linked(n)' = Linked(n),
         event' = Event("OnConnect", m)
  PROVE  Listener!OnConnect(m)
<1> DEFINE link == [n \in Nodes |-> Linked(n)]
<1>1. \A n \in Nodes : Linked(n)' = IF n = m THEN TRUE ELSE link[n]
  OBVIOUS
<1>2. link' = [link EXCEPT ![m] = TRUE]
  BY <1>1
<1> QED BY <1>2 DEF Listener!OnConnect, Listener!Event, Event

LEMMA ListenerDown ==
  ASSUME NEW m \in Nodes, Linked(m), Linked(m)' = FALSE,
         \A n \in Nodes \ {m} : Linked(n)' = Linked(n),
         event' = Event("OnClose", m)
  PROVE  Listener!OnClose(m)
<1> DEFINE link == [n \in Nodes |-> Linked(n)]
<1>1. \A n \in Nodes : Linked(n)' = IF n = m THEN FALSE ELSE link[n]
  OBVIOUS
<1>2. link' = [link EXCEPT ![m] = FALSE]
  BY <1>1
<1> QED BY <1>2 DEF Listener!OnClose, Listener!Event, Event

LEMMA ListenerStep ==
  ASSUME Closers = {}, SoloInv, [Next]_vars
  PROVE  [Listener!Next]_(Listener!vars)
<1> DEFINE Same == (\A n \in Nodes : Linked(n)' = Linked(n)) /\ event' = NoEvent
<1> USE DEF SoloInv, IInv, TypeOK, ConnInv, TablesAgree, OwnedPcs, EarlyPcs, NidPcs,
            tables, GoTo, GoToError, ReturnFromError, AfterConn, RetPcs, Linked,
            Silent, RemoveConnectInfo
<1> USE ConnsAssumption
<1>1. ASSUME NEW c \in Conns, DialOk(c) PROVE Same
  BY <1>1 DEF DialOk
<1>2. ASSUME NEW c \in Conns, DialFail(c) PROVE Same
  BY <1>2 DEF DialFail
<1>3. ASSUME NEW c \in Conns, HandShakeOk(c) PROVE Same
  BY <1>3 DEF HandShakeOk
<1>4. ASSUME NEW c \in Conns, HandShakeFail(c) PROVE Same
  BY <1>4 DEF HandShakeFail
<1>5. ASSUME NEW c \in Conns, Accept(c) PROVE Same
  BY <1>5 DEF Accept
<1>6. ASSUME NEW c \in Conns, HandShakeReject(c) PROVE Same
  BY <1>6 DEF HandShakeReject, AwaitsOrigin
<1>7. ASSUME NEW c \in Conns, HandShakePanic(c) PROVE Same
  BY <1>7 DEF HandShakePanic, AwaitsOrigin
<1>8. ASSUME NEW c \in Conns, Register(c) PROVE Same
  BY <1>8 DEF Register
<1>9. ASSUME NEW c \in Conns, StartWorker(c) PROVE Same
  BY <1>9 DEF StartWorker
<1>10. ASSUME NEW c \in Conns, Boot(c) PROVE Same
  BY <1>10 DEF Boot
<1>11. ASSUME NEW c \in Conns, Loop(c) PROVE Same
  BY <1>11 DEF Loop
<1>12. ASSUME NEW c \in Conns, ReadData(c) PROVE Same
  BY <1>12 DEF ReadData
<1>13. ASSUME NEW c \in Conns, ReadError(c) PROVE Same
  BY <1>13 DEF ReadError
<1>14. ASSUME NEW c \in Conns, ReadEmpty(c) PROVE Same
  BY <1>14 DEF ReadEmpty
<1>15. ASSUME NEW c \in Conns, Packet(c) PROVE Same
  BY <1>15 DEF Packet
<1>16. ASSUME NEW c \in Conns, More(c) PROVE Same
  BY <1>16 DEF More
<1>17. ASSUME NEW c \in Conns, OnError(c) PROVE Same
  BY <1>17 DEF OnError
<1>18. ASSUME NEW c \in Conns, OnCloseRemove(c) PROVE Same
  BY <1>18 DEF OnCloseRemove
<1>19. ASSUME NEW c \in Conns, OnCloseSock(c) PROVE Same
  BY <1>19 DEF OnCloseSock
<1>20. ASSUME NEW c \in Conns, TerminateSelf(c) PROVE Same
  BY <1>20 DEF TerminateSelf
<1>21. ASSUME NEW c \in Conns, RemoteClose(c) PROVE Same
  BY <1>21 DEF RemoteClose
<1>22. ASSUME NEW c \in Conns, Collect(c) PROVE Same
  BY <1>22 DEF Collect
<1>23. ASSUME NEW c \in Conns, NEW n \in Inner, NEW b \in BOOLEAN, Dial(c, n, b) PROVE Same
  BY <1>23 DEF Dial
<1>24. ASSUME NEW c \in Conns, NEW o \in Origins, NEW v \in Verdicts,
              HandShakeAccept(c, o, v)
       PROVE Same
  BY <1>24 DEF HandShakeAccept, AwaitsOrigin
<1>25. ASSUME NEW c \in Conns, Announce(c)
       PROVE  nid[c] \in Nodes /\ Listener!OnConnect(nid[c])
  <2>1. PICK m \in Nodes : m = nid[c]
    BY <1>25 DEF Announce
  <2>2. /\ ~Linked(m) /\ Linked(m)'
        /\ \A n \in Nodes \ {m} : Linked(n)' = Linked(n)
        /\ event' = Event("OnConnect", m)
    BY <1>25, <2>1 DEF Announce, Emit
  <2> HIDE DEF Linked
  <2>3. Listener!OnConnect(m)
    BY <2>2, ListenerUp
  <2> QED BY <2>1, <2>3
<1>26. ASSUME NEW c \in Conns, Message(c)
       PROVE  nid[c] \in Nodes /\ Listener!OnMessage(nid[c])
  <2>1. /\ nid[c] \in Nodes /\ Linked(nid[c])
        /\ \A n \in Nodes : Linked(n)' = Linked(n)
        /\ event' = Event("OnMessage", nid[c])
    BY <1>26 DEF Message, Emit
  <2> HIDE DEF Linked
  <2> QED BY <2>1 DEF Listener!OnMessage, Listener!Event, Event
<1>27. ASSUME NEW c \in Conns, OnCloseEvent(c)
       PROVE  nid[c] \in Nodes /\ Listener!OnClose(nid[c])
  <2>1. PICK m \in Nodes : m = nid[c]
    BY <1>27 DEF OnCloseEvent
  <2>2. /\ Linked(m) /\ Linked(m)' = FALSE
        /\ \A n \in Nodes \ {m} : Linked(n)' = Linked(n)
        /\ event' = Event("OnClose", m)
    BY <1>27, <2>1 DEF OnCloseEvent, Emit
  <2> HIDE DEF Linked
  <2>3. Listener!OnClose(m)
    BY <2>2, ListenerDown
  <2> QED BY <2>1, <2>3
<1>28. CASE UNCHANGED vars
  BY <1>28 DEF vars, Listener!vars
<1>29. ASSUME NEW c \in Conns, HandlerReturn(c) PROVE Same
  BY <1>29 DEF HandlerReturn
<1> HIDE DEF SoloInv, Same, GoTo, GoToError, Silent, tables, Linked
<1>q. Same => Listener!Next
  BY ListenerQuiet DEF Same
<1> QED
  BY <1>q, <1>1, <1>2, <1>3, <1>4, <1>5, <1>6, <1>7, <1>8, <1>9, <1>10, <1>11, <1>12, <1>13, <1>14, <1>15, <1>16, <1>17, <1>18, <1>19, <1>20, <1>21, <1>22, <1>23, <1>24, <1>25, <1>26, <1>27, <1>28, <1>29
  DEF Next, Opening, Advance, HandShakeIn, Handling, Listener!Next

\* As long as nobody calls Close, the listener of every node id sees OnConnect,
\* OnMessage*, OnClose in this order, for every number of connections.
THEOREM EventsInOrderCorrect == ASSUME Closers = {} PROVE Spec => EventsInOrder
  BY SoloCorrect, ListenerInit, ListenerStep, PTL
  DEF Spec, EventsInOrder, Listener!Spec
-----------------------------------------------------------------------------
(* What DeadConnForgotten rests on, beside any callers of Close.           *)

\* A Close has terminated the worker of c and will take c out of the tables.
Leaving(c) == \E k \in Closers : kc[k] = c /\ kpc[k] \in {"ev", "rm"}

\* Where the owner goroutine is as long as the service has not been started.
UnstartedPcs == EarlyPcs \cup ErrorPcs \cup {"announce", "start", "done", "leaked"}

StartedInv(c) ==
    /\ signal[c] = "nil" => /\ pc[c] \in UnstartedPcs
                            /\ pc[c] \in ErrorPcs => ret[c] \in {"start", "done"}
                            /\ StartsFirst(c) => pc[c] = "idle"
    /\ pc[c] = "check" => IsWs(c)
    /\ pc[c] \in {"term", "leaked"} => vk[c] = None
    /\ pc[c] \in ErrorPcs /\ ret[c] = "done" => vk[c] = None

\* A worker is told to end after its connection was removed, or by a Close that
\* will remove it.  What a hung Close has set Boot clears again.
TermInv(c) ==
    /\ pc[c] \in EarlyPcs \/ (pc[c] \in {"read", "pkt"} /\ nid[c] = None) => term[c] = FALSE
    /\ term[c] = TRUE /\ signal[c] # "nil" /\ pc[c] # "boot" => vk[c] = None \/ Leaving(c)
    /\ pc[c] = "done" => vk[c] = None \/ Leaving(c)

\* A registered connection has an owner goroutine that is under way and will see
\* the end of the stream, or a Close that will take it out of the tables.
Attended == \A c \in Conns : vk[c] # None => pc[c] \notin EarlyPcs \cup {"done", "leaked"} \/ Leaving(c)

SInv == \A c \in Conns : StartedInv(c) /\ TermInv(c)

LEMMA SInvInit == Init => SInv
<1> SUFFICES ASSUME Init, NEW c \in Conns PROVE StartedInv(c) /\ TermInv(c)
  BY DEF SInv
<1>1. term[c] = FALSE /\ pc[c] = "idle" /\ signal[c] = "nil" /\ vk[c] = None
  BY DEF Init
<1> QED BY <1>1 DEF StartedInv, TermInv, UnstartedPcs, EarlyPcs, ErrorPcs

\* A connection that a step leaves alone.
LEMMA SFrame ==
    ASSUME NEW d \in Conns, StartedInv(d), TermInv(d),
           UNCHANGED <<kpc, kc>>,
           pc'[d] = pc[d], ret'[d] = ret[d], vk'[d] = vk[d], nid'[d] = nid[d],
           term'[d] = term[d], signal'[d] = signal[d]
    PROVE  StartedInv(d)' /\ TermInv(d)'
  BY DEF StartedInv, TermInv, Leaving, StartsFirst, IsWs

\* The steps of the owner goroutine of c, seen from c.
OwnStep(c) == \/ Opening(c) \/ Advance(c) \/ ReadData(c)
              \/ HandlerReturn(c) \/ RemoteClose(c) \/ Collect(c)

LEMMA OwnFrame ==
    ASSUME TypeOK, NEW c \in Conns, OwnStep(c)
    PROVE  /\ UNCHANGED <<kpc, kc>>
           /\ \A d \in Conns \ {c} :
                 /\ pc'[d] = pc[d] /\ ret'[d] = ret[d] /\ vk'[d] = vk[d] /\ nid'[d] = nid[d]
                 /\ term'[d] = term[d] /\ signal'[d] = signal[d] /\ sock'[d] = sock[d]
<1> USE DEF TypeOK, tables, worker, closer, GoTo, GoToError, ReturnFromError, Silent, Emit,
            RemoveConnectInfo, Terminate
<1>1. CASE Opening(c)
  BY <1>1 DEF Opening, Accept, Dial
<1>2. CASE DialOk(c) \/ DialFail(c) \/ HandShakeOk(c) \/ HandShakeFail(c)
  BY <1>2 DEF DialOk, DialFail, HandShakeOk, HandShakeFail
<1>3. CASE HandShakeIn(c)
  BY <1>3 DEF HandShakeIn, HandShakeAccept, HandShakeReject, HandShakePanic
<1>4. CASE Register(c) \/ Announce(c) \/ StartWorker(c) \/ Boot(c) \/ Loop(c)
  BY <1>4 DEF Register, Announce, StartWorker, Boot, Loop
<1>5. CASE ReadError(c) \/ ReadEmpty(c) \/ Packet(c) \/ Message(c) \/ More(c)
  BY <1>5 DEF ReadError, ReadEmpty, Packet, Message, More
<1>6. CASE OnError(c) \/ OnCloseEvent(c) \/ OnCloseRemove(c) \/ OnCloseSock(c)
  BY <1>6 DEF OnError, OnCloseEvent, OnCloseRemove, OnCloseSock
<1>7. CASE TerminateSelf(c) \/ ReadData(c)
  BY <1>7 DEF TerminateSelf, ReadData
<1>8. CASE HandlerReturn(c) \/ RemoteClose(c) \/ Collect(c)
  BY <1>8 DEF HandlerReturn, RemoteClose, Collect
<1> QED BY <1>1, <1>2, <1>3, <1>4, <1>5, <1>6, <1>7, <1>8 DEF OwnStep, Advance, Handling

LEMMA OwnInv ==
    ASSUME IInv, NEW c \in Conns, StartedInv(c), TermInv(c), OwnStep(c)
    PROVE  StartedInv(c)' /\ TermInv(c)'
<1>t. /\ TypeOK /\ ConnInv(c) /\ \A k \in Closers : CloserInv(k)
      /\ UNCHANGED <<kpc, kc>>
  BY OwnFrame DEF IInv
<1>l. Leaving(c)' <=> Leaving(c)
  BY <1>t DEF Leaving
<1>a. pc[c] \in EarlyPcs => vk[c] = None
  BY <1>t DEF ConnInv
<1> HIDE DEF Leaving
<1> USE <1>t, <1>l, <1>a
    DEF TypeOK, ConnInv, StartedInv, TermInv, UnstartedPcs, EarlyPcs, NidPcs, ErrorPcs, StartsFirst,
        ConnPcs, RetPcs, tables, worker, closer, GoTo, GoToError, ReturnFromError,
        AfterConn, IsWs, RemoveConnectInfo, Terminate, AwaitsOrigin, Silent, Emit
<1>1. CASE Opening(c)
  BY <1>1 DEF Opening, Accept, Dial
<1>2. CASE DialOk(c) \/ DialFail(c) \/ HandShakeOk(c) \/ HandShakeFail(c)
  BY <1>2 DEF DialOk, DialFail, HandShakeOk, HandShakeFail
<1>3. CASE HandShakeIn(c)
  BY <1>3 DEF HandShakeIn, HandShakeAccept, HandShakeReject, HandShakePanic
<1>4. CASE Register(c)
  BY <1>4 DEF Register
<1>5. CASE Announce(c) \/ StartWorker(c) \/ Boot(c) \/ Loop(c)
  BY <1>5 DEF Announce, StartWorker, Boot, Loop
<1>6. CASE ReadError(c) \/ ReadEmpty(c) \/ ReadData(c)
  BY <1>6 DEF ReadError, ReadEmpty, ReadData
<1>7. CASE Packet(c) \/ Message(c) \/ More(c)
  BY <1>7 DEF Packet, Message, More
<1>8. CASE OnError(c)
  BY <1>8 DEF OnError
<1>9. CASE OnCloseEvent(c) \/ OnCloseRemove(c) \/ OnCloseSock(c)
  BY <1>9 DEF OnCloseEvent, OnCloseRemove, OnCloseSock
<1>10. CASE TerminateSelf(c)
  BY <1>10 DEF TerminateSelf
<1>11. CASE HandlerReturn(c) \/ RemoteClose(c) \/ Collect(c)
  BY <1>11 DEF HandlerReturn, RemoteClose, Collect
<1> QED BY <1>1, <1>2, <1>3, <1>4, <1>5, <1>6, <1>7, <1>8, <1>9, <1>10, <1>11
        DEF OwnStep, Advance, Handling

LEMMA SInvStep == IInv /\ SInv /\ [Next]_vars => SInv'
<1> SUFFICES ASSUME IInv, SInv, [Next]_vars, NEW d \in Conns
             PROVE  StartedInv(d)' /\ TermInv(d)'
  BY DEF SInv
<1>d. StartedInv(d) /\ TermInv(d) /\ TypeOK /\ ConnInv(d)
  BY DEF SInv, IInv
<1>1. ASSUME NEW c \in Conns, OwnStep(c) PROVE StartedInv(d)' /\ TermInv(d)'
  <2>1. CASE c = d
    BY <1>1, <1>d, <2>1, OwnInv
  <2>2. CASE c # d
    BY <1>1, <1>d, <2>2, OwnFrame, SFrame
  <2> QED BY <2>1, <2>2
<1>2. ASSUME NEW k \in Closers, NEW n \in Nodes, CloseLookup(k, n)
      PROVE  StartedInv(d)' /\ TermInv(d)'
  <2>1. /\ UNCHANGED <<pc, ret, vk, nid, term, signal>> /\ kpc[k] = "idle"
        /\ \A j \in Closers \ {k} : kpc'[j] = kpc[j] /\ kc'[j] = kc[j]
    BY <1>2, <1>d DEF CloseLookup, CloserGoTo, TypeOK, tables, worker
  <2>2. Leaving(d) => Leaving(d)'
    BY <2>1 DEF Leaving
  <2> QED BY <1>d, <2>1, <2>2 DEF StartedInv, TermInv, StartsFirst, IsWs
<1>3. ASSUME NEW k \in Closers, CloseTerminate(k) PROVE StartedInv(d)' /\ TermInv(d)'
  <2>0. /\ kc[k] \in Conns /\ kpc[k] = "term"
        /\ pc[kc[k]] \notin EarlyPcs /\ nid[kc[k]] # None
    BY <1>3 DEF CloseTerminate, IInv, CloserInv, TypeOK
  <2>1. /\ UNCHANGED <<pc, ret, vk, nid, kc>>
        /\ \A j \in Closers \ {k} : kpc'[j] = kpc[j]
    BY <1>3, <1>d DEF CloseTerminate, CloserGoTo, TypeOK, tables
  <2>2. Leaving(d) => Leaving(d)'
    BY <2>0, <2>1 DEF Leaving
  <2>3. StartedInv(d)'
    <3>1. signal'[d] = "nil" => signal[d] = "nil"
      BY <1>3, <1>d, <2>0 DEF CloseTerminate, Terminate, TypeOK
    <3> QED BY <1>d, <2>1, <3>1 DEF StartedInv, StartsFirst, IsWs
  <2>4. CASE kc[k] # d
    <3>1. term'[d] = term[d] /\ signal'[d] = signal[d]
      BY <1>3, <1>d, <2>0, <2>4 DEF CloseTerminate, Terminate, TypeOK
    <3> QED BY <1>d, <2>1, <2>2, <2>3, <3>1 DEF TermInv
  <2>5. CASE kc[k] = d /\ signal[d] = "nil" /\ ~killing[d]
    <3>1. signal'[d] = "nil"
      BY <1>3, <2>5 DEF CloseTerminate
    <3> QED BY <1>d, <2>0, <2>1, <2>2, <2>3, <2>5, <3>1 DEF TermInv
  <2>6. CASE kc[k] = d /\ ~(signal[d] = "nil" /\ ~killing[d])
    <3>1. kpc'[k] = "ev"
      BY <1>3, <1>d, <2>6 DEF CloseTerminate, CloserGoTo, TypeOK
    <3>2. Leaving(d)'
      BY <2>1, <2>6, <3>1 DEF Leaving
    <3> QED BY <1>d, <2>0, <2>1, <2>3, <2>6, <3>2 DEF TermInv
  <2> QED BY <2>4, <2>5, <2>6
<1>4. ASSUME NEW k \in Closers, CloseEvent(k) PROVE StartedInv(d)' /\ TermInv(d)'
  <2>1. /\ UNCHANGED <<pc, ret, vk, nid, term, signal, kc>> /\ kpc'[k] = "rm"
        /\ \A j \in Closers \ {k} : kpc'[j] = kpc[j]
    BY <1>4, <1>d DEF CloseEvent, CloserGoTo, TypeOK, tables, worker
  <2>2. Leaving(d) => Leaving(d)'
    BY <2>1 DEF Leaving
  <2> QED BY <1>d, <2>1, <2>2 DEF StartedInv, TermInv, StartsFirst, IsWs
<1>5. ASSUME NEW k \in Closers, CloseRemove(k) PROVE StartedInv(d)' /\ TermInv(d)'
  <2>1. /\ UNCHANGED <<pc, ret, nid, term, signal, kc>> /\ kc[k] \in Conns
        /\ \A j \in Closers \ {k} : kpc'[j] = kpc[j]
        /\ vk' = [vk EXCEPT ![kc[k]] = None]
    BY <1>5, <1>d DEF CloseRemove, CloserGoTo, RemoveConnectInfo, TypeOK, worker, IInv, CloserInv
  <2>2. CASE kc[k] = d
    <3>1. vk'[d] = None
      BY <1>d, <2>1, <2>2 DEF TypeOK
    <3> QED BY <1>d, <2>1, <3>1 DEF StartedInv, TermInv, StartsFirst, IsWs
  <2>3. CASE kc[k] # d
    <3>1. vk'[d] = vk[d]
      BY <1>d, <2>1, <2>3 DEF TypeOK
    <3>2. Leaving(d) => Leaving(d)'
      BY <2>1, <2>3 DEF Leaving
    <3> QED BY <1>d, <2>1, <3>1, <3>2 DEF StartedInv, TermInv, StartsFirst, IsWs
  <2> QED BY <2>2, <2>3
<1>6. ASSUME NEW k \in Closers, CloseSock(k) PROVE StartedInv(d)' /\ TermInv(d)'
  <2>1. /\ UNCHANGED <<pc, ret, vk, nid, term, signal>> /\ kpc[k] = "sock"
        /\ \A j \in Closers \ {k} : kpc'[j] = kpc[j] /\ kc'[j] = kc[j]
    BY <1>6, <1>d DEF CloseSock, CloserGoTo, TypeOK, tables, worker
  <2>2. Leaving(d) => Leaving(d)'
    BY <2>1 DEF Leaving
  <2> QED BY <1>d, <2>1, <2>2 DEF StartedInv, TermInv, StartsFirst, IsWs
<1>7. CASE UNCHANGED vars
  BY <1>7, <1>d, SFrame DEF vars
<1> QED BY <1>1, <1>2, <1>3, <1>4, <1>5, <1>6, <1>7 DEF Next, OwnStep, Closing

\* No connection is left in the tables with nobody to take it out: however the
\* workers, the handshakes and any number of Close calls interleave, and also when a
\* Close hangs, the owner goroutine of a registered connection has not ended, or
\* a Close is between the end of the worker and RemoveConnectInfo.
THEOREM AttendedCorrect == Spec => []Attended
<1>1. IInv /\ SInv => Attended
  BY DEF IInv, SInv, ConnInv, StartedInv, TermInv, Attended
<1>2. IInv /\ SInv /\ [Next]_vars => SInv'
  BY SInvStep
<1> QED BY SInvInit, <1>1, <1>2, IInvCorrect, PTL DEF Spec

\* What CloseReturns rests on: service.Terminate blocks Close for ever only on a
\* connection whose service is started after it was registered.
NoneHangs == \A k \in Closers : kpc[k] = "hung" => ~StartsFirst(kc[k])

LEMMA NoneHangsStep == IInv /\ SInv /\ NoneHangs /\ [Next]_vars => NoneHangs'
<1> SUFFICES ASSUME IInv, SInv, NoneHangs, [Next]_vars, NEW j \in Closers, kpc'[j] = "hung"
             PROVE  ~StartsFirst(kc'[j])
  BY DEF NoneHangs, StartsFirst, IsWs
<1>t. TypeOK
  BY DEF IInv
<1>h. kpc[j] = "hung" => ~StartsFirst(kc[j])
  BY DEF NoneHangs
<1>1. ASSUME NEW c \in Conns, OwnStep(c) PROVE ~StartsFirst(kc'[j])
  BY <1>1, <1>t, <1>h, OwnFrame
<1>2. ASSUME NEW k \in Closers, NEW n \in Nodes, CloseLookup(k, n) PROVE ~StartsFirst(kc'[j])
  BY <1>2, <1>t, <1>h DEF CloseLookup, CloserGoTo, TypeOK
<1>3. ASSUME NEW k \in Closers, CloseTerminate(k) PROVE ~StartsFirst(kc'[j])
  <2>1. kc' = kc /\ (kpc'[j] = kpc[j] \/ (j = k /\ signal[kc[k]] = "nil"))
    BY <1>3, <1>t DEF CloseTerminate, CloserGoTo, TypeOK
  <2>2. kc[k] \in Conns /\ pc[kc[k]] # "idle"
    BY <1>3, <1>t DEF CloseTerminate, IInv, CloserInv, EarlyPcs, TypeOK
  <2>3. signal[kc[k]] = "nil" => ~StartsFirst(kc[k])
    BY <2>2 DEF SInv, StartedInv
  <2> QED BY <1>h, <2>1, <2>3
<1>4. ASSUME NEW k \in Closers, CloseEvent(k) \/ CloseRemove(k) \/ CloseSock(k)
      PROVE  ~StartsFirst(kc'[j])
  BY <1>4, <1>t, <1>h DEF CloseEvent, CloseRemove, CloseSock, CloserGoTo, TypeOK
<1>5. CASE UNCHANGED vars
  BY <1>5, <1>h DEF vars
<1> QED BY <1>1, <1>2, <1>3, <1>4, <1>5 DEF Next, OwnStep, Closing

\* Close is never stuck on an accepted TCP or KCP connection, at whatever moment
\* of the connection's life it comes and however many other Close calls run.
THEOREM NoneHangsCorrect == Spec => []NoneHangs
<1>1. Init => NoneHangs
  BY DEF Init, NoneHangs
<1>2. IInv /\ SInv /\ [Next]_vars => SInv'
  BY SInvStep
<1>3. IInv /\ SInv /\ NoneHangs /\ [Next]_vars => NoneHangs'
  BY NoneHangsStep
<1> QED BY SInvInit, <1>1, <1>2, <1>3, IInvCorrect, PTL DEF Spec
-----------------------------------------------------------------------------
(* Which sockets are closed while their connection is registered.          *)

\* Before AddConnectInfo the socket is open.  (A WebSocket packet of a
\* connection without an id does not occur, and does not matter.)
Unchecked(c) == \/ pc[c] \in {"hs", "check", "add"}
                \/ pc[c] = "pkt" /\ nid[c] = None /\ ~IsWs(c)

\* A closed signal stems from the end of the worker, after onError has removed
\* the connection, or from a Close that will remove it.
ClosedInv(c) ==
    signal[c] = "closed" => /\ pc[c] \notin EarlyPcs
                            /\ vk[c] = None \/ Leaving(c)
                            /\ nid[c] = None => term[c] = TRUE /\ pc[c] \in {"loop", "done"}

OpenInv(c) ==
    /\ ClosedInv(c)
    /\ Unchecked(c) => sock[c] = "open"
    /\ vk[c] # None /\ sock[c] # "open" => IsWs(c) /\ c \notin Dialled /\ Leaving(c)

LEMMA OpenInit == Init => \A c \in Conns : OpenInv(c)
  BY DEF Init, OpenInv, ClosedInv, Unchecked

LEMMA OpenOwn ==
    ASSUME IInv, NEW c \in Conns, StartedInv(c), TermInv(c), OpenInv(c), OwnStep(c)
    PROVE  OpenInv(c)'
<1>t. /\ TypeOK /\ ConnInv(c) /\ \A k \in Closers : CloserInv(k)
      /\ UNCHANGED <<kpc, kc>>
  BY OwnFrame DEF IInv
<1>l. Leaving(c)' <=> Leaving(c)
  BY <1>t DEF Leaving
<1>a. pc[c] \in EarlyPcs => vk[c] = None
  BY <1>t DEF ConnInv
<1> HIDE DEF Leaving
<1> USE <1>t, <1>l, <1>a
    DEF TypeOK, ConnInv, StartedInv, OpenInv, ClosedInv, Unchecked, EarlyPcs, NidPcs, ErrorPcs,
        ConnPcs, RetPcs, tables, worker, closer, GoTo, GoToError, ReturnFromError,
        AfterConn, IsWs, RemoveConnectInfo, Terminate, AwaitsOrigin, Silent, Emit
<1>1. CASE Opening(c)
  BY <1>1 DEF Opening, Accept, Dial, TermInv, UnstartedPcs
<1>2. CASE DialOk(c) \/ DialFail(c) \/ HandShakeOk(c) \/ HandShakeFail(c)
  BY <1>2 DEF DialOk, DialFail, HandShakeOk, HandShakeFail
<1>3. CASE HandShakeIn(c)
  BY <1>3 DEF HandShakeIn, HandShakeAccept, HandShakeReject, HandShakePanic
<1>4. CASE Register(c)
  BY <1>4 DEF Register
<1>5. CASE Announce(c) \/ StartWorker(c) \/ Boot(c) \/ Loop(c)
  BY <1>5 DEF Announce, StartWorker, Boot, Loop
<1>6. CASE ReadError(c) \/ ReadEmpty(c) \/ ReadData(c)
  BY <1>6 DEF ReadError, ReadEmpty, ReadData
<1>7. CASE Packet(c) \/ Message(c) \/ More(c)
  BY <1>7 DEF Packet, Message, More
<1>8. CASE OnError(c)
  BY <1>8 DEF OnError
<1>9. CASE OnCloseEvent(c) \/ OnCloseRemove(c) \/ OnCloseSock(c)
  BY <1>9 DEF OnCloseEvent, OnCloseRemove, OnCloseSock
<1>10. CASE TerminateSelf(c)
  BY <1>10 DEF TerminateSelf
<1>11. CASE HandlerReturn(c)
  BY <1>11 DEF HandlerReturn, Released
<1>12. CASE RemoteClose(c) \/ Collect(c)
  BY <1>12 DEF RemoteClose, Collect
<1> QED BY <1>1, <1>2, <1>3, <1>4, <1>5, <1>6, <1>7, <1>8, <1>9, <1>10, <1>11, <1>12
        DEF OwnStep, Advance, Handling

\* A step that disturbs nothing of d, but may bring another Close to it.
LEMMA OpenFrame ==
    ASSUME NEW d \in Conns, OpenInv(d), Leaving(d) => Leaving(d)',
           pc'[d] = pc[d], vk'[d] = vk[d] \/ vk'[d] = None, nid'[d] = nid[d],
           term'[d] = term[d], signal'[d] = signal[d], sock'[d] = sock[d]
    PROVE  OpenInv(d)'
  BY DEF OpenInv, ClosedInv, Unchecked, IsWs

LEMMA OpenStep ==
    ASSUME IInv, SInv, \A c \in Conns : OpenInv(c), [Next]_vars, NEW d \in Conns
    PROVE  OpenInv(d)'
<1>d. OpenInv(d) /\ TypeOK /\ ConnInv(d)
  BY DEF IInv
<1>1. ASSUME NEW c \in Conns, OwnStep(c) PROVE OpenInv(d)'
  <2>1. CASE c = d
    BY <1>1, <1>d, <2>1, OpenOwn DEF SInv
  <2>2. CASE c # d
    <3>1. Leaving(d) => Leaving(d)'
      BY <1>1, <1>d, OwnFrame DEF Leaving
    <3> QED BY <1>1, <1>d, <2>2, <3>1, OwnFrame, OpenFrame
  <2> QED BY <2>1, <2>2
<1>2. ASSUME NEW k \in Closers, NEW n \in Nodes, CloseLookup(k, n) PROVE OpenInv(d)'
  <2>1. /\ UNCHANGED <<pc, vk, nid, term, signal, sock>> /\ kpc[k] = "idle"
        /\ \A j \in Closers \ {k} : kpc'[j] = kpc[j] /\ kc'[j] = kc[j]
    BY <1>2, <1>d DEF CloseLookup, CloserGoTo, TypeOK, tables, worker
  <2>2. Leaving(d) => Leaving(d)'
    BY <2>1 DEF Leaving
  <2> QED BY <1>d, <2>1, <2>2, OpenFrame
<1>3. ASSUME NEW k \in Closers, CloseTerminate(k) PROVE OpenInv(d)'
  <2>0. /\ kc[k] \in Conns /\ kpc[k] = "term"
        /\ pc[kc[k]] \notin EarlyPcs /\ nid[kc[k]] # None
    BY <1>3 DEF CloseTerminate, IInv, CloserInv, TypeOK
  <2>1. /\ UNCHANGED <<pc, vk, nid, sock, kc>>
        /\ \A j \in Closers \ {k} : kpc'[j] = kpc[j]
    BY <1>3, <1>d DEF CloseTerminate, CloserGoTo, TypeOK, tables
  <2>2. Leaving(d) => Leaving(d)'
    BY <2>0, <2>1 DEF Leaving
  <2>4. CASE kc[k] # d
    <3>1. term'[d] = term[d] /\ signal'[d] = signal[d]
      BY <1>3, <1>d, <2>0, <2>4 DEF CloseTerminate, Terminate, TypeOK
    <3> QED BY <1>d, <2>1, <2>2, <3>1, OpenFrame
  <2>5. CASE kc[k] = d /\ signal[d] = "nil" /\ ~killing[d]
    <3>1. signal'[d] = "nil"
      BY <1>3, <2>5 DEF CloseTerminate
    <3> QED BY <1>d, <2>1, <2>2, <3>1 DEF OpenInv, ClosedInv, Unchecked, IsWs
  <2>6. CASE kc[k] = d /\ ~(signal[d] = "nil" /\ ~killing[d])
    <3>1. kpc'[k] = "ev"
      BY <1>3, <1>d, <2>6 DEF CloseTerminate, CloserGoTo, TypeOK
    <3>2. Leaving(d)'
      BY <2>1, <2>6, <3>1 DEF Leaving
    <3> QED BY <1>d, <2>0, <2>1, <2>6, <3>2 DEF OpenInv, ClosedInv, Unchecked, IsWs
  <2> QED BY <2>4, <2>5, <2>6
<1>4. ASSUME NEW k \in Closers, CloseEvent(k) PROVE OpenInv(d)'
  <2>1. /\ UNCHANGED <<pc, vk, nid, term, signal, sock, kc>> /\ kpc'[k] = "rm"
        /\ \A j \in Closers \ {k} : kpc'[j] = kpc[j]
    BY <1>4, <1>d DEF CloseEvent, CloserGoTo, TypeOK, tables, worker
  <2>2. Leaving(d) => Leaving(d)'
    BY <2>1 DEF Leaving
  <2> QED BY <1>d, <2>1, <2>2, OpenFrame
<1>5. ASSUME NEW k \in Closers, CloseRemove(k) PROVE OpenInv(d)'
  <2>1. /\ UNCHANGED <<pc, nid, term, signal, sock, kc>> /\ kc[k] \in Conns
        /\ \A j \in Closers \ {k} : kpc'[j] = kpc[j]
        /\ vk' = [vk EXCEPT ![kc[k]] = None]
    BY <1>5, <1>d DEF CloseRemove, CloserGoTo, RemoveConnectInfo, TypeOK, worker, IInv, CloserInv
  <2>2. CASE kc[k] = d
    <3>1. vk'[d] = None
      BY <1>d, <2>1, <2>2 DEF TypeOK
    <3> QED BY <1>d, <2>1, <3>1 DEF OpenInv, ClosedInv, Unchecked, IsWs
  <2>3. CASE kc[k] # d
    <3>1. vk'[d] = vk[d]
      BY <1>d, <2>1, <2>3 DEF TypeOK
    <3>2. Leaving(d) => Leaving(d)'
      BY <2>1, <2>3 DEF Leaving
    <3> QED BY <1>d, <2>1, <3>1, <3>2, OpenFrame
  <2> QED BY <2>2, <2>3
<1>6. ASSUME NEW k \in Closers, CloseSock(k) PROVE OpenInv(d)'
  <2>1. /\ UNCHANGED <<pc, vk, nid, term, signal>> /\ kpc[k] = "sock"
        /\ \A j \in Closers \ {k} : kpc'[j] = kpc[j] /\ kc'[j] = kc[j]
        /\ sock' = [sock EXCEPT ![kc[k]] = "closed"]
    BY <1>6, <1>d DEF CloseSock, CloserGoTo, TypeOK, tables, worker
  <2>2. Leaving(d) => Leaving(d)'
    BY <2>1 DEF Leaving
  <2>3. CASE kc[k] = d
    <3>1. vk[d] = None /\ nid[d] # None /\ pc[d] \notin EarlyPcs
      BY <2>1, <2>3 DEF IInv, CloserInv
    <3>2. ~Unchecked(d)'
      BY <2>1, <3>1, <1>d DEF Unchecked, EarlyPcs, TypeOK
    <3> QED BY <1>d, <2>1, <2>2, <3>1, <3>2 DEF OpenInv, ClosedInv
  <2>4. CASE kc[k] # d
    <3>1. sock'[d] = sock[d]
      BY <1>d, <2>1, <2>4 DEF TypeOK
    <3> QED BY <1>d, <2>1, <2>2, <3>1, OpenFrame
  <2> QED BY <2>3, <2>4
<1>7. CASE UNCHANGED vars
  <2>1. Leaving(d) => Leaving(d)'
    BY <1>7 DEF vars, Leaving
  <2> QED BY <1>7, <1>d, <2>1, OpenFrame DEF vars
<1> QED BY <1>1, <1>2, <1>3, <1>4, <1>5, <1>6, <1>7 DEF Next, OwnStep, Closing

\* A registered connection is open at this end, but for an accepted WebSocket
\* whose Close has told its worker to end and has yet to remove it: however the
\* workers, the handlers that return and any number of Close calls interleave.
THEOREM OpenWhileRegisteredCorrect == Spec => []OpenWhileRegistered
<1> DEFINE Open == \A c \in Conns : OpenInv(c)
<1>1. Open => OpenWhileRegistered
  BY DEF OpenInv, OpenWhileRegistered, Leaving
<1>2. IInv /\ SInv /\ [Next]_vars => SInv'
  BY SInvStep
<1>3. IInv /\ SInv /\ Open /\ [Next]_vars => Open'
  BY OpenStep
<1>4. Init => Open
  BY OpenInit
<1> HIDE DEF Open
<1> QED BY SInvInit, <1>1, <1>2, <1>3, <1>4, IInvCorrect, PTL DEF Spec
=============================================================================
