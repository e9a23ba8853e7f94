-------------------------------- MODULE Nets --------------------------------
(***************************************************************************)
(* Connection life cycle of one node: the ConnectManager tables, the TCP,  *)
(* KCP and WebSocket workers' handlers (nets/), and the calls of           *)
(* silvernode.go that drive them (Connect, Close, onCheckNode).            *)
(*                                                                         *)
(* pc[c] is the goroutine that owns connection c: first the caller of      *)
(* Connect or the accept handler, then the worker's service loop.  Each    *)
(* step holds the ConnectManager lock at most once, so every place where   *)
(* another goroutine can run between two table accesses is a step          *)
(* boundary.  A closer is a goroutine that calls silvernode.Close.         *)
(***************************************************************************)
CONSTANTS Nodes,      \* node ids, as keys of ConnectManager.kv
          Inner,      \* ids the registry knows
          GuestOf,    \* inner id |-> "!guest#" + id
          Fresh,      \* "!guest#" + snowflake ids
          Blank,      \* the id "" given to an origin already prefixed "!guest"
          Alias,      \* inner id |-> id@proto+port, for a second url
          Conns,      \* net.Conn handles
          Proto,      \* protocol of each handle
          Dialled,    \* handles made by Connect; the others are accepted
          Closers,    \* goroutines that call silvernode.Close
          IsPub,      \* NodeInfo.IsPub of this node
          None

Outer == Nodes \ Inner

ASSUME NodesAssumption ==
    /\ Inner \subseteq Nodes
    /\ GuestOf \in [Inner -> Outer]
    /\ Alias \in [Inner -> Outer]
    /\ Fresh \subseteq Outer
    /\ Blank \in Outer
ASSUME ConnsAssumption ==
    /\ Proto \in [Conns -> {"tcp", "udp", "ws"}]
    /\ Dialled \subseteq Conns
    /\ IsPub \in BOOLEAN
    /\ None \notin Nodes
    /\ None \notin Conns

VARIABLES kv,         \* ConnectManager.kv: node id |-> its connection
          vk,         \* ConnectManager.vk: connection |-> node id
          sock,       \* this end of the connection: "none", "open", "closed"
          rclosed,    \* the remote end closed and all its data was read
          nid,        \* the id given to AddConnectInfo for this connection
          pc,         \* where the owner goroutine of the connection is
          ret,        \* where it goes on after onError returns
          killing,    \* service.killing of the connection's worker
          term,       \* scheduler.terminated of that worker
          signal,     \* service.signal: "nil", "open", "closed"
          kpc,        \* where a closer is
          kc,         \* the connection its ConnectInfo holds
          event       \* the NetEventListener call the last step made

tables == <<kv, vk>>
worker == <<killing, term, signal>>
closer == <<kpc, kc>>
vars == <<kv, vk, sock, rclosed, nid, pc, ret, killing, term, signal,
          kpc, kc, event>>

ConnPcs == {"idle", "dial", "hs", "check", "add", "announce", "start", "boot",
            "loop", "read", "pkt", "msg", "more", "err", "cl_ev", "cl_rm",
            "cl_sock", "term", "done", "leaked"}
RetPcs == {"loop", "more", "start", "term", "done"}
CloserPcs == {"idle", "term", "ev", "rm", "sock", "hung"}

NoEvent == [call |-> "none"]
Event(call, n) == [call |-> call, node |-> n]
Events == {NoEvent} \cup
          [call : {"OnConnect", "OnMessage", "OnClose"}, node : Nodes]

TypeOK ==
    /\ kv \in [Nodes -> Conns \cup {None}]
    /\ vk \in [Conns -> Nodes \cup {None}]
    /\ sock \in [Conns -> {"none", "open", "closed"}]
    /\ rclosed \in [Conns -> BOOLEAN]
    /\ nid \in [Conns -> Nodes \cup {None}]
    /\ pc \in [Conns -> ConnPcs]
    /\ ret \in [Conns -> RetPcs]
    /\ killing \in [Conns -> BOOLEAN]
    /\ term \in [Conns -> BOOLEAN]
    /\ signal \in [Conns -> {"nil", "open", "closed"}]
    /\ kpc \in [Closers -> CloserPcs]
    /\ kc \in [Closers -> Conns \cup {None}]
    /\ event \in Events

Init ==
    /\ kv = [n \in Nodes |-> None]
    /\ vk = [c \in Conns |-> None]
    /\ sock = [c \in Conns |-> "none"]
    /\ rclosed = [c \in Conns |-> FALSE]
    /\ nid = [c \in Conns |-> None]
    /\ pc = [c \in Conns |-> "idle"]
    /\ ret = [c \in Conns |-> "loop"]
    /\ killing = [c \in Conns |-> FALSE]
    /\ term = [c \in Conns |-> FALSE]
    /\ signal = [c \in Conns |-> "nil"]
    /\ kpc = [k \in Closers |-> "idle"]
    /\ kc = [k \in Closers |-> None]
    /\ event = NoEvent

-----------------------------------------------------------------------------
(* Shared pieces of the handlers.                                          *)

IsWs(c) == Proto[c] = "ws"

\* The receive buffer is freed by the recycle function of a terminated worker.
Disposed(c) == signal[c] = "closed" /\ ~IsWs(c)

\* The goroutine of an accepted WebSocket is let out of worker.Sync() as soon
\* as Terminate sends on the signal.
Released(c) == IsWs(c) /\ c \notin Dialled /\ signal[c] = "closed"

GoTo(c, p) == pc' = [pc EXCEPT ![c] = p]
GoToError(c, back) == GoTo(c, "err") /\ ret' = [ret EXCEPT ![c] = back]
ReturnFromError(c) == GoTo(c, ret[c]) /\ ret' = [ret EXCEPT ![c] = "loop"]
Emit(call, n) == event' = Event(call, n)
Silent == event' = NoEvent

\* What runs in the owner goroutine after onConn: the rest of Connect or of
\* the WebSocket handler, or the packet loop dealHandShake was called from.
AfterConn(c) == IF c \in Dialled \/ IsWs(c) THEN "start"
                ELSE IF Proto[c] = "tcp" THEN "more" ELSE "loop"

\* Mutant: only one of the two tables is cleaned.
RemoveConnectInfo_vkOnly(n, c) == UNCHANGED kv /\ vk' = [vk EXCEPT ![c] = None]

\* Both deletions of RemoveConnectInfo are unconditional on the other table.
RemoveConnectInfo(n, c) ==
    /\ kv' = [kv EXCEPT ![n] = None]
    /\ vk' = [vk EXCEPT ![c] = None]

\* service.Terminate in one step, for a started service: its inner steps are
\* interleaved in module Service.
Terminate(c) ==
    /\ killing' = [killing EXCEPT ![c] = TRUE]
    /\ term' = [term EXCEPT ![c] = IF killing[c] THEN @ ELSE TRUE]
    /\ signal' = [signal EXCEPT ![c] = IF killing[c] THEN @ ELSE "closed"]

Verdicts == {"valid", "mismatch", "failed", "unparsable"}

\* The node ids an origin may carry: registered ones, and "!guest" ones.
Origins == Inner \cup Fresh

\* onCheckNode: the ids an origin that names node o may be given; the empty
\* set is an error.  A verdict is the outcome of ParseOriginInfo and of the
\* registry's CheckNodeSig.
onCheckNode(o, verdict) ==
    CASE verdict = "failed" -> {}
      [] verdict = "valid" -> IF o \in Inner /\ kv[o] = None THEN {o} ELSE {}
      [] verdict = "mismatch" ->
            IF ~IsPub THEN {} ELSE IF o \in Inner THEN {GuestOf[o]} ELSE {Blank}
      [] verdict = "unparsable" ->
            IF ~IsPub THEN {}
            ELSE {g \in Fresh : kv[g] = None /\ \A d \in Conns : nid[d] # g}
-----------------------------------------------------------------------------
(* Connect, and the two handshakes.                                        *)

\* silvernode.Connect: a node that is connected through another url is dialled
\* under an alias.
Dial(c, n, sameUrl) ==
    /\ c \in Dialled /\ pc[c] = "idle"
    /\ ~(kv[n] # None /\ sameUrl)
    /\ nid' = [nid EXCEPT ![c] = IF kv[n] = None THEN n ELSE Alias[n]]
    /\ GoTo(c, "dial") /\ Silent
    /\ UNCHANGED <<tables, sock, rclosed, ret, worker, closer>>

\* KcpNetWorker.Connect trims the characters of "kcp://" off an "udp://" url,
\* which leaves it whole, and dials "udp:": that never resolves.
DialOk(c) ==
    /\ pc[c] = "dial" /\ Proto[c] # "udp"
    /\ sock' = [sock EXCEPT ![c] = "open"]
    /\ GoTo(c, IF IsWs(c) THEN "add" ELSE "hs") /\ Silent
    /\ UNCHANGED <<tables, rclosed, nid, ret, worker, closer>>

DialFail(c) ==
    /\ pc[c] = "dial"
    /\ nid' = [nid EXCEPT ![c] = None]
    /\ GoTo(c, "idle") /\ Silent
    /\ UNCHANGED <<tables, sock, rclosed, ret, worker, closer>>

\* doHandShake got "#hsuc".
HandShakeOk(c) ==
    /\ pc[c] = "hs" /\ ~rclosed[c]
    /\ GoTo(c, "add") /\ Silent
    /\ UNCHANGED <<tables, sock, rclosed, nid, ret, worker, closer>>

\* doHandShake failed (6 s deadline, end of stream, wrong answer): Connect
\* returns the error and leaves the socket open.
HandShakeFail(c) ==
    /\ pc[c] = "hs"
    /\ GoTo(c, "leaked") /\ Silent
    /\ UNCHANGED <<tables, sock, rclosed, nid, ret, worker, closer>>

\* Mutant: the service is started after the handler has registered.
Accept_late(c) ==
    /\ c \notin Dialled /\ pc[c] = "idle"
    /\ sock' = [sock EXCEPT ![c] = "open"]
    /\ GoTo(c, IF IsWs(c) THEN "check" ELSE "boot") /\ Silent
    /\ UNCHANGED <<tables, rclosed, nid, ret, worker, closer>>

\* Listen's accept loop; the TCP and KCP workers start the service at once.
Accept(c) ==
    /\ c \notin Dialled /\ pc[c] = "idle"
    /\ sock' = [sock EXCEPT ![c] = "open"]
    /\ signal' = [signal EXCEPT ![c] = IF IsWs(c) THEN @ ELSE "open"]
    /\ GoTo(c, IF IsWs(c) THEN "check" ELSE "boot") /\ Silent
    /\ UNCHANGED <<tables, rclosed, nid, ret, killing, term, closer>>

\* A WebSocket request, or the first packet of an unknown connection.
AwaitsOrigin(c) ==
    \/ pc[c] = "check"
    \/ pc[c] = "pkt" /\ vk[c] = None /\ ~IsWs(c) /\ nid[c] = None

\* dealHandShake and h_webSocket, an origin that is accepted.
HandShakeAccept(c, o, verdict) ==
    /\ AwaitsOrigin(c)
    /\ \E n \in onCheckNode(o, verdict) : nid' = [nid EXCEPT ![c] = n]
    /\ GoTo(c, "add") /\ Silent
    /\ UNCHANGED <<tables, sock, rclosed, ret, worker, closer>>

\* The origin is missing or rejected: onError, and TCP leaves the packet loop.
HandShakeReject(c) ==
    /\ AwaitsOrigin(c)
    /\ GoToError(c, IF IsWs(c) THEN "done" ELSE "loop") /\ Silent
    /\ UNCHANGED <<tables, sock, rclosed, nid, worker, closer>>

\* errutil.Extend is given a nil error and panics: dealHandShake does so when
\* "#hsuc" cannot be written, the registry when an instance lacks its "info".
\* No onError: the scheduler's Try recovers, the socket stays open and the loop
\* goes on; of a WebSocket net/http recovers and closes the connection.
HandShakePanic(c) ==
    /\ AwaitsOrigin(c)
    /\ \/ ~IsWs(c) /\ GoTo(c, "loop") /\ UNCHANGED sock
       \/ IsWs(c) /\ GoTo(c, "done") /\ sock' = [sock EXCEPT ![c] = "closed"]
    /\ Silent
    /\ UNCHANGED <<tables, rclosed, nid, ret, worker, closer>>

\* Mutant: AddConnectInfo does not look for the id.
Register_unchecked(c) ==
    /\ pc[c] = "add"
    /\ kv' = [kv EXCEPT ![nid[c]] = c]
    /\ vk' = [vk EXCEPT ![c] = nid[c]]
    /\ GoTo(c, "announce") /\ Silent
    /\ UNCHANGED <<sock, rclosed, nid, ret, worker, closer>>

\* onConn, first half: AddConnectInfo.
Register(c) ==
    /\ pc[c] = "add"
    /\ IF kv[nid[c]] = None /\ vk[c] = None
         THEN /\ kv' = [kv EXCEPT ![nid[c]] = c]
              /\ vk' = [vk EXCEPT ![c] = nid[c]]
              /\ GoTo(c, "announce") /\ UNCHANGED ret
         ELSE GoToError(c, AfterConn(c)) /\ UNCHANGED tables
    /\ Silent
    /\ UNCHANGED <<sock, rclosed, nid, worker, closer>>

\* onConn, second half: the OnConnect event.
Announce(c) ==
    /\ pc[c] = "announce"
    /\ Emit("OnConnect", nid[c]) /\ GoTo(c, AfterConn(c))
    /\ UNCHANGED <<tables, sock, rclosed, nid, ret, worker, closer>>
-----------------------------------------------------------------------------
(* The worker's service loop, and the WebSocket handler behind it.         *)

\* service.Start, then the first statement of the new goroutine.
StartWorker(c) ==
    /\ pc[c] = "start"
    /\ signal' = [signal EXCEPT ![c] = "open"]
    /\ GoTo(c, "boot") /\ Silent
    /\ UNCHANGED <<tables, sock, rclosed, nid, ret, killing, term, closer>>

Boot(c) ==
    /\ pc[c] = "boot"
    /\ term' = [term EXCEPT ![c] = FALSE]
    /\ GoTo(c, "loop") /\ Silent
    /\ UNCHANGED <<tables, sock, rclosed, nid, ret, killing, signal, closer>>

Loop(c) ==
    /\ pc[c] = "loop"
    /\ GoTo(c, IF term[c] THEN "done" ELSE "read") /\ Silent
    /\ UNCHANGED <<tables, sock, rclosed, nid, ret, worker, closer>>

\* h_webSocket returns from worker.Sync(), and the WebSocket server closes the
\* connection of a handler that has returned, registered or not.
HandlerReturn(c) ==
    /\ Released(c) /\ sock[c] = "open"
    /\ sock' = [sock EXCEPT ![c] = "closed"] /\ Silent
    /\ UNCHANGED <<tables, rclosed, nid, pc, ret, worker, closer>>

\* Data that arrives in a disposed buffer makes the handler panic; the
\* scheduler's Try recovers.  A KCP read that began after that gets nothing.
ReadData(c) ==
    /\ pc[c] = "read" /\ sock[c] = "open" /\ ~rclosed[c]
    /\ \/ GoTo(c, IF Disposed(c) THEN "loop" ELSE "pkt") /\ UNCHANGED ret
       \/ Disposed(c) /\ Proto[c] = "udp" /\ GoToError(c, "loop")
    /\ Silent
    /\ UNCHANGED <<tables, sock, rclosed, nid, worker, closer>>

\* Mutant: a read error ends the worker without onError.
ReadError_silent(c) ==
    /\ pc[c] = "read" /\ (sock[c] = "closed" \/ rclosed[c])
    /\ GoTo(c, "term") /\ Silent
    /\ UNCHANGED <<tables, sock, rclosed, nid, ret, worker, closer>>

ReadError(c) ==
    /\ pc[c] = "read" /\ (sock[c] = "closed" \/ rclosed[c])
    /\ GoToError(c, "term") /\ Silent
    /\ UNCHANGED <<tables, sock, rclosed, nid, worker, closer>>

\* A TCP read into a disposed buffer returns at once, with no data and no error.
ReadEmpty(c) ==
    /\ pc[c] = "read" /\ sock[c] = "open" /\ Disposed(c) /\ Proto[c] = "tcp"
    /\ GoToError(c, "loop") /\ Silent
    /\ UNCHANGED <<tables, sock, rclosed, nid, worker, closer>>

\* GetNodeIdByConn for a packet.  A packet of a connection that was removed
\* is taken for a handshake and fails to parse; WebSocket drops it.  When a
\* Terminate has disposed of the buffer since the read, slicing it panics; over
\* an empty message CheckPingPong panics.
Packet(c) ==
    /\ pc[c] = "pkt" /\ ~AwaitsOrigin(c)
    /\ \/ vk[c] # None /\ GoTo(c, "msg") /\ UNCHANGED ret
       \/ vk[c] = None /\ IsWs(c) /\ GoTo(c, "loop") /\ UNCHANGED ret
       \/ vk[c] = None /\ ~IsWs(c) /\ GoToError(c, "loop")
       \/ (vk[c] # None \/ Disposed(c)) /\ GoTo(c, "loop") /\ UNCHANGED ret
    /\ Silent
    /\ UNCHANGED <<tables, sock, rclosed, nid, worker, closer>>

Message(c) ==
    /\ pc[c] = "msg"
    /\ Emit("OnMessage", nid[c])
    /\ GoTo(c, IF Proto[c] = "tcp" THEN "more" ELSE "loop")
    /\ UNCHANGED <<tables, sock, rclosed, nid, ret, worker, closer>>

\* The TCP packet loop goes on while the buffer holds another packet, without
\* looking at scheduler.terminated.
More(c) ==
    /\ pc[c] = "more"
    /\ \/ ~rclosed[c] /\ ~Disposed(c) /\ GoTo(c, "pkt")
       \/ GoTo(c, "loop")
    /\ Silent
    /\ UNCHANGED <<tables, sock, rclosed, nid, ret, worker, closer>>

\* Mutant: a registered connection is removed without the OnClose event.
OnError_noEvent(c) ==
    /\ pc[c] = "err"
    /\ IF vk[c] # None THEN GoTo(c, "cl_rm") /\ UNCHANGED <<ret, sock>>
       ELSE ReturnFromError(c) /\ sock' = [sock EXCEPT ![c] = "closed"]
    /\ Silent
    /\ UNCHANGED <<tables, rclosed, nid, worker, closer>>

\* Mutant: the socket is closed before the tables are cleaned.
OnError_closeFirst(c) ==
    /\ pc[c] = "err"
    /\ sock' = [sock EXCEPT ![c] = "closed"]
    /\ IF vk[c] # None THEN GoTo(c, "cl_ev") /\ UNCHANGED ret
       ELSE ReturnFromError(c)
    /\ Silent
    /\ UNCHANGED <<tables, rclosed, nid, worker, closer>>

\* onError: a registered connection goes through onClose.
OnError(c) ==
    /\ pc[c] = "err"
    /\ IF vk[c] # None THEN GoTo(c, "cl_ev") /\ UNCHANGED <<ret, sock>>
       ELSE ReturnFromError(c) /\ sock' = [sock EXCEPT ![c] = "closed"]
    /\ Silent
    /\ UNCHANGED <<tables, rclosed, nid, worker, closer>>

\* onClose: the event, the tables, the socket.
OnCloseEvent(c) ==
    /\ pc[c] = "cl_ev"
    /\ Emit("OnClose", nid[c]) /\ GoTo(c, "cl_rm")
    /\ UNCHANGED <<tables, sock, rclosed, nid, ret, worker, closer>>

OnCloseRemove(c) ==
    /\ pc[c] = "cl_rm"
    /\ RemoveConnectInfo(nid[c], c) /\ GoTo(c, "cl_sock") /\ Silent
    /\ UNCHANGED <<sock, rclosed, nid, ret, worker, closer>>

OnCloseSock(c) ==
    /\ pc[c] = "cl_sock"
    /\ sock' = [sock EXCEPT ![c] = "closed"]
    /\ ReturnFromError(c) /\ Silent
    /\ UNCHANGED <<tables, rclosed, nid, worker, closer>>

\* Mutant: the worker is not terminated after a read error.
TerminateSelf_missing(c) ==
    /\ pc[c] = "term"
    /\ GoTo(c, "loop") /\ Silent
    /\ UNCHANGED <<tables, sock, rclosed, nid, ret, worker, closer>>

\* worker.Terminate() after a read error.
TerminateSelf(c) ==
    /\ pc[c] = "term"
    /\ Terminate(c) /\ GoTo(c, "loop") /\ Silent
    /\ UNCHANGED <<tables, sock, rclosed, nid, ret, closer>>
-----------------------------------------------------------------------------
(* silvernode.Close and ConnectInfo.Close.                                 *)

CloserGoTo(k, p) == kpc' = [kpc EXCEPT ![k] = p]

CloseLookup(k, n) ==
    /\ kpc[k] = "idle" /\ kv[n] # None
    /\ kc' = [kc EXCEPT ![k] = kv[n]] /\ CloserGoTo(k, "term") /\ Silent
    /\ UNCHANGED <<tables, sock, rclosed, nid, pc, ret, worker>>

\* Terminating a worker that has not been started blocks for ever.
CloseTerminate(k) ==
    /\ kpc[k] = "term"
    /\ LET c == kc[k] IN
         IF signal[c] = "nil" /\ ~killing[c]
           THEN /\ killing' = [killing EXCEPT ![c] = TRUE]
                /\ term' = [term EXCEPT ![c] = TRUE]
                /\ CloserGoTo(k, "hung") /\ UNCHANGED signal
           ELSE Terminate(c) /\ CloserGoTo(k, "ev")
    /\ Silent
    /\ UNCHANGED <<tables, sock, rclosed, nid, pc, ret, kc>>

CloseEvent(k) ==
    /\ kpc[k] = "ev"
    /\ Emit("OnClose", nid[kc[k]]) /\ CloserGoTo(k, "rm")
    /\ UNCHANGED <<tables, sock, rclosed, nid, pc, ret, worker, kc>>

CloseRemove(k) ==
    /\ kpc[k] = "rm"
    /\ RemoveConnectInfo(nid[kc[k]], kc[k]) /\ CloserGoTo(k, "sock") /\ Silent
    /\ UNCHANGED <<sock, rclosed, nid, pc, ret, worker, kc>>

CloseSock(k) ==
    /\ kpc[k] = "sock"
    /\ sock' = [sock EXCEPT ![kc[k]] = "closed"]
    /\ kc' = [kc EXCEPT ![k] = None] /\ CloserGoTo(k, "idle") /\ Silent
    /\ UNCHANGED <<tables, rclosed, nid, pc, ret, worker>>
-----------------------------------------------------------------------------
(* The environment.                                                        *)

\* Of KCP's end nothing is heard: the heartbeat that would tell is not started.
RemoteClose(c) ==
    /\ sock[c] = "open" /\ ~rclosed[c] /\ Proto[c] # "udp"
    /\ rclosed' = [rclosed EXCEPT ![c] = TRUE] /\ Silent
    /\ UNCHANGED <<tables, sock, nid, pc, ret, worker, closer>>

\* The garbage collector takes a handle nobody refers to; its finalizer closes
\* a leaked socket.  The handle then stands for a new connection.
Collect(c) ==
    /\ pc[c] \in {"done", "leaked"} /\ vk[c] = None
    /\ ~(Released(c) /\ sock[c] = "open")
    /\ \A k \in Closers : kc[k] # c
    /\ sock' = [sock EXCEPT ![c] = "none"]
    /\ rclosed' = [rclosed EXCEPT ![c] = FALSE]
    /\ nid' = [nid EXCEPT ![c] = None]
    /\ GoTo(c, "idle") /\ ret' = [ret EXCEPT ![c] = "loop"]
    /\ killing' = [killing EXCEPT ![c] = FALSE]
    /\ term' = [term EXCEPT ![c] = FALSE]
    /\ signal' = [signal EXCEPT ![c] = "nil"] /\ Silent
    /\ UNCHANGED <<tables, closer>>
-----------------------------------------------------------------------------
HandShakeIn(c) ==
    \/ \E o \in Origins, v \in Verdicts : HandShakeAccept(c, o, v)
    \/ HandShakeReject(c) \/ HandShakePanic(c)

Handling(c) ==
    \/ ReadError(c) \/ ReadEmpty(c) \/ Packet(c) \/ Message(c) \/ More(c)
    \/ OnError(c) \/ OnCloseEvent(c) \/ OnCloseRemove(c) \/ OnCloseSock(c)
    \/ TerminateSelf(c)

\* The steps the owner goroutine takes by itself once it is under way.
Advance(c) ==
    \/ DialOk(c) \/ DialFail(c) \/ HandShakeOk(c) \/ HandShakeFail(c)
    \/ HandShakeIn(c) \/ Register(c) \/ Announce(c)
    \/ StartWorker(c) \/ Boot(c) \/ Loop(c) \/ Handling(c)

Opening(c) == Accept(c) \/ \E n \in Inner, b \in BOOLEAN : Dial(c, n, b)

Closing(k) == CloseTerminate(k) \/ CloseEvent(k) \/ CloseRemove(k) \/ CloseSock(k)

Next ==
    \/ \E c \in Conns : \/ Opening(c) \/ Advance(c) \/ ReadData(c)
                        \/ HandlerReturn(c) \/ RemoteClose(c) \/ Collect(c)
    \/ \E k \in Closers : Closing(k) \/ \E n \in Nodes : CloseLookup(k, n)

Spec == Init /\ [][Next]_vars

\* The Go scheduler runs every goroutine that can run.  Nothing is assumed of
\* the remote ends, of the callers of Connect and Close, or of the collector.
Fairness == /\ \A c \in Conns : WF_vars(Advance(c)) /\ WF_vars(HandlerReturn(c))
            /\ \A k \in Closers : WF_vars(Closing(k))

FairSpec == Spec /\ Fairness
-----------------------------------------------------------------------------
(* Properties.                                                             *)

\* Every id Send can resolve leads to a connection registered under that very
\* id, whatever Close calls run beside the workers: RemoveConnectInfo never
\* leaves an id pointing at a connection that is out of vk.
KvBacked == \A n \in Nodes : kv[n] # None => vk[kv[n]] = n

\* A connection leaves the tables before this node closes its socket, on every
\* path of the workers and of Close, with one exception: Terminate, the first
\* thing Close does, lets the handler of an accepted WebSocket return.  Send
\* finds a socket closed here only then, and only until that Close has removed
\* the connection.
OpenWhileRegistered ==
    \A c \in Conns :
        vk[c] # None /\ sock[c] # "open" =>
            IsWs(c) /\ c \notin Dialled /\ \E k \in Closers :
                kc[k] = c /\ kpc[k] \in {"ev", "rm"}

\* No two live connections are registered under one node id: what onCheckNode
\* filters for ("duplicate link requests of internal nodes") and
\* AddConnectInfo refuses.
OneConnPerNode ==
    \A c, d \in Conns : vk[c] # None /\ vk[c] = vk[d] => c = d

\* kv and vk are inverse to each other as long as nobody calls Close: every
\* connection messages are taken from can also be sent to.
TablesAgree == \A n \in Nodes, c \in Conns : kv[n] = c <=> vk[c] = n

\* The listener sees OnConnect, OnMessage*, OnClose per node id, in this order,
\* as long as nobody calls Close: the workers implement NetEvents.
Linked(n) == kv[n] # None /\ pc[kv[n]] \notin {"announce", "cl_rm"}
Listener == INSTANCE NetEvents WITH link <- [n \in Nodes |-> Linked(n)]
EventsInOrder == Listener!Spec

\* A TCP or WebSocket connection whose remote end is gone is taken out of the
\* tables in the end, even when Close and the worker both deal with it.  (A KCP
\* worker never learns of that end, and its connection stays.)
DeadConnForgotten == \A c \in Conns : rclosed[c] ~> vk[c] = None

\* Accepted TCP and KCP workers are started before they are registered; Connect
\* and the WebSocket handler register first.
StartsFirst(c) == c \notin Dialled /\ ~IsWs(c)

\* A worker whose socket is closed leaves its loop and does not spin on read
\* errors.  Beside Close this is so only for workers that were started before
\* Close could find them: scheduler.schedule resets terminated.
WorkerStops ==
    \A c \in Conns : Closers = {} \/ StartsFirst(c) =>
        (sock[c] = "closed" ~> pc[c] \in {"done", "idle"})

\* "A node the registry cannot verify is taken for an outsider"
\* (silvernode.go:402): a public node gives such an origin an id.
UnverifiedIsGuest ==
    \A c \in Conns, o \in Origins :
        IsPub /\ AwaitsOrigin(c) => onCheckNode(o, "failed") # {}

\* silvernode.Close of such a connection returns: it does not block in
\* service.Terminate.
CloseReturns ==
    \A k \in Closers :
        kpc[k] = "term" /\ StartsFirst(kc[k]) ~> kpc[k] = "idle"
=============================================================================
