------------------------------- MODULE Cluster -------------------------------
(***************************************************************************)
(* A cluster of nodes that find and keep their back ends: the start of a   *)
(* node (silvernode.Serve), its registration with etcd, consul or nacos    *)
(* (cluster/), the scan that dials the nodes named in BackEnds, and the    *)
(* TCP handshake seen from both ends.  Nodes crash and start again.        *)
(*                                                                         *)
(* A socket slot stands for the connections one node dials to another,     *)
(* one after the other.  A node holds its lock while it goes through the   *)
(* nodes a scan found, the time it waits for a handshake included.  The    *)
(* steps of one end's tables are interleaved in module Nets; here each     *)
(* handler of an end is a step.                                            *)
(***************************************************************************)
EXTENDS Naturals, FiniteSets

CONSTANTS Node,         \* NodeInfo.NodeId
          Names,        \* NodeInfo.Name, the kinds of nodes
          NameOf,       \* the name of each node
          Configs,      \* the configurations to consider
          Socks,        \* socket slots
          From, To,     \* the dialling and the accepting node of a slot
          NoNode

ASSUME ClusterAssumption ==
    /\ NameOf \in [Node -> Names]
    /\ Configs \subseteq [kind : {"etcd", "consul", "nacos"}, pub : BOOLEAN,
                          backEnds : [Node -> SUBSET Names], faults : Nat]
    /\ From \in [Socks -> Node] /\ To \in [Socks -> Node]
    /\ \A s \in Socks : From[s] # To[s]
    /\ NoNode \notin Node

VARIABLES conf,         \* cluster.type, IsPub and BackEnds of the nodes, and
                        \* the bound on faults; it never changes
          phase,        \* "down", "boot" (before RegNodeInfo), "run"
          inc,          \* times the node has started; stands for NodeInfo.Sig
          listening,    \* the Listen goroutine got through
          entries,      \* the registry's instances
          scan,         \* nodeScanning: where it is
          found,        \* otherInfos not looked at yet
          target,       \* the node Connect was called for
          dial,         \* the dialling end of a slot
          acc,          \* the accepting end of a slot
          sig,          \* the sig in the origin the dialler sent
          hsuc,         \* "#hsuc" sent and not read yet
          faults        \* crashes, time-outs, hangs, lost registrations so far

reg == <<conf, entries>>
kind == conf.kind
node == <<phase, inc, listening>>
scanning == <<scan, found, target>>
sockets == <<dial, acc, sig, hsuc>>
vars == <<conf, phase, inc, listening, entries, scan, found, target,
          dial, acc, sig, hsuc, faults>>

\* An end is "closed", registered under the id of the other node ("link"),
\* under its alias id@tcp+port or its guest id, or on its way.
DialStates == {"closed", "hs", "hs_alias", "link", "alias", "leaked"}
AccStates == {"closed", "check", "vet", "add", "add_guest", "link", "guest",
              "hung"}
Registered == {"link", "alias", "guest"}

Waiting(s) == dial[s] \in {"hs", "hs_alias"}

Entry == [node : Node, inc : Nat, healthy : BOOLEAN]

TypeOK ==
    /\ conf \in Configs
    /\ phase \in [Node -> {"down", "boot", "run"}]
    /\ inc \in [Node -> Nat]
    /\ listening \in [Node -> BOOLEAN]
    /\ entries \subseteq Entry
    /\ scan \in [Node -> {"off", "sleep", "each", "connect", "wait"}]
    /\ found \in [Node -> SUBSET Node]
    /\ target \in [Node -> Node \cup {NoNode}]
    /\ dial \in [Socks -> DialStates]
    /\ acc \in [Socks -> AccStates]
    /\ sig \in [Socks -> Nat]
    /\ hsuc \in [Socks -> BOOLEAN]
    /\ faults \in 0..conf.faults
    /\ \A n \in Node : scan[n] = "wait" <=> \E s \in Socks : From[s] = n /\ Waiting(s)

Init ==
    /\ conf \in Configs
    /\ phase = [n \in Node |-> "down"]
    /\ inc = [n \in Node |-> 0]
    /\ listening = [n \in Node |-> FALSE]
    /\ entries = {}
    /\ scan = [n \in Node |-> "off"]
    /\ found = [n \in Node |-> {}]
    /\ target = [n \in Node |-> NoNode]
    /\ dial = [s \in Socks |-> "closed"]
    /\ acc = [s \in Socks |-> "closed"]
    /\ sig = [s \in Socks |-> 0]
    /\ hsuc = [s \in Socks |-> FALSE]
    /\ faults = 0

-----------------------------------------------------------------------------
(* The registries.                                                         *)

InstancesOf(n) == {e \in entries : e.node = n}
Self(n) == [node |-> n, inc |-> inc[n], healthy |-> TRUE]

\* Mutant: an id that has a key is not written again.
EtcdRegNodeInfo_once(n) ==
    entries' = IF InstancesOf(n) = {} THEN entries \cup {Self(n)} ELSE entries

\* RegNodeInfo.  An etcd key and a consul service id are the node's id: the
\* entry of an earlier start is replaced.
EtcdRegNodeInfo(n) == entries' = (entries \ InstancesOf(n)) \cup {Self(n)}

ConsulRegNodeInfo(n) == entries' = (entries \ InstancesOf(n)) \cup {Self(n)}

\* A nacos instance is an ip and a port: unless MainPort is configured the
\* instance of an earlier start stays beside the new one.
NacosRegNodeInfo(n) == entries' = entries \cup {Self(n)}

RegNodeInfo(n) == CASE kind = "etcd" -> EtcdRegNodeInfo(n)
                    [] kind = "consul" -> ConsulRegNodeInfo(n)
                    [] kind = "nacos" -> NacosRegNodeInfo(n)

\* GetNodeById: the instances it may return; the empty set is an error.
EtcdGetNodeById(n) == InstancesOf(n)

ConsulGetNodeById(n) == InstancesOf(n)

NacosGetNodeById(n) == {e \in InstancesOf(n) : e.healthy}

GetNodeById(n) == CASE kind = "etcd" -> EtcdGetNodeById(n)
                    [] kind = "consul" -> ConsulGetNodeById(n)
                    [] kind = "nacos" -> NacosGetNodeById(n)

\* SelectNodesByName: etcd by key prefix, consul whatever the health check
\* says, nacos the healthy instances.
EtcdSelectNodesByName(b) == {e.node : e \in {f \in entries : NameOf[f.node] = b}}

ConsulSelectNodesByName(b) == {e.node : e \in {f \in entries : NameOf[f.node] = b}}

NacosSelectNodesByName(b) ==
    {e.node : e \in {f \in entries : NameOf[f.node] = b /\ f.healthy}}

SelectNodesByName(b) == CASE kind = "etcd" -> EtcdSelectNodesByName(b)
                          [] kind = "consul" -> ConsulSelectNodesByName(b)
                          [] kind = "nacos" -> NacosSelectNodesByName(b)

\* An instance nobody serves any more: the etcd lease (5 s) runs out, the
\* consul check fails and deregisters it after 30 s, the nacos check fails and
\* the persistent instance (Ephemeral: false) stays, unhealthy.
Gone(e) == e.inc < inc[e.node] \/ phase[e.node] = "down"

Expire(e) ==
    /\ e \in entries /\ e.healthy /\ Gone(e)
    /\ entries' = IF kind = "nacos"
                    THEN (entries \ {e}) \cup {[e EXCEPT !.healthy = FALSE]}
                    ELSE entries \ {e}
    /\ UNCHANGED <<conf, node, scanning, sockets, faults>>

\* A running node loses its entry: a lease that could not be renewed in time,
\* a health check that failed.  RegNodeInfo is not called again.
Unregister(e) ==
    /\ faults < conf.faults /\ kind # "nacos"
    /\ e \in entries /\ ~Gone(e)
    /\ entries' = entries \ {e} /\ faults' = faults + 1
    /\ UNCHANGED <<conf, node, scanning, sockets>>
-----------------------------------------------------------------------------
(* Starting and stopping a node.                                           *)

\* Serve, up to the Listen calls: a new signature every time.
Serve(n) ==
    /\ phase[n] = "down" /\ inc[n] <= conf.faults
    /\ phase' = [phase EXCEPT ![n] = "boot"]
    /\ inc' = [inc EXCEPT ![n] = @ + 1]
    /\ UNCHANGED <<reg, listening, scanning, sockets, faults>>

Locked(n) == scan[n] \in {"each", "connect", "wait"}

\* The goroutine Listen starts waits for the node's lock.
Listen(n) ==
    /\ phase[n] # "down" /\ ~listening[n] /\ ~Locked(n)
    /\ listening' = [listening EXCEPT ![n] = TRUE]
    /\ UNCHANGED <<reg, phase, inc, scanning, sockets, faults>>

\* cluster.Serve: register, and scan if there are back ends.
ClusterServe(n) ==
    /\ phase[n] = "boot"
    /\ RegNodeInfo(n)
    /\ phase' = [phase EXCEPT ![n] = "run"]
    /\ scan' = [scan EXCEPT ![n] = IF conf.backEnds[n] = {} THEN "off" ELSE "sleep"]
    /\ UNCHANGED <<conf, inc, listening, found, target, sockets, faults>>

\* The process ends: a crash, or the error RegNodeInfo made Serve return.  The
\* kernel closes its sockets.
Stop(n) ==
    /\ faults < conf.faults /\ phase[n] # "down"
    /\ phase' = [phase EXCEPT ![n] = "down"]
    /\ listening' = [listening EXCEPT ![n] = FALSE]
    /\ scan' = [scan EXCEPT ![n] = "off"]
    /\ found' = [found EXCEPT ![n] = {}]
    /\ target' = [target EXCEPT ![n] = NoNode]
    /\ dial' = [s \in Socks |-> IF From[s] = n THEN "closed" ELSE dial[s]]
    /\ acc' = [s \in Socks |-> IF To[s] = n THEN "closed" ELSE acc[s]]
    /\ hsuc' = [s \in Socks |-> hsuc[s] /\ From[s] # n]
    /\ faults' = faults + 1
    /\ UNCHANGED <<reg, inc, sig>>
-----------------------------------------------------------------------------
(* Scanning and dialling.                                                  *)

\* GetConnectInfo(m) at node n, and whether the url of the connection is the
\* one m registered: an accepted connection has the url "local://".
DialledTo(n, m) == \E s \in Socks : From[s] = n /\ To[s] = m /\ dial[s] = "link"
AcceptedFrom(n, m) == \E s \in Socks : To[s] = n /\ From[s] = m /\ acc[s] = "link"
Known(n, m) == DialledTo(n, m) \/ AcceptedFrom(n, m)

\* AddConnectInfo refuses an id that is there.
HasAlias(n, m) == \E s \in Socks : From[s] = n /\ To[s] = m /\ dial[s] = "alias"
HasGuest(n, m) == \E s \in Socks : To[s] = n /\ From[s] = m /\ acc[s] = "guest"

ScanGoTo(n, p) == scan' = [scan EXCEPT ![n] = p]

isBackEnd(n, id) == NameOf[id] \in conf.backEnds[n] /\ id # n

\* nodeScanning reads the registry; onScanning takes the lock and uses what
\* was read, or nothing when the registry gave an error.
nodeScanning(n) ==
    /\ scan[n] = "sleep"
    /\ \/ /\ \E b \in conf.backEnds[n] :
                found' = [found EXCEPT ![n] = SelectNodesByName(b)]
          /\ UNCHANGED faults
       \/ /\ faults < conf.faults /\ faults' = faults + 1
          /\ UNCHANGED found
    /\ ScanGoTo(n, "each")
    /\ UNCHANGED <<reg, node, target, sockets>>

\* Mutant: the scan is a task that runs once.
onScanning_once(n) ==
    /\ scan[n] = "each"
    /\ \/ /\ found[n] = {} /\ ScanGoTo(n, "off") /\ UNCHANGED <<found, target>>
       \/ \E m \in found[n] :
            /\ found' = [found EXCEPT ![n] = @ \ {m}]
            /\ IF ~Known(n, m) /\ isBackEnd(n, m)
                 THEN ScanGoTo(n, "connect") /\ target' = [target EXCEPT ![n] = m]
                 ELSE UNCHANGED <<scan, target>>
    /\ UNCHANGED <<reg, node, sockets, faults>>

\* onScanning: back ends that are not connected are dialled, one at a time.
onScanning(n) ==
    /\ scan[n] = "each"
    /\ \/ /\ found[n] = {} /\ ScanGoTo(n, "sleep") /\ UNCHANGED <<found, target>>
       \/ \E m \in found[n] :
            /\ found' = [found EXCEPT ![n] = @ \ {m}]
            /\ IF ~Known(n, m) /\ isBackEnd(n, m)
                 THEN ScanGoTo(n, "connect") /\ target' = [target EXCEPT ![n] = m]
                 ELSE UNCHANGED <<scan, target>>
    /\ UNCHANGED <<reg, node, sockets, faults>>

\* A slot can be used again when its connection is over; a handler that hangs
\* in the registry call has no effect any more.
FreeSocks(n, m) ==
    {s \in Socks : /\ From[s] = n /\ To[s] = m
                   /\ dial[s] = "closed" /\ acc[s] \in {"closed", "hung"}}

ScanOn(n) == ScanGoTo(n, "each") /\ target' = [target EXCEPT ![n] = NoNode]

\* silvernode.Connect looks the node up again: one that has connected to us
\* meanwhile is dialled under its alias.
Connect(n) ==
    /\ scan[n] = "connect"
    /\ LET m == target[n]
           s == CHOOSE t \in FreeSocks(n, m) : TRUE
       IN IF DialledTo(n, m) \/ ~listening[m]
            THEN ScanOn(n) /\ UNCHANGED sockets
            ELSE /\ FreeSocks(n, m) # {}
                 /\ dial' = [dial EXCEPT ![s] = IF AcceptedFrom(n, m)
                                                  THEN "hs_alias" ELSE "hs"]
                 /\ acc' = [acc EXCEPT ![s] = "check"]
                 /\ sig' = [sig EXCEPT ![s] = inc[n]]
                 /\ ScanGoTo(n, "wait") /\ UNCHANGED <<target, hsuc>>
    /\ UNCHANGED <<reg, node, found, faults>>

EndDial(s, state) ==
    /\ dial' = [dial EXCEPT ![s] = state] /\ hsuc' = [hsuc EXCEPT ![s] = FALSE]
    /\ ScanOn(From[s])

\* doHandShake reads "#hsuc" and registers; a taken id closes the connection.
HandShakeOk(s) ==
    /\ Waiting(s) /\ hsuc[s]
    /\ EndDial(s, IF dial[s] = "hs"
                    THEN IF Known(From[s], To[s]) THEN "closed" ELSE "link"
                    ELSE IF HasAlias(From[s], To[s]) THEN "closed" ELSE "alias")
    /\ UNCHANGED <<reg, node, found, acc, sig, faults>>

\* Mutant: Connect does not return when the other end has closed.
HandShakeFail_stays(s) ==
    /\ Waiting(s) /\ acc[s] = "closed"
    /\ dial' = [dial EXCEPT ![s] = "leaked"]
    /\ UNCHANGED <<reg, node, scanning, acc, sig, hsuc, faults>>

\* End of stream: Connect returns the error and forgets the open socket.
HandShakeFail(s) ==
    /\ Waiting(s) /\ acc[s] = "closed"
    /\ EndDial(s, "leaked")
    /\ UNCHANGED <<reg, node, found, acc, sig, faults>>

\* Mutant: no read deadline is set.
HandShakeTimeout_never(s) == FALSE /\ UNCHANGED vars

\* The read deadline of 6 s: a fault while the other end would still answer.
HandShakeTimeout(s) ==
    /\ Waiting(s)
    /\ IF acc[s] = "hung" THEN UNCHANGED faults
       ELSE faults < conf.faults /\ faults' = faults + 1
    /\ EndDial(s, "leaked")
    /\ UNCHANGED <<reg, node, found, acc, sig>>

\* The finalizer of a forgotten socket closes it: the Go runtime collects at
\* least every two minutes.
Finalize(s) ==
    /\ dial[s] = "leaked"
    /\ dial' = [dial EXCEPT ![s] = "closed"]
    /\ UNCHANGED <<reg, node, scanning, acc, sig, hsuc, faults>>
-----------------------------------------------------------------------------
(* The accepting end.                                                      *)

Accepting(s, state) == acc' = [acc EXCEPT ![s] = state]

\* Mutant: the handshake is answered before the node is looked up and vetted.
CheckNodeSig_answers(s) ==
    /\ acc[s] = "check"
    /\ \/ GetNodeById(From[s]) = {} /\ Accepting(s, "closed")
       \/ \E e \in GetNodeById(From[s]) :
            Accepting(s, IF e.inc = sig[s] THEN "vet"
                         ELSE IF conf.pub THEN "add_guest" ELSE "closed")
    /\ hsuc' = [hsuc EXCEPT ![s] = Waiting(s)]
    /\ UNCHANGED <<reg, node, scanning, dial, sig, faults>>

\* onCheckNode, first half: the registry's answer for the origin's id.
CheckNodeSig(s) ==
    /\ acc[s] = "check"
    /\ \/ GetNodeById(From[s]) = {} /\ Accepting(s, "closed")
       \/ \E e \in GetNodeById(From[s]) :
            Accepting(s, IF e.inc = sig[s] THEN "vet"
                         ELSE IF conf.pub THEN "add_guest" ELSE "closed")
    /\ hsuc' = [hsuc EXCEPT ![s] = acc'[s] = "add_guest" /\ Waiting(s)]
    /\ UNCHANGED <<reg, node, scanning, dial, sig, faults>>

\* The registry never answers (consul's client has no time-out), or with an
\* error.
CheckFails(s) ==
    /\ faults < conf.faults /\ acc[s] = "check"
    /\ Accepting(s, "hung") \/ Accepting(s, "closed")
    /\ faults' = faults + 1
    /\ UNCHANGED <<reg, node, scanning, dial, sig, hsuc>>

\* onCheckNode, second half, and dealHandShake's answer: an internal node that
\* is connected already is refused.
VetAndAnswer(s) ==
    /\ acc[s] = "vet"
    /\ Accepting(s, IF Known(To[s], From[s]) THEN "closed" ELSE "add")
    /\ hsuc' = [hsuc EXCEPT ![s] = acc'[s] = "add" /\ Waiting(s)]
    /\ UNCHANGED <<reg, node, scanning, dial, sig, faults>>

\* The answer cannot be written: the dialler is gone.
AnswerFails(s) ==
    /\ acc[s] = "vet" /\ dial[s] = "closed"
    /\ Accepting(s, "closed")
    /\ UNCHANGED <<reg, node, scanning, dial, sig, hsuc, faults>>

\* onConn: AddConnectInfo, or close.
AcceptAdd(s) ==
    /\ \/ /\ acc[s] = "add"
          /\ Accepting(s, IF Known(To[s], From[s]) THEN "closed" ELSE "link")
       \/ /\ acc[s] = "add_guest"
          /\ Accepting(s, IF HasGuest(To[s], From[s]) THEN "closed" ELSE "guest")
    /\ UNCHANGED <<reg, node, scanning, dial, sig, hsuc, faults>>
-----------------------------------------------------------------------------
(* A registered end whose other end is closed reads the end of the stream. *)

\* Mutant: a read error leaves the connection registered.
AcceptEof_ignored(s) == FALSE /\ UNCHANGED vars

DialEof(s) ==
    /\ dial[s] \in Registered /\ acc[s] = "closed"
    /\ dial' = [dial EXCEPT ![s] = "closed"]
    /\ UNCHANGED <<reg, node, scanning, acc, sig, hsuc, faults>>

AcceptEof(s) ==
    /\ acc[s] \in Registered /\ dial[s] = "closed"
    /\ Accepting(s, "closed")
    /\ UNCHANGED <<reg, node, scanning, dial, sig, hsuc, faults>>
-----------------------------------------------------------------------------
ScanStep(n) == nodeScanning(n) \/ onScanning(n) \/ Connect(n)
DialStep(s) == HandShakeOk(s) \/ HandShakeFail(s) \/ DialEof(s)
AcceptStep(s) == \/ CheckNodeSig(s) \/ VetAndAnswer(s) \/ AnswerFails(s)
                 \/ AcceptAdd(s) \/ AcceptEof(s)

Next ==
    \/ \E n \in Node : \/ Serve(n) \/ Listen(n) \/ ClusterServe(n) \/ Stop(n)
                       \/ ScanStep(n)
    \/ \E e \in entries : Expire(e) \/ Unregister(e)
    \/ \E s \in Socks : \/ DialStep(s) \/ HandShakeTimeout(s) \/ Finalize(s)
                        \/ AcceptStep(s) \/ CheckFails(s)

Spec == Init /\ [][Next]_vars

\* The Go scheduler runs the goroutines, Go's mutex hands the lock to a waiter
\* that is starving, deadlines and health checks expire, and the collector
\* runs.  A node is started, stopped and disturbed by its environment.
Fairness ==
    /\ \A n \in Node : /\ WF_vars(ClusterServe(n)) /\ SF_vars(Listen(n))
                       /\ WF_vars(ScanStep(n))
    /\ WF_vars(\E e \in entries : Expire(e))
    /\ \A s \in Socks : /\ WF_vars(DialStep(s)) /\ WF_vars(AcceptStep(s))
                        /\ WF_vars(acc[s] = "hung" /\ HandShakeTimeout(s))
                        /\ WF_vars(Finalize(s))

FairSpec == Spec /\ Fairness
-----------------------------------------------------------------------------
(* Properties.                                                             *)

IsBackEndOf(m, n) == NameOf[m] \in conf.backEnds[n]
OneWay(n, m) == IsBackEndOf(m, n) /\ ~IsBackEndOf(n, m)

Linked(n, m) == \E s \in Socks : /\ From[s] = n /\ To[s] = m
                                 /\ dial[s] = "link" /\ acc[s] = "link"

\* Both nodes are up and the registry knows them.
Settled(n, m) == /\ phase[n] = "run" /\ phase[m] = "run" /\ listening[m]
                 /\ {Self(n), Self(m)} \subseteq entries

\* A registry that replaces the entry of an earlier start never makes a public
\* node take a running node of the cluster for a guest: only the connection of
\* a start that is over can get a guest id.
GuestIsStale ==
    kind # "nacos" =>
        \A s \in Socks : acc[s] = "guest" => sig[s] < inc[From[s]]

\* What each connection looks like from outside.  A handler that hangs in the
\* registry call has no effect any more.
DiallerOf(s) == IF Waiting(s) THEN "asks"
                ELSE IF dial[s] \in Registered THEN "linked"
                ELSE IF dial[s] = "leaked" THEN "lost" ELSE "none"
AcceptorOf(s) == IF acc[s] \in {"check", "vet"} THEN "asked"
                 ELSE IF acc[s] \in {"add", "add_guest"} THEN "admits"
                 ELSE IF acc[s] \in Registered THEN "linked" ELSE "none"

Link(s) == INSTANCE ClusterLink
           WITH dialler <- DiallerOf(s), acceptor <- AcceptorOf(s), answered <- hsuc[s],
                diallerUp <- phase[From[s]] # "down", acceptorUp <- phase[To[s]] # "down"

\* Every connection goes the way ClusterLink describes: an end is registered
\* only after the admission and the answer of this very dial, never by a late
\* answer or beside a handler of an earlier one, and a link that both ends have
\* registered breaks only when a process stops, whatever duplicates, aliases,
\* time-outs and leaked sockets there are beside it.
LinksInOrder ==
    /\ \A s \in Socks : Link(s)!Init
    /\ [][\A s \in Socks : [Link(s)!Next]_(Link(s)!vars)]_vars

\* "Dials the nodes of its back ends and keeps them available by itself"
\* (README.md:46): once two nodes stay up and registered, the one whose back
\* end the other is gets and keeps a link both ends have registered, whatever
\* time-outs, restarts and forgotten sockets came before.
BackEndLinked(n, m) == <>[]Settled(n, m) => <>[]Linked(n, m)

\* It is so when only one of the two dials, and a stale instance in nacos
\* cannot pass for a guest.
BackEndsLinked ==
    \A n \in Node : \A m \in Node \ {n} : OneWay(n, m) =>
        (kind # "nacos" \/ ~conf.pub => BackEndLinked(n, m))

\* The same for Send: a back end can be sent to by its id again and again,
\* also when the two nodes are back ends of each other.
BackEndsKnown ==
    \A n \in Node : \A m \in Node \ {n} : IsBackEndOf(m, n) =>
        (<>[]Settled(n, m) => []<>Known(n, m))

\* A registration the other end does not have, after a lost answer, a crash or
\* two crossed dials, does not stay.
HalfOpen(s) == (dial[s] \in Registered) # (acc[s] \in Registered)
HalfOpenEnds == \A s \in Socks : HalfOpen(s) ~> ~HalfOpen(s)

\* onScanning gives the node's lock back, also while the node it dials is
\* dialling this one or does not answer: a Listen that waits for the lock is
\* served.
ScanReturns == \A n \in Node : Locked(n) ~> ~Locked(n)
=============================================================================
