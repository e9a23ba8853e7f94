---------------------------- MODULE ClusterProofs ----------------------------
(***************************************************************************)
(* Proofs about Cluster, for any set of nodes, names, slots and bound on   *)
(* faults.                                                                 *)
(***************************************************************************)
EXTENDS Cluster, TLAPS

-----------------------------------------------------------------------------
(* The inductive invariant.                                                *)

\* A node waits for one handshake at a time.
OneDial ==
    \A s, t \in Socks :
        Waiting(s) /\ Waiting(t) /\ From[s] = From[t] => s = t

\* Only a registered node scans.
ScansRegistered == \A n \in Node : scan[n] # "off" => phase[n] = "run"

\* Connect has a target.
HasTarget == \A n \in Node : scan[n] = "connect" => target[n] \in Node

\* No origin carries the signature of a start that has not happened.
SigsPast == \A s \in Socks : sig[s] <= inc[From[s]]

\* Once a start has registered, a registry that replaces entries holds no
\* entry of an earlier one.
Replaces(n) == \A e \in entries : e.node = n => e.inc = inc[n]
EntriesCurrent ==
    kind # "nacos" =>
        /\ \A n \in Node : phase[n] = "run" => Replaces(n)
        /\ \A s \in Socks : sig[s] = inc[From[s]] => Replaces(From[s])

\* What CheckNodeSig decided is still so when the guest id is registered.
GuestsOld ==
    kind # "nacos" =>
        \A s \in Socks : acc[s] \in {"add_guest", "guest"} =>
                         sig[s] < inc[From[s]]

\* An answer that waits to be read was given by an end that has decided about the
\* dialler, or has closed since.
Unvetted(s) == acc[s] \in {"check", "vet", "hung"}
AnswersVetted == \A s \in Socks : hsuc[s] => Waiting(s) /\ ~Unvetted(s)

\* Nor is a connection registered before.
LinksAnswered == \A s \in Socks : dial[s] \in Registered => ~Unvetted(s)

IInv == /\ TypeOK /\ OneDial /\ ScansRegistered /\ HasTarget
        /\ SigsPast /\ EntriesCurrent /\ GuestsOld

AInv == IInv /\ AnswersVetted /\ LinksAnswered
-----------------------------------------------------------------------------
LEMMA IInvInit == Init => IInv
  BY ClusterAssumption
  DEF Init, IInv, TypeOK, OneDial, ScansRegistered, HasTarget, SigsPast,
      EntriesCurrent, Replaces, GuestsOld, kind, Waiting, DialStates,
      AccStates, Entry

\* The fields of the configuration.
LEMMA ConfType ==
    ASSUME conf \in Configs
    PROVE  /\ conf.faults \in Nat /\ conf.pub \in BOOLEAN
           /\ conf.backEnds \in [Node -> SUBSET Names]
           /\ kind \in {"etcd", "consul", "nacos"}
  BY ClusterAssumption DEF kind

\* What RegNodeInfo leaves in the registry.
LEMMA RegisteredEntries ==
    ASSUME TypeOK, NEW n \in Node, RegNodeInfo(n)
    PROVE  /\ entries' \subseteq Entry
           /\ kind # "nacos" => entries' = (entries \ InstancesOf(n)) \cup {Self(n)}
<1>1. kind \in {"etcd", "consul", "nacos"}
  BY ConfType DEF TypeOK
<1>2. Self(n) \in Entry
  BY DEF Self, Entry, TypeOK
<1>3. entries \subseteq Entry
  BY DEF TypeOK
<1>4. \/ entries' = (entries \ InstancesOf(n)) \cup {Self(n)}
      \/ kind = "nacos" /\ entries' = entries \cup {Self(n)}
  BY <1>1 DEF RegNodeInfo, EtcdRegNodeInfo, ConsulRegNodeInfo, NacosRegNodeInfo
<1> QED BY <1>2, <1>3, <1>4

\* An instance that is not served is dropped, or kept as unhealthy by nacos.
LEMMA ExpiredEntries ==
    ASSUME TypeOK, NEW e \in entries, Expire(e) \/ Unregister(e)
    PROVE  entries' \subseteq Entry /\ (kind # "nacos" => entries' \subseteq entries)
<1>1. [e EXCEPT !.healthy = FALSE] \in Entry
  <2>1. e \in Entry
    BY DEF TypeOK
  <2> QED BY ONLY <2>1 DEF Entry
<1>2. entries \subseteq Entry
  BY DEF TypeOK
<1>3. \/ entries' = entries \ {e}
      \/ kind = "nacos" /\ entries' = (entries \ {e}) \cup {[e EXCEPT !.healthy = FALSE]}
  BY DEF Expire, Unregister
<1> QED BY <1>1, <1>2, <1>3

\* An answer of the registry is one of the node's instances.
LEMMA Answers ==
    ASSUME TypeOK, NEW n \in Node, NEW e \in GetNodeById(n)
    PROVE  e \in entries /\ e.node = n
<1>1. kind \in {"etcd", "consul", "nacos"}
  BY ConfType DEF TypeOK
<1> QED BY <1>1 DEF GetNodeById, EtcdGetNodeById, ConsulGetNodeById,
                    NacosGetNodeById, InstancesOf

LEMMA NatLess == \A i, j \in Nat : i <= j /\ i # j => i < j
  OBVIOUS

LEMMA IInvStep == IInv /\ [Next]_vars => IInv'
<1> SUFFICES ASSUME IInv, Next PROVE IInv'
  BY DEF IInv, vars, TypeOK, OneDial, ScansRegistered, HasTarget, SigsPast,
         EntriesCurrent, Replaces, GuestsOld, kind, Waiting
<1>c. /\ conf.faults \in Nat /\ conf.pub \in BOOLEAN
      /\ conf.backEnds \in [Node -> SUBSET Names]
      /\ kind \in {"etcd", "consul", "nacos"}
  BY ConfType DEF IInv, TypeOK
<1> USE <1>c, ClusterAssumption
    DEF IInv, TypeOK, OneDial, ScansRegistered, HasTarget, SigsPast,
        EntriesCurrent, Replaces, GuestsOld, Waiting, DialStates, AccStates,
        Entry, reg, node, scanning, sockets, ScanGoTo, ScanOn, Accepting
<1>1. ASSUME NEW n \in Node, Serve(n) PROVE IInv'
  BY <1>1 DEF Serve, kind
<1>2. ASSUME NEW n \in Node, Listen(n) PROVE IInv'
  BY <1>2 DEF Listen, kind
<1>3. ASSUME NEW n \in Node, ClusterServe(n) PROVE IInv'
  <2>1. /\ entries' \subseteq Entry
        /\ kind # "nacos" => entries' = (entries \ InstancesOf(n)) \cup {Self(n)}
    BY <1>3, RegisteredEntries DEF ClusterServe
  <2>2. kind # "nacos" =>
          \A e \in entries' : \/ e \in entries /\ e.node # n
                              \/ e.node = n /\ e.inc = inc[n]
    BY <2>1 DEF InstancesOf, Self
  <2> QED BY <1>3, <2>1, <2>2 DEF ClusterServe, kind
<1>4. ASSUME NEW n \in Node, Stop(n) PROVE IInv'
  BY <1>4 DEF Stop, kind
<1>5. ASSUME NEW n \in Node, nodeScanning(n) PROVE IInv'
  <2>1. \A b \in Names : SelectNodesByName(b) \subseteq Node
    BY DEF SelectNodesByName, EtcdSelectNodesByName, ConsulSelectNodesByName,
           NacosSelectNodesByName
  <2>2. found' \in [Node -> SUBSET Node]
    <3>1. ASSUME NEW b \in conf.backEnds[n],
                 found' = [found EXCEPT ![n] = SelectNodesByName(b)]
          PROVE  found' \in [Node -> SUBSET Node]
      <4>1. SelectNodesByName(b) \in SUBSET Node /\ found \in [Node -> SUBSET Node]
        BY <2>1
      <4> QED BY ONLY <3>1, <4>1
    <3>2. CASE UNCHANGED found
      BY <3>2
    <3> QED BY <1>5, <3>1, <3>2 DEF nodeScanning
  <2>3. faults' \in 0..conf.faults
    BY <1>5 DEF nodeScanning
  <2>4. /\ UNCHANGED <<conf, entries, phase, inc, listening, target, dial, acc,
                      sig, hsuc>>
        /\ scan[n] = "sleep" /\ scan' = [scan EXCEPT ![n] = "each"]
    BY <1>5 DEF nodeScanning
  <2> QED BY <2>2, <2>3, <2>4 DEF kind
<1>6. ASSUME NEW n \in Node, onScanning(n) PROVE IInv'
  <2>1. CASE found[n] = {} /\ scan' = [scan EXCEPT ![n] = "sleep"]
             /\ UNCHANGED <<found, target>>
    BY <1>6, <2>1 DEF onScanning, kind
  <2>2. ASSUME NEW m \in found[n],
               found' = [found EXCEPT ![n] = @ \ {m}],
               \/ /\ scan' = [scan EXCEPT ![n] = "connect"]
                  /\ target' = [target EXCEPT ![n] = m]
               \/ UNCHANGED <<scan, target>>
        PROVE  IInv'
    <3>1. m \in Node
      BY <2>2
    <3>2. UNCHANGED <<conf, entries, phase, inc, listening, dial, acc, sig,
                      hsuc, faults>>
          /\ scan[n] = "each"
      BY <1>6 DEF onScanning
    <3>3. CASE /\ scan' = [scan EXCEPT ![n] = "connect"]
               /\ target' = [target EXCEPT ![n] = m]
      BY <2>2, <3>1, <3>2, <3>3 DEF kind
    <3>4. CASE UNCHANGED <<scan, target>>
      BY <2>2, <3>1, <3>2, <3>4 DEF kind
    <3> QED BY <2>2, <3>3, <3>4
  <2> QED BY <1>6, <2>1, <2>2 DEF onScanning
<1>7. ASSUME NEW n \in Node, Connect(n) PROVE IInv'
  <2>1. CASE DialledTo(n, target[n]) \/ ~listening[target[n]]
    <3>1. /\ scan[n] = "connect"
          /\ scan' = [scan EXCEPT ![n] = "each"]
          /\ target' = [target EXCEPT ![n] = NoNode]
          /\ UNCHANGED <<conf, entries, phase, inc, listening, found, dial, acc,
                         sig, hsuc, faults>>
      BY <1>7, <2>1 DEF Connect
    <3> QED BY <3>1 DEF kind
  <2>2. CASE ~(DialledTo(n, target[n]) \/ ~listening[target[n]])
    <3> DEFINE s == CHOOSE t \in FreeSocks(n, target[n]) : TRUE
    <3>1. /\ FreeSocks(n, target[n]) # {}
          /\ dial' = [dial EXCEPT ![s] = IF AcceptedFrom(n, target[n])
                                           THEN "hs_alias" ELSE "hs"]
          /\ acc' = [acc EXCEPT ![s] = "check"]
          /\ sig' = [sig EXCEPT ![s] = inc[n]]
          /\ scan' = [scan EXCEPT ![n] = "wait"]
          /\ scan[n] = "connect"
          /\ UNCHANGED <<conf, entries, phase, inc, listening, found, target,
                         hsuc, faults>>
      BY <1>7, <2>2 DEF Connect
    <3>2. s \in FreeSocks(n, target[n])
      BY <3>1
    <3>3. s \in Socks /\ From[s] = n /\ phase[n] = "run"
      BY <3>1, <3>2 DEF FreeSocks
    <3> HIDE DEF s
    <3>4. TypeOK' /\ OneDial'
      BY <3>1, <3>3 DEF kind
    <3> QED BY <3>1, <3>3, <3>4 DEF kind
  <2> QED BY <2>1, <2>2
<1>8. ASSUME NEW s \in Socks, HandShakeOk(s) PROVE IInv'
  BY <1>8 DEF HandShakeOk, EndDial, kind
<1>9. ASSUME NEW s \in Socks, HandShakeFail(s) PROVE IInv'
  BY <1>9 DEF HandShakeFail, EndDial, kind
<1>10. ASSUME NEW s \in Socks, HandShakeTimeout(s) PROVE IInv'
  BY <1>10 DEF HandShakeTimeout, EndDial, kind
<1>11. ASSUME NEW s \in Socks, Finalize(s) PROVE IInv'
  BY <1>11 DEF Finalize, kind
<1>12. ASSUME NEW s \in Socks, CheckNodeSig(s) PROVE IInv'
  <2>1. CASE GetNodeById(From[s]) = {} /\ Accepting(s, "closed")
    BY <1>12, <2>1 DEF CheckNodeSig, kind
  <2>2. ASSUME NEW e \in GetNodeById(From[s]),
               Accepting(s, IF e.inc = sig[s] THEN "vet"
                            ELSE IF conf.pub THEN "add_guest" ELSE "closed")
        PROVE  IInv'
    <3>1. e \in entries /\ e.node = From[s]
      BY Answers
    <3>2. kind # "nacos" /\ sig[s] = inc[From[s]] => e.inc = sig[s]
      BY <3>1
    <3>3. sig[s] <= inc[From[s]] /\ sig[s] \in Nat /\ inc[From[s]] \in Nat
      OBVIOUS
    <3>4. kind # "nacos" /\ e.inc # sig[s] => sig[s] < inc[From[s]]
      BY <3>2, <3>3, NatLess
    <3> QED BY <1>12, <2>2, <3>4 DEF CheckNodeSig, kind
  <2> QED BY <1>12, <2>1, <2>2 DEF CheckNodeSig
<1>13. ASSUME NEW s \in Socks, CheckFails(s) PROVE IInv'
  <2>1. CASE Accepting(s, "hung")
    BY <1>13, <2>1 DEF CheckFails, kind
  <2>2. CASE Accepting(s, "closed")
    BY <1>13, <2>2 DEF CheckFails, kind
  <2> QED BY <1>13, <2>1, <2>2 DEF CheckFails
<1>14. ASSUME NEW s \in Socks, VetAndAnswer(s) PROVE IInv'
  BY <1>14 DEF VetAndAnswer, kind
<1>15. ASSUME NEW s \in Socks, AnswerFails(s) PROVE IInv'
  BY <1>15 DEF AnswerFails, kind
<1>16. ASSUME NEW s \in Socks, AcceptAdd(s) PROVE IInv'
  BY <1>16 DEF AcceptAdd, kind
<1>17. ASSUME NEW s \in Socks, DialEof(s) \/ AcceptEof(s) PROVE IInv'
  <2>1. CASE DialEof(s)
    BY <2>1 DEF DialEof, Registered, kind
  <2>2. CASE AcceptEof(s)
    BY <2>2 DEF AcceptEof, Registered, kind
  <2> QED BY <1>17, <2>1, <2>2
<1>18. ASSUME NEW e \in entries, Expire(e) \/ Unregister(e) PROVE IInv'
  <2>1. entries' \subseteq Entry /\ (kind # "nacos" => entries' \subseteq entries)
    BY <1>18, ExpiredEntries
  <2> QED BY <1>18, <2>1 DEF Expire, Unregister, kind
<1> QED
  BY <1>1, <1>2, <1>3, <1>4, <1>5, <1>6, <1>7, <1>8, <1>9, <1>10, <1>11,
     <1>12, <1>13, <1>14, <1>15, <1>16, <1>17, <1>18
  DEF Next, ScanStep, DialStep, AcceptStep
-----------------------------------------------------------------------------
\* In every reachable state the variables have their types, and a node holds
\* its lock in Connect exactly while one of its handshakes is under way.
THEOREM TypeCorrect == Spec => []TypeOK
<1>1. IInv => TypeOK
  BY DEF IInv
<1> QED BY IInvInit, IInvStep, <1>1, PTL DEF Spec

\* With etcd or consul no public node ever registers a node of the cluster
\* under a guest id on the strength of a signature that is still current,
\* whatever crashes and restarts come between its scan, its handshake and the
\* registry's answer.
THEOREM GuestsAreStale == Spec => []GuestIsStale
<1>1. IInv => GuestIsStale
  BY DEF IInv, GuestsOld, GuestIsStale
<1> QED BY IInvInit, IInvStep, <1>1, PTL DEF Spec
-----------------------------------------------------------------------------
(* Answers.                                                                *)

\* A step that leaves the slots alone.
LEMMA SlotsKept ==
    ASSUME AnswersVetted, LinksAnswered, UNCHANGED <<dial, acc, hsuc>>
    PROVE  AnswersVetted' /\ LinksAnswered'
  BY DEF AnswersVetted, LinksAnswered, Unvetted, Waiting

\* A step of one slot.
LEMMA SlotStep ==
    ASSUME TypeOK, AnswersVetted, LinksAnswered, NEW s \in Socks,
           \A t \in Socks \ {s} : dial'[t] = dial[t] /\ acc'[t] = acc[t] /\ hsuc'[t] = hsuc[t],
           hsuc'[s] => (Waiting(s))' /\ ~(Unvetted(s))',
           dial'[s] \in Registered => ~(Unvetted(s))'
    PROVE  AnswersVetted' /\ LinksAnswered'
<1>1. ASSUME NEW t \in Socks
      PROVE  /\ hsuc'[t] => (Waiting(t))' /\ ~(Unvetted(t))'
             /\ dial'[t] \in Registered => ~(Unvetted(t))'
  BY DEF AnswersVetted, LinksAnswered, Unvetted, Waiting
<1> QED BY <1>1 DEF AnswersVetted, LinksAnswered, Unvetted

LEMMA AInvStep == AInv /\ [Next]_vars => AInv'
<1> SUFFICES ASSUME AInv, [Next]_vars PROVE AnswersVetted' /\ LinksAnswered'
  BY IInvStep DEF AInv
<1> USE DEF AInv, reg, node, scanning, sockets, ScanGoTo, ScanOn, Accepting
<1>t. /\ dial \in [Socks -> DialStates] /\ acc \in [Socks -> AccStates]
      /\ hsuc \in [Socks -> BOOLEAN] /\ TypeOK
  BY DEF IInv, TypeOK
<1>1. ASSUME NEW n \in Node, Serve(n) \/ Listen(n) \/ ClusterServe(n)
      PROVE  AnswersVetted' /\ LinksAnswered'
  BY <1>1, SlotsKept DEF Serve, Listen, ClusterServe
<1>2. ASSUME NEW n \in Node, Stop(n) PROVE AnswersVetted' /\ LinksAnswered'
  <2>1. ASSUME NEW s \in Socks
        PROVE  /\ dial'[s] = (IF From[s] = n THEN "closed" ELSE dial[s])
               /\ acc'[s] = (IF To[s] = n THEN "closed" ELSE acc[s])
               /\ hsuc'[s] => hsuc[s] /\ From[s] # n
    BY <1>2 DEF Stop
  <2> QED BY <2>1 DEF AnswersVetted, LinksAnswered, Unvetted, Waiting, Registered
<1>3. ASSUME NEW n \in Node, nodeScanning(n) \/ onScanning(n)
      PROVE  AnswersVetted' /\ LinksAnswered'
  BY <1>3, SlotsKept DEF nodeScanning, onScanning
<1>4. ASSUME NEW n \in Node, Connect(n) PROVE AnswersVetted' /\ LinksAnswered'
  <2>1. CASE UNCHANGED sockets
    BY <2>1, SlotsKept
  <2>2. CASE ~UNCHANGED sockets
    <3> PICK s : s = CHOOSE t \in FreeSocks(n, target[n]) : TRUE
      OBVIOUS
    <3>1. /\ FreeSocks(n, target[n]) # {} /\ hsuc' = hsuc
          /\ dial' = [dial EXCEPT ![s] = IF AcceptedFrom(n, target[n])
                                           THEN "hs_alias" ELSE "hs"]
          /\ acc' = [acc EXCEPT ![s] = "check"]
      BY <1>4, <2>2 DEF Connect
    <3>2. s \in Socks /\ dial[s] = "closed"
      BY <3>1 DEF FreeSocks
    <3>3. ~hsuc[s]
      BY <3>2, <1>t DEF AnswersVetted, Waiting
    <3>4. dial'[s] \in {"hs_alias", "hs"}
      BY <1>t, <3>1, <3>2
    <3>5. \A t \in Socks \ {s} : dial'[t] = dial[t] /\ acc'[t] = acc[t] /\ hsuc'[t] = hsuc[t]
      BY <1>t, <3>1
    <3> QED BY <1>t, <3>1, <3>2, <3>3, <3>4, <3>5, SlotStep DEF Registered
  <2> QED BY <2>1, <2>2
<1>5. ASSUME NEW s \in Socks, HandShakeOk(s) PROVE AnswersVetted' /\ LinksAnswered'
  BY <1>5, <1>t, SlotStep DEF HandShakeOk, EndDial, AnswersVetted, Unvetted
<1>6. ASSUME NEW s \in Socks, HandShakeFail(s) \/ HandShakeTimeout(s)
      PROVE  AnswersVetted' /\ LinksAnswered'
  BY <1>6, <1>t, SlotStep DEF HandShakeFail, HandShakeTimeout, EndDial, Registered
<1>7. ASSUME NEW s \in Socks, Finalize(s) \/ DialEof(s)
      PROVE  AnswersVetted' /\ LinksAnswered'
  BY <1>7, <1>t, SlotStep DEF Finalize, DialEof, AnswersVetted, Unvetted, Waiting, Registered
<1>8. ASSUME NEW s \in Socks, CheckNodeSig(s) PROVE AnswersVetted' /\ LinksAnswered'
  <2>1. acc[s] = "check" /\ dial' = dial /\ dial[s] \notin Registered
    BY <1>8 DEF CheckNodeSig, LinksAnswered, Unvetted
  <2>2. /\ \A t \in Socks \ {s} : acc'[t] = acc[t] /\ hsuc'[t] = hsuc[t]
        /\ hsuc'[s] => acc'[s] = "add_guest" /\ Waiting(s)
    BY <1>8, <1>t DEF CheckNodeSig
  <2> QED BY <1>t, <2>1, <2>2, SlotStep DEF Unvetted, Waiting
<1>9. ASSUME NEW s \in Socks, CheckFails(s) PROVE AnswersVetted' /\ LinksAnswered'
  <2>1. acc[s] = "check" /\ dial' = dial /\ hsuc' = hsuc
    BY <1>9 DEF CheckFails
  <2>2. dial[s] \notin Registered /\ ~hsuc[s]
    BY <1>t, <2>1 DEF LinksAnswered, AnswersVetted, Unvetted
  <2>3. \A t \in Socks \ {s} : acc'[t] = acc[t]
    BY <1>9, <1>t DEF CheckFails
  <2> QED BY <1>t, <2>1, <2>2, <2>3, SlotStep
<1>10. ASSUME NEW s \in Socks, VetAndAnswer(s) PROVE AnswersVetted' /\ LinksAnswered'
  <2>1. /\ dial' = dial /\ acc'[s] \in {"closed", "add"}
        /\ \A t \in Socks \ {s} : acc'[t] = acc[t] /\ hsuc'[t] = hsuc[t]
        /\ hsuc'[s] => Waiting(s)
    BY <1>10, <1>t DEF VetAndAnswer
  <2> QED BY <1>t, <2>1, SlotStep DEF Unvetted, Waiting
<1>11. ASSUME NEW s \in Socks, AnswerFails(s) \/ AcceptAdd(s) \/ AcceptEof(s)
       PROVE  AnswersVetted' /\ LinksAnswered'
  <2>1. /\ dial' = dial /\ hsuc' = hsuc /\ acc'[s] \in {"closed", "link", "guest"}
        /\ \A t \in Socks \ {s} : acc'[t] = acc[t]
    BY <1>11, <1>t DEF AnswerFails, AcceptAdd, AcceptEof
  <2> QED BY <1>t, <2>1, SlotStep DEF AnswersVetted, Unvetted, Waiting
<1>12. ASSUME NEW e \in entries, Expire(e) \/ Unregister(e)
       PROVE  AnswersVetted' /\ LinksAnswered'
  BY <1>12, SlotsKept DEF Expire, Unregister
<1>13. CASE UNCHANGED vars
  BY <1>13, SlotsKept DEF vars
<1> QED
  BY <1>1, <1>2, <1>3, <1>4, <1>5, <1>6, <1>7, <1>8, <1>9, <1>10, <1>11, <1>12, <1>13
  DEF Next, ScanStep, DialStep, AcceptStep

\* No dialler ever has a connection registered which the other end has not
\* vetted, for any nodes and slots and however registry calls that hang, crashes,
\* time-outs and answers that come late interleave.
THEOREM LinksAreAnswered == Spec => []LinksAnswered
<1>1. Init => AInv
  BY IInvInit DEF Init, AInv, AnswersVetted, LinksAnswered, Registered
<1>2. AInv => LinksAnswered
  BY DEF AInv
<1> QED BY <1>1, <1>2, AInvStep, PTL DEF Spec
=============================================================================
