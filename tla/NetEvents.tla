----------------------------- MODULE NetEvents -----------------------------
(***************************************************************************)
(* What a bound NetEventListener (nets/nets.go) is promised about every    *)
(* remote node: OnConnect and OnClose alternate, and OnMessage arrives     *)
(* only in between.  A listener that keeps per-node state (a session, a    *)
(* player, a routing entry) needs exactly this.                            *)
(***************************************************************************)
CONSTANT Nodes          \* ids a remote node can be registered under

VARIABLES link,         \* link[n]: TRUE between OnConnect(n) and OnClose(n)
          event         \* the call made by the last step, or Quiet

vars == <<link, event>>

NoEvent == [call |-> "none"]
Event(call, n) == [call |-> call, node |-> n]

Init == /\ link = [n \in Nodes |-> FALSE]
        /\ event = NoEvent

OnConnect(n) == /\ ~link[n]
                /\ link' = [link EXCEPT ![n] = TRUE]
                /\ event' = Event("OnConnect", n)

OnMessage(n) == /\ link[n]
                /\ UNCHANGED link
                /\ event' = Event("OnMessage", n)

OnClose(n) == /\ link[n]
              /\ link' = [link EXCEPT ![n] = FALSE]
              /\ event' = Event("OnClose", n)

Quiet == /\ UNCHANGED link
         /\ event' = NoEvent

Next == \/ Quiet
        \/ \E n \in Nodes : OnConnect(n) \/ OnMessage(n) \/ OnClose(n)

Spec == Init /\ [][Next]_vars
=============================================================================
