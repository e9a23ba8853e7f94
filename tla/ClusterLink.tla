---------------------------- MODULE ClusterLink ----------------------------
(***************************************************************************)
(* What the two ends of one connection between nodes of a cluster may      *)
(* count on (silvernode.go, nets/tcp.go).  An end that has registered the  *)
(* connection sends on it; it was answered, or has answered, in this very  *)
(* dial, never in an earlier one, and it keeps the connection until its    *)
(* own process stops or the other end is over.                             *)
(***************************************************************************)

VARIABLES dialler,   \* "none", "asks", "linked" or, given up, "lost"
          acceptor,  \* "none", "asked", "admits" or "linked"
          answered,  \* an answer is under way
          diallerUp, \* the two processes run
          acceptorUp

vars == <<dialler, acceptor, answered, diallerUp, acceptorUp>>
processes == <<diallerUp, acceptorUp>>

Init ==
    /\ dialler = "none" /\ acceptor = "none" /\ answered = FALSE
    /\ diallerUp = FALSE /\ acceptorUp = FALSE
-----------------------------------------------------------------------------
(* The handshake.                                                          *)

\* Both ends of what was there before are over.
Ask ==
    /\ diallerUp /\ acceptorUp /\ dialler = "none" /\ acceptor = "none"
    /\ dialler' = "asks" /\ acceptor' = "asked"
    /\ UNCHANGED <<answered, processes>>

\* Only who has asked and still waits is answered.
Admit ==
    /\ acceptor = "asked" /\ acceptor' = "admits"
    /\ answered' = (dialler = "asks")
    /\ UNCHANGED <<dialler, processes>>

\* Unknown, not vouched for, or connected already; also after the answer.
Refuse ==
    /\ acceptor \in {"asked", "admits"} /\ acceptor' = "none"
    /\ UNCHANGED <<dialler, answered, processes>>

RegisterDialler ==
    /\ dialler = "asks" /\ answered
    /\ dialler' = "linked" /\ answered' = FALSE
    /\ UNCHANGED <<acceptor, processes>>

RegisterAcceptor ==
    /\ acceptor = "admits" /\ acceptor' = "linked"
    /\ UNCHANGED <<dialler, answered, processes>>

\* Who has connected otherwise meanwhile closes; who is refused or waits too
\* long forgets the socket, which stays open, and the answer with it.
GiveUp ==
    /\ dialler = "asks" /\ answered' = FALSE
    /\ dialler' = "lost" \/ (answered /\ dialler' = "none")
    /\ UNCHANGED <<acceptor, processes>>
-----------------------------------------------------------------------------
(* The end of a connection.                                                *)

\* The socket that was forgotten is closed.
Collect ==
    /\ dialler = "lost" /\ dialler' = "none"
    /\ UNCHANGED <<acceptor, answered, processes>>

DiallerReadsEnd ==
    /\ dialler = "linked" /\ acceptor = "none" /\ dialler' = "none"
    /\ UNCHANGED <<acceptor, answered, processes>>

AcceptorReadsEnd ==
    /\ acceptor = "linked" /\ dialler = "none" /\ acceptor' = "none"
    /\ UNCHANGED <<dialler, answered, processes>>

\* A process begins without connections and takes them along when it stops.
StartDialler ==
    /\ ~diallerUp /\ dialler = "none" /\ diallerUp' = TRUE
    /\ UNCHANGED <<dialler, acceptor, answered, acceptorUp>>

StartAcceptor ==
    /\ ~acceptorUp /\ acceptor = "none" /\ acceptorUp' = TRUE
    /\ UNCHANGED <<dialler, acceptor, answered, diallerUp>>

StopDialler ==
    /\ diallerUp /\ diallerUp' = FALSE
    /\ dialler' = "none" /\ answered' = FALSE
    /\ UNCHANGED <<acceptor, acceptorUp>>

StopAcceptor ==
    /\ acceptorUp /\ acceptorUp' = FALSE /\ acceptor' = "none"
    /\ UNCHANGED <<dialler, answered, diallerUp>>
-----------------------------------------------------------------------------
Next ==
    \/ Ask \/ Admit \/ Refuse \/ RegisterDialler \/ RegisterAcceptor \/ GiveUp
    \/ Collect \/ DiallerReadsEnd \/ AcceptorReadsEnd
    \/ StartDialler \/ StartAcceptor \/ StopDialler \/ StopAcceptor

Spec == Init /\ [][Next]_vars
=============================================================================
