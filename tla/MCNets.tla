------------------------------- MODULE MCNets -------------------------------
(* Instances of Nets for TLC: one registered node n1, its guest and alias  *)
(* ids, and a handful of handles of the three protocols.                   *)
EXTENDS Nets

CONSTANTS n1, g1, a1, f1, b1, t1, t2, d1, u1, w1

MCNodes == {n1, g1, a1, f1, b1}
MCInner == {n1}
MCGuestOf == [n \in {n1} |-> g1]
MCAlias == [n \in {n1} |-> a1]
MCFresh == {f1}
\* t: accepted tcp, d: dialled tcp, u: dialled udp, w: accepted ws
MCProto == [c \in Conns |-> IF c \in {t1, t2, d1} THEN "tcp"
                            ELSE IF c = u1 THEN "udp" ELSE "ws"]
=============================================================================
