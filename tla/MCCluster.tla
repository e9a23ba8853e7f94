----------------------------- MODULE MCCluster -----------------------------
(* A gate and a service, with two slots for the connections each of them   *)
(* dials: only the gate dials, with two faults, or each is a back end of   *)
(* the other.                                                              *)
EXTENDS Cluster

CONSTANTS a, b, gate, svc, s1, s2, s3, s4

MCNameOf == [n \in Node |-> IF n = a THEN gate ELSE svc]
MCFrom == [s \in Socks |-> IF s \in {s1, s2} THEN a ELSE b]
MCTo == [s \in Socks |-> IF s \in {s1, s2} THEN b ELSE a]

OneWayBackEnds == [n \in Node |-> IF n = a THEN {svc} ELSE {}]
MutualBackEnds == [n \in Node |-> IF n = a THEN {svc} ELSE {gate}]

Config(k, p, backs, f) == [kind |-> k, pub |-> p, backEnds |-> backs, faults |-> f]
OneWayConfigs ==
    {Config("etcd", TRUE, OneWayBackEnds, 2), Config("nacos", FALSE, OneWayBackEnds, 2),
     Config("consul", FALSE, OneWayBackEnds, 1), Config("nacos", TRUE, OneWayBackEnds, 1)}
MutualConfigs == {Config("etcd", FALSE, MutualBackEnds, 0)}
AllConfigs == OneWayConfigs \cup MutualConfigs
=============================================================================
