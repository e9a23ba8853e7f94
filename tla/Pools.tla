------------------------------- MODULE Pools -------------------------------
(***************************************************************************)
(* Pools of disposable objects (utils/pools): objects are put for a life   *)
(* of some seconds, and a service looks once a second for those whose life *)
(* is over.  The service is started by the first Fetch and terminated when *)
(* the last pool goes; Terminate does not wait for the loop, so that an    *)
(* old one may still be under way beside its successor.                    *)
(*                                                                         *)
(* A pass of a service holds the read lock of the table all along, but the *)
(* lock of a pool in two sections, one that collects and one that          *)
(* disposes.  Pools fetched earlier may be used by anybody, listed or not. *)
(***************************************************************************)
EXTENDS Naturals, FiniteSets

CONSTANTS PoolNames, PoolIds, Objects,
          Faulty,     \* the objects whose Dispose panics
          Lives,      \* lives given to Put
          Services,   \* the services that are spawned, one after the other
          Horizon,    \* bound of the model: the last second
          Room,       \* bound of the model: objects in the pools
          NoPool, NoService

ASSUME PoolsAssumption ==
    /\ Faulty \subseteq Objects /\ Lives \subseteq Nat /\ Horizon \in Nat /\ Room \in Nat
    /\ NoPool \notin PoolIds /\ NoService \notin Services

VARIABLES table,      \* _pools
          made,       \* the pools made so far
          objs,       \* the objects of a pool
          due,        \* when their lives are over
          svc,        \* _svc
          ended,      \* scheduler.terminated of a service
          svcAt,      \* where a service's goroutine is
          passing,    \* the pools it has still to visit in this pass
          visited,    \* the pool it is at
          passNow,    \* now, read before the objects are looked at
          dirtys,     \* what it has collected
          clock,
          owed        \* history: <<pool, object>> put and not disposed of since

poolState == <<table, made, objs, due, owed>>
service == <<svc, ended, svcAt>>
pass == <<passing, visited, passNow, dirtys>>
poolsVars == <<table, made, objs, due, svc, ended, svcAt, passing, visited,
               passNow, dirtys, clock, owed>>

Listed(p) == \E n \in PoolNames : table[n] = p
InPass(s) == svcAt[s] \in {"pass", "collect", "dispose"}
TableFree == \A s \in Services : ~InPass(s)

PoolsTypeOK ==
    /\ table \in [PoolNames -> PoolIds \cup {NoPool}]
    /\ made \subseteq PoolIds
    /\ objs \in [PoolIds -> SUBSET Objects]
    /\ due \in [PoolIds -> [Objects -> Nat]]
    /\ svc \in Services \cup {NoService}
    /\ ended \in [Services -> BOOLEAN]
    /\ svcAt \in [Services -> {"none", "boot", "sleep", "pass", "collect",
                               "dispose", "left"}]
    /\ passing \in [Services -> SUBSET PoolIds]
    /\ visited \in [Services -> PoolIds \cup {NoPool}]
    /\ passNow \in [Services -> Nat]
    /\ dirtys \in [Services -> SUBSET Objects]
    /\ clock \in Nat
    /\ owed \subseteq PoolIds \X Objects

PoolsInit ==
    /\ table = [n \in PoolNames |-> NoPool]
    /\ made = {}
    /\ objs = [p \in PoolIds |-> {}]
    /\ due = [p \in PoolIds |-> [o \in Objects |-> 0]]
    /\ svc = NoService
    /\ ended = [s \in Services |-> FALSE]
    /\ svcAt = [s \in Services |-> "none"]
    /\ passing = [s \in Services |-> {}]
    /\ visited = [s \in Services |-> NoPool]
    /\ passNow = [s \in Services |-> 0]
    /\ dirtys = [s \in Services |-> {}]
    /\ clock = 0
    /\ owed = {}

Second ==
    /\ clock < Horizon
    /\ clock' = clock + 1
    /\ UNCHANGED <<poolState, service, pass>>
-----------------------------------------------------------------------------
(* A pool.                                                                 *)

Put(p, o, life) ==
    /\ p \in made
    /\ Cardinality({w \in PoolIds \X Objects : w[2] \in objs[w[1]]} \ {<<p, o>>}) < Room
    /\ objs' = [objs EXCEPT ![p] = @ \cup {o}]
    /\ due' = [due EXCEPT ![p][o] = clock + life]
    /\ owed' = owed \cup {<<p, o>>}
    /\ UNCHANGED <<table, made, service, pass, clock>>

\* Delete the objects D from pool p.
Delete(p, D) ==
    /\ objs' = [objs EXCEPT ![p] = @ \ D]
    /\ due' = [due EXCEPT ![p] = [o \in Objects |-> IF o \in D THEN 0 ELSE @[o]]]

Disposed(p, D) == owed' = owed \ ({p} \X D)

\* A panic of obj.Dispose leaves the object in the pool.
DisposeObject(p, o) ==
    /\ o \in objs[p]
    /\ Disposed(p, {o})
    /\ IF o \in Faulty THEN UNCHANGED <<objs, due>> ELSE Delete(p, {o})
    /\ UNCHANGED <<table, made, service, pass, clock>>

Panics(p) == objs[p] \cap Faulty # {}

\* A panic ends DisposeAll among the objects, in the map's random order, and
\* all of them stay.
DisposeSome(p) ==
    \E D \in SUBSET objs[p], f \in Faulty : D \cap Faulty = {f} /\ Disposed(p, D)

\* Mutant: the map is replaced although a panic has ended the loop.
DisposeObjects_swap(p) ==
    /\ IF Panics(p) THEN DisposeSome(p) ELSE Disposed(p, objs[p])
    /\ Delete(p, objs[p])

DisposeObjects(p) ==
    IF Panics(p)
    THEN DisposeSome(p) /\ UNCHANGED <<objs, due>>
    ELSE Disposed(p, objs[p]) /\ Delete(p, objs[p])

DisposeAll(p) ==
    /\ p \in made
    /\ DisposeObjects(p)
    /\ UNCHANGED <<table, made, service, pass, clock>>
-----------------------------------------------------------------------------
(* The table of pools.                                                     *)

NewPool == CHOOSE p \in PoolIds : p \notin made
NewService == CHOOSE s \in Services : svcAt[s] = "none"

Spawn ==
    IF svc # NoService THEN UNCHANGED service
    ELSE /\ \E s \in Services : svcAt[s] = "none"
         /\ svc' = NewService
         /\ svcAt' = [svcAt EXCEPT ![NewService] = "boot"]
         /\ UNCHANGED ended

Fetch(n) ==
    /\ TableFree
    /\ table[n] = NoPool
    /\ made # PoolIds
    /\ table' = [table EXCEPT ![n] = NewPool]
    /\ made' = made \cup {NewPool}
    /\ Spawn
    /\ UNCHANGED <<objs, due, pass, clock, owed>>

\* Mutant: _svc keeps the service that was terminated.
Terminate_stale == ended' = [ended EXCEPT ![svc] = TRUE] /\ UNCHANGED <<svc, svcAt>>

\* The service's Terminate, with nobody in Sync and no other caller.
Terminate ==
    /\ ended' = [ended EXCEPT ![svc] = TRUE]
    /\ svc' = NoService
    /\ UNCHANGED svcAt

\* Mutant: the service is terminated with any pool, not with the last.
DisposePool_any(n) ==
    /\ TableFree /\ table[n] # NoPool
    /\ DisposeObjects(table[n])
    /\ table' = [table EXCEPT ![n] = NoPool]
    /\ IF svc # NoService THEN Terminate ELSE UNCHANGED service
    /\ UNCHANGED <<made, pass, clock>>

\* Dispose(name).
DisposePool(n) ==
    /\ TableFree /\ table[n] # NoPool
    /\ DisposeObjects(table[n])
    /\ IF Panics(table[n]) THEN UNCHANGED <<table, service>>
       ELSE /\ table' = [table EXCEPT ![n] = NoPool]
            /\ IF \A m \in PoolNames \ {n} : table[m] = NoPool
               THEN Terminate ELSE UNCHANGED service
    /\ UNCHANGED <<made, pass, clock>>
-----------------------------------------------------------------------------
(* The service: the loop of its scheduler around checkAll.                 *)

At(s, from, to) == svcAt[s] = from /\ svcAt' = [svcAt EXCEPT ![s] = to]

\* The loop's goroutine begins by clearing terminated.
BootCheck(s) ==
    /\ At(s, "boot", "sleep")
    /\ ended' = [ended EXCEPT ![s] = FALSE]
    /\ UNCHANGED <<poolState, svc, pass, clock>>

Wake(s) ==
    /\ At(s, "sleep", IF ended[s] THEN "left" ELSE "pass")
    /\ passing' = [passing EXCEPT ![s] =
                     IF ended[s] THEN {} ELSE {p \in PoolIds : Listed(p)}]
    /\ UNCHANGED <<poolState, svc, ended, visited, passNow, dirtys, clock>>

Visit(s, p) ==
    /\ p \in passing[s]
    /\ At(s, "pass", "collect")
    /\ passing' = [passing EXCEPT ![s] = @ \ {p}]
    /\ visited' = [visited EXCEPT ![s] = p]
    /\ passNow' = [passNow EXCEPT ![s] = clock]
    /\ UNCHANGED <<poolState, svc, ended, dirtys, clock>>

\* The local variables of checkAndDispose are gone.
PoolLeft(s) ==
    /\ visited' = [visited EXCEPT ![s] = NoPool]
    /\ passNow' = [passNow EXCEPT ![s] = 0]
    /\ dirtys' = [dirtys EXCEPT ![s] = {}]

Overdue(p, now) == {o \in objs[p] : now >= due[p][o]}

\* Under the pool's read lock.
Collect(s) ==
    /\ svcAt[s] = "collect"
    /\ LET D == Overdue(visited[s], passNow[s]) IN
         \/ D = {} /\ At(s, "collect", "pass") /\ PoolLeft(s)
         \/ /\ D # {} /\ At(s, "collect", "dispose")
            /\ dirtys' = [dirtys EXCEPT ![s] = D]
            /\ UNCHANGED <<visited, passNow>>
    /\ UNCHANGED <<poolState, svc, ended, passing, clock>>

\* Mutant: the objects of an expired life are forgotten.
DisposeDirtys_drop(s) ==
    /\ At(s, "dispose", "pass")
    /\ Delete(visited[s], dirtys[s]) /\ PoolLeft(s)
    /\ UNCHANGED <<table, made, owed, svc, ended, passing, clock>>

\* Mutant: a panic of Dispose is not recovered here but by the scheduler.
DisposeDirtys_noTry(s) ==
    LET ok == dirtys[s] \cap Faulty = {} IN
      /\ At(s, "dispose", IF ok THEN "pass" ELSE "sleep")
      /\ Delete(visited[s], IF ok THEN dirtys[s] ELSE {}) /\ PoolLeft(s)
      /\ passing' = [passing EXCEPT ![s] = IF ok THEN @ ELSE {}]
      /\ Disposed(visited[s], dirtys[s])
      /\ UNCHANGED <<table, made, svc, ended, clock>>

\* Under the pool's lock, each Dispose in a Try: what was collected is disposed
\* of, also what was put again or removed in between.
DisposeDirtys(s) ==
    /\ At(s, "dispose", "pass")
    /\ Disposed(visited[s], dirtys[s])
    /\ Delete(visited[s], dirtys[s]) /\ PoolLeft(s)
    /\ UNCHANGED <<table, made, svc, ended, passing, clock>>

PassEnds(s) ==
    /\ passing[s] = {}
    /\ At(s, "pass", "sleep")
    /\ UNCHANGED <<poolState, svc, ended, pass, clock>>

Checking(s) ==
    \/ BootCheck(s) \/ Wake(s) \/ (\E p \in PoolIds : Visit(s, p))
    \/ Collect(s) \/ DisposeDirtys(s) \/ PassEnds(s)
-----------------------------------------------------------------------------
PoolsNext ==
    \/ Second
    \/ \E p \in PoolIds : DisposeAll(p)
    \/ \E p \in PoolIds, o \in Objects :
         DisposeObject(p, o) \/ \E l \in Lives : Put(p, o, l)
    \/ \E n \in PoolNames : Fetch(n) \/ DisposePool(n)
    \/ \E s \in Services : Checking(s)

PoolsSpec == PoolsInit /\ [][PoolsNext]_poolsVars

\* The goroutines of the services run.
PoolsFairSpec == PoolsSpec /\ \A s \in Services : WF_poolsVars(Checking(s))
-----------------------------------------------------------------------------
(* Properties.                                                             *)

\* An object leaves a pool, or is lost with the pool, only after its Dispose
\* was called, also when the Dispose of another object panics (pool.go:34-80).
DisposedOf == \A w \in owed : w[2] \in objs[w[1]]

\* As long as a pool is in the table the service in _svc looks after it: the
\* service that the last Dispose told to end is never the one that a later
\* Fetch relies on (pools.go:29-68).
PoolsWatched ==
    \A p \in PoolIds : Listed(p) =>
        svc # NoService /\ ~ended[svc] /\ svcAt[svc] \notin {"none", "left"}

\* An object whose life is over does not stay in a listed pool, unless it is
\* put again; old services, panics and pools that come and go do not stop it.
OverdueDisposed ==
    \A p \in PoolIds, o \in Objects :
        Listed(p) /\ o \in Overdue(p, clock) ~>
            ~Listed(p) \/ o \notin Overdue(p, clock)
=============================================================================
