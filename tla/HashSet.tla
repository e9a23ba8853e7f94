------------------------------ MODULE HashSet ------------------------------
(***************************************************************************)
(* The sets of utils/stlutil/hashset.go.  Each has a read-write lock of    *)
(* its own; an operation that combines two sets holds the lock of one      *)
(* while it takes the other's, once for every item.  As with Go's RWMutex, *)
(* a writer that waits keeps new readers out.                              *)
(*                                                                         *)
(* Clone, Items, Len and Contains hold one lock and no other, so they only *)
(* take part as the steps of the operations below; Intersect, Except and   *)
(* Union work on a clone.  HashTable and Map have the operations on one    *)
(* set only.                                                               *)
(***************************************************************************)
EXTENDS Integers, FiniteSets

CONSTANTS HashSets, Elements, Goers, \* the sets, what they hold, goroutines
          SetCalls,                  \* bound of the model: calls in all
          NoGoer, NoSet, NoItem

ASSUME HashSetAssumption ==
    /\ NoGoer \notin Goers /\ NoSet \notin HashSets /\ NoItem \notin Elements
    /\ SetCalls \in Nat

VARIABLES elems,    \* _map
          readers,  \* who holds a read lock for longer than a step
          writer,   \* who has the write lock, or waits for the readers to go
          goAt,     \* where a goroutine is
          call,     \* what it does, with which set and which other one
          rest,     \* the items it has still to look at
          item,     \* the item it is going to add
          calls     \* calls begun

hashSetVars == <<elems, readers, writer, goAt, call, rest, item, calls>>
locks == <<readers, writer>>

Simple == {"Add", "Remove", "Clear"}
Combining == {"IntersectWith", "ExceptWith", "UnionWith", "IsSubset"}
NoCall == [op |-> "none", h |-> NoSet, another |-> NoSet]
SetOps == [op : Simple, h : HashSets, another : {NoSet}]
            \cup [op : Combining, h : HashSets, another : HashSets]

HashSetTypeOK ==
    /\ elems \in [HashSets -> SUBSET Elements]
    /\ readers \in [HashSets -> SUBSET Goers]
    /\ writer \in [HashSets -> Goers \cup {NoGoer}]
    /\ goAt \in [Goers -> {"idle", "enter", "sizes", "walk", "each", "add"}]
    /\ call \in [Goers -> SetOps \cup {NoCall}]
    /\ rest \in [Goers -> SUBSET Elements]
    /\ item \in [Goers -> Elements \cup {NoItem}]
    /\ calls \in 0 .. SetCalls

\* NewHashSet, or NewHashSetRaw with some items.
HashSetInit ==
    /\ elems \in [HashSets -> SUBSET Elements]
    /\ readers = [s \in HashSets |-> {}]
    /\ writer = [s \in HashSets |-> NoGoer]
    /\ goAt = [u \in Goers |-> "idle"]
    /\ call = [u \in Goers |-> NoCall]
    /\ rest = [u \in Goers |-> {}]
    /\ item = [u \in Goers |-> NoItem]
    /\ calls = 0
-----------------------------------------------------------------------------
Op(u) == call[u].op
H(u) == call[u].h
Another(u) == call[u].another

GoerAt(u, p) == goAt' = [goAt EXCEPT ![u] = p]
Readable(s) == writer[s] = NoGoer

\* The write lock is the first lock of the operations that change their set,
\* and the one of the Add within UnionWith.
NeedsWrite(u) ==
    \/ goAt[u] = "enter" /\ Op(u) \in Simple \cup {"IntersectWith", "ExceptWith"}
    \/ goAt[u] = "add"

Begin(u, c) ==
    /\ goAt[u] = "idle" /\ calls < SetCalls
    /\ GoerAt(u, "enter")
    /\ call' = [call EXCEPT ![u] = c]
    /\ calls' = calls + 1
    /\ UNCHANGED <<elems, locks, rest, item>>

\* Lock: from here on no new reader gets in.
Announce(u) ==
    /\ NeedsWrite(u) /\ writer[H(u)] = NoGoer
    /\ writer' = [writer EXCEPT ![H(u)] = u]
    /\ UNCHANGED <<elems, readers, goAt, call, rest, item, calls>>

Owns(u) == NeedsWrite(u) /\ writer[H(u)] = u /\ readers[H(u)] = {}

Unlock(u) == writer' = [writer EXCEPT ![H(u)] = NoGoer]

Finish(u) ==
    /\ GoerAt(u, "idle")
    /\ call' = [call EXCEPT ![u] = NoCall]

\* Add and Remove of an item that may be there or not.
Change(u) ==
    /\ goAt[u] = "enter" /\ Op(u) \in {"Add", "Remove"} /\ Owns(u)
    /\ \E x \in Elements :
          elems' = [elems EXCEPT ![H(u)] =
                      IF Op(u) = "Add" THEN @ \cup {x} ELSE @ \ {x}]
    /\ Unlock(u) /\ Finish(u)
    /\ UNCHANGED <<readers, rest, item, calls>>

ClearItems(u) ==
    /\ goAt[u] = "enter" /\ Op(u) = "Clear" /\ Owns(u)
    /\ elems' = [elems EXCEPT ![H(u)] = {}]
    /\ Unlock(u) /\ Finish(u)
    /\ UNCHANGED <<readers, rest, item, calls>>
-----------------------------------------------------------------------------
(* IntersectWith and ExceptWith hold the write lock of their set while they *)
(* ask the other one about every item.                                     *)

EnterFilter(u) ==
    /\ goAt[u] = "enter" /\ Op(u) \in {"IntersectWith", "ExceptWith"} /\ Owns(u)
    /\ GoerAt(u, "each")
    /\ rest' = [rest EXCEPT ![u] = elems[H(u)]]
    /\ UNCHANGED <<elems, locks, call, item, calls>>

Filter(u) ==
    /\ goAt[u] = "each" /\ Op(u) \in {"IntersectWith", "ExceptWith"}
    /\ Readable(Another(u))
    /\ \E x \in rest[u] :
         /\ rest' = [rest EXCEPT ![u] = @ \ {x}]
         /\ elems' = IF (x \in elems[Another(u)]) = (Op(u) = "ExceptWith")
                     THEN [elems EXCEPT ![H(u)] = @ \ {x}] ELSE elems
    /\ UNCHANGED <<locks, goAt, call, item, calls>>

\* Mutant: the lock is kept when the last item has been looked at.
LeaveFilter_locked(u) ==
    /\ goAt[u] = "each" /\ Op(u) \in {"IntersectWith", "ExceptWith"} /\ rest[u] = {}
    /\ Finish(u)
    /\ UNCHANGED <<elems, locks, rest, item, calls>>

LeaveFilter(u) ==
    /\ goAt[u] = "each" /\ Op(u) \in {"IntersectWith", "ExceptWith"} /\ rest[u] = {}
    /\ Unlock(u) /\ Finish(u)
    /\ UNCHANGED <<elems, readers, rest, item, calls>>
-----------------------------------------------------------------------------
(* UnionWith runs in a ForEach of the other set, under its read lock, and  *)
(* asks its own set about every item; IsSubset holds its own read lock and *)
(* asks the other one.                                                     *)

\* The set whose lock is held, and the one asked, for all that combine sets.
Walked(u) == IF Op(u) = "UnionWith" THEN Another(u) ELSE H(u)
Asked(u) == IF Op(u) = "UnionWith" THEN H(u) ELSE Another(u)

\* IsSubset compares the sizes first, one lock after the other.
OwnSize(u) ==
    /\ goAt[u] = "enter" /\ Op(u) = "IsSubset" /\ Readable(H(u))
    /\ rest' = [rest EXCEPT ![u] = elems[H(u)]]
    /\ GoerAt(u, "sizes")
    /\ UNCHANGED <<elems, locks, call, item, calls>>

OtherSize(u) ==
    /\ goAt[u] = "sizes" /\ Readable(Another(u))
    /\ IF Cardinality(rest[u]) > Cardinality(elems[Another(u)])
       THEN Finish(u) ELSE GoerAt(u, "walk") /\ UNCHANGED call
    /\ rest' = [rest EXCEPT ![u] = {}]
    /\ UNCHANGED <<elems, locks, item, calls>>

EnterWalk(u) ==
    /\ \/ goAt[u] = "enter" /\ Op(u) = "UnionWith"
       \/ goAt[u] = "walk"
    /\ Readable(Walked(u))
    /\ readers' = [readers EXCEPT ![Walked(u)] = @ \cup {u}]
    /\ rest' = [rest EXCEPT ![u] = elems[Walked(u)]]
    /\ GoerAt(u, "each")
    /\ UNCHANGED <<elems, writer, call, item, calls>>

\* What is found: IsSubset ends with the first item that is missing, UnionWith
\* adds it.
AskItem(u) ==
    /\ goAt[u] = "each" /\ Op(u) \in {"UnionWith", "IsSubset"} /\ Readable(Asked(u))
    /\ \E x \in rest[u] :
         LET missing == x \notin elems[Asked(u)]
             adds == missing /\ Op(u) = "UnionWith"
         IN /\ rest' = [rest EXCEPT ![u] = IF missing /\ ~adds THEN {} ELSE @ \ {x}]
            /\ item' = [item EXCEPT ![u] = IF adds THEN x ELSE NoItem]
            /\ GoerAt(u, IF adds THEN "add" ELSE "each")
    /\ UNCHANGED <<elems, locks, call, calls>>

AddMissing(u) ==
    /\ goAt[u] = "add" /\ Owns(u)
    /\ elems' = [elems EXCEPT ![H(u)] = @ \cup {item[u]}]
    /\ item' = [item EXCEPT ![u] = NoItem]
    /\ Unlock(u) /\ GoerAt(u, "each")
    /\ UNCHANGED <<readers, call, rest, calls>>

\* Mutant: an IsSubset that misses nothing does not end.
LeaveWalk_union(u) ==
    /\ goAt[u] = "each" /\ Op(u) = "UnionWith" /\ rest[u] = {}
    /\ readers' = [readers EXCEPT ![Walked(u)] = @ \ {u}]
    /\ Finish(u)
    /\ UNCHANGED <<elems, writer, rest, item, calls>>

LeaveWalk(u) ==
    /\ goAt[u] = "each" /\ Op(u) \in {"UnionWith", "IsSubset"} /\ rest[u] = {}
    /\ readers' = [readers EXCEPT ![Walked(u)] = @ \ {u}]
    /\ Finish(u)
    /\ UNCHANGED <<elems, writer, rest, item, calls>>
-----------------------------------------------------------------------------
Working(u) ==
    \/ Announce(u) \/ Change(u) \/ ClearItems(u)
    \/ EnterFilter(u) \/ Filter(u) \/ LeaveFilter(u)
    \/ OwnSize(u) \/ OtherSize(u) \/ EnterWalk(u) \/ AskItem(u)
    \/ AddMissing(u)
    \/ LeaveWalk(u)

HashSetNext ==
    \/ \E u \in Goers, c \in SetOps : Begin(u, c)
    \/ \E u \in Goers : Working(u)

HashSetSpec == HashSetInit /\ [][HashSetNext]_hashSetVars
-----------------------------------------------------------------------------
(* Properties.                                                             *)

Busy == {u \in Goers : goAt[u] # "idle"}

\* Calls that combine sets go round in a circle: each asks the set that another
\* of them walks, or a call asks the set it walks itself.
Opposed ==
    \E C \in SUBSET Busy :
        /\ C # {}
        /\ \A u \in C : Op(u) \in Combining /\ \E v \in C : Walked(v) = Asked(u)

\* The lock a call takes next: a write lock that another call has, or that is
\* its own already but for the readers still there; or a read lock.
Waits(u) ==
    \/ NeedsWrite(u) /\ writer[H(u)] # NoGoer /\ ~Owns(u)
    \/ /\ ~NeedsWrite(u)
       /\ ~Readable(IF goAt[u] \in {"enter", "walk"} THEN Walked(u) ELSE Asked(u))
       /\ goAt[u] = "each" => rest[u] # {}

\* Somebody always has the locks for the next step: writers that keep readers
\* out, and readers inside of readers, do not stop each other, but for calls
\* that go round in a circle (hashset.go:105-171).
NoStandstill == Busy # {} => Opposed \/ \E u \in Busy : ~Waits(u)

\* Nothing but a lock keeps a call from its end: each step leads to another
\* one, for every kind of call and whatever the others do to the two sets.
OnlyLocksStop == \A u \in Busy : Waits(u) \/ ENABLED Working(u)
=============================================================================
