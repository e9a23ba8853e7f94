--------------------------- MODULE ProcessorProofs ---------------------------
(***************************************************************************)
(* Proofs about Processor, for any number of executors, producers and      *)
(* callers of Terminate, and any capacity.                                 *)
(***************************************************************************)
EXTENDS Processor, TLAPS

-----------------------------------------------------------------------------
(* The inductive invariant.                                                *)

\* The positions in Terminate at which the executor `at' exists.
AtExecutor == {"check", "load", "send"}

Bounds ==
    /\ \A p \in Producers : ppc[p] # "idle" => round[p] <= Rounds
    /\ \A k \in Terminators : tpc[k] \in AtExecutor => at[k] \in Exes
    /\ \A e \in Exes : loop[e] = "run" => cur[e] # Nil

\* Task s was handed over before task t, if one goroutine handed over both.
Before(s, t) == s[1] = t[1] => s[2] < t[2]

\* The tasks of e are, in order of their age, those that ran, the current one
\* and the queue.
RanInv(e) ==
    /\ \A i \in DOMAIN ran[e] : ran[e][i][2] < round[ran[e][i][1]]
    /\ \A i, j \in DOMAIN ran[e] : i < j => Before(ran[e][i], ran[e][j])
    /\ \A i \in DOMAIN ran[e], j \in DOMAIN queue[e] :
          queue[e][j] # Nil => Before(ran[e][i], queue[e][j])

CurInv(e) ==
    loop[e] = "run" =>
        /\ cur[e][2] < round[cur[e][1]]
        /\ \A i \in DOMAIN ran[e] : Before(ran[e][i], cur[e])
        /\ \A j \in DOMAIN queue[e] :
              queue[e][j] # Nil => Before(cur[e], queue[e][j])

QueueInv(e) ==
    /\ \A i \in DOMAIN queue[e] :
          queue[e][i] # Nil => queue[e][i][2] < round[queue[e][i][1]]
    /\ \A i, j \in DOMAIN queue[e] :
          i < j /\ queue[e][i] # Nil /\ queue[e][j] # Nil
              => Before(queue[e][i], queue[e][j])

Ordered(e) == RanInv(e) /\ CurInv(e) /\ QueueInv(e)
TypeInv == TypeOK /\ Bounds
IInv == TypeInv /\ \A e \in Exes : Ordered(e)
-----------------------------------------------------------------------------
\* (By SMT alone: Zenon counts numerals up from 0.)
LEMMA FarNat == Far \in Nat
  BY SMT DEF Far

\* The loop variables of Execute before a search, and after one.
ScanVars == [i : Exes, index : Exes, min : Nat]

LEMMA NoScanType ==
    NoScan \in ScanVars /\ \A i \in Exes : [NoScan EXCEPT !.index = i] \in ScanVars
  BY ProcessorAssumption, FarNat DEF NoScan, ScanVars, Exes

LEMMA IInvInit == Init => IInv
<1> SUFFICES ASSUME Init PROVE IInv
  OBVIOUS
<1> USE ProcessorAssumption, FarNat DEF Init, Exes
<1>1. TypeOK
  <2>1. scan \in [Producers -> [i : Exes, index : Exes, min : Nat]]
    BY DEF NoScan
  <2>2. /\ queue \in [Exes -> Seq(Tasks \cup {Nil})] /\ ran \in [Exes -> Seq(Tasks)]
        /\ \A e \in Exes : Len(queue[e]) <= Capacity
    OBVIOUS
  <2>3. killing \in BOOLEAN /\ terminated \in [Exes -> BOOLEAN]
    BY Zenon
  <2> QED
    BY <2>1, <2>2, <2>3 DEF TypeOK
<1>2. Bounds
  BY DEF Bounds, AtExecutor
<1>3. \A e \in Exes : Ordered(e)
  BY DEF Ordered, RanInv, CurInv, QueueInv
<1> QED
  BY <1>1, <1>2, <1>3 DEF IInv, TypeInv

\* A loop variable that goes up by one.
LEMMA StepUp ==
    \A n \in Nat : \A i \in 1 .. n : /\ i \in 1 .. n + 1 /\ i + 1 \in 1 .. n + 1
                                   /\ i # n => i + 1 \in 1 .. n
  OBVIOUS

LEMMA BelowTop == \A n \in Nat : \A i \in 1 .. n + 1 : i <= n => i \in 1 .. n
  OBVIOUS

\* Types and the bounds of the loop variables.
LEMMA TypeStep == TypeInv /\ [Next]_vars => TypeInv'
<1> SUFFICES ASSUME TypeInv, [Next]_vars PROVE TypeInv'
  OBVIOUS
<1> USE ProcessorAssumption, FarNat DEF TypeInv, TypeOK, Bounds, AtExecutor, Exes,
        LoopGoTo, ProducerGoTo, TerminatorGoTo, exes, producer, terminator
<1>1. ASSUME NEW e \in Exes, Boot(e) PROVE TypeInv'
  BY <1>1 DEF Boot
<1>2. ASSUME NEW e \in Exes, Take(e) PROVE TypeInv'
  <2>1. /\ queue[e] \in Seq(Tasks \cup {Nil}) /\ queue[e] # <<>>
        /\ Head(queue[e]) \in Tasks \cup {Nil}
        /\ Tail(queue[e]) \in Seq(Tasks \cup {Nil})
        /\ Len(Tail(queue[e])) <= Capacity
    BY <1>2 DEF Take
  <2>2. /\ queue' = [queue EXCEPT ![e] = Tail(queue[e])]
        /\ cur' = [cur EXCEPT ![e] = Head(queue[e])]
        /\ loop' \in [Exes -> {"boot", "take", "run", "close", "drop", "left"}]
        /\ \A d \in Exes : loop'[d] = "run" => cur'[d] # Nil
    BY <1>2 DEF Take
  <2>3. UNCHANGED <<killing, tasks, terminated, ran, ppc, round, scan, early, tpc, at>>
    BY <1>2 DEF Take
  <2>4. /\ queue' \in [Exes -> Seq(Tasks \cup {Nil})]
        /\ \A d \in Exes : Len(queue'[d]) <= Capacity
        /\ cur' \in [Exes -> Tasks \cup {Nil}]
    BY <2>1, <2>2
  <2> QED
    BY <2>2, <2>3, <2>4
<1>3. ASSUME NEW e \in Exes, Run(e) PROVE TypeInv'
  <2>1. Append(ran[e], cur[e]) \in Seq(Tasks)
    BY <1>3 DEF Run
  <2> QED
    BY <1>3, <2>1 DEF Run
<1>4. ASSUME NEW e \in Exes, CloseTasks(e) PROVE TypeInv'
  BY <1>4 DEF CloseTasks
<1>5. ASSUME NEW e \in Exes, DropTasks(e) PROVE TypeInv'
  BY <1>5 DEF DropTasks
<1>6. ASSUME NEW p \in Producers, Execute(p) PROVE TypeInv'
  <2>1. CASE killing
    <3>1. NextRound(p) /\ UNCHANGED <<killing, exes, early, terminator, ppc>>
      BY <1>6, <2>1 DEF Execute
    <3>2. scan' \in [Producers -> ScanVars] /\ ppc[p] = "idle"
      <4>1. scan' = [scan EXCEPT ![p] = NoScan] /\ scan \in [Producers -> ScanVars]
        BY <3>1 DEF NextRound, ScanVars
      <4>2. ppc[p] = "idle"
        BY <1>6 DEF Execute
      <4> QED
        BY <4>1, <4>2, NoScanType
    <3>3. round' \in [Producers -> 1 .. Rounds + 1]
      <4>1. round[p] \in 1 .. Rounds
        <5>1. round[p] \in 1 .. Rounds + 1
          OBVIOUS
        <5>2. round[p] <= Rounds
          BY <1>6 DEF Execute
        <5> QED
          BY <5>1, <5>2, BelowTop
      <4>2. round[p] + 1 \in 1 .. Rounds + 1
        <5> HIDE DEF TypeInv
        <5> QED
          BY <4>1, StepUp
      <4>3. round' = [round EXCEPT ![p] = round[p] + 1]
        BY <3>1 DEF NextRound
      <4> QED
        BY <4>2, <4>3
    <3>4. \A d \in Producers : ppc'[d] # "idle" => round'[d] <= Rounds
      BY <3>1, <3>2 DEF NextRound
    <3> QED
      BY <3>1, <3>2, <3>3, <3>4 DEF ScanVars
  <2>2. CASE ~killing
    BY <1>6, <2>2 DEF Execute
  <2> QED
    BY <2>1, <2>2
<1>7. ASSUME NEW p \in Producers, Scan(p) PROVE TypeInv'
  <2>1. scan[p] \in [i : Exes, index : Exes, min : Nat]
    OBVIOUS
  <2>2. tasklen(scan[p].i) \in Nat
    BY <2>1 DEF tasklen
  <2>3. scan'[p] \in [i : Exes, index : Exes, min : Nat]
    <3> DEFINE s == scan[p]
                shorter == tasklen(s.i) < s.min
                i0 == IF shorter THEN s.i ELSE s.index
                m0 == IF shorter THEN tasklen(s.i) ELSE s.min
    <3>1. i0 \in Exes /\ m0 \in Nat
      BY <2>1, <2>2
    <3>2. scan'[p] = IF s.i = Multi THEN [NoScan EXCEPT !.index = i0]
                     ELSE [i |-> s.i + 1, index |-> i0, min |-> m0]
      BY <1>7 DEF Scan
    <3>3. CASE s.i = Multi
      <4>1. scan'[p] = [NoScan EXCEPT !.index = i0]
        BY <3>2, <3>3
      <4>2. [NoScan EXCEPT !.index = i0] \in ScanVars
        BY <3>1, NoScanType
      <4> QED
        BY <4>1, <4>2 DEF ScanVars
    <3>4. CASE s.i # Multi
      <4>1. s.i + 1 \in Exes
        <5>1. Multi \in Nat /\ s.i \in 1 .. Multi
          BY <2>1
        <5> HIDE DEF s, TypeInv
        <5> QED
          BY <3>4, <5>1, StepUp
      <4> HIDE DEF s, i0, m0
      <4> QED
        BY <3>1, <3>2, <3>4, <4>1
    <3> QED
      BY <3>3, <3>4
  <2>4. scan' \in [Producers -> [i : Exes, index : Exes, min : Nat]]
    BY <1>7, <2>3 DEF Scan
  <2> QED
    BY <1>7, <2>4 DEF Scan
<1>8. ASSUME NEW p \in Producers, Load(p) PROVE TypeInv'
  BY <1>8 DEF Load
<1>9. ASSUME NEW p \in Producers, Send(p) PROVE TypeInv'
  <2> DEFINE q == scan[p].index
  <2>1. q \in Exes /\ <<p, round[p]>> \in Tasks /\ round[p] \in 1 .. Rounds
    <3>1. scan[p] \in [i : Exes, index : Exes, min : Nat]
      OBVIOUS
    <3>2. round[p] \in 1 .. Rounds + 1
      OBVIOUS
    <3>3. round[p] \in 1 .. Rounds
      <4>1. round[p] <= Rounds
        BY <1>9 DEF Send
      <4> QED
        BY <3>2, <4>1, BelowTop
    <3> QED
      BY <3>1, <3>3 DEF Tasks
  <2>2. UNCHANGED <<killing, tasks, terminated, loop, cur, ran, tpc, at>>
    BY <1>9 DEF Send
  <2>3. CASE tasks[q] = "open" /\ Len(queue[q]) < Capacity
    <3>1. /\ queue' = [queue EXCEPT ![q] = Append(queue[q], <<p, round[p]>>)]
          /\ early' = IF killing THEN early ELSE early \cup {<<p, round[p]>>}
          /\ ppc' = [ppc EXCEPT ![p] = "idle"] /\ NextRound(p)
      BY <1>9, <2>3 DEF Send
    <3>2. /\ Append(queue[q], <<p, round[p]>>) \in Seq(Tasks \cup {Nil})
          /\ Len(Append(queue[q], <<p, round[p]>>)) <= Capacity
      BY <2>1, <2>3
    <3>3. /\ queue' \in [Exes -> Seq(Tasks \cup {Nil})]
          /\ \A d \in Exes : Len(queue'[d]) <= Capacity
          /\ early' \subseteq Tasks
      BY <2>1, <3>1, <3>2
    <3>4. scan' \in [Producers -> ScanVars]
      BY <3>1, NoScanType DEF NextRound, ScanVars
    <3>5. round' \in [Producers -> 1 .. Rounds + 1]
      <4>0. round[p] \in 1 .. Rounds
        BY <2>1
      <4>1. round[p] + 1 \in 1 .. Rounds + 1
        <5> HIDE DEF TypeInv
        <5> QED
          BY <4>0, StepUp
      <4>2. round' = [round EXCEPT ![p] = round[p] + 1]
        BY <3>1 DEF NextRound
      <4> QED
        BY <4>1, <4>2
    <3>6. \A d \in Producers : ppc'[d] # "idle" => round'[d] <= Rounds
      BY <3>1 DEF NextRound
    <3> QED
      BY <2>2, <3>1, <3>3, <3>4, <3>5, <3>6 DEF ScanVars
  <2>4. CASE tasks[q] # "open"
    BY <1>9, <2>2, <2>4 DEF Send
  <2> QED
    BY <1>9, <2>3, <2>4 DEF Send
<1>10. ASSUME NEW k \in Terminators, Terminate(k) PROVE TypeInv'
  BY <1>10 DEF Terminate
<1>11. ASSUME NEW k \in Terminators, Mark(k) PROVE TypeInv'
  BY <1>11 DEF Mark
<1>12. ASSUME NEW k \in Terminators, Flag(k) PROVE TypeInv'
  BY <1>12 DEF Flag
<1>13. ASSUME NEW k \in Terminators, CheckTasks(k) PROVE TypeInv'
  <2>1. at[k] \in Exes
    BY <1>13 DEF CheckTasks
  <2>2. UNCHANGED <<killing, exes, producer>>
    BY <1>13 DEF CheckTasks
  <2>3. CASE tasks[at[k]] = "nil"
    <3>1. NextExecutor(k)
      BY <1>13, <2>3 DEF CheckTasks
    <3>2. at' \in [Terminators -> 1 .. Multi + 1]
      <4>1. at[k] + 1 \in 1 .. Multi + 1
        BY <2>1, StepUp
      <4> QED
        BY <3>1, <4>1 DEF NextExecutor
    <3>3. \A d \in Terminators : tpc'[d] \in AtExecutor => at'[d] \in Exes
      BY <3>1 DEF NextExecutor
    <3> QED
      BY <2>2, <3>1, <3>2, <3>3 DEF NextExecutor
  <2>4. CASE tasks[at[k]] # "nil"
    BY <1>13, <2>1, <2>2, <2>4 DEF CheckTasks
  <2> QED
    BY <2>3, <2>4
<1>14. ASSUME NEW k \in Terminators, LoadTasks(k) PROVE TypeInv'
  BY <1>14 DEF LoadTasks
<1>15. ASSUME NEW k \in Terminators, SendNil(k) PROVE TypeInv'
  <2> DEFINE q == at[k]
  <2>1. q \in Exes
    BY <1>15 DEF SendNil
  <2>2. UNCHANGED <<killing, tasks, terminated, loop, cur, ran, producer>>
    BY <1>15 DEF SendNil
  <2>3. CASE tasks[q] = "open" /\ Len(queue[q]) < Capacity
    <3>1. queue' = [queue EXCEPT ![q] = Append(queue[q], Nil)] /\ NextExecutor(k)
      BY <1>15, <2>3 DEF SendNil
    <3>2. /\ Append(queue[q], Nil) \in Seq(Tasks \cup {Nil})
          /\ Len(Append(queue[q], Nil)) <= Capacity
      BY <2>1, <2>3
    <3>3. /\ queue' \in [Exes -> Seq(Tasks \cup {Nil})]
          /\ \A d \in Exes : Len(queue'[d]) <= Capacity
      BY <2>1, <3>1, <3>2
    <3>4. tpc' \in [Terminators -> {"idle", "mark", "flag", "check", "load",
                                    "send", "done", "panicked", "hung"}]
      BY <3>1 DEF NextExecutor
    <3>5. at' \in [Terminators -> 1 .. Multi + 1]
      <4>1. at[k] + 1 \in 1 .. Multi + 1
        BY <2>1
      <4> QED
        BY <3>1, <4>1 DEF NextExecutor
    <3>6. \A d \in Terminators : tpc'[d] \in AtExecutor => at'[d] \in Exes
      BY <3>1 DEF NextExecutor
    <3> QED
      BY <2>2, <3>3, <3>4, <3>5, <3>6
  <2>4. CASE tasks[q] # "open"
    BY <1>15, <2>2, <2>4 DEF SendNil
  <2> QED
    BY <1>15, <2>3, <2>4 DEF SendNil
<1>16. ASSUME NEW k \in Terminators, RemoveProcessor(k) PROVE TypeInv'
  BY <1>16 DEF RemoveProcessor
<1>17. ASSUME UNCHANGED vars PROVE TypeInv'
  BY <1>17 DEF vars
<1> HIDE DEF TypeInv, Exes
<1> QED
  BY <1>1, <1>2, <1>3, <1>4, <1>5, <1>6, <1>7, <1>8, <1>9, <1>10, <1>11, <1>12,
     <1>13, <1>14, <1>15, <1>16, <1>17
  DEF Next, Looping, Executing, Terminating
-----------------------------------------------------------------------------
(* The order of the tasks of one executor.                                 *)

\* Rounds are numbers, before and after a step.
LEMMA RoundTypes ==
    ASSUME TypeInv, TypeInv', NEW p \in Producers
    PROVE  round[p] \in Nat /\ round'[p] \in Nat
<1>1. /\ round \in [Producers -> 1 .. Rounds + 1]
      /\ round' \in [Producers -> 1 .. Rounds + 1]
  BY DEF TypeInv, TypeOK
<1> QED
  BY <1>1, ProcessorAssumption

LEMMA TaskParts ==
    /\ \A t \in Tasks : t[1] \in Producers /\ t[2] \in Nat
    /\ \A p \in Producers, r \in 1 .. Rounds : /\ <<p, r>> \in Tasks
                                               /\ <<p, r>>[1] = p /\ <<p, r>>[2] = r
  BY ProcessorAssumption DEF Tasks

\* A step that leaves an executor alone leaves its order alone, also when the
\* rounds of the producers go up.
LEMMA OrderFrame ==
    ASSUME TypeInv, TypeInv', NEW e \in Exes, Ordered(e),
           ran'[e] = ran[e], queue'[e] = queue[e],
           loop'[e] = "run" => loop[e] = "run" /\ cur'[e] = cur[e],
           \A p \in Producers : round[p] <= round'[p]
    PROVE  Ordered(e)'
<1>1. /\ ran[e] \in Seq(Tasks) /\ queue[e] \in Seq(Tasks \cup {Nil})
      /\ loop[e] = "run" => cur[e] \in Tasks
      /\ \A p \in Producers : round[p] \in Nat /\ round'[p] \in Nat
  BY RoundTypes DEF TypeInv, TypeOK, Bounds
<1>2. RanInv(e)'
  <2>1. \A i \in DOMAIN ran[e] : ran[e][i] \in Tasks /\ ran[e][i][2] < round[ran[e][i][1]]
    BY <1>1 DEF Ordered, RanInv
  <2>2. \A i \in DOMAIN ran[e] : ran[e][i][2] < round'[ran[e][i][1]]
    BY <1>1, <2>1, TaskParts
  <2> QED
    BY <2>2 DEF Ordered, RanInv
<1>3. CurInv(e)'
  <2>1. loop[e] = "run" => cur[e][2] < round'[cur[e][1]]
    BY <1>1, TaskParts DEF Ordered, CurInv
  <2> QED
    BY <2>1 DEF Ordered, CurInv
<1>4. QueueInv(e)'
  BY <1>1, TaskParts DEF Ordered, QueueInv
<1> QED
  BY <1>2, <1>3, <1>4 DEF Ordered

LEMMA TakeOrder ==
    ASSUME IInv, TypeInv', NEW e \in Exes, Take(e) PROVE Ordered(e)'
<1> DEFINE q == queue[e]
<1>1. /\ q \in Seq(Tasks \cup {Nil}) /\ q # <<>>
      /\ queue'[e] = Tail(q) /\ cur'[e] = q[1]
      /\ UNCHANGED <<ran, round>>
      /\ loop'[e] = "run" => q[1] # Nil
  BY DEF IInv, TypeInv, TypeOK, Take, LoopGoTo, producer
<1>2. /\ 1 \in DOMAIN q
      /\ \A j \in DOMAIN Tail(q) : j + 1 \in DOMAIN q /\ Tail(q)[j] = q[j + 1]
                                   /\ j \in Nat /\ 1 < j + 1
  BY <1>1
<1>3. RanInv(e) /\ QueueInv(e)
  BY DEF IInv, Ordered
<1> HIDE DEF q
<1>4. RanInv(e)'
  BY <1>1, <1>2, <1>3 DEF RanInv, q
<1>5. CurInv(e)'
  BY <1>1, <1>2, <1>3 DEF RanInv, CurInv, QueueInv, q
<1>6. QueueInv(e)'
  <2>1. \A i, j \in DOMAIN Tail(q) : i < j => i + 1 < j + 1
    BY <1>2
  <2>2. \A i \in DOMAIN Tail(q) : Tail(q)[i] # Nil =>
            Tail(q)[i][2] < round[Tail(q)[i][1]]
    BY <1>2, <1>3 DEF QueueInv, q
  <2>3. \A i, j \in DOMAIN Tail(q) :
            i < j /\ Tail(q)[i] # Nil /\ Tail(q)[j] # Nil
                => Before(Tail(q)[i], Tail(q)[j])
    BY <1>2, <1>3, <2>1 DEF QueueInv, q
  <2> QED
    BY <1>1, <2>2, <2>3 DEF QueueInv
<1> QED
  BY <1>4, <1>5, <1>6 DEF Ordered

LEMMA RunOrder ==
    ASSUME IInv, TypeInv', NEW e \in Exes, Run(e) PROVE Ordered(e)'
<1> DEFINE r == ran[e]
<1>1. /\ r \in Seq(Tasks) /\ cur[e] \in Tasks
      /\ ran'[e] = Append(r, cur[e]) /\ UNCHANGED <<queue, round>>
      /\ loop[e] = "run" /\ loop'[e] = "take"
  BY DEF IInv, TypeInv, TypeOK, Bounds, Run, LoopGoTo, producer
<1>2. \A i \in DOMAIN Append(r, cur[e]) :
          \/ i \in DOMAIN r /\ Append(r, cur[e])[i] = r[i]
          \/ /\ i \notin DOMAIN r /\ Append(r, cur[e])[i] = cur[e]
             /\ \A j \in DOMAIN Append(r, cur[e]) : ~(i < j)
  BY <1>1
<1>3. RanInv(e) /\ CurInv(e) /\ QueueInv(e)
  BY DEF IInv, Ordered
<1> HIDE DEF r
<1>4. RanInv(e)'
  BY <1>1, <1>2, <1>3 DEF RanInv, CurInv, r
<1>5. CurInv(e)' /\ QueueInv(e)'
  BY <1>1, <1>3 DEF CurInv, QueueInv
<1> QED
  BY <1>4, <1>5 DEF Ordered

\* What Send and SendNil append is younger than everything before it.
LEMMA AppendOrder ==
    ASSUME IInv, TypeInv', NEW e \in Exes, NEW t \in Tasks \cup {Nil},
           queue'[e] = Append(queue[e], t), UNCHANGED <<ran, loop, cur>>,
           t # Nil => t[2] = round[t[1]] /\ round'[t[1]] = round[t[1]] + 1,
           \A p \in Producers : round[p] <= round'[p]
    PROVE  Ordered(e)'
<1> DEFINE q == queue[e]
<1>1. /\ ran[e] \in Seq(Tasks) /\ q \in Seq(Tasks \cup {Nil})
      /\ loop[e] = "run" => cur[e] \in Tasks
      /\ \A p \in Producers : round[p] \in Nat /\ round'[p] \in Nat
  BY RoundTypes DEF IInv, TypeInv, TypeOK, Bounds
<1>2. \A i \in DOMAIN Append(q, t) :
          \/ i \in DOMAIN q /\ Append(q, t)[i] = q[i] /\ q[i] \in Tasks \cup {Nil}
          \/ /\ i \notin DOMAIN q /\ Append(q, t)[i] = t
             /\ \A j \in DOMAIN Append(q, t) : ~(i < j)
  BY <1>1
<1>3. RanInv(e) /\ CurInv(e) /\ QueueInv(e)
  BY DEF IInv, Ordered
<1>4. \A i \in DOMAIN ran[e] : ran[e][i] \in Tasks
  BY <1>1
<1> HIDE DEF q
<1>5. /\ ran'[e] = ran[e] /\ loop'[e] = loop[e] /\ cur'[e] = cur[e]
      /\ queue'[e] = Append(q, t)
      /\ \A s \in Tasks : s[2] < round[s[1]] => s[2] < round'[s[1]]
  BY <1>1, TaskParts DEF q
<1>6. \A s \in Tasks : s[2] < round[s[1]] /\ t # Nil => Before(s, t)
  BY <1>1, TaskParts DEF Before
<1>7. RanInv(e)'
  <2>1. \A i \in DOMAIN ran[e] : ran[e][i][2] < round'[ran[e][i][1]]
    BY <1>3, <1>4, <1>5 DEF RanInv
  <2>2. \A i \in DOMAIN ran[e], j \in DOMAIN Append(q, t) :
            Append(q, t)[j] # Nil => Before(ran[e][i], Append(q, t)[j])
    BY <1>2, <1>3, <1>4, <1>6 DEF RanInv, q
  <2> QED
    BY <1>3, <1>5, <2>1, <2>2 DEF RanInv
<1>8. CurInv(e)'
  <2> SUFFICES ASSUME loop[e] = "run" PROVE CurInv(e)'
    BY <1>5 DEF CurInv
  <2>1. cur[e][2] < round'[cur[e][1]]
    BY <1>1, <1>3, <1>5 DEF CurInv
  <2>2. \A j \in DOMAIN Append(q, t) :
            Append(q, t)[j] # Nil => Before(cur[e], Append(q, t)[j])
    BY <1>1, <1>2, <1>3, <1>6 DEF CurInv, q
  <2> QED
    BY <1>3, <1>5, <2>1, <2>2 DEF CurInv
<1>9. QueueInv(e)'
  <2>1. \A i \in DOMAIN Append(q, t) : Append(q, t)[i] # Nil =>
            Append(q, t)[i][2] < round'[Append(q, t)[i][1]]
    <3>1. t # Nil => t[2] < round'[t[1]]
      BY <1>1, TaskParts
    <3> QED
      BY <1>2, <1>3, <1>5, <3>1 DEF QueueInv, q
  <2>2. ASSUME NEW i \in DOMAIN Append(q, t), NEW j \in DOMAIN Append(q, t),
               i < j, Append(q, t)[i] # Nil, Append(q, t)[j] # Nil
        PROVE  Before(Append(q, t)[i], Append(q, t)[j])
    <3>1. i \in DOMAIN q /\ Append(q, t)[i] = q[i] /\ q[i] \in Tasks
      BY <1>2, <2>2
    <3>2. q[i][2] < round[q[i][1]]
      BY <1>3, <2>2, <3>1 DEF QueueInv, q
    <3> QED
      BY <1>2, <1>3, <1>6, <2>2, <3>1, <3>2 DEF QueueInv, q
  <2> QED
    BY <1>5, <2>1, <2>2 DEF QueueInv
<1> QED
  BY <1>7, <1>8, <1>9 DEF Ordered
-----------------------------------------------------------------------------
LEMMA IInvStep == IInv /\ [Next]_vars => IInv'
<1> SUFFICES ASSUME IInv, [Next]_vars PROVE IInv'
  OBVIOUS
<1>1. TypeInv /\ TypeInv'
  BY TypeStep DEF IInv
<1>2. SUFFICES ASSUME NEW e \in Exes PROVE Ordered(e)'
  BY <1>1 DEF IInv
<1>3. Ordered(e)
  BY DEF IInv
<1>4. \A p \in Producers : round[p] <= round[p] /\ round[p] <= round[p] + 1
  BY <1>1, RoundTypes
<1>5. ASSUME NEW d \in Exes, Looping(d) PROVE Ordered(e)'
  <2>1. UNCHANGED round
    BY <1>5 DEF Looping, Boot, Take, Run, CloseTasks, DropTasks, producer
  <2>2. CASE d # e
    <3>1. ran'[e] = ran[e]
      <4>1. ran' = ran \/ \E r : ran' = [ran EXCEPT ![d] = r]
        BY <1>5 DEF Looping, Boot, Take, Run, CloseTasks, DropTasks
      <4> QED
        BY <1>1, <2>2, <4>1 DEF TypeInv, TypeOK
    <3>2. queue'[e] = queue[e]
      <4>1. queue' = queue \/ \E q : queue' = [queue EXCEPT ![d] = q]
        BY <1>5 DEF Looping, Boot, Take, Run, CloseTasks, DropTasks
      <4> QED
        BY <1>1, <2>2, <4>1 DEF TypeInv, TypeOK
    <3>3. loop'[e] = loop[e]
      <4>1. \E l \in {"boot", "take", "run", "close", "drop", "left"} :
               loop' = [loop EXCEPT ![d] = l]
        BY <1>5 DEF Looping, Boot, Take, Run, CloseTasks, DropTasks, LoopGoTo
      <4> QED
        BY <1>1, <2>2, <4>1 DEF TypeInv, TypeOK
    <3>4. cur'[e] = cur[e]
      <4>1. cur' = cur \/ \E t : cur' = [cur EXCEPT ![d] = t]
        BY <1>5 DEF Looping, Boot, Take, Run, CloseTasks, DropTasks
      <4> QED
        BY <1>1, <2>2, <4>1 DEF TypeInv, TypeOK
    <3> QED
      BY <1>1, <1>3, <1>4, <2>1, <3>1, <3>2, <3>3, <3>4, OrderFrame
  <2>3. CASE d = e /\ (Boot(d) \/ CloseTasks(d) \/ DropTasks(d))
    <3>1. UNCHANGED <<ran, queue>> /\ loop'[e] # "run"
      BY <1>1, <2>3 DEF Boot, CloseTasks, DropTasks, LoopGoTo, TypeInv, TypeOK
    <3> QED
      BY <1>1, <1>3, <1>4, <2>1, <3>1, OrderFrame
  <2>4. CASE d = e /\ Take(d)
    BY <1>1, <2>4, TakeOrder
  <2>5. CASE d = e /\ Run(d)
    BY <1>1, <2>5, RunOrder
  <2> QED
    BY <1>5, <2>2, <2>3, <2>4, <2>5 DEF Looping
<1>6. ASSUME NEW p \in Producers, Execute(p) \/ Executing(p) PROVE Ordered(e)'
  <2>1. UNCHANGED <<ran, loop, cur>>
    BY <1>6 DEF Execute, Executing, Scan, Load, Send, exes
  <2>2. \A s \in Producers : round[s] <= round'[s]
    <3>1. round' = round \/ round' = [round EXCEPT ![p] = round[p] + 1]
      BY <1>6 DEF Execute, Executing, Scan, Load, Send, NextRound
    <3>2. \A s \in Producers : s \in DOMAIN round
      BY <1>1 DEF TypeInv, TypeOK
    <3>3. CASE round' = round
      BY <1>4, <3>3
    <3>4. CASE round' = [round EXCEPT ![p] = round[p] + 1]
      <4> SUFFICES ASSUME NEW s \in Producers PROVE round[s] <= round'[s]
        OBVIOUS
      <4>1. round'[s] = round[s] \/ round'[s] = round[s] + 1
        BY <3>2, <3>4
      <4> QED
        BY <1>4, <4>1
    <3> QED
      BY <3>1, <3>3, <3>4
  <2>3. CASE UNCHANGED queue
    BY <1>1, <1>3, <2>1, <2>2, <2>3, OrderFrame
  <2>4. CASE queue' # queue
    <3> DEFINE q == scan[p].index
               t == <<p, round[p]>>
    <3>1. Send(p) /\ queue' = [queue EXCEPT ![q] = Append(queue[q], t)] /\ NextRound(p)
      BY <1>6, <2>4 DEF Execute, Executing, Scan, Load, Send, exes
    <3>2. t \in Tasks /\ t[1] = p /\ t[2] = round[p]
      BY <1>1, <3>1, ProcessorAssumption DEF Send, Tasks, TypeInv, TypeOK, Bounds
    <3>3. round'[p] = round[p] + 1
      BY <1>1, <3>1 DEF NextRound, TypeInv, TypeOK
    <3>4. queue'[e] = queue[e] \/ queue'[e] = Append(queue[e], t)
      <4>1. e \in DOMAIN queue
        BY <1>1 DEF TypeInv, TypeOK
      <4>2. queue' = [queue EXCEPT ![q] = Append(queue[q], t)]
        BY <3>1
      <4> HIDE DEF q, t
      <4> QED
        BY <4>1, <4>2
    <3> HIDE DEF q, t
    <3> QED
      BY <1>1, <1>3, <2>1, <2>2, <3>2, <3>3, <3>4, OrderFrame, AppendOrder
  <2> QED
    BY <2>3, <2>4
<1>7. ASSUME NEW k \in Terminators, Terminate(k) \/ Terminating(k) PROVE Ordered(e)'
  <2>1. UNCHANGED <<ran, loop, cur, round>>
    BY <1>7 DEF Terminate, Terminating, Mark, Flag, CheckTasks, LoadTasks, SendNil,
                RemoveProcessor, exes, producer
  <2>2. queue'[e] = queue[e] \/ queue'[e] = Append(queue[e], Nil)
    BY <1>1, <1>7 DEF Terminate, Terminating, Mark, Flag, CheckTasks, LoadTasks,
                      SendNil, RemoveProcessor, exes, TypeInv, TypeOK
  <2> QED
    BY <1>1, <1>3, <1>4, <2>1, <2>2, OrderFrame, AppendOrder
<1>8. CASE UNCHANGED vars
  BY <1>1, <1>3, <1>4, <1>8, OrderFrame DEF vars
<1> QED
  BY <1>5, <1>6, <1>7, <1>8 DEF Next

LEMMA IInvCorrect == Spec => []IInv
  BY IInvInit, IInvStep, PTL DEF Spec

\* Every variable of the processor and its executors keeps its type: no queue
\* outgrows its capacity, and the nil task is never run.
THEOREM TypeCorrect == Spec => []TypeOK
<1>1. IInv => TypeOK
  BY DEF IInv, TypeInv
<1> QED
  BY <1>1, IInvCorrect, PTL

\* Execute keeps its promise of a sequential context: the tasks one goroutine
\* hands over are run by an executor in their order and none of them twice, for
\* any number of executors, producers and Terminate calls and any capacity.
THEOREM RunInOrderCorrect == Spec => []RunInOrder
<1>1. IInv => RunInOrder
  BY DEF IInv, Ordered, RanInv, Before, RunInOrder
<1> QED
  BY <1>1, IInvCorrect, PTL
-----------------------------------------------------------------------------
(* What EarlyTasksRun and ExecutorsEnd rest on.                            *)

Serving(e) == loop[e] \in {"boot", "take", "run"}

\* Task t is in the queue of an executor that has not ended, and no nil task is
\* in front of it.
Queued(e, t) ==
    /\ Serving(e)
    /\ \E i \in DOMAIN queue[e] : /\ queue[e][i] = t
                                  /\ \A j \in DOMAIN queue[e] : j <= i => queue[e][j] # Nil

\* A task that was handed over before killing was set has run, is running, or will
\* be taken by an executor before any nil task.
EarlyTasksKept ==
    \A t \in early : \/ HasRun(t)
                     \/ \E e \in Exes : (loop[e] = "run" /\ cur[e] = t) \/ Queued(e, t)

\* A nil task is in the queue of e, or a Terminate is about to put one there.
NilComes(e) ==
    \/ \E i \in DOMAIN queue[e] : queue[e][i] = Nil
    \/ \E k \in Terminators : tpc[k] \in AtExecutor /\ at[k] = e

\* The goroutine of an executor that was told to terminate does not wait for ever.
EndComes == \A e \in Exes : terminated[e] /\ loop[e] \in {"take", "run"} => NilComes(e)

\* The channel is open while it is served, and the nil tasks come after killing.
ServedOpen == \A e \in Exes : Serving(e) => tasks[e] = "open"
NilsLate ==
    ~killing => /\ \A k \in Terminators : tpc[k] \in {"idle", "mark"}
                /\ \A e \in Exes : /\ Serving(e)
                                   /\ \A i \in DOMAIN queue[e] : queue[e][i] # Nil

EInv == IInv /\ ServedOpen /\ NilsLate /\ EarlyTasksKept /\ EndComes

LEMMA EInvInit == Init => EInv
<1> SUFFICES ASSUME Init PROVE EInv
  OBVIOUS
<1>1. ServedOpen /\ EarlyTasksKept /\ EndComes
  BY DEF Init, ServedOpen, EarlyTasksKept, EndComes, Serving
<1>2. NilsLate
  BY DEF Init, NilsLate, Serving
<1> QED BY IInvInit, <1>1, <1>2 DEF EInv

\* What appending to a queue does to its places.
LEMMA Appended ==
    ASSUME NEW S, NEW q \in Seq(S), NEW x \in S
    PROVE  /\ \A i \in DOMAIN q : i \in DOMAIN Append(q, x) /\ Append(q, x)[i] = q[i]
           /\ Len(q) + 1 \in DOMAIN Append(q, x) /\ Append(q, x)[Len(q) + 1] = x
           /\ \A i \in DOMAIN Append(q, x) :
                (i \in DOMAIN q /\ Append(q, x)[i] = q[i])
                \/ (i = Len(q) + 1 /\ Append(q, x)[i] = x)
           /\ \A i \in DOMAIN q : i <= Len(q) /\ i \in Nat
  OBVIOUS

\* What taking its head does.
LEMMA Taken ==
    ASSUME NEW S, NEW q \in Seq(S), q # <<>>
    PROVE  /\ 1 \in DOMAIN q /\ Head(q) = q[1]
           /\ \A i \in DOMAIN q : i = 1 \/ (i - 1 \in DOMAIN Tail(q) /\ Tail(q)[i - 1] = q[i])
           /\ \A i \in DOMAIN Tail(q) : i + 1 \in DOMAIN q /\ Tail(q)[i] = q[i + 1]
           /\ DOMAIN q \subseteq Nat /\ DOMAIN Tail(q) \subseteq Nat
           /\ \A i \in DOMAIN q : 1 <= i
  OBVIOUS

\* Tasks that are waited for by nobody else than the executor that has them.
LEMMA TakeQueued ==
    ASSUME TypeOK, NEW e \in Exes, Take(e), NEW t, t # Nil, Queued(e, t)
    PROVE  loop'[e] = "run" /\ (cur'[e] = t \/ Queued(e, t)')
<1> DEFINE q == queue[e]
<1>1. /\ q \in Seq(Tasks \cup {Nil}) /\ q # <<>> /\ queue'[e] = Tail(q) /\ cur'[e] = Head(q)
      /\ Head(q) # Nil => loop'[e] = "run"
  BY DEF TypeOK, Take, LoopGoTo
<1>2. PICK i \in DOMAIN q : q[i] = t /\ \A j \in DOMAIN q : j <= i => q[j] # Nil
  BY DEF Queued
<1>3. /\ 1 \in DOMAIN q /\ Head(q) = q[1]
      /\ i = 1 \/ (i - 1 \in DOMAIN Tail(q) /\ Tail(q)[i - 1] = q[i])
      /\ \A j \in DOMAIN Tail(q) : j + 1 \in DOMAIN q /\ Tail(q)[j] = q[j + 1]
      /\ DOMAIN q \subseteq Nat /\ DOMAIN Tail(q) \subseteq Nat /\ 1 <= i
  BY <1>1, Taken
<1> HIDE DEF q
<1>4. loop'[e] = "run"
  BY <1>1, <1>2, <1>3
<1>5. CASE i = 1
  BY <1>1, <1>2, <1>3, <1>4, <1>5
<1>6. CASE i # 1
  <2>1. i - 1 \in DOMAIN Tail(q) /\ Tail(q)[i - 1] = t
    BY <1>2, <1>3, <1>6
  <2>2. ASSUME NEW j \in DOMAIN Tail(q), j <= i - 1 PROVE Tail(q)[j] # Nil
    <3>1. j + 1 \in DOMAIN q /\ Tail(q)[j] = q[j + 1] /\ j + 1 <= i
      BY <1>3, <2>2
    <3> QED BY <1>2, <3>1
  <2> QED BY <1>1, <1>4, <2>1, <2>2 DEF Queued, Serving
<1> QED BY <1>5, <1>6

LEMMA AppendQueued ==
    ASSUME TypeOK, NEW e \in Exes, NEW x \in Tasks \cup {Nil}, NEW t,
           queue'[e] = Append(queue[e], x), loop'[e] = loop[e]
    PROVE  /\ Queued(e, t) => Queued(e, t)'
           /\ Serving(e) /\ x = t /\ x # Nil /\ (\A i \in DOMAIN queue[e] : queue[e][i] # Nil)
                => Queued(e, t)'
<1> DEFINE q == queue[e]
<1>1. q \in Seq(Tasks \cup {Nil})
  BY DEF TypeOK
<1>2. /\ \A i \in DOMAIN q : i \in DOMAIN Append(q, x) /\ Append(q, x)[i] = q[i]
      /\ Len(q) + 1 \in DOMAIN Append(q, x) /\ Append(q, x)[Len(q) + 1] = x
      /\ \A i \in DOMAIN Append(q, x) :
           (i \in DOMAIN q /\ Append(q, x)[i] = q[i])
           \/ (i = Len(q) + 1 /\ Append(q, x)[i] = x)
      /\ \A i \in DOMAIN q : i <= Len(q) /\ i \in Nat
      /\ Len(q) \in Nat
  BY <1>1, Appended
<1> HIDE DEF q
<1>3. ASSUME Queued(e, t) PROVE Queued(e, t)'
  <2>1. PICK i \in DOMAIN q : q[i] = t /\ \A j \in DOMAIN q : j <= i => q[j] # Nil
    BY <1>3 DEF Queued, q
  <2>2. \A j \in DOMAIN Append(q, x) : j <= i => Append(q, x)[j] # Nil
    BY <1>2, <2>1
  <2> QED BY <1>2, <1>3, <2>1, <2>2 DEF Queued, Serving, q
<1>4. ASSUME Serving(e), x = t, x # Nil, \A i \in DOMAIN q : q[i] # Nil
      PROVE  Queued(e, t)'
  <2>1. \A j \in DOMAIN Append(q, x) : Append(q, x)[j] # Nil
    BY <1>2, <1>4
  <2> QED BY <1>2, <1>4, <2>1 DEF Queued, Serving, q
<1> QED BY <1>3, <1>4 DEF q

\* Where task t is.
Kept(t) == HasRun(t) \/ \E e \in Exes : (loop[e] = "run" /\ cur[e] = t) \/ Queued(e, t)

\* A step of neither the executors nor Send keeps every task where it is.
LEMMA KeptFrame ==
    ASSUME UNCHANGED <<queue, loop, cur, ran>>, NEW t
    PROVE  Kept(t) => Kept(t)'
  BY DEF Kept, HasRun, Queued, Serving

\* A step of one executor.
LEMMA KeptStep ==
    ASSUME NEW e \in Exes, NEW t, Kept(t),
           \A d \in Exes \ {e} : /\ queue'[d] = queue[d] /\ loop'[d] = loop[d]
                                 /\ cur'[d] = cur[d],
           HasRun(t) => HasRun(t)',
           (loop[e] = "run" /\ cur[e] = t) \/ Queued(e, t) => Kept(t)'
    PROVE  Kept(t)'
<1>1. CASE HasRun(t)
  BY <1>1 DEF Kept
<1>2. ASSUME NEW d \in Exes \ {e}, (loop[d] = "run" /\ cur[d] = t) \/ Queued(d, t)
      PROVE  Kept(t)'
  <2>1. queue'[d] = queue[d] /\ loop'[d] = loop[d] /\ cur'[d] = cur[d]
    OBVIOUS
  <2> QED BY <1>2, <2>1 DEF Kept, Queued, Serving
<1> QED BY <1>1, <1>2 DEF Kept

LEMMA NilComesStep ==
    ASSUME TypeOK, NEW e \in Exes, NilComes(e), queue'[e] = queue[e], tpc' = tpc, at' = at
    PROVE  NilComes(e)'
  BY DEF NilComes

LEMMA EarlyStep == EInv /\ [Next]_vars => EarlyTasksKept'
<1> SUFFICES ASSUME EInv, [Next]_vars PROVE EarlyTasksKept'
  OBVIOUS
<1> USE DEF exes, producer, terminator, LoopGoTo
<1>t. TypeOK
  BY DEF EInv, IInv, TypeInv
<1>n. Nil \notin Tasks /\ early \subseteq Tasks
  BY <1>t, ProcessorAssumption DEF TypeOK
<1>k. \A t \in early : Kept(t)
  BY DEF EInv, EarlyTasksKept, Kept
<1>g. (\A t \in early' : Kept(t)') => EarlyTasksKept'
  BY DEF EarlyTasksKept, Kept
<1>f. ASSUME UNCHANGED <<queue, loop, cur, ran, early>> PROVE EarlyTasksKept'
  BY <1>f, <1>k, <1>g, KeptFrame
<1>1. ASSUME NEW e \in Exes, Looping(e) PROVE EarlyTasksKept'
  <2> SUFFICES ASSUME NEW t \in early PROVE Kept(t)'
    BY <1>1, <1>g DEF Looping, Boot, Take, Run, CloseTasks, DropTasks
  <2>0. Kept(t) /\ t # Nil
    BY <1>k, <1>n
  <2>1. \A d \in Exes \ {e} : queue'[d] = queue[d] /\ loop'[d] = loop[d] /\ cur'[d] = cur[d]
    BY <1>1, <1>t DEF Looping, Boot, Take, Run, CloseTasks, DropTasks, TypeOK
  <2>2. CASE Boot(e)
    <3>1. /\ queue' = queue /\ ran' = ran /\ cur' = cur
          /\ loop[e] = "boot" /\ loop'[e] = "take"
      BY <2>2, <1>t DEF Boot, TypeOK
    <3>2. Queued(e, t) => Queued(e, t)'
      BY <3>1 DEF Queued, Serving
    <3>3. HasRun(t) => HasRun(t)'
      BY <3>1 DEF HasRun
    <3> QED BY <2>0, <2>1, <3>1, <3>2, <3>3, KeptStep DEF Kept
  <2>3. CASE Take(e)
    <3>1. HasRun(t) => HasRun(t)'
      BY <2>3 DEF Take, HasRun
    <3>2. loop[e] # "run"
      BY <2>3 DEF Take
    <3>3. Queued(e, t) => Kept(t)'
      BY <2>0, <2>3, <1>t, TakeQueued DEF Kept
    <3> QED BY <2>0, <2>1, <3>1, <3>2, <3>3, KeptStep
  <2>4. CASE Run(e)
    <3>1. /\ ran[e] \in Seq(Tasks) /\ (cur[e] \in Tasks \/ cur[e] = Nil)
          /\ ran' = [ran EXCEPT ![e] = Append(ran[e], cur[e])] /\ queue' = queue
          /\ loop[e] = "run" /\ loop'[e] = "take"
      BY <2>4, <1>t DEF Run, TypeOK
    <3>2. cur[e] \in Tasks /\ ran[e] \in Seq(Tasks) /\ ran'[e] = Append(ran[e], cur[e])
      BY <3>1, <1>t DEF EInv, IInv, TypeInv, Bounds, TypeOK
    <3>3. /\ \A x \in Range(ran[e]) : x \in Range(ran'[e])
          /\ cur[e] \in Range(ran'[e])
      BY <3>2, Appended DEF Range
    <3>4. HasRun(t) => HasRun(t)'
      BY <3>1, <3>3, <1>t DEF HasRun, TypeOK
    <3>5. cur[e] = t => HasRun(t)'
      BY <3>3 DEF HasRun
    <3>6. Queued(e, t) => Queued(e, t)'
      BY <3>1 DEF Queued, Serving
    <3> QED BY <2>0, <2>1, <3>4, <3>5, <3>6, KeptStep DEF Kept
  <2>5. CASE CloseTasks(e) \/ DropTasks(e)
    <3>1. loop[e] \in {"close", "drop"} /\ ran' = ran
      BY <2>5 DEF CloseTasks, DropTasks
    <3>2. HasRun(t) => HasRun(t)'
      BY <3>1 DEF HasRun
    <3> QED BY <2>0, <2>1, <3>1, <3>2, KeptStep DEF Queued, Serving
  <2> QED BY <1>1, <2>2, <2>3, <2>4, <2>5 DEF Looping
<1>2. ASSUME NEW p \in Producers, Execute(p) \/ Scan(p) \/ Load(p) PROVE EarlyTasksKept'
  BY <1>2, <1>f DEF Execute, Scan, Load
<1>3. ASSUME NEW p \in Producers, Send(p) PROVE EarlyTasksKept'
  <2>1. CASE UNCHANGED <<queue, early>>
    BY <1>3, <1>f, <2>1 DEF Send
  <2>2. CASE ~UNCHANGED <<queue, early>>
    <3>0. PICK e \in Exes : e = scan[p].index
      BY <1>t DEF TypeOK
    <3>1. /\ queue' = [queue EXCEPT ![e] = Append(queue[e], <<p, round[p]>>)]
          /\ tasks[e] = "open" /\ ppc[p] = "send"
          /\ early' = (IF killing THEN early ELSE early \cup {<<p, round[p]>>})
          /\ UNCHANGED <<loop, cur, ran>>
      BY <1>3, <2>2, <3>0 DEF Send
    <3>2. PICK x \in Tasks : x = <<p, round[p]>>
      <4>1. round[p] \in 1 .. Rounds
        BY <3>1, <1>t, ProcessorAssumption DEF EInv, IInv, TypeInv, Bounds, TypeOK
      <4> QED BY <4>1, <1>t DEF TypeOK, Tasks
    <3>3. /\ queue'[e] = Append(queue[e], x) /\ loop'[e] = loop[e]
          /\ \A d \in Exes \ {e} : queue'[d] = queue[d] /\ loop'[d] = loop[d] /\ cur'[d] = cur[d]
      BY <3>1, <3>2, <1>t DEF TypeOK
    <3>x. x \in Tasks \cup {Nil} /\ x # Nil
      BY <3>2, <1>n
    <3>4. ASSUME NEW t \in early PROVE Kept(t)'
      <4>1. HasRun(t) => HasRun(t)'
        BY <3>1 DEF HasRun
      <4>2. Queued(e, t) => Queued(e, t)'
        BY <3>x, <3>3, <1>t, AppendQueued
      <4>3. loop[e] = "run" /\ cur[e] = t => Kept(t)'
        BY <3>1 DEF Kept
      <4>4. Queued(e, t) => Kept(t)'
        BY <4>2 DEF Kept
      <4> QED BY <1>k, <3>3, <4>1, <4>3, <4>4, KeptStep
    <3>5. ASSUME ~killing PROVE Kept(x)'
      <4>1. Serving(e) /\ \A i \in DOMAIN queue[e] : queue[e][i] # Nil
        BY <3>5 DEF EInv, NilsLate
      <4>2. Queued(e, x)'
        BY <3>x, <1>t, <3>3, <4>1, AppendQueued
      <4> QED BY <4>2 DEF Kept
    <3>6. ASSUME NEW t \in early' PROVE Kept(t)'
      <4>1. t \in early \/ (t = x /\ ~killing)
        BY <3>1, <3>2, <3>6
      <4> QED BY <3>4, <3>5, <4>1
    <3> QED BY <1>g, <3>6
  <2> QED BY <2>1, <2>2
<1>4. ASSUME NEW k \in Terminators, SendNil(k) PROVE EarlyTasksKept'
  <2>1. CASE UNCHANGED queue
    BY <1>4, <1>f, <2>1 DEF SendNil
  <2>2. CASE ~UNCHANGED queue
    <3>0. at[k] \in Exes
      BY <1>4 DEF EInv, IInv, TypeInv, Bounds, AtExecutor, SendNil
    <3>e. PICK e \in Exes : e = at[k]
      BY <3>0
    <3>1. /\ queue' = [queue EXCEPT ![e] = Append(queue[e], Nil)]
          /\ UNCHANGED <<loop, cur, ran, early>>
      BY <1>4, <2>2, <3>e DEF SendNil
    <3>2. Nil \in Tasks \cup {Nil}
      OBVIOUS
    <3>3. /\ queue'[e] = Append(queue[e], Nil) /\ loop'[e] = loop[e]
          /\ \A d \in Exes \ {e} : queue'[d] = queue[d] /\ loop'[d] = loop[d] /\ cur'[d] = cur[d]
      BY <3>1, <1>t DEF TypeOK
    <3>4. ASSUME NEW t \in early PROVE Kept(t)'
      <4>1. HasRun(t) => HasRun(t)'
        BY <3>1 DEF HasRun
      <4>2. Queued(e, t) => Queued(e, t)'
        BY <3>2, <3>3, <1>t, AppendQueued
      <4>3. loop[e] = "run" /\ cur[e] = t => Kept(t)'
        BY <3>1 DEF Kept
      <4>4. Queued(e, t) => Kept(t)'
        BY <4>2 DEF Kept
      <4> QED BY <1>k, <3>3, <4>1, <4>3, <4>4, KeptStep
    <3> QED BY <1>g, <3>1, <3>4
  <2> QED BY <2>1, <2>2
<1>5. ASSUME NEW k \in Terminators,
             \/ Terminate(k) \/ Mark(k) \/ Flag(k) \/ CheckTasks(k) \/ LoadTasks(k)
             \/ RemoveProcessor(k)
      PROVE  EarlyTasksKept'
  BY <1>5, <1>f DEF Terminate, Mark, Flag, CheckTasks, LoadTasks, RemoveProcessor
<1>6. CASE UNCHANGED vars
  BY <1>6, <1>f DEF vars
<1> QED BY <1>1, <1>2, <1>3, <1>4, <1>5, <1>6 DEF Next, Executing, Terminating

LEMMA ServedOpenStep == EInv /\ [Next]_vars => ServedOpen'
<1> SUFFICES ASSUME EInv, [Next]_vars, NEW e \in Exes, Serving(e)' PROVE tasks'[e] = "open"
  BY DEF ServedOpen
<1> USE DEF exes, producer, terminator, LoopGoTo
<1>t. TypeOK /\ (Serving(e) => tasks[e] = "open")
  BY DEF EInv, IInv, TypeInv, ServedOpen
<1>f. ASSUME UNCHANGED <<tasks, loop>> PROVE tasks'[e] = "open"
  BY <1>f, <1>t DEF Serving
<1>1. ASSUME NEW d \in Exes, Looping(d) PROVE tasks'[e] = "open"
  <2>1. CASE d = e
    <3>1. Serving(e) /\ tasks' = tasks
      BY <1>1, <1>t, <2>1 DEF Looping, Boot, Take, Run, CloseTasks, DropTasks, TypeOK, Serving
    <3> QED BY <1>t, <3>1
  <2>2. CASE d # e
    <3>1. loop'[e] = loop[e] /\ tasks'[e] = tasks[e]
      BY <1>1, <1>t, <2>2 DEF Looping, Boot, Take, Run, CloseTasks, DropTasks, TypeOK
    <3> QED BY <1>t, <3>1 DEF Serving
  <2> QED BY <2>1, <2>2
<1>2. ASSUME NEW p \in Producers, Execute(p) \/ Executing(p) PROVE tasks'[e] = "open"
  BY <1>2, <1>f DEF Execute, Executing, Scan, Load, Send
<1>3. ASSUME NEW k \in Terminators, Terminate(k) \/ Terminating(k) PROVE tasks'[e] = "open"
  BY <1>3, <1>f DEF Terminate, Terminating, Mark, Flag, CheckTasks, LoadTasks, SendNil,
                    RemoveProcessor
<1>4. CASE UNCHANGED vars
  BY <1>4, <1>f DEF vars
<1> QED BY <1>1, <1>2, <1>3, <1>4 DEF Next

LEMMA NilsLateStep == EInv /\ [Next]_vars => NilsLate'
<1> SUFFICES ASSUME EInv, [Next]_vars, ~killing' PROVE NilsLate'
  BY DEF NilsLate
<1> USE DEF exes, producer, terminator, LoopGoTo, TerminatorGoTo
<1>t. TypeOK /\ Nil \notin Tasks
  BY ProcessorAssumption DEF EInv, IInv, TypeInv
<1>k. ~killing
  BY <1>t DEF Next, Looping, Boot, Take, Run, CloseTasks, DropTasks, Execute, Executing, Scan,
     Load, Send, Terminate, Terminating, Mark, Flag, CheckTasks, LoadTasks, SendNil,
     RemoveProcessor, vars
<1>n. /\ \A k \in Terminators : tpc[k] \in {"idle", "mark"}
      /\ \A e \in Exes : Serving(e) /\ \A i \in DOMAIN queue[e] : queue[e][i] # Nil
  BY <1>k DEF EInv, NilsLate
<1>f. ASSUME UNCHANGED <<queue, loop, tpc>> PROVE NilsLate'
  BY <1>f, <1>n DEF NilsLate, Serving
<1>1. ASSUME NEW d \in Exes, Looping(d) PROVE NilsLate'
  <2> SUFFICES ASSUME NEW e \in Exes
               PROVE  Serving(e)' /\ \A i \in DOMAIN queue'[e] : queue'[e][i] # Nil
    BY <1>1, <1>n DEF Looping, Boot, Take, Run, CloseTasks, DropTasks, NilsLate
  <2>1. CASE d # e
    <3>1. loop'[e] = loop[e] /\ queue'[e] = queue[e]
      BY <1>1, <1>t, <2>1 DEF Looping, Boot, Take, Run, CloseTasks, DropTasks, TypeOK
    <3> QED BY <1>n, <3>1 DEF Serving
  <2>2. CASE d = e /\ Take(e)
    <3>1. /\ queue[e] \in Seq(Tasks \cup {Nil}) /\ queue[e] # <<>>
          /\ queue'[e] = Tail(queue[e])
      BY <1>t, <2>2 DEF TypeOK, Take
    <3>2. /\ 1 \in DOMAIN queue[e] /\ Head(queue[e]) = queue[e][1]
          /\ \A i \in DOMAIN Tail(queue[e]) :
               i + 1 \in DOMAIN queue[e] /\ Tail(queue[e])[i] = queue[e][i + 1]
      BY <3>1, Taken
    <3>3. Head(queue[e]) # Nil
      BY <1>n, <3>2
    <3>4. loop'[e] = "run"
      BY <2>2, <3>3, <1>t DEF Take, TypeOK
    <3> QED BY <1>n, <3>1, <3>2, <3>4 DEF Serving
  <2>3. CASE d = e /\ ~Take(e)
    <3>1. queue' = queue /\ (loop'[e] = "take" \/ ~Serving(e))
      BY <1>1, <1>t, <2>3
         DEF Looping, Boot, Run, CloseTasks, DropTasks, TypeOK, Serving
    <3> QED BY <1>n, <3>1 DEF Serving
  <2> QED BY <2>1, <2>2, <2>3
<1>2. ASSUME NEW p \in Producers, Execute(p) \/ Executing(p) PROVE NilsLate'
  <2>1. CASE UNCHANGED queue
    BY <1>2, <1>f, <2>1 DEF Execute, Executing, Scan, Load, Send
  <2>2. CASE ~UNCHANGED queue
    <3>1. Send(p)
      BY <1>2, <2>2 DEF Execute, Executing, Scan, Load
    <3>2. PICK d \in Exes : d = scan[p].index
      BY <1>t DEF TypeOK
    <3>3. /\ queue' = [queue EXCEPT ![d] = Append(queue[d], <<p, round[p]>>)]
          /\ loop' = loop /\ tpc' = tpc /\ ppc[p] = "send"
      BY <2>2, <3>1, <3>2 DEF Send
    <3>4. <<p, round[p]>> \in Tasks
      <4>1. round[p] \in 1 .. Rounds
        BY <3>3, <1>t, ProcessorAssumption DEF EInv, IInv, TypeInv, Bounds, TypeOK
      <4> QED BY <4>1 DEF Tasks
    <3>5. ASSUME NEW e \in Exes, NEW i \in DOMAIN queue'[e] PROVE queue'[e][i] # Nil
      <4>1. queue[d] \in Seq(Tasks \cup {Nil}) /\ queue[e] \in Seq(Tasks \cup {Nil})
        BY <1>t DEF TypeOK
      <4>2. \/ i \in DOMAIN queue[e] /\ queue'[e][i] = queue[e][i]
            \/ queue'[e][i] = <<p, round[p]>>
        <5>1. queue'[e] = IF e = d THEN Append(queue[d], <<p, round[p]>>) ELSE queue[e]
          BY <3>3, <1>t DEF TypeOK
        <5> QED BY <3>4, <3>5, <4>1, <5>1, Appended
      <4> QED BY <1>n, <1>t, <3>4, <4>2
    <3> QED BY <1>n, <3>3, <3>5 DEF NilsLate, Serving
  <2> QED BY <2>1, <2>2
<1>3. ASSUME NEW k \in Terminators, Terminate(k) \/ Terminating(k) PROVE NilsLate'
  <2>1. Terminate(k) /\ tpc' = [tpc EXCEPT ![k] = "mark"]
    BY <1>3, <1>n, <1>k DEF Terminate, Terminating, Mark, Flag, CheckTasks, LoadTasks, SendNil,
                            RemoveProcessor
  <2>2. \A j \in Terminators : tpc'[j] \in {"idle", "mark"}
    BY <1>n, <1>t, <2>1 DEF TypeOK
  <2> QED BY <1>n, <2>1, <2>2 DEF NilsLate, Serving, Terminate
<1>4. CASE UNCHANGED vars
  BY <1>4, <1>f DEF vars
<1> QED BY <1>1, <1>2, <1>3, <1>4 DEF Next

LEMMA EndComesStep == EInv /\ [Next]_vars => EndComes'
<1> SUFFICES ASSUME EInv, [Next]_vars, NEW e \in Exes,
                    terminated'[e], loop'[e] \in {"take", "run"}
             PROVE  NilComes(e)'
  BY DEF EndComes
<1> USE DEF exes, producer, terminator, LoopGoTo, TerminatorGoTo
<1>t. TypeOK
  BY DEF EInv, IInv, TypeInv
<1>a. \A k \in Terminators : tpc[k] \in AtExecutor => at[k] \in Exes
  BY DEF EInv, IInv, TypeInv, Bounds
<1>k. terminated[e] /\ loop[e] \in {"take", "run"} => NilComes(e)
  BY DEF EInv, EndComes
<1>f. ASSUME UNCHANGED <<queue, loop, terminated, tpc, at>> PROVE NilComes(e)'
  BY <1>f, <1>k, <1>t, NilComesStep
<1>1. ASSUME NEW d \in Exes, Looping(d) PROVE NilComes(e)'
  <2>1. CASE d # e
    <3>1. /\ loop'[e] = loop[e] /\ queue'[e] = queue[e] /\ terminated'[e] = terminated[e]
          /\ tpc' = tpc /\ at' = at
      BY <1>1, <1>t, <2>1 DEF Looping, Boot, Take, Run, CloseTasks, DropTasks, TypeOK
    <3> QED BY <1>k, <1>t, <3>1, NilComesStep
  <2>2. CASE d = e /\ Take(e)
    <3>1. /\ queue[e] \in Seq(Tasks \cup {Nil}) /\ queue[e] # <<>>
          /\ queue'[e] = Tail(queue[e]) /\ loop[e] = "take" /\ terminated[e]
          /\ tpc' = tpc /\ at' = at
      BY <1>t, <2>2 DEF TypeOK, Take
    <3>2. Head(queue[e]) # Nil
      BY <3>1, <1>t, <2>2 DEF Take, TypeOK
    <3>3. NilComes(e)
      BY <1>k, <3>1
    <3>4. /\ Head(queue[e]) = queue[e][1]
          /\ \A i \in DOMAIN queue[e] :
               i = 1 \/ (i - 1 \in DOMAIN Tail(queue[e]) /\ Tail(queue[e])[i - 1] = queue[e][i])
      BY <3>1, Taken
    <3> QED BY <3>1, <3>2, <3>3, <3>4 DEF NilComes
  <2>3. CASE d = e /\ ~Take(e)
    <3>1. Run(e) /\ terminated' = terminated
      BY <1>1, <1>t, <2>3 DEF Looping, Boot, Run, CloseTasks, DropTasks, TypeOK
    <3> QED BY <1>k, <1>t, <3>1, NilComesStep DEF Run
  <2> QED BY <2>1, <2>2, <2>3
<1>2. ASSUME NEW p \in Producers, Execute(p) \/ Executing(p) PROVE NilComes(e)'
  <2>1. CASE UNCHANGED queue
    BY <1>2, <1>f, <2>1 DEF Execute, Executing, Scan, Load, Send
  <2>2. CASE ~UNCHANGED queue
    <3>1. Send(p)
      BY <1>2, <2>2 DEF Execute, Executing, Scan, Load
    <3>2. PICK d \in Exes : d = scan[p].index
      BY <1>t DEF TypeOK
    <3>3. /\ queue' = [queue EXCEPT ![d] = Append(queue[d], <<p, round[p]>>)]
          /\ UNCHANGED <<loop, terminated, tpc, at>> /\ ppc[p] = "send"
      BY <2>2, <3>1, <3>2 DEF Send
    <3>4. <<p, round[p]>> \in Tasks \cup {Nil}
      <4>1. round[p] \in 1 .. Rounds
        BY <3>3, <1>t, ProcessorAssumption DEF EInv, IInv, TypeInv, Bounds, TypeOK
      <4> QED BY <4>1 DEF Tasks
    <3>5. NilComes(e)
      BY <1>k, <3>3
    <3>6. \A i \in DOMAIN queue[e] : i \in DOMAIN queue'[e] /\ queue'[e][i] = queue[e][i]
      <4>1. queue[e] \in Seq(Tasks \cup {Nil})
        BY <1>t DEF TypeOK
      <4>2. queue'[e] = IF e = d THEN Append(queue[e], <<p, round[p]>>) ELSE queue[e]
        BY <3>3, <1>t DEF TypeOK
      <4> QED BY <3>4, <4>1, <4>2, Appended
    <3> QED BY <3>3, <3>5, <3>6 DEF NilComes
  <2> QED BY <2>1, <2>2
<1>3. ASSUME NEW k \in Terminators, Terminate(k) \/ Mark(k) \/ RemoveProcessor(k)
      PROVE  NilComes(e)'
  <2>1. /\ UNCHANGED <<queue, loop, terminated, at>>
        /\ tpc[k] \notin AtExecutor /\ \A j \in Terminators \ {k} : tpc'[j] = tpc[j]
    BY <1>3, <1>t DEF Terminate, Mark, RemoveProcessor, AtExecutor, TypeOK
  <2> QED BY <1>k, <2>1 DEF NilComes
<1>4. ASSUME NEW k \in Terminators, Flag(k) PROVE NilComes(e)'
  <2>1. /\ UNCHANGED <<queue, loop, at>> /\ tpc[k] = "flag" /\ tpc'[k] = "check"
        /\ \A j \in Terminators \ {k} : tpc'[j] = tpc[j]
    BY <1>4, <1>t DEF Flag, TypeOK
  <2>4. terminated' = [terminated EXCEPT ![at[k]] = TRUE]
    BY <1>4 DEF Flag
  <2>5. at[k] = e \/ terminated'[e] = terminated[e]
    BY <1>t, <2>4 DEF TypeOK
  <2>2. CASE at[k] = e
    BY <2>1, <2>2 DEF NilComes, AtExecutor
  <2>3. CASE at[k] # e
    BY <1>k, <2>1, <2>3, <2>5 DEF NilComes, AtExecutor
  <2> QED BY <2>2, <2>3
<1>5. ASSUME NEW k \in Terminators, CheckTasks(k) \/ LoadTasks(k) PROVE NilComes(e)'
  <2>1. /\ UNCHANGED <<queue, loop, terminated, tasks>> /\ tpc[k] \in AtExecutor
        /\ \A j \in Terminators \ {k} : tpc'[j] = tpc[j] /\ at'[j] = at[j]
        /\ at[k] = e => tasks[e] = "open"
    BY <1>5, <1>t DEF CheckTasks, LoadTasks, NextExecutor, TypeOK, AtExecutor, EInv, ServedOpen,
                      Serving
  <2>2. at[k] = e => tpc'[k] \in AtExecutor /\ at'[k] = e
    BY <1>5, <1>t, <2>1 DEF CheckTasks, LoadTasks, TypeOK, AtExecutor
  <2> QED BY <1>k, <2>1, <2>2 DEF NilComes
<1>6. ASSUME NEW k \in Terminators, SendNil(k) PROVE NilComes(e)'
  <2>0. at[k] \in Exes
    BY <1>6, <1>a DEF SendNil, AtExecutor
  <2>1. /\ UNCHANGED <<loop, terminated, tasks>> /\ tpc[k] = "send"
        /\ \A j \in Terminators \ {k} : tpc'[j] = tpc[j] /\ at'[j] = at[j]
        /\ queue[e] \in Seq(Tasks \cup {Nil})
    BY <1>6, <1>t DEF SendNil, NextExecutor, TypeOK
  <2>2. CASE at[k] = e
    <3>1. tasks[e] = "open"
      BY <2>1 DEF EInv, ServedOpen, Serving
    <3>2. queue'[e] = Append(queue[e], Nil)
      BY <1>6, <1>t, <2>2, <3>1 DEF SendNil, TypeOK
    <3>3. Nil \in Tasks \cup {Nil}
      OBVIOUS
    <3>4. \E i \in DOMAIN queue'[e] : queue'[e][i] = Nil
      BY <2>1, <3>2, <3>3, Appended
    <3> QED BY <3>4 DEF NilComes
  <2>3. CASE at[k] # e
    <3>1. queue'[e] = queue[e]
      BY <1>6, <1>t, <2>0, <2>3 DEF SendNil, TypeOK
    <3> QED BY <1>k, <2>1, <2>3, <3>1 DEF NilComes
  <2> QED BY <2>2, <2>3
<1>7. CASE UNCHANGED vars
  BY <1>7, <1>f DEF vars
<1> QED BY <1>1, <1>2, <1>3, <1>4, <1>5, <1>6, <1>7 DEF Next, Terminating

LEMMA EInvStep == EInv /\ [Next]_vars => EInv'
<1> SUFFICES ASSUME EInv, [Next]_vars PROVE EInv'
  OBVIOUS
<1>1. IInv'
  BY IInvStep DEF EInv
<1> QED BY <1>1, EarlyStep, ServedOpenStep, NilsLateStep, EndComesStep DEF EInv

LEMMA EInvCorrect == Spec => []EInv
<1>1. [Next]_vars /\ EInv => EInv'
  BY EInvStep
<1> QED BY EInvInit, <1>1, PTL DEF Spec

\* What EarlyTasksRun rests on: a task that Send put into a queue while killing was
\* not set is never lost or overtaken by a nil task; it has run, it is the current
\* one, or the executor that has it still serves its queue and meets no nil before it.
THEOREM EarlyTasksKeptCorrect == Spec => []EarlyTasksKept
<1>1. EInv => EarlyTasksKept
  BY DEF EInv
<1> QED BY EInvCorrect, <1>1, PTL

\* What ExecutorsEnd rests on: while a goroutine serves an executor whose terminated
\* flag is set, the nil task that wakes it up is in its queue or a caller of Terminate
\* is on its way to put it there, however many calls of Terminate race.
THEOREM EndComesCorrect == Spec => []EndComes
<1>1. EInv => EndComes
  BY DEF EInv
<1> QED BY EInvCorrect, <1>1, PTL
=============================================================================
