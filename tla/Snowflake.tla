----------------------------- MODULE Snowflake -----------------------------
(***************************************************************************)
(* Ids from a clock, a seed number and a step (utils/snowflake).  The seed *)
(* of the package is made by whoever needs an id first, without a lock;    *)
(* each seed has one.  Time is the clock of the machine in milliseconds,   *)
(* which is taken not to step back.  An id is the set of the positions of  *)
(* its bits: a shift moves them, | is their union.                         *)
(***************************************************************************)
EXTENDS Naturals, FiniteSets

CONSTANTS Takers,             \* goroutines that call GenerateRaw
          SeedBits, StepBits, \* 10 and 12
          Bits(_),            \* the positions of the ones in a binary number
          LastMs,             \* bound of the model: the last millisecond
          Draws,              \* bound of the model: ids of a goroutine
          NoSeed

stepMax == 2^StepBits - 1
seedMax == 2^SeedBits - 1
lowMax == 2^(SeedBits + StepBits) - 1   \* what leaves the time bits alone

ASSUME SnowflakeAssumption ==
    /\ SeedBits \in Nat /\ StepBits \in Nat \ {0}
    /\ LastMs \in Nat \ {0} /\ Draws \in Nat
    /\ stepMax \in Nat /\ seedMax \in Nat /\ lowMax \in Nat /\ stepMax <= lowMax
    /\ NoSeed \notin Takers

\* A number has as many bits as its size needs, and no other number has them.
ASSUME BitsAssumption ==
    /\ \A i \in 0..LastMs : Bits(i) \subseteq Nat
    /\ \A i, j \in 0..LastMs : Bits(i) = Bits(j) => i = j
    /\ \A i, j \in 0..lowMax : Bits(i) = Bits(j) => i = j
    /\ \A i \in 0..lowMax : \A k \in Bits(i) : k \in Nat /\ k < SeedBits + StepBits
    /\ \A i \in 0..stepMax : \A k \in Bits(i) : k < StepBits
    /\ \A i \in 0..seedMax : \A k \in Bits(i) : k \in Nat /\ k < SeedBits
    /\ \A i, j \in 0..seedMax : Bits(i) = Bits(j) => i = j

VARIABLES now,       \* the clock
          seedVar,   \* _seed; a seed is named after the goroutine that made it
          seedNo,    \* Seed.seed
          timestamp, \* Seed.timestamp
          step,      \* Seed.step
          holder,    \* who holds Seed.mu
          takerAt, mine,
          drawn,     \* calls of a goroutine that got an id
          ids,       \* history: the ids of a seed, and how many were given
          given,
          peak       \* history: the highest step

seeds == <<seedNo, timestamp, step, holder, ids, given, peak>>
takers == <<takerAt, mine, drawn>>
snowflakeVars == <<now, seedVar, seedNo, timestamp, step, holder, takerAt, mine,
                   drawn, ids, given, peak>>

SnowflakeInit ==
    /\ now = 1
    /\ seedVar = NoSeed
    /\ seedNo = [s \in Takers |-> 0]
    /\ timestamp = [s \in Takers |-> 0]
    /\ step = [s \in Takers |-> 0]
    /\ holder = [s \in Takers |-> NoSeed]
    /\ takerAt = [g \in Takers |-> "idle"]
    /\ mine = [g \in Takers |-> NoSeed]
    /\ drawn = [g \in Takers |-> 0]
    /\ ids = [s \in Takers |-> {}]
    /\ given = [s \in Takers |-> 0]
    /\ peak = [s \in Takers |-> 0]

Millisecond ==
    /\ now < LastMs
    /\ now' = now + 1
    /\ UNCHANGED <<seedVar, seeds, takers>>

TakerGo(g, from, to) == takerAt[g] = from /\ takerAt' = [takerAt EXCEPT ![g] = to]
-----------------------------------------------------------------------------
(* seed()                                                                  *)

GenerateRaw(g) ==
    /\ drawn[g] < Draws
    /\ TakerGo(g, "idle", IF seedVar = NoSeed THEN "make" ELSE "return")
    /\ UNCHANGED <<now, seedVar, seeds, mine, drawn>>

\* Another goroutine may have made one since; it is replaced.
MakeSeed(g) ==
    /\ TakerGo(g, "make", "return")
    /\ seedVar' = g
    /\ seedNo' = [seedNo EXCEPT ![g] = now % (seedMax + 1)]
    /\ UNCHANGED <<now, timestamp, step, holder, mine, drawn, ids, given, peak>>

ReturnSeed(g) ==
    /\ TakerGo(g, "return", "generate")
    /\ mine' = [mine EXCEPT ![g] = seedVar]
    /\ UNCHANGED <<now, seedVar, seeds, drawn>>
-----------------------------------------------------------------------------
(* Generate                                                                *)

Shifted(positions, k) == {i + k : i \in positions}

Id(s, ms, n) == Shifted(Bits(ms), SeedBits + StepBits)
                \cup Shifted(Bits(seedNo[s]), StepBits) \cup Bits(n)

SetStep(s, n) ==
    /\ step' = [step EXCEPT ![s] = n]
    /\ peak' = [peak EXCEPT ![s] = IF n > @ THEN n ELSE @]

Give(g, s, n) ==
    /\ timestamp' = [timestamp EXCEPT ![s] = now]
    /\ SetStep(s, n)
    /\ ids' = [ids EXCEPT ![s] = @ \cup {Id(s, now, n)}]
    /\ given' = [given EXCEPT ![s] = @ + 1]
    /\ drawn' = [drawn EXCEPT ![g] = @ + 1]

\* A new millisecond, or one more step in the same.
Generate(g) ==
    /\ TakerGo(g, "generate", "idle")
    /\ LET s == mine[g]
           n == IF timestamp[s] = now THEN step[s] + 1 ELSE 0 IN
         holder[s] = NoSeed /\ n <= stepMax /\ Give(g, s, n)
    /\ UNCHANGED <<now, seedVar, seedNo, holder, mine>>

Full(s) == holder[s] = NoSeed /\ timestamp[s] = now /\ step[s] + 1 > stepMax

\* Mutant: the step wraps without waiting for the next millisecond.
Overflow_wrap(g) ==
    /\ TakerGo(g, "generate", "idle")
    /\ LET s == mine[g] IN Full(s) /\ Give(g, s, 0)
    /\ UNCHANGED <<now, seedVar, seedNo, holder, mine>>

\* Too many steps: the goroutine keeps the lock and looks at the clock.
Overflow(g) ==
    /\ TakerGo(g, "generate", "spin")
    /\ LET s == mine[g] IN
         /\ Full(s)
         /\ holder' = [holder EXCEPT ![s] = g]
         /\ SetStep(s, step[s] + 1)
    /\ UNCHANGED <<now, seedVar, seedNo, timestamp, mine, drawn, ids, given>>

\* The step stays what it is: over stepMax it runs into the seed number, and
\* until a call finds a new millisecond by itself each id costs one.
Spin(g) ==
    /\ TakerGo(g, "spin", "idle")
    /\ LET s == mine[g] IN
         /\ now > timestamp[s]
         /\ Give(g, s, step[s])
         /\ holder' = [holder EXCEPT ![s] = NoSeed]
    /\ UNCHANGED <<now, seedVar, seedNo, mine>>
-----------------------------------------------------------------------------
SnowflakeNext ==
    \/ Millisecond
    \/ \E g \in Takers : \/ GenerateRaw(g) \/ MakeSeed(g) \/ ReturnSeed(g)
                         \/ Generate(g) \/ Overflow(g) \/ Spin(g)

SnowflakeSpec == SnowflakeInit /\ [][SnowflakeNext]_snowflakeVars
-----------------------------------------------------------------------------
(* Property.                                                               *)

\* One seed gives no id twice, also after its step has run over, until the step
\* reaches the time bits: under a load that fills every millisecond it grows by
\* one in each.  Seeds of different numbers give different ids as long as none
\* has run over.  Two seeds may come about in one process, by the unguarded test
\* of _seed.
UniqueIds ==
    /\ \A s \in Takers : peak[s] <= lowMax => Cardinality(ids[s]) = given[s]
    /\ \A s, t \in Takers :
         seedNo[s] # seedNo[t] /\ peak[s] <= stepMax /\ peak[t] <= stepMax =>
             ids[s] \cap ids[t] = {}
=============================================================================
