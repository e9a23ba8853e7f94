----------------------------- MODULE MCLibrary -----------------------------
(***************************************************************************)
(* The parts the node is built from and that share no state with one       *)
(* another, each on an instance of its own in one run: a behaviour chooses *)
(* a part (unit), the variables of the other parts stay as they are.       *)
(***************************************************************************)
EXTENDS TcpFraming, Service, Pools, Channels, FileLog, Snowflake, Codec,
        Dictionary, HashSet

CONSTANTS t1, t2, body, c2, c3, b1, b2, f1, f2, f3

VARIABLE unit

Units == {"framing", "service", "pools", "channels", "filelog", "snowflake", "codec",
          "dictionary", "sets"}

LibraryInit ==
    /\ unit \in Units
    /\ Init /\ ServiceInit /\ PoolsInit /\ ChannelsInit /\ FileLogInit
    /\ SnowflakeInit /\ CodecInit /\ DictInit /\ HashSetInit
    /\ unit = "sets" \/ elems = [s \in HashSets |-> {}]
    /\ unit = "channels" \/ deed = [s \in Seqs |-> IF s = c2 THEN "leave" ELSE "fetch"]

LibraryNext ==
    \/ /\ unit = "framing" /\ Next
       /\ UNCHANGED <<unit, serviceVars, poolsVars, channelsVars, fileLogVars,
                      snowflakeVars, codecVars, dictVars, hashSetVars>>
    \/ /\ unit = "service" /\ ServiceNext
       /\ UNCHANGED <<unit, vars, poolsVars, channelsVars, fileLogVars,
                      snowflakeVars, codecVars, dictVars, hashSetVars>>
    \/ /\ unit = "pools" /\ PoolsNext
       /\ UNCHANGED <<unit, vars, serviceVars, channelsVars, fileLogVars,
                      snowflakeVars, codecVars, dictVars, hashSetVars>>
    \/ /\ unit = "channels" /\ ChannelsNext
       /\ UNCHANGED <<unit, vars, serviceVars, poolsVars, fileLogVars,
                      snowflakeVars, codecVars, dictVars, hashSetVars>>
    \/ /\ unit = "filelog" /\ FileLogNext
       /\ UNCHANGED <<unit, vars, serviceVars, poolsVars, channelsVars,
                      snowflakeVars, codecVars, dictVars, hashSetVars>>
    \/ /\ unit = "snowflake" /\ SnowflakeNext
       /\ UNCHANGED <<unit, vars, serviceVars, poolsVars, channelsVars,
                      fileLogVars, codecVars, dictVars, hashSetVars>>
    \/ /\ unit = "codec" /\ CodecNext
       /\ UNCHANGED <<unit, vars, serviceVars, poolsVars, channelsVars,
                      fileLogVars, snowflakeVars, dictVars, hashSetVars>>
    \/ /\ unit = "dictionary" /\ DictNext
       /\ UNCHANGED <<unit, vars, serviceVars, poolsVars, channelsVars,
                      fileLogVars, snowflakeVars, codecVars, hashSetVars>>
    \/ /\ unit = "sets" /\ HashSetNext
       /\ UNCHANGED <<unit, vars, serviceVars, poolsVars, channelsVars,
                      fileLogVars, snowflakeVars, codecVars, dictVars>>

libraryVars == <<unit, vars, serviceVars, poolsVars, channelsVars, fileLogVars,
                 snowflakeVars, codecVars, dictVars, hashSetVars>>

\* The fairness of each part, for the behaviours in which it runs.
LibrarySpec ==
    /\ LibraryInit /\ [][LibraryNext]_libraryVars
    /\ WF_vars(unit = "framing" /\ Receive)
    /\ WF_vars(unit = "framing" /\ Parse)
    /\ WF_serviceVars(unit = "service" /\ Looping)
    /\ WF_serviceVars(unit = "service" /\ SyncReceive)
    /\ \A t \in Callers : WF_serviceVars(unit = "service" /\ Terminating(t))
    /\ \A s \in Services : WF_poolsVars(unit = "pools" /\ Checking(s))
    /\ \A p \in Publishers :
          /\ WF_channelsVars(unit = "channels" /\ PublisherRuns(p))
          /\ SF_channelsVars(unit = "channels" /\ PublisherSends(p))
    /\ \A s \in Processed :
          /\ WF_channelsVars(unit = "channels" /\ Publishing(InTask(s)))
          /\ SF_channelsVars(unit = "channels" /\ SendTask(InTask(s)))
    /\ \A u \in Users : WF_channelsVars(unit = "channels" /\ Obtaining(u))
    /\ \A s \in Processed : WF_channelsVars(unit = "channels" /\ Executing(s))
    /\ \A g \in Loggers : WF_fileLogVars(unit = "filelog" /\ Logging(g))
    /\ \A b \in Binders : WF_fileLogVars(unit = "filelog" /\ Binding(b))
    /\ \A f \in Files : WF_fileLogVars(unit = "filelog" /\ Writing(f))
-----------------------------------------------------------------------------
(* The instances.                                                          *)

\* A subscriber with a processor that leaves or publishes, one that is called
\* inline and calls Chan or publishes; one of them publishes at most.
SomeDeeds == {[s \in Seqs |-> IF s = c2 THEN a ELSE b] :
                a \in {"leave", "publish"}, b \in {"fetch", "publish"}}
             \ {[s \in Seqs |-> "publish"]}

\* BindWriter replaces the writer by f2 in one goroutine, by f3 in another.
Binds == [b \in Binders |-> IF b = b1 THEN f2 ELSE f3]

\* A millisecond, a seed number and a step have at most 8 bits.
Binary(n) == {i \in 0..7 : (n \div 2^i) % 2 = 1}

\* Signs and numbers in 16 values of a byte.
Widths == [byte |-> 1, bool |-> 1, short |-> 1, int |-> 2, long |-> 3, float |-> 2]
Signs == [null |-> 1, byte |-> 2, bool |-> 3, short |-> 4, int |-> 5, long |-> 6,
          float |-> 7, string |-> 8, ints |-> 9, array |-> 10, map |-> 11,
          hash |-> 12, custom |-> 13]

One(t, n) == [t |-> t, v |-> <<n>>]
Key(s) == [t |-> "raw", v |-> s]
Text(s) == [t |-> "string", v |-> s]
Null == [t |-> "null", v |-> <<>>]
Other == [t |-> "other", v |-> <<>>]
TooLong == <<1, 2, 3, 4>>

\* 300 does not fit into the encoding of an int, Other cannot be written.
Scalars == {One("byte", 15), One("int", 300), One("long", -700), One("custom", 5),
            Text(<<2, 3>>), Text(TooLong), [t |-> "ints", v |-> <<7, -128>>], Other}
Arrays == {[t |-> "array", v |-> vs] :
             vs \in {<<Text(<<>>), One("int", -3), One("short", -8)>>,
                     <<One("byte", 1), Other, One("byte", 2)>>}}
Maps == {[t |-> "map", v |-> <<Key(<<2>>), One("float", 5), Key(<<>>), Null>>],
         [t |-> "hash", v |-> <<One("int", 1), [t |-> "array", v |-> <<One("bool", 0)>>],
                                Text(TooLong), Null>>]}
EncodedValues == Scalars \cup Arrays \cup Maps

Calls == {[From |-> <<1>>, To |-> <<2, 2>>, Func |-> <<>>, Seq |-> 700, Ret |-> 0,
           Err |-> e, args |-> "a", toGuest |-> t, fromGuest |-> f] :
             e \in {<<>>, TooLong}, t \in BOOLEAN, f \in BOOLEAN}
=============================================================================
