------------------------------- MODULE Codec -------------------------------
(***************************************************************************)
(* The binary encoding (utils/buffutil) and the messages peers exchange    *)
(* (peers/exchange.go, codecs.go).  A Buffer writes values one after the   *)
(* other, most of them behind a sign that tells the type; a Parser reads   *)
(* them until something is wrong, and nothing after that.                  *)
(*                                                                         *)
(* A byte has Base values; numbers are little endian, in two's complement. *)
(* A value is a record of its type t and a sequence v: the number of a     *)
(* scalar, the bytes of a string, the elements of an array, the keys and   *)
(* values of a map in the order Go's map happens to give them.             *)
(***************************************************************************)
EXTENDS Integers, Sequences, SequencesExt

CONSTANTS Base, Width,   \* bytes of the types of fixed size
          Sign,          \* the signs of the types, of "custom" as well
          LongestString, \* 10240
          Values,        \* values given to WriteObject
          Exchanges,     \* messages, with what each end takes the other for
          OuterCodec, InnerCodec, \* the codecs that are set, or "none"
          MaxValues      \* bound of the model: values in a buffer

ASSUME CodecAssumption ==
    /\ Base \in Nat \ {0, 1} /\ LongestString \in Nat /\ MaxValues \in Nat
    /\ \A t \in DOMAIN Width : Width[t] \in Nat \ {0}
    /\ \A t \in DOMAIN Sign : Sign[t] \in 0 .. Base - 1

VARIABLES wrote,    \* the values written
          bytes,    \* the Buffer, then what is left in the Parser
          stage,    \* "write" or "read"
          cut,      \* the bytes that got lost at the end
          spoiled,  \* a WriteObject has panicked half-way
          values,   \* the values read
          err       \* Parser.err

codecVars == <<wrote, bytes, stage, cut, spoiled, values, err>>

CodecInit ==
    /\ wrote = <<>> /\ bytes = <<>> /\ values = <<>>
    /\ stage = "write" /\ cut = 0
    /\ spoiled = FALSE /\ err = FALSE

Fixed == DOMAIN Width
-----------------------------------------------------------------------------
(* Buffer.  A bytes.Buffer takes everything: err is never set by a write.  *)

Number(n, w) == [i \in 1 .. w |-> (n \div Base^(i - 1)) % Base]
WriteFixed(t, n) == Number(n, Width[t])
WriteInt(n) == WriteFixed("int", n)
WriteString(s) == WriteInt(Len(s)) \o s

Joined(ss) == FoldLeft(LAMBDA a, b : a \o b, <<>>, ss)

Compound == {"array", "map", "hash"}

\* The default branch of WriteObject extends an error that is nil: it panics.
\* The values of a compound before that have been written.
Unsupported(v) == v.t \notin DOMAIN Sign \cup {"raw"}

RECURSIVE Spoils(_), WriteObject(_)

Spoils(v) == \/ Unsupported(v)
             \/ v.t \in Compound /\ \E i \in DOMAIN v.v : Spoils(v.v[i])

\* The length of an array or of a map; the keys of a WriteMap ("raw") have no
\* sign, those of a WriteHash have.
Count(v) == IF v.t = "array" THEN Len(v.v) ELSE Len(v.v) \div 2

WriteAll(vs) ==
    LET bad == SelectInSeq(vs, Spoils) IN
      Joined([i \in 1 .. (IF bad = 0 THEN Len(vs) ELSE bad) |-> WriteObject(vs[i])])

\* Mutant: the length counts the values of a map and its keys.
WriteCount_all(v) == WriteInt(Len(v.v))

WriteCount(v) == WriteInt(Count(v))

WriteObject(v) ==
    IF Unsupported(v) THEN <<>>
    ELSE IF v.t = "raw" THEN WriteString(v.v)
    ELSE <<Sign[v.t]>> \o
        (CASE v.t = "null" -> <<0>>
           [] v.t \in Fixed -> WriteFixed(v.t, v.v[1])
           [] v.t = "string" -> WriteString(v.v)
           [] v.t = "ints" -> WriteInt(Len(v.v))
                                \o Joined([i \in DOMAIN v.v |-> WriteInt(v.v[i])])
           [] v.t \in Compound -> WriteCount(v) \o WriteAll(v.v)
           [] v.t = "custom" -> WriteFixed("short", v.v[1]))
-----------------------------------------------------------------------------
(* Parser.  What a Read returns: the value, what is left and whether it has *)
(* failed; a Parser that has failed returns zero values.                   *)

Result(v, rest, failed) == [v |-> v, rest |-> rest, failed |-> failed]
Failed(v, rest) == Result(v, rest, TRUE)

Unsigned(b) == FoldRight(LAMBDA d, n : d + Base * n, b, 0)
Signed(b) == LET m == Base^Len(b) IN ((Unsigned(b) + m \div 2) % m) - m \div 2

\* A byte and a bool have no sign bit.
NumberOf(t, b) == IF t \in {"byte", "bool"} THEN Unsigned(b) ELSE Signed(b)

\* binary.Read takes what is there, and fails when that is too little.
ReadFixed(p, t) ==
    IF p.failed THEN Failed(0, p.rest)
    ELSE IF Len(p.rest) < Width[t] THEN Failed(0, <<>>)
    ELSE Result(NumberOf(t, SubSeq(p.rest, 1, Width[t])),
                SubSeq(p.rest, Width[t] + 1, Len(p.rest)), FALSE)

\* Mutant: a string that is too long is read as far as there are bytes.
ReadChars_short(p, n) ==
    LET m == IF n > Len(p.rest) THEN Len(p.rest) ELSE n IN
      Result(SubSeq(p.rest, 1, m), SubSeq(p.rest, m + 1, Len(p.rest)), FALSE)

ReadChars(p, n) ==
    IF n > Len(p.rest) THEN Failed(<<>>, <<>>)
    ELSE Result(SubSeq(p.rest, 1, n), SubSeq(p.rest, n + 1, Len(p.rest)), FALSE)

ReadString(p) ==
    LET n == ReadFixed(p, "int") IN
      IF n.failed \/ n.v > LongestString \/ n.v < 0 THEN Failed(<<>>, n.rest)
      ELSE ReadChars(n, n.v)

Value(t, v) == [t |-> t, v |-> v]
Typed(t, r) == Result(Value(t, r.v), r.rest, r.failed)
Scalar(t, r) == Result(Value(t, <<r.v>>), r.rest, r.failed)
ReadNull(p) == LET r == ReadFixed(p, "byte") IN
                 Result(Value("null", <<>>), r.rest, r.failed \/ r.v # 0)

\* n values, read by the operators of ops in turn; a failed Parser goes on
\* reading, and gets nothing.
RECURSIVE ReadAll(_, _, _), ReadObject(_), ReadBody(_, _)

ReadAll(p, kinds, n) ==
    IF n <= 0 THEN Result(<<>>, p.rest, p.failed)
    ELSE LET r == CASE Head(kinds) = "int" -> ReadFixed(p, "int")
                    [] Head(kinds) = "raw" -> Typed("raw", ReadString(p))
                    [] Head(kinds) = "object" -> ReadObject(p)
             more == ReadAll(r, Append(Tail(kinds), Head(kinds)), n - 1)
         IN Result(<<r.v>> \o more.v, more.rest, more.failed)

ReadCounted(p, kinds) ==
    LET n == ReadFixed(p, "int") IN ReadAll(n, kinds, n.v * Len(kinds))

\* ReadObject behind the sign; the built-in types come before the custom one.
ReadBody(p, t) ==
    CASE t = "null" -> ReadNull(p)
      [] t \in Fixed -> Scalar(t, ReadFixed(p, t))
      [] t = "string" -> Typed(t, ReadString(p))
      [] t = "ints" -> Typed(t, ReadCounted(p, <<"int">>))
      [] t = "array" -> Typed(t, ReadCounted(p, <<"object">>))
      [] t = "map" -> Typed(t, ReadCounted(p, <<"raw", "object">>))
      [] t = "hash" -> Typed(t, ReadCounted(p, <<"object", "object">>))
      [] t = "custom" -> Scalar(t, ReadFixed(p, "short"))

Nothing == Value("null", <<>>)
TypesOf(b) == {t \in DOMAIN Sign : Sign[t] = b}

ReadObject(p) ==
    LET c == ReadFixed(p, "byte")
        types == TypesOf(c.v) IN
      IF c.failed \/ types = {} THEN Failed(Nothing, c.rest)
      ELSE ReadBody(c, IF types = {"custom"} THEN "custom"
                       ELSE CHOOSE t \in types \ {"custom"} : TRUE)
-----------------------------------------------------------------------------
(* Exchanges: a header of three names, the number of the call, whether it  *)
(* is an answer and the text of an error, and the arguments as encoded for *)
(* the receiving node.                                                     *)

\* getCodec: the outer codec for guests, gob where none is set.
getCodec(guest) ==
    LET c == IF guest THEN OuterCodec ELSE InnerCodec IN IF c = "none" THEN "gob" ELSE c

\* The arguments are one token behind the bytes of the header.
Marshal(e) ==
    WriteString(e.From) \o WriteString(e.To) \o WriteString(e.Func)
      \o WriteFixed("long", e.Seq) \o WriteFixed("byte", e.Ret) \o WriteString(e.Err)
      \o <<[codec |-> getCodec(e.toGuest), args |-> e.args]>>

\* FetchArgs, by the codec for the node the exchange came from.
FetchArgs(p, guest) ==
    IF p.failed \/ p.rest = <<>> THEN Failed("none", <<>>)
    ELSE Result(p.rest[1].args, <<>>, p.rest[1].codec # getCodec(guest))

Unmarshal(b, guest) ==
    LET from == ReadString(Result(<<>>, b, FALSE))
        to == ReadString(from)
        func == ReadString(to)
        seq == ReadFixed(func, "long")
        ret == ReadFixed(seq, "byte")
        text == ReadString(ret)
        args == FetchArgs(text, guest)
    IN Result([From |-> from.v, To |-> to.v, Func |-> func.v, Seq |-> seq.v,
               Ret |-> ret.v, Err |-> text.v, args |-> args.v], args.rest, args.failed)
-----------------------------------------------------------------------------
(* A buffer is filled with values or with one exchange, sent, and read.    *)

IsExchange(v) == "args" \in DOMAIN v

Encode(v) ==
    /\ stage = "write" /\ Len(wrote) < MaxValues
    /\ \A i \in DOMAIN wrote : ~IsExchange(wrote[i])
    /\ IsExchange(v) => wrote = <<>>
    /\ wrote' = Append(wrote, v)
    /\ bytes' = bytes \o (IF IsExchange(v) THEN Marshal(v) ELSE WriteObject(v))
    /\ spoiled' = (spoiled \/ (~IsExchange(v) /\ Spoils(v)))
    /\ UNCHANGED <<stage, cut, values, err>>

\* The last n bytes do not arrive.
Deliver(n) ==
    /\ stage = "write" /\ wrote # <<>>
    /\ bytes' = SubSeq(bytes, 1, Len(bytes) - n)
    /\ cut' = n /\ stage' = "read"
    /\ UNCHANGED <<wrote, spoiled, values, err>>

\* The program reads as many values as were written, and looks at the error
\* after each.
Decode ==
    /\ stage = "read" /\ ~err /\ Len(values) < Len(wrote)
    /\ LET v == wrote[Len(values) + 1]
           r == IF IsExchange(v) THEN Unmarshal(bytes, v.fromGuest)
                ELSE ReadObject(Result(<<>>, bytes, FALSE))
       IN /\ bytes' = r.rest /\ err' = r.failed
          /\ values' = IF r.failed THEN values ELSE Append(values, r.v)
    /\ UNCHANGED <<wrote, stage, cut, spoiled>>

CodecNext ==
    \/ \E v \in Values \cup Exchanges : Encode(v)
    \/ \E n \in 0 .. Len(bytes) : Deliver(n)
    \/ Decode

CodecSpec == CodecInit /\ [][CodecNext]_codecVars
-----------------------------------------------------------------------------
(* Properties.                                                             *)

Trim(n, t) == NumberOf(t, WriteFixed(t, n))

\* What a reader can expect of a value: an int has the width of the encoding.
RECURSIVE Expected(_)
Expected(v) ==
    IF IsExchange(v) THEN [f \in DOMAIN v \ {"toGuest", "fromGuest"} |-> v[f]]
    ELSE IF v.t = "int" THEN Value("int", <<Trim(v.v[1], "int")>>)
    ELSE IF v.t \in Compound THEN Value(v.t, [i \in DOMAIN v.v |-> Expected(v.v[i])])
    ELSE v

RECURSIVE Long(_)
Long(v) ==
    IF IsExchange(v) THEN \E f \in {"From", "To", "Func", "Err"} : Len(v[f]) > LongestString
    ELSE \/ v.t \in {"string", "raw"} /\ Len(v.v) > LongestString
         \/ v.t \in Compound /\ \E i \in DOMAIN v.v : Long(v.v[i])

Mixed(v) == IsExchange(v) /\ getCodec(v.toGuest) # getCodec(v.fromGuest)

\* Reader and writer agree on the layout of every type: whatever is read without
\* an error is what was written at that place, nested values, the unsigned and
\* the signed types and the arguments of calls included; and nothing is refused
\* but what was cut off, a string longer than the reader takes (the writer takes
\* any), arguments of another codec, and what follows a type that cannot be
\* written.
ReadsMatch ==
    ~spoiled =>
      /\ \A i \in DOMAIN values : values[i] = Expected(wrote[i])
      /\ err => LET v == wrote[Len(values) + 1] IN cut > 0 \/ Long(v) \/ Mixed(v)

\* A message that was cut off anywhere is noticed: a reader that gets everything
\* the writer wrote without an error has got all the bytes.
CutNoticed ==
    ~spoiled /\ wrote # <<>> /\ Len(values) = Len(wrote) /\ ~err => cut = 0
=============================================================================
