-------------------------- MODULE TcpFramingProofs --------------------------
(***************************************************************************)
(* Proofs about TcpFraming, for every size of the buffer and of the length *)
(* field, and any messages.                                                *)
(***************************************************************************)
EXTENDS TcpFraming, TLAPS

-----------------------------------------------------------------------------
(* The inductive invariant.                                                *)

Bytes == [kind : {"mark", "zero"}] \cup [kind : {"length"}, value : Int]
         \cup [kind : {"data"}, msg : Nat, at : Nat]

TypeInv ==
    /\ sent \in Seq(Lengths) /\ stream \in Seq(Bytes)
    /\ buffer \in [1 .. Size -> Bytes]
    /\ offset \in Nat /\ count \in Nat
    /\ pc \in {"read", "parse", "closed"} /\ got \in Seq(Seq(Bytes))
    /\ skipped \in BOOLEAN

\* The offset is at the end of the buffer only when the last packet has just
\* been taken out and nothing follows it, or a panic has skipped the Reset that
\* comes then.
RoomInv == /\ offset <= Size
           /\ offset = Size => skipped = TRUE \/ (pc = "parse" /\ count = 0)

IInv == TypeInv /\ RoomInv

\* The bytes of the packet of message j, and the p-th byte that the packet loop
\* has still to take: those in the buffer come before those under way.
PacketByte(j, i) ==
    IF i = 1 THEN MarkByte
    ELSE IF i = 2 THEN LengthByte(Short(sent[j])) ELSE DataByte(j, i - PCK_MIN_SIZE)

Incoming(p) == IF p <= count THEN buffer[offset + p] ELSE stream[p - count]

Next1 == Len(got) + 1
Pending == Next1 .. Len(sent)

\* at[j] bytes come before the packet of message j, the packets follow each
\* other without a gap, and nothing follows the last one.
Starts(at) ==
    /\ at \in [Next1 .. Len(sent) + 1 -> Nat]
    /\ at[Next1] = 0 /\ at[Len(sent) + 1] = count + Len(stream)
    /\ \A j \in Pending : at[j + 1] = at[j] + sent[j] + PCK_MIN_SIZE
    /\ \A i, j \in Next1 .. Len(sent) + 1 : i <= j => at[i] <= at[j]

Packed(at) == \A j \in Pending : \A i \in 1 .. sent[j] + PCK_MIN_SIZE :
                  Incoming(at[j] + i) = PacketByte(j, i)

\* A packet that begins in the buffer ends there, and the last one in it is
\* not the packet of an empty message.
Whole(at) == \A j \in Pending : /\ at[j] < count => at[j + 1] <= count
                                /\ at[j + 1] = count => sent[j] > 0

OrderInv ==
    /\ Prefix
    /\ offset + count <= Size
    /\ pc # "parse" => count = 0
    /\ \E at \in [Next1 .. Len(sent) + 1 -> Nat] : Starts(at) /\ Packed(at) /\ Whole(at)

WInv == IInv /\ (~torn /\ ~hollow => OrderInv)
-----------------------------------------------------------------------------
LEMMA ShortType == \A l \in Int : Short(l) \in Int
<1> SUFFICES ASSUME NEW l \in Int PROVE Short(l) \in Int
  OBVIOUS
<1> DEFINE half == Shorts \div 2
<1>1. half \in Int
  BY FramingAssumption
<1> HIDE DEF half
<1>2. (l + half) % Shorts \in Int
  <2>1. \A k \in Int : k % Shorts \in Int
    BY FramingAssumption
  <2> QED
    BY <1>1, <2>1
<1>3. ((l + half) % Shorts) - half \in Int
  BY <1>1, <1>2
<1> QED
  BY <1>3 DEF Short, half

LEMMA ByteTypes ==
    /\ MarkByte \in Bytes /\ Zero \in Bytes
    /\ \A v \in Int : LengthByte(v) \in Bytes
    /\ \A m, i \in Nat : DataByte(m, i) \in Bytes
    /\ \A b \in Bytes : b.kind = "length" => b.value \in Int
  BY DEF MarkByte, Zero, LengthByte, DataByte, Bytes

\* Whatever byte stands for the length, a number is read.
LEMMA ReadShortType == TypeInv => ReadShort \subseteq Int
<1> SUFFICES ASSUME TypeInv PROVE ReadShort \subseteq Int
  OBVIOUS
<1> DEFINE b == IF offset + 2 <= Size THEN buffer[offset + 2] ELSE Zero
<1>1. b \in Bytes
  BY ByteTypes, FramingAssumption DEF TypeInv
<1>2. CASE b.kind = "length"
  BY <1>1, <1>2, ByteTypes DEF ReadShort
<1>3. CASE b.kind # "length"
  <2>1. \A l \in 0 .. Shorts - 1 : Short(l) \in Int
    BY ShortType
  <2> QED
    BY <1>3, <2>1 DEF ReadShort
<1> QED
  BY <1>2, <1>3

LEMMA CleanType == Clean \in [1 .. Size -> Bytes]
  BY ByteTypes DEF Clean

LEMMA IInvInit == Init => IInv
<1> SUFFICES ASSUME Init PROVE IInv
  OBVIOUS
<1>1. sent \in Seq(Lengths) /\ stream \in Seq(Bytes) /\ got \in Seq(Seq(Bytes))
  BY DEF Init
<1>2. skipped \in BOOLEAN /\ buffer \in [1 .. Size -> Bytes]
  BY CleanType DEF Init
<1>3. offset = 0 /\ count = 0 /\ pc = "read" /\ Size \in Nat /\ Size # 0
  BY FramingAssumption DEF Init
<1> QED
  BY <1>1, <1>2, <1>3 DEF IInv, TypeInv, RoomInv

\* Reset leaves the offset alone only when it cannot be at the end.
LEMMA ResetStep ==
    ASSUME IInv, Reset PROVE IInv'
<1>1. buffer' \in [1 .. Size -> Bytes]
  <2>1. CASE ~Sliceable
    BY <2>1 DEF Reset, IInv, TypeInv
  <2>2. CASE Sliceable
    <3>1. \A i \in 1 .. Size : i <= count => offset + i \in 1 .. Size
      BY <2>2, FramingAssumption DEF Sliceable, IInv, TypeInv
    <3> QED
      BY <2>2, <3>1 DEF Reset, IInv, TypeInv
  <2> QED
    BY <2>1, <2>2
<1>2. RoomInv'
  BY FramingAssumption DEF Reset, Sliceable, IInv, TypeInv, RoomInv
<1> QED
  BY <1>1, <1>2 DEF Reset, IInv, TypeInv

\* A packet that is taken out may end where the buffer does; then it was the
\* last one in it.
LEMMA TakeStep ==
    ASSUME IInv, NEW length \in ReadShort, Take(length), pc' \in {"read", "parse"},
           (skipped' = skipped /\ pc' = "parse") \/ skipped' = TRUE,
           got' \in Seq(Seq(Bytes))
    PROVE  IInv'
<1>1. /\ length \in Nat /\ length + 2 \in Nat
      /\ count > 2 /\ offset + count <= Size
      /\ UNCHANGED <<sent, stream, buffer>>
  BY ReadShortType
  DEF Take, Parsed, Parsing, PCK_MIN_SIZE, Sliceable, InBuffer, IInv
<1>2. \/ /\ count >= length + 2
         /\ offset' = offset + (length + 2) /\ count' = count - (length + 2)
      \/ UNCHANGED <<offset, count>>
  BY DEF Take, DeleteData, PCK_MIN_SIZE
<1>3. offset' \in Nat /\ count' \in Nat /\ offset' <= Size /\ (offset' = Size => count' = 0)
  <2>1. offset \in Nat /\ count \in Nat /\ Size \in Nat
    BY FramingAssumption DEF IInv, TypeInv
  <2>2. CASE /\ count >= length + 2
             /\ offset' = offset + (length + 2) /\ count' = count - (length + 2)
    BY ONLY <1>1, <2>1, <2>2
  <2>3. CASE UNCHANGED <<offset, count>>
    BY ONLY <1>1, <2>1, <2>3
  <2> QED
    BY <1>2, <2>2, <2>3
<1>4. skipped' \in BOOLEAN
  BY DEF IInv, TypeInv
<1>5. RoomInv'
  BY <1>3 DEF RoomInv
<1> QED
  BY <1>1, <1>3, <1>4, <1>5 DEF IInv, TypeInv

LEMMA HandOverStep ==
    ASSUME TypeInv, NEW length \in ReadShort, Take(length), HandOver(length)
    PROVE  got' \in Seq(Seq(Bytes))
<1>1. length \in Nat
  BY ReadShortType DEF Take, InBuffer
<1>2. offset + 2 + length <= Size /\ offset \in Nat /\ buffer \in [1 .. Size -> Bytes]
  BY DEF Take, InBuffer, PCK_MIN_SIZE, TypeInv
<1>3. \A i \in offset + 3 .. offset + 2 + length : buffer[i] \in Bytes
  BY <1>1, <1>2, FramingAssumption
<1>4. SubSeq(buffer, offset + 3, offset + 2 + length) \in Seq(Bytes)
  BY <1>1, <1>2, <1>3
<1> QED BY <1>4 DEF HandOver, PCK_MIN_SIZE, TypeInv

LEMMA ParseStep == ASSUME IInv, Parse PROVE IInv'
<1>1. CASE ParseNone
  BY <1>1, ResetStep DEF ParseNone
<1>2. CASE ParsePanic
  BY <1>2, FramingAssumption
  DEF ParsePanic, Parsing, PCK_MIN_SIZE, Panic, received, IInv, TypeInv, RoomInv
<1>3. CASE ParseGarbage
  <2>1. /\ buffer' \in [1 .. Size -> Bytes] /\ skipped' \in BOOLEAN
        /\ offset' = 0 /\ count' = 0 /\ pc' = "read" /\ UNCHANGED <<sent, stream, got>>
    BY <1>3, CleanType DEF ParseGarbage
  <2>2. Size \in Nat /\ Size # 0
    BY FramingAssumption
  <2> QED
    BY <2>1, <2>2 DEF IInv, TypeInv, RoomInv
<1>4. ASSUME NEW length \in ReadShort, ParseShort(length) PROVE IInv'
  BY <1>4, ResetStep DEF ParseShort
<1>5. ASSUME NEW length \in ReadShort, ParseBeyond(length) PROVE IInv'
  BY <1>5, FramingAssumption
  DEF ParseBeyond, Parsed, Parsing, PCK_MIN_SIZE, Panic, received, IInv, TypeInv, RoomInv
<1>6. ASSUME NEW length \in ReadShort, Take(length), HandOver(length), pc' \in {"read", "parse"},
             (skipped' = skipped /\ pc' = "parse") \/ skipped' = TRUE
      PROVE  IInv'
  BY <1>6, TakeStep, HandOverStep DEF IInv
<1>7. ASSUME NEW length \in ReadShort, ParseMessage(length) PROVE IInv'
  BY <1>6, <1>7 DEF ParseMessage, Take, Parsed, Parsing
<1>8. ASSUME NEW length \in ReadShort, HandlerPanic(length) PROVE IInv'
  BY <1>6, <1>8 DEF HandlerPanic, LeaveLoop
<1>9. ASSUME NEW length \in ReadShort, EmptyPanic(length) PROVE IInv'
  BY <1>9, TakeStep DEF EmptyPanic, LeaveLoop, IInv, TypeInv
<1> QED
  BY <1>1, <1>2, <1>3, <1>4, <1>5, <1>7, <1>8, <1>9 DEF Parse

LEMMA ReadStep ==
    ASSUME IInv, NEW n \in 1 .. Len(stream), Read(n) PROVE IInv'
<1>1. Len(stream) \in Nat /\ n \in Nat /\ n <= Len(stream) /\ 1 <= n
  BY DEF IInv, TypeInv
<1>2. stream' \in Seq(Bytes)
  BY <1>1 DEF Read, IInv, TypeInv
<1>3. buffer' \in [1 .. Size -> Bytes]
  <2>1. \A i \in 1 .. n : stream[i] \in Bytes
    BY <1>1 DEF IInv, TypeInv
  <2> QED
    BY <2>1 DEF Read, IInv, TypeInv
<1>4. /\ count' \in Nat /\ UNCHANGED <<sent, offset, got, skipped>> /\ pc' = "parse"
      /\ offset < Size
  BY <1>1, FramingAssumption DEF Read, IInv, TypeInv, RoomInv
<1> QED
  BY <1>2, <1>3, <1>4 DEF IInv, TypeInv, RoomInv

LEMMA SendStep == ASSUME IInv, NEW l \in Lengths, Send(l) PROVE IInv'
<1>1. l \in Nat /\ Len(sent) + 1 \in Nat
  BY FramingAssumption DEF IInv, TypeInv
<1> DEFINE head == <<MarkByte, LengthByte(Short(l))>>
           data == [i \in 1 .. l |-> DataByte(Len(sent) + 1, i)]
<1>2. head \in Seq(Bytes) /\ data \in Seq(Bytes)
  <2>1. MarkByte \in Bytes /\ LengthByte(Short(l)) \in Bytes
    BY <1>1, ShortType, ByteTypes
  <2>2. \A i \in 1 .. l : DataByte(Len(sent) + 1, i) \in Bytes
    BY <1>1, ByteTypes
  <2> QED
    BY <1>1, <2>1, <2>2
<1>3. stream' = stream \o head \o data
  BY DEF Send
<1> HIDE DEF head, data
<1>4. stream' \in Seq(Bytes)
  BY <1>2, <1>3 DEF IInv, TypeInv
<1>5. sent' \in Seq(Lengths) /\ UNCHANGED <<buffer, offset, count, pc, got, skipped>>
  BY DEF Send, received, IInv, TypeInv
<1> QED
  BY <1>4, <1>5 DEF IInv, TypeInv, RoomInv

-----------------------------------------------------------------------------
(* The order of the messages.                                              *)

\* The length field of a message that fits the buffer says its length.
LEMMA ShortFits == ASSUME NEW l \in Nat, l + 2 <= Size PROVE Short(l) = l
<1> DEFINE half == Shorts \div 2
<1>1. half \in Nat /\ half + half <= Shorts /\ l < half
  BY FramingAssumption
<1> HIDE DEF half
<1>2. l + half \in 0 .. Shorts - 1
  BY <1>1, FramingAssumption
<1>3. \A k \in 0 .. Shorts - 1 : k % Shorts = k
  BY FramingAssumption
<1>4. (l + half) % Shorts = l + half
  BY <1>2, <1>3
<1>5. Short(l) = ((l + half) % Shorts) - half
  BY DEF Short, half
<1> QED BY <1>1, <1>4, <1>5

LEMMA ShortOfZero == Short(0) = 0
<1> DEFINE half == Shorts \div 2
<1>1. half \in Nat /\ half < Shorts
  BY FramingAssumption
<1> HIDE DEF half
<1>2. half % Shorts = half
  BY <1>1, FramingAssumption
<1>3. Short(0) = ((0 + half) % Shorts) - half
  BY DEF Short, half
<1> QED BY <1>1, <1>2, <1>3

LEMMA BytesDiffer ==
    /\ \A j, i : PacketByte(j, i) = MarkByte => i = 1
    /\ \A j : PacketByte(j, 1).kind = "mark"
    /\ \A j : PacketByte(j, 2) = LengthByte(Short(sent[j]))
    /\ \A v : LengthByte(v).kind = "length" /\ LengthByte(v).value = v
  BY DEF PacketByte, MarkByte, LengthByte, DataByte

LEMMA OrderInvInit == Init => OrderInv
<1> SUFFICES ASSUME Init PROVE OrderInv
  OBVIOUS
<1>1. Prefix /\ Pending = {} /\ Next1 = 1 /\ Len(sent) = 0 /\ Len(stream) = 0
  BY DEF Init, Prefix, Pending, Next1
<1> DEFINE at == [j \in {1} |-> 0]
<1>2. at \in [Next1 .. Len(sent) + 1 -> Nat] /\ at[1] = 0
  BY <1>1
<1> HIDE DEF at
<1>3. Starts(at)
  BY <1>1, <1>2 DEF Init, Starts
<1>4. Packed(at) /\ Whole(at)
  BY <1>1 DEF Packed, Whole
<1> QED BY <1>1, <1>2, <1>3, <1>4, FramingAssumption DEF Init, OrderInv

LEMMA SendSeq ==
    ASSUME NEW T, NEW s \in Seq(T), NEW a \in T, NEW b \in T, NEW l \in Nat,
           NEW d \in [1 .. l -> T]
    PROVE  LET w == s \o <<a, b>> \o d IN
             /\ Len(w) = Len(s) + l + 2
             /\ \A p \in 1 .. Len(s) : w[p] = s[p]
             /\ w[Len(s) + 1] = a /\ w[Len(s) + 2] = b
             /\ \A i \in 3 .. l + 2 : w[Len(s) + i] = d[i - 2]
<1> PICK w : w = s \o <<a, b>> \o d
  OBVIOUS
<1>1. d \in Seq(T) /\ Len(d) = l /\ <<a, b>> \in Seq(T) /\ Len(<<a, b>>) = 2
  OBVIOUS
<1> DEFINE u == s \o <<a, b>>
<1>2. u \in Seq(T) /\ Len(u) = Len(s) + 2
  BY <1>1
<1>3. /\ \A p \in 1 .. Len(s) : u[p] = s[p]
      /\ u[Len(s) + 1] = a /\ u[Len(s) + 2] = b
  OBVIOUS
<1> HIDE DEF u
<1>4. w = u \o d
  BY DEF u
<1>5. /\ Len(w) = Len(u) + l
      /\ \A p \in 1 .. Len(u) : w[p] = u[p]
      /\ \A i \in 1 .. l : w[Len(u) + i] = d[i]
  <2>1. u \in Seq(T) /\ d \in Seq(T) /\ Len(d) = l
    BY <1>1, <1>2
  <2>2. /\ Len(u \o d) = Len(u) + Len(d)
        /\ \A p \in 1 .. Len(u) : (u \o d)[p] = u[p]
        /\ \A i \in 1 .. Len(d) : (u \o d)[Len(u) + i] = d[i]
    BY ONLY <2>1
  <2> QED BY ONLY <1>4, <2>1, <2>2
<1>6. \A i \in 3 .. l + 2 : w[Len(s) + i] = d[i - 2]
  <2> SUFFICES ASSUME NEW i \in 3 .. l + 2 PROVE w[Len(s) + i] = d[i - 2]
    OBVIOUS
  <2>1. i - 2 \in 1 .. l /\ Len(u) + (i - 2) = Len(s) + i
    BY <1>2
  <2> QED BY <1>5, <2>1
<1>7. \A p \in 1 .. Len(s) : p \in 1 .. Len(u)
  BY <1>2
<1>8. Len(s) + 1 \in 1 .. Len(u) /\ Len(s) + 2 \in 1 .. Len(u)
  BY <1>2
<1>9. Len(w) = Len(s) + l + 2
  BY <1>2, <1>5
<1>10. \A p \in 1 .. Len(s) : w[p] = s[p]
  BY <1>3, <1>5, <1>7
<1>11. w[Len(s) + 1] = a /\ w[Len(s) + 2] = b
  BY <1>3, <1>5, <1>8
<1> QED BY <1>6, <1>9, <1>10, <1>11

\* Byte i of a packet of l + 2 bytes behind a others.
LEMMA InRange ==
    ASSUME NEW a \in Nat, NEW l \in Nat, NEW i \in 1 .. l + 2, NEW t \in Nat, a + l + 2 <= t
    PROVE  a + i \in 1 .. t /\ a + i <= t
  OBVIOUS

LEMMA SendOrder ==
    ASSUME IInv, OrderInv, NEW l \in Lengths, Send(l) PROVE OrderInv'
<1>n. PICK n \in Nat : n = Len(sent)
  BY DEF IInv, TypeInv
<1>k. PICK k \in Nat : k = Len(got)
  BY DEF IInv, TypeInv
<1>at. PICK at \in [Next1 .. Len(sent) + 1 -> Nat] : Starts(at) /\ Packed(at) /\ Whole(at)
  BY DEF OrderInv
<1>1. /\ l \in Nat /\ k <= n /\ sent' = Append(sent, l)
      /\ stream' = stream \o <<MarkByte, LengthByte(Short(l))>>
                           \o [i \in 1 .. l |-> DataByte(n + 1, i)]
      /\ UNCHANGED <<buffer, offset, count, pc, got>>
  BY <1>n, <1>k, FramingAssumption DEF Send, received, OrderInv, Prefix
<1>2. /\ Len(sent') = n + 1 /\ sent'[n + 1] = l
      /\ \A j \in 1 .. n : sent'[j] = sent[j]
  BY <1>1, <1>n DEF IInv, TypeInv
<1>m. PICK m \in Nat : m = Len(stream)
  BY DEF IInv, TypeInv
<1>3. /\ Len(stream') = m + l + 2
      /\ \A p \in 1 .. m : stream'[p] = stream[p]
      /\ stream'[m + 1] = MarkByte /\ stream'[m + 2] = LengthByte(Short(l))
      /\ \A i \in 3 .. l + 2 : stream'[m + i] = DataByte(n + 1, i - 2)
  <2>1. MarkByte \in Bytes /\ LengthByte(Short(l)) \in Bytes
    BY <1>1, ShortType, ByteTypes
  <2>2. \A i \in 1 .. l : DataByte(n + 1, i) \in Bytes
    BY <1>1, ByteTypes
  <2> DEFINE d == [i \in 1 .. l |-> DataByte(n + 1, i)]
  <2>3. d \in [1 .. l -> Bytes] /\ \A i \in 3 .. l + 2 : d[i - 2] = DataByte(n + 1, i - 2)
    BY <1>1, <2>2
  <2>4. stream' = stream \o <<MarkByte, LengthByte(Short(l))>> \o d
    BY <1>1
  <2> HIDE DEF d
  <2>5. stream \in Seq(Bytes) /\ l \in Nat
    BY <1>1 DEF IInv, TypeInv
  <2>6. /\ Len(stream') = Len(stream) + l + 2
        /\ \A p \in 1 .. Len(stream) : stream'[p] = stream[p]
        /\ stream'[Len(stream) + 1] = MarkByte
        /\ stream'[Len(stream) + 2] = LengthByte(Short(l))
        /\ \A i \in 3 .. l + 2 : stream'[Len(stream) + i] = d[i - 2]
    <3>1. LET w == stream \o <<MarkByte, LengthByte(Short(l))>> \o d IN
             /\ Len(w) = Len(stream) + l + 2
             /\ \A p \in 1 .. Len(stream) : w[p] = stream[p]
             /\ w[Len(stream) + 1] = MarkByte /\ w[Len(stream) + 2] = LengthByte(Short(l))
             /\ \A i \in 3 .. l + 2 : w[Len(stream) + i] = d[i - 2]
      BY ONLY <2>1, <2>3, <2>5, SendSeq
    <3> QED BY ONLY <2>4, <3>1
  <2> QED BY <1>m, <2>3, <2>6
<1>t. count \in Nat /\ offset \in Nat /\ \A j \in 1 .. n : sent[j] \in Nat
  <2>1. sent \in Seq(Lengths) /\ count \in Nat /\ offset \in Nat
    BY DEF IInv, TypeInv
  <2>2. \A j \in 1 .. n : sent[j] \in Lengths
    BY <1>n, <2>1
  <2> QED BY <2>1, <2>2, FramingAssumption
<1>4. /\ at \in [k + 1 .. n + 1 -> Nat] /\ at[k + 1] = 0 /\ at[n + 1] = count + m
      /\ \A j \in k + 1 .. n : at[j + 1] = at[j] + sent[j] + 2
      /\ \A i, j \in k + 1 .. n + 1 : i <= j => at[i] <= at[j]
  BY <1>n, <1>k, <1>m, <1>at DEF Starts, Next1, Pending, PCK_MIN_SIZE
<1>bt. PICK bt : bt = [j \in k + 1 .. n + 2 |-> IF j = n + 2 THEN at[n + 1] + l + 2 ELSE at[j]]
  OBVIOUS
<1>5. /\ bt \in [k + 1 .. n + 2 -> Nat] /\ bt[n + 2] = count + m + l + 2
      /\ \A j \in k + 1 .. n + 1 : bt[j] = at[j]
  <2>1. n + 1 \in k + 1 .. n + 1 /\ n + 2 \in k + 1 .. n + 2
    BY <1>1
  <2>2. bt[n + 2] = at[n + 1] + l + 2 /\ at[n + 1] \in Nat
    BY <1>4, <1>bt, <2>1
  <2>3. \A j \in k + 1 .. n + 1 : j \in k + 1 .. n + 2 /\ j # n + 2
    OBVIOUS
  <2>4. \A j \in k + 1 .. n + 1 : bt[j] = at[j]
    BY <1>bt, <2>3
  <2>5. \A j \in k + 1 .. n + 2 : j # n + 2 => j \in k + 1 .. n + 1
    OBVIOUS
  <2>6. ASSUME NEW j \in k + 1 .. n + 2 PROVE bt[j] \in Nat
    <3>1. CASE j = n + 2
      BY <1>1, <2>2, <3>1
    <3>2. CASE j # n + 2
      <4>1. bt[j] = at[j] /\ j \in k + 1 .. n + 1
        BY <2>4, <2>5, <3>2
      <4> QED BY <1>4, <4>1
    <3> QED BY <3>1, <3>2
  <2> QED BY <1>1, <1>4, <1>bt, <2>2, <2>4, <2>6
<1>6. (Starts(bt))'
  <2>1. \A j \in k + 1 .. n + 1 : bt[j + 1] = bt[j] + sent'[j] + 2
    <3> SUFFICES ASSUME NEW j \in k + 1 .. n + 1 PROVE bt[j + 1] = bt[j] + sent'[j] + 2
      OBVIOUS
    <3>1. CASE j = n + 1
      <4>1. sent'[j] = l /\ j + 1 = n + 2
        BY <1>2, <3>1
      <4>2. bt[j] = count + m /\ bt[n + 2] = count + m + l + 2
        <5>1. n + 1 \in k + 1 .. n + 1
          BY <1>1
        <5> QED BY <1>4, <1>5, <3>1, <5>1
      <4> QED BY <4>1, <4>2
    <3>2. CASE j # n + 1
      <4>1. j \in k + 1 .. n /\ j \in 1 .. n /\ j + 1 \in k + 1 .. n + 1
        BY <3>2
      <4> QED BY <1>2, <1>4, <1>5, <4>1
    <3> QED BY <3>1, <3>2
  <2>2. \A i, j \in k + 1 .. n + 2 : i <= j => bt[i] <= bt[j]
    <3> SUFFICES ASSUME NEW i \in k + 1 .. n + 2, NEW j \in k + 1 .. n + 2, i <= j
                 PROVE  bt[i] <= bt[j]
      OBVIOUS
    <3>1. count \in Nat
      BY DEF IInv, TypeInv
    <3>2. CASE j = n + 2 /\ i # n + 2
      <4>1. i \in k + 1 .. n + 1 /\ n + 1 \in k + 1 .. n + 1
        BY <1>1, <3>2
      <4>2. bt[i] <= count + m
        <5>1. i <= n + 1 /\ bt[i] = at[i] /\ at[n + 1] = count + m
          BY <1>4, <1>5, <4>1
        <5> QED BY <1>4, <4>1, <5>1
      <4>3. bt[i] \in Nat
        BY <1>5
      <4> QED BY <1>1, <1>5, <3>1, <3>2, <4>2, <4>3
    <3>3. CASE j # n + 2
      <4>1. i \in k + 1 .. n + 1 /\ j \in k + 1 .. n + 1
        BY <3>3
      <4> QED BY <1>4, <1>5, <4>1
    <3>4. CASE i = n + 2 /\ j = n + 2
      BY <1>5, <3>4
    <3> QED BY <3>2, <3>3, <3>4
  <2>3. bt[k + 1] = 0
    <3>1. k + 1 \in k + 1 .. n + 1
      BY <1>1
    <3> QED BY <1>4, <1>5, <3>1
  <2>4. bt[n + 2] = count' + Len(stream')
    <3>1. l \in Nat /\ count' = count
      BY <1>1
    <3>2. Len(stream') = m + l + 2 /\ bt[n + 2] = count + m + l + 2
      BY <1>3, <1>5
    <3> QED BY <1>t, <3>1, <3>2
  <2>5. Len(got') + 1 = k + 1 /\ Len(sent') = n + 1
    BY <1>1, <1>2, <1>k
  <2>6. bt \in [Next1' .. Len(sent') + 1 -> Nat] /\ (n + 1) + 1 = n + 2
    BY <1>5, <2>5 DEF Next1
  <2>7. (n + 1) + 1 = n + 2 /\ (k + 1) .. (n + 1) = Pending'
    BY <2>5 DEF Pending, Next1
  <2> QED BY <2>1, <2>2, <2>3, <2>4, <2>5, <2>6, <2>7 DEF Starts, Next1, PCK_MIN_SIZE
<1>7. (Packed(bt))'
  <2> SUFFICES ASSUME NEW j \in k + 1 .. n + 1, NEW i \in 1 .. sent'[j] + 2
               PROVE  (Incoming(bt[j] + i) = PacketByte(j, i))'
    BY <1>1, <1>2, <1>k DEF Packed, Next1, Pending, PCK_MIN_SIZE
  <2>1. CASE j = n + 1
    <3>1. bt[j] = count + m /\ sent'[j] = l /\ count \in Nat
      BY <1>1, <1>2, <1>4, <1>5, <1>t, <2>1
    <3>2. bt[j] + i > count /\ (bt[j] + i) - count = m + i
      BY <1>1, <3>1
    <3>3. (Incoming(bt[j] + i))' = stream'[m + i]
      <4>1. count' = count /\ ~((bt[j] + i) <= count)
        BY <1>1, <3>1, <3>2
      <4> QED BY <3>2, <4>1 DEF Incoming
    <3>4. (PacketByte(j, i))' = IF i = 1 THEN MarkByte ELSE IF i = 2 THEN LengthByte(Short(l))
                                ELSE DataByte(n + 1, i - 2)
      BY <2>1, <3>1 DEF PacketByte, PCK_MIN_SIZE
    <3>5. i \in 1 .. l + 2 /\ (i # 1 /\ i # 2 => i \in 3 .. l + 2)
      BY <1>1, <3>1
    <3> QED BY <1>3, <3>3, <3>4, <3>5
  <2>2. CASE j # n + 1
    <3>1. j \in k + 1 .. n /\ j \in 1 .. n /\ j + 1 \in k + 1 .. n + 1 /\ j \in k + 1 .. n + 1
          /\ n + 1 \in k + 1 .. n + 1
      BY <2>2
    <3>2. sent'[j] = sent[j] /\ bt[j] = at[j] /\ sent[j] \in Nat /\ count \in Nat
      BY <1>2, <1>5, <1>t, <3>1
    <3>3. Incoming(at[j] + i) = PacketByte(j, i)
      BY <1>at, <1>n, <1>k, <3>1, <3>2 DEF Packed, Next1, Pending, PCK_MIN_SIZE
    <3>4. at[j] + i <= count + m /\ at[j] \in Nat
      <4>1. at[j] \in Nat /\ at[j + 1] = at[j] + sent[j] + 2 /\ at[n + 1] = count + m
        BY <1>4, <3>1
      <4>2. at[j + 1] <= at[n + 1]
        <5>1. j + 1 <= n + 1
          BY <3>1
        <5> QED BY <1>4, <3>1, <5>1
      <4>3. PICK a \in Nat, q \in Nat : a = at[j] /\ q = sent[j]
        BY <3>2, <4>1
      <4>4. i \in 1 .. q + 2 /\ a + q + 2 <= count + m /\ count + m \in Nat
        BY <3>2, <4>1, <4>2, <4>3
      <4>5. a + i <= count + m
        BY ONLY <4>3, <4>4, InRange
      <4> QED BY <4>3, <4>5
    <3>5. (Incoming(bt[j] + i))' = Incoming(at[j] + i)
      <4>1. CASE at[j] + i <= count
        BY <1>1, <3>2, <4>1 DEF Incoming
      <4>2. CASE ~(at[j] + i <= count)
        <5>1. (at[j] + i) - count \in 1 .. m
          BY <3>2, <3>4, <4>2
        <5> QED BY <1>1, <1>3, <3>2, <4>2, <5>1 DEF Incoming
      <4> QED BY <4>1, <4>2
    <3>6. (PacketByte(j, i))' = PacketByte(j, i)
      BY <3>2 DEF PacketByte
    <3> QED BY <3>3, <3>5, <3>6
  <2> QED BY <2>1, <2>2
<1>8. (Whole(bt))'
  <2> SUFFICES ASSUME NEW j \in k + 1 .. n + 1
               PROVE  /\ bt[j] < count => bt[j + 1] <= count
                      /\ bt[j + 1] = count => sent'[j] > 0
    BY <1>1, <1>2, <1>k DEF Whole, Next1, Pending
  <2>1. CASE j = n + 1
    <3>1. bt[j] = count + m /\ bt[j + 1] = count + m + l + 2
      <4>1. n + 1 \in k + 1 .. n + 1 /\ j + 1 = n + 2
        BY <1>1, <2>1
      <4> QED BY <1>4, <1>5, <2>1, <4>1
    <3> QED BY <1>1, <1>t, <3>1
  <2>2. CASE j # n + 1
    <3>1. j \in k + 1 .. n /\ j \in 1 .. n /\ j + 1 \in k + 1 .. n + 1 /\ j \in k + 1 .. n + 1
      BY <2>2
    <3>2. (at[j] < count => at[j + 1] <= count) /\ (at[j + 1] = count => sent[j] > 0)
      BY <1>at, <1>n, <1>k, <3>1 DEF Whole, Next1, Pending
    <3> QED BY <1>2, <1>5, <3>1, <3>2
  <2> QED BY <2>1, <2>2
<1>9. Prefix'
  <2>1. k <= n /\ \A j \in 1 .. k : got[j] = Message(j)
    BY <1>1, <1>k DEF OrderInv, Prefix
  <2>2. \A j \in 1 .. k : (Message(j))' = Message(j)
    <3>1. \A j \in 1 .. k : sent'[j] = sent[j]
      BY <1>2, <2>1
    <3> QED BY <3>1 DEF Message
  <2>3. Len(got') = k /\ got' = got /\ k <= Len(sent')
    BY <1>1, <1>2, <1>k, <2>1
  <2> QED BY <2>1, <2>2, <2>3 DEF Prefix
<1>10. bt \in [Next1' .. Len(sent') + 1 -> Nat]
  BY <1>1, <1>2, <1>5, <1>k DEF Next1
<1> QED BY <1>1, <1>6, <1>7, <1>8, <1>9, <1>10 DEF OrderInv

\* What a step may use of the places of the packets, of which t bytes are left
\* and those of the messages k + 1 to e.
Placed(at, k, e, t) ==
    /\ at \in [k + 1 .. e + 1 -> Nat] /\ at[k + 1] = 0 /\ at[e + 1] = t
    /\ \A j \in k + 1 .. e : /\ sent[j] \in Nat /\ at[j] \in Nat /\ at[j + 1] \in Nat
                            /\ at[j + 1] = at[j] + sent[j] + 2 /\ at[j + 1] <= t
    /\ \A i, j \in k + 1 .. e + 1 : i <= j => at[i] <= at[j]

LEMMA Places ==
    ASSUME IInv, NEW e \in Nat, e = Len(sent), NEW k \in Nat, k = Len(got),
           NEW m \in Nat, m = Len(stream), NEW at, Starts(at)
    PROVE  Placed(at, k, e, count + m)
<1>1. /\ at \in [k + 1 .. e + 1 -> Nat] /\ at[k + 1] = 0 /\ at[e + 1] = count + m
      /\ \A j \in k + 1 .. e : at[j + 1] = at[j] + sent[j] + 2
      /\ \A i, j \in k + 1 .. e + 1 : i <= j => at[i] <= at[j]
  BY DEF Starts, Next1, Pending, PCK_MIN_SIZE
<1>2. ASSUME NEW j \in k + 1 .. e
      PROVE  sent[j] \in Nat /\ at[j] \in Nat /\ at[j + 1] \in Nat /\ at[j + 1] <= count + m
  <2>1. j \in 1 .. e /\ j \in k + 1 .. e + 1 /\ j + 1 \in k + 1 .. e + 1
        /\ e + 1 \in k + 1 .. e + 1 /\ j + 1 <= e + 1
    OBVIOUS
  <2>2. sent[j] \in Lengths
    BY <2>1 DEF IInv, TypeInv
  <2> QED BY <1>1, <2>1, <2>2, FramingAssumption
<1> QED BY <1>1, <1>2 DEF Placed

LEMMA ReadOrder ==
    ASSUME IInv, OrderInv, NEW n \in 1 .. Len(stream), Read(n), ~torn', ~hollow'
    PROVE  OrderInv'
<1>e. PICK e \in Nat : e = Len(sent)
  BY DEF IInv, TypeInv
<1>k. PICK k \in Nat : k = Len(got)
  BY DEF IInv, TypeInv
<1>m. PICK m \in Nat : m = Len(stream)
  BY DEF IInv, TypeInv
<1>at. PICK at \in [Next1 .. Len(sent) + 1 -> Nat] : Starts(at) /\ Packed(at) /\ Whole(at)
  BY DEF OrderInv
<1>1. /\ offset \in Nat /\ count = 0 /\ count' = n /\ n \in 1 .. m /\ offset + n <= Size
      /\ UNCHANGED <<sent, offset, got>> /\ pc' = "parse"
  BY <1>m, FramingAssumption DEF Read, OrderInv, IInv, TypeInv
<1>2. /\ at \in [k + 1 .. e + 1 -> Nat] /\ at[k + 1] = 0 /\ at[e + 1] = m
      /\ \A j \in k + 1 .. e : /\ sent[j] \in Nat /\ at[j] \in Nat /\ at[j + 1] \in Nat
                              /\ at[j + 1] = at[j] + sent[j] + 2 /\ at[j + 1] <= m
      /\ \A i, j \in k + 1 .. e + 1 : i <= j => at[i] <= at[j]
  <2>1. Placed(at, k, e, count + m)
    BY <1>e, <1>k, <1>m, <1>at, Places
  <2>2. count + m = m
    BY <1>1
  <2> QED BY <2>1, <2>2 DEF Placed
<1>3. \A j \in k + 1 .. e : \A i \in 1 .. sent[j] + 2 : stream[at[j] + i] = PacketByte(j, i)
  <2> SUFFICES ASSUME NEW j \in k + 1 .. e, NEW i \in 1 .. sent[j] + 2
               PROVE  stream[at[j] + i] = PacketByte(j, i)
    OBVIOUS
  <2>1. Incoming(at[j] + i) = PacketByte(j, i)
    BY <1>e, <1>k, <1>at DEF Packed, Next1, Pending, PCK_MIN_SIZE
  <2>2. ~(at[j] + i <= count) /\ (at[j] + i) - count = at[j] + i
    <3>1. at[j] \in Nat /\ sent[j] \in Nat
      BY <1>2
    <3> QED BY <1>1, <3>1
  <2> QED BY <2>1, <2>2 DEF Incoming
<1>4. /\ Len(stream') = m - n /\ \A p \in 1 .. m - n : stream'[p] = stream[p + n]
      /\ (n < m => stream[n + 1] = MarkByte)
      /\ stream[n] # LengthByte(0)
  <2>1. stream' = SubSeq(stream, n + 1, m) /\ stream \in Seq(Bytes)
    BY <1>m DEF Read, IInv, TypeInv
  <2>2. Len(stream') = m - n /\ \A p \in 1 .. m - n : stream'[p] = stream[p + n]
    <3>1. n \in 1 .. m /\ m = Len(stream)
      BY <1>1, <1>m
    <3> QED BY ONLY <2>1, <3>1
  <2>3. ASSUME n < m PROVE stream[n + 1] = MarkByte
    <3>1. stream' # <<>> /\ Head(stream') = stream'[1]
      <4>1. Len(stream') > 0
        BY <1>1, <2>2, <2>3
      <4>2. stream' \in Seq(Bytes)
        <5>1. n \in 1 .. Len(stream) /\ stream \in Seq(Bytes)
          BY <1>1, <1>m, <2>1
        <5> QED BY <5>1, ReadStep DEF IInv, TypeInv
      <4> QED BY ONLY <4>1, <4>2
    <3>2. stream'[1] = stream[n + 1]
      BY <1>1, <2>2, <2>3
    <3> QED BY <3>1, <3>2 DEF Read
  <2> QED BY <2>2, <2>3 DEF Read
<1>5. \A p \in 1 .. n : buffer'[offset + p] = stream[p]
  <2> SUFFICES ASSUME NEW p \in 1 .. n PROVE buffer'[offset + p] = stream[p]
    OBVIOUS
  <2>1. /\ offset + p \in 1 .. Size /\ (offset + p) - offset = p
        /\ (offset + p) - offset \in 1 .. n
    BY <1>1, FramingAssumption
  <2> QED BY <2>1 DEF Read
<1>6. (Starts(at))'
  <2>1. /\ Len(got') + 1 = k + 1 /\ Len(sent') = e /\ Pending' = k + 1 .. e /\ Next1' = k + 1
    BY <1>1, <1>e, <1>k DEF Pending, Next1
  <2>2. at[e + 1] = count' + Len(stream')
    BY <1>1, <1>2, <1>4
  <2> QED BY <1>1, <1>2, <2>1, <2>2 DEF Starts, PCK_MIN_SIZE
<1>7. (Packed(at))'
  <2> SUFFICES ASSUME NEW j \in k + 1 .. e, NEW i \in 1 .. sent[j] + 2
               PROVE  (Incoming(at[j] + i) = PacketByte(j, i))'
    BY <1>1, <1>e, <1>k DEF Packed, Next1, Pending, PCK_MIN_SIZE
  <2>1. (PacketByte(j, i))' = PacketByte(j, i)
    BY <1>1 DEF PacketByte
  <2>2. stream[at[j] + i] = PacketByte(j, i)
    BY <1>3
  <2>3. at[j] + i \in 1 .. m
    <3>1. /\ at[j] \in Nat /\ sent[j] \in Nat /\ at[j + 1] <= m
          /\ at[j + 1] = at[j] + sent[j] + 2
      BY <1>2
    <3>2. at[j] + sent[j] + 2 <= m
      BY <3>1
    <3> QED BY ONLY <3>1, <3>2, InRange, i \in 1 .. sent[j] + 2, m \in Nat
  <2>4. CASE at[j] + i <= n
    <3>1. buffer'[offset' + (at[j] + i)] = stream[at[j] + i]
      <4>1. at[j] + i \in 1 .. n /\ offset' = offset
        BY <1>1, <2>3, <2>4
      <4> QED BY <1>5, <4>1
    <3> QED BY <1>1, <2>1, <2>2, <2>4, <3>1 DEF Incoming
  <2>5. CASE ~(at[j] + i <= n)
    <3>1. (at[j] + i) - n \in 1 .. m - n /\ ((at[j] + i) - n) + n = at[j] + i
      BY <1>1, <2>3, <2>5
    <3> QED BY <1>1, <1>4, <2>1, <2>2, <2>5, <3>1 DEF Incoming
  <2> QED BY <2>4, <2>5
<1>8. (Whole(at))'
  <2> SUFFICES ASSUME NEW j \in k + 1 .. e
               PROVE  /\ at[j] < n => at[j + 1] <= n
                      /\ at[j + 1] = n => sent[j] > 0
    BY <1>1, <1>e, <1>k DEF Whole, Next1, Pending
  <2>1. /\ at[j] \in Nat /\ at[j + 1] \in Nat /\ sent[j] \in Nat
        /\ at[j + 1] = at[j] + sent[j] + 2 /\ at[j + 1] <= m
    BY <1>2
  <2>2. ASSUME at[j] < n, ~(at[j + 1] <= n) PROVE FALSE
    <3>1. PICK a \in Nat, l \in Nat : a = at[j] /\ l = sent[j] /\ a < n /\ n < a + l + 2 /\ n < m
      <4>1. n < at[j + 1] /\ n \in Nat
        BY <1>1, <2>1, <2>2
      <4> QED BY <1>1, <2>1, <2>2, <4>1
    <3>n. n \in Nat
      BY <1>1
    <3>b. a < n /\ n < a + l + 2
      BY <3>1
    <3>m. (n + 1) - a \in 1 .. l + 2 /\ a + ((n + 1) - a) = n + 1 /\ (n + 1) - a # 1
      BY ONLY <3>n, <3>b, a \in Nat, l \in Nat
    <3>2. PICK i \in 1 .. l + 2 : a + i = n + 1 /\ i # 1
      BY ONLY <3>m
    <3>3. PacketByte(j, i) = MarkByte
      BY <1>3, <1>4, <3>1, <3>2
    <3> QED BY <3>2, <3>3, BytesDiffer
  <2>3. ASSUME at[j + 1] = n, ~(sent[j] > 0) PROVE FALSE
    <3>1. sent[j] = 0 /\ at[j] + 2 = n /\ 2 \in 1 .. sent[j] + 2
      BY <2>1, <2>3
    <3>2. stream[n] = LengthByte(Short(0))
      BY <1>3, <3>1, BytesDiffer
    <3> QED BY <1>4, <3>2, ShortOfZero
  <2> QED BY <2>2, <2>3
<1>9. Prefix'
  BY <1>1 DEF OrderInv, Prefix, Message
<1>10. at \in [Next1' .. Len(sent') + 1 -> Nat] /\ offset' + count' <= Size
  BY <1>1, <1>2, <1>e, <1>k DEF Next1
<1> QED BY <1>1, <1>6, <1>7, <1>8, <1>9, <1>10 DEF OrderInv

\* While the packet loop has bytes, the packet of the next message is at the
\* front of the buffer, and whole.
LEMMA NextIsWhole ==
    ASSUME IInv, OrderInv, count # 0, NEW k \in Nat, k = Len(got)
    PROVE  /\ pc = "parse" /\ k + 1 <= Len(sent) /\ sent[k + 1] \in Nat
           /\ sent[k + 1] + 2 <= count /\ count > 2 /\ Sliceable
           /\ buffer[offset + 1] = MarkByte /\ ReadShort = {sent[k + 1]}
           /\ \A i \in 1 .. sent[k + 1] : buffer[offset + 2 + i] = DataByte(k + 1, i)
<1>e. PICK e \in Nat : e = Len(sent)
  BY DEF IInv, TypeInv
<1>m. PICK m \in Nat : m = Len(stream)
  BY DEF IInv, TypeInv
<1>at. PICK at \in [Next1 .. Len(sent) + 1 -> Nat] : Starts(at) /\ Packed(at) /\ Whole(at)
  BY DEF OrderInv
<1>1. Placed(at, k, e, count + m)
  BY <1>e, <1>m, <1>at, Places
<1>2. /\ count \in Nat \ {0} /\ offset \in Nat /\ k <= e /\ offset + count <= Size
      /\ pc = "parse" /\ Size \in Nat
  BY <1>e, FramingAssumption DEF IInv, TypeInv, OrderInv, Prefix
<1>3. k + 1 <= e
  <2>1. CASE k = e
    BY <1>1, <1>2, <2>1 DEF Placed
  <2> QED BY <1>2, <2>1
<1> PICK l : l = sent[k + 1]
  OBVIOUS
<1>4. l \in Nat /\ at[k + 1] = 0 /\ at[k + 2] = l + 2
  <2>1. k + 1 \in k + 1 .. e /\ (k + 1) + 1 = k + 2
    BY <1>3
  <2>2. /\ at[k + 1] = 0 /\ sent[k + 1] \in Nat
        /\ at[(k + 1) + 1] = at[k + 1] + sent[k + 1] + 2
    BY <1>1, <2>1 DEF Placed
  <2> QED BY <2>1, <2>2
<1>5. l + 2 <= count /\ count > 2
  <2>1. at[k + 2] <= count /\ (at[k + 2] = count => l > 0)
    <3>1. k + 1 \in Pending /\ (k + 1) + 1 = k + 2
      BY <1>3, <1>e DEF Pending, Next1
    <3>2. at[k + 1] < count
      BY <1>2, <1>4
    <3> QED BY <1>at, <3>1, <3>2 DEF Whole
  <2> QED BY <1>2, <1>4, <2>1
<1>6. \A i \in 1 .. l + 2 : buffer[offset + i] = PacketByte(k + 1, i)
  <2> SUFFICES ASSUME NEW i \in 1 .. l + 2 PROVE buffer[offset + i] = PacketByte(k + 1, i)
    OBVIOUS
  <2>1. Incoming(at[k + 1] + i) = PacketByte(k + 1, i)
    <3>1. k + 1 \in Pending
      BY <1>3, <1>e DEF Pending, Next1
    <3> QED BY <1>at, <3>1 DEF Packed, PCK_MIN_SIZE
  <2>2. at[k + 1] + i = i /\ i <= count
    BY <1>2, <1>4, <1>5
  <2> QED BY <2>1, <2>2 DEF Incoming
<1>7. buffer[offset + 1] = MarkByte
  <2>1. 1 \in 1 .. l + 2
    BY <1>4
  <2> QED BY <1>6, <2>1 DEF PacketByte
<1>8. ReadShort = {l}
  <2>1. 2 \in 1 .. l + 2 /\ offset + 2 <= Size /\ l + 2 <= Size
    BY <1>2, <1>4, <1>5
  <2>2. buffer[offset + 2] = LengthByte(Short(l))
    BY <1>6, <2>1, BytesDiffer
  <2>3. Short(l) = l
    BY <1>4, <2>1, ShortFits
  <2> QED BY <2>1, <2>2, <2>3, BytesDiffer DEF ReadShort
<1>9. ASSUME NEW i \in 1 .. l PROVE buffer[offset + 2 + i] = DataByte(k + 1, i)
  <2>1. i + 2 \in 1 .. l + 2 /\ i + 2 # 1 /\ i + 2 # 2 /\ (i + 2) - 2 = i
        /\ offset + (i + 2) = offset + 2 + i
    BY <1>2, <1>4
  <2> QED BY <1>6, <2>1 DEF PacketByte, PCK_MIN_SIZE
<1> QED BY <1>2, <1>3, <1>e, <1>4, <1>5, <1>7, <1>8, <1>9 DEF Sliceable

\* The loop is left with an empty buffer.
LEMMA ResetOrder == ASSUME IInv, OrderInv, count = 0, Reset PROVE OrderInv'
<1>at. PICK at \in [Next1 .. Len(sent) + 1 -> Nat] : Starts(at) /\ Packed(at) /\ Whole(at)
  BY DEF OrderInv
<1>1. UNCHANGED <<sent, stream, count, got>> /\ offset' = 0
  BY DEF Reset, Sliceable, OrderInv
<1>2. (Starts(at))' /\ (Whole(at))' /\ Prefix'
  BY <1>1, <1>at DEF Starts, Whole, Prefix, Message, Next1, Pending, OrderInv
<1>3. (Packed(at))'
  <2> SUFFICES ASSUME NEW j \in Pending, NEW i \in 1 .. sent[j] + PCK_MIN_SIZE
               PROVE  (Incoming(at[j] + i) = PacketByte(j, i))'
    BY <1>1 DEF Packed, Pending, Next1
  <2>1. Incoming(at[j] + i) = PacketByte(j, i)
    BY <1>at DEF Packed
  <2>2. (PacketByte(j, i))' = PacketByte(j, i)
    BY <1>1 DEF PacketByte
  <2>3. ~(at[j] + i <= count)
    <3>1. at[j] \in Nat
      <4>1. j \in Next1 .. Len(sent) + 1
        BY DEF Pending, Next1, IInv, TypeInv
      <4> QED BY <4>1
    <3> QED BY <3>1
  <2> QED BY <1>1, <2>1, <2>2, <2>3 DEF Incoming
<1>4. at \in [Next1' .. Len(sent') + 1 -> Nat] /\ offset' + count' <= Size
  BY <1>1, FramingAssumption DEF Next1
<1> QED BY <1>1, <1>2, <1>3, <1>4 DEF OrderInv

LEMMA MessageOrder ==
    ASSUME IInv, OrderInv, NEW length \in ReadShort, Take(length), HandOver(length),
           pc' # "parse" => count' = 0
    PROVE  OrderInv'
<1>e. PICK e \in Nat : e = Len(sent)
  BY DEF IInv, TypeInv
<1>k. PICK k \in Nat : k = Len(got)
  BY DEF IInv, TypeInv
<1>m. PICK m \in Nat : m = Len(stream)
  BY DEF IInv, TypeInv
<1>c. PICK c \in Nat : c = count
  BY DEF IInv, TypeInv
<1>at. PICK at \in [Next1 .. Len(sent) + 1 -> Nat] : Starts(at) /\ Packed(at) /\ Whole(at)
  BY DEF OrderInv
<1>l. PICK l : l = sent[k + 1]
  OBVIOUS
<1>1. /\ k + 1 <= e /\ l \in Nat /\ l + 2 <= c /\ length = l /\ pc = "parse"
      /\ \A i \in 1 .. l : buffer[offset + 2 + i] = DataByte(k + 1, i)
  <2>1. count # 0
    BY DEF Take, Parsed, Parsing, PCK_MIN_SIZE
  <2> QED BY <1>e, <1>k, <1>c, <1>l, <2>1, NextIsWhole
<1>2. /\ offset \in Nat /\ offset + c <= Size
      /\ offset' = offset + (l + 2) /\ count' = c - (l + 2)
      /\ UNCHANGED <<sent, stream, buffer>>
  BY <1>1, <1>c DEF Take, DeleteData, PCK_MIN_SIZE, OrderInv, IInv, TypeInv
<1>a. PICK d \in Nat : d = l + 2
  BY <1>1
<1>b. /\ d <= c /\ offset \in Nat /\ offset + c <= Size /\ Size \in Nat
      /\ offset' = offset + d /\ count' = c - d /\ count' \in Nat
  <2>1. offset + c <= Size /\ offset \in Nat /\ offset' = offset + d /\ count' = c - d
    BY <1>2, <1>a
  <2>2. d <= c /\ Size \in Nat
    BY <1>1, <1>a, FramingAssumption
  <2> QED BY <2>1, <2>2
<1>3. /\ at \in [k + 1 .. e + 1 -> Nat] /\ at[k + 1] = 0 /\ at[e + 1] = c + m
      /\ \A j \in k + 1 .. e : /\ sent[j] \in Nat /\ at[j] \in Nat /\ at[j + 1] \in Nat
                              /\ at[j + 1] = at[j] + sent[j] + 2 /\ at[j + 1] <= c + m
      /\ \A i, j \in k + 1 .. e + 1 : i <= j => at[i] <= at[j]
  <2>1. Placed(at, k, e, count + m)
    BY <1>e, <1>k, <1>m, <1>at, Places
  <2>2. count + m = c + m
    BY <1>c
  <2> QED BY <2>1, <2>2 DEF Placed
<1>4. at[k + 2] = l + 2
  <2>1. k + 1 \in k + 1 .. e /\ (k + 1) + 1 = k + 2
    BY <1>1
  <2>2. at[(k + 1) + 1] = at[k + 1] + sent[k + 1] + 2
    BY <1>3, <2>1
  <2> QED BY <1>1, <1>3, <1>l, <2>1, <2>2
<1>5. Len(got') = k + 1 /\ Prefix'
  <2>1. SubSeq(buffer, offset + 3, offset + 2 + l) = Message(k + 1)
    <3> DEFINE w == SubSeq(buffer, offset + 3, offset + 2 + l)
    <3>1. buffer \in Seq(Bytes) /\ Len(buffer) = Size
      BY <1>b DEF IInv, TypeInv
    <3>2. l \in Nat /\ offset \in Nat /\ offset + 2 + l <= Size
      <4>1. l \in Nat /\ d = l + 2 /\ offset + d <= Size
        BY <1>1, <1>a, <1>b
      <4> QED BY <1>b, <4>1
    <3>3. /\ w \in Seq(Bytes) /\ Len(w) = l
          /\ \A i \in 1 .. l : w[i] = buffer[offset + 2 + i]
      BY ONLY <3>1, <3>2
    <3> HIDE DEF w
    <3>4. w = [i \in 1 .. l |-> DataByte(k + 1, i)]
      <4>1. \A i \in 1 .. l : w[i] = DataByte(k + 1, i)
        BY <1>1, <3>3
      <4>2. w = [i \in 1 .. Len(w) |-> w[i]]
        BY <3>3
      <4> QED BY <3>3, <4>1, <4>2
    <3> QED BY <1>l, <3>4 DEF Message, w
  <2>2. got \in Seq(Seq(Bytes))
    BY DEF IInv, TypeInv
  <2>3. /\ Len(got') = k + 1 /\ got'[k + 1] = Message(k + 1)
        /\ \A j \in 1 .. k : got'[j] = got[j]
    <3>1. got' = Append(got, Message(k + 1)) /\ k = Len(got)
      <4>1. (offset + PCK_MIN_SIZE + 1 = offset + 3) /\ (offset + PCK_MIN_SIZE = offset + 2)
        BY <1>2 DEF PCK_MIN_SIZE
      <4>2. length = l
        BY <1>1
      <4> QED BY <1>k, <2>1, <4>1, <4>2 DEF HandOver
    <3> QED BY <2>2, <3>1
  <2>4. \A j \in 1 .. k : got[j] = Message(j)
    BY <1>k DEF OrderInv, Prefix
  <2>5. \A j \in Nat : (Message(j))' = Message(j)
    BY <1>2 DEF Message
  <2>6. \A j \in 1 .. k + 1 : j \in 1 .. k \/ j = k + 1
    OBVIOUS
  <2>7. \A j \in 1 .. k + 1 : got'[j] = Message(j)
    BY <2>3, <2>4, <2>6
  <2>8. Len(got') = k + 1 /\ k + 1 <= Len(sent')
    BY <1>1, <1>2, <1>e, <2>3
  <2>9. \A j \in 1 .. k + 1 : j \in Nat
    OBVIOUS
  <2> QED BY <2>5, <2>7, <2>8, <2>9 DEF Prefix
<1>bt. PICK bt : bt = [j \in k + 2 .. e + 1 |-> at[j] - d]
  OBVIOUS
<1>6. \A j \in k + 2 .. e + 1 : /\ j \in k + 1 .. e + 1 /\ at[j] \in Nat /\ at[j] >= d
                              /\ bt[j] = at[j] - d /\ bt[j] \in Nat
  <2> SUFFICES ASSUME NEW j \in k + 2 .. e + 1
               PROVE  /\ j \in k + 1 .. e + 1 /\ at[j] \in Nat /\ at[j] >= d
                      /\ bt[j] = at[j] - d /\ bt[j] \in Nat
    OBVIOUS
  <2>1. j \in k + 1 .. e + 1 /\ k + 2 \in k + 1 .. e + 1 /\ k + 2 <= j
    OBVIOUS
  <2>2. at[j] \in Nat /\ d <= at[j]
    BY <1>3, <1>4, <1>a, <2>1
  <2>3. bt[j] = at[j] - d
    BY <1>bt
  <2> QED BY <1>1, <2>1, <2>2, <2>3
<1>7. \A j \in k + 2 .. e : j \in k + 1 .. e /\ j \in k + 2 .. e + 1 /\ j + 1 \in k + 2 .. e + 1
  OBVIOUS
<1>8. Next1' = k + 2 /\ Pending' = k + 2 .. e /\ Len(sent') = e
  BY <1>2, <1>5, <1>e DEF Next1, Pending
<1>9. bt \in [Next1' .. Len(sent') + 1 -> Nat]
  BY <1>6, <1>8, <1>bt
<1>10. (Starts(bt))'
  <2>1. bt[k + 2] = 0
    <3>1. k + 2 \in k + 2 .. e + 1
      BY <1>1
    <3> QED BY <1>4, <1>6, <1>a, <3>1
  <2>2. bt[e + 1] = count' + Len(stream')
    <3>1. e + 1 \in k + 2 .. e + 1
      BY <1>1
    <3>2. bt[e + 1] = (c + m) - d
      BY <1>3, <1>6, <3>1
    <3>3. Len(stream') = m
      BY <1>2, <1>m
    <3> QED BY <1>b, <3>2, <3>3
  <2>3. ASSUME NEW j \in k + 2 .. e PROVE bt[j + 1] = bt[j] + sent[j] + 2
    <3>1. at[j + 1] = at[j] + sent[j] + 2 /\ sent[j] \in Nat
      BY <1>3, <1>7
    <3>2. bt[j] = at[j] - d /\ bt[j + 1] = at[j + 1] - d /\ at[j] \in Nat
      BY <1>6, <1>7
    <3> QED BY <3>1, <3>2
  <2>4. ASSUME NEW i \in k + 2 .. e + 1, NEW j \in k + 2 .. e + 1, i <= j PROVE bt[i] <= bt[j]
    <3>1. at[i] <= at[j]
      BY <1>3, <1>6, <2>4
    <3>2. bt[i] = at[i] - d /\ bt[j] = at[j] - d /\ at[i] \in Nat /\ at[j] \in Nat
      BY <1>6
    <3> QED BY <3>1, <3>2
  <2> QED BY <1>2, <1>8, <1>9, <2>1, <2>2, <2>3, <2>4 DEF Starts, PCK_MIN_SIZE
<1>11. (Packed(bt))'
  <2> SUFFICES ASSUME NEW j \in k + 2 .. e, NEW i \in 1 .. sent[j] + 2
               PROVE  (Incoming(bt[j] + i) = PacketByte(j, i))'
    BY <1>2, <1>8 DEF Packed, PCK_MIN_SIZE
  <2>1. Incoming(at[j] + i) = PacketByte(j, i)
    BY <1>at, <1>e, <1>k, <1>7 DEF Packed, Next1, Pending, PCK_MIN_SIZE
  <2>2. (PacketByte(j, i))' = PacketByte(j, i)
    BY <1>2 DEF PacketByte
  <2>3. sent[j] \in Nat /\ at[j] \in Nat /\ bt[j] = at[j] - d /\ bt[j] \in Nat
    BY <1>3, <1>6, <1>7
  <2>4. CASE at[j] + i <= c
    <3>1. bt[j] + i <= count'
      BY <1>b, <2>3, <2>4
    <3>2. offset' + (bt[j] + i) = offset + (at[j] + i)
      BY <1>b, <2>3
    <3> QED BY <1>2, <1>c, <2>1, <2>2, <2>4, <3>1, <3>2 DEF Incoming
  <2>5. CASE ~(at[j] + i <= c)
    <3>1. ~(bt[j] + i <= count') /\ (bt[j] + i) - count' = (at[j] + i) - c
      BY <1>b, <2>3, <2>5
    <3> QED BY <1>2, <1>c, <2>1, <2>2, <2>5, <3>1 DEF Incoming
  <2> QED BY <2>4, <2>5
<1>12. (Whole(bt))'
  <2> SUFFICES ASSUME NEW j \in k + 2 .. e
               PROVE  /\ bt[j] < count' => bt[j + 1] <= count'
                      /\ bt[j + 1] = count' => sent[j] > 0
    BY <1>2, <1>8 DEF Whole
  <2>1. (at[j] < c => at[j + 1] <= c) /\ (at[j + 1] = c => sent[j] > 0)
    BY <1>at, <1>e, <1>k, <1>c, <1>7 DEF Whole, Next1, Pending
  <2>2. /\ bt[j] = at[j] - d /\ bt[j + 1] = at[j + 1] - d
        /\ at[j] \in Nat /\ at[j + 1] \in Nat
    BY <1>6, <1>7
  <2> QED BY <1>b, <2>1, <2>2
<1>13. offset' + count' <= Size
  BY <1>b
<1> QED BY <1>1, <1>2, <1>5, <1>9, <1>10, <1>11, <1>12, <1>13 DEF OrderInv

\* With bytes in the buffer the whole message at its front is taken; an empty
\* one has others behind it, which its panic leaves in the buffer.
LEMMA ParseOrder == ASSUME IInv, OrderInv, Parse, ~torn' PROVE OrderInv'
<1>1. CASE ParseNone
  BY <1>1, ResetOrder, NextIsWhole DEF ParseNone, PCK_MIN_SIZE, IInv, TypeInv
<1>2. ASSUME ~ParseNone PROVE OrderInv'
  <2>k. PICK k \in Nat : k = Len(got)
    BY DEF IInv, TypeInv
  <2>1. count # 0
    BY <1>2 DEF Parse, ParseNone, ParsePanic, ParseGarbage, Parsing, PCK_MIN_SIZE
  <2>2. /\ sent[k + 1] \in Nat /\ sent[k + 1] + 2 <= count /\ count > 2 /\ Sliceable
        /\ buffer[offset + 1] = MarkByte /\ ReadShort = {sent[k + 1]} /\ pc = "parse"
    BY <2>k, <2>1, NextIsWhole
  <2>3. PICK length \in ReadShort :
            \/ ParseShort(length) \/ ParseBeyond(length)
            \/ ParseMessage(length) \/ HandlerPanic(length) \/ EmptyPanic(length)
    BY <1>2, <2>2 DEF Parse, ParsePanic, ParseGarbage
  <2>4. length <= count /\ InBuffer(length)
    BY <2>2, FramingAssumption DEF InBuffer, PCK_MIN_SIZE, Sliceable, IInv, TypeInv
  <2>5. ~ParseShort(length) /\ ~ParseBeyond(length)
    BY <2>2, <2>4 DEF ParseShort, ParseBeyond, IInv, TypeInv
  <2>6. CASE ParseMessage(length)
    BY <2>2, <2>6, MessageOrder DEF ParseMessage
  <2>7. CASE HandlerPanic(length)
    <3>1. count' \in Nat
      <4>1. IInv'
        BY ParseStep
      <4> QED BY <4>1 DEF IInv, TypeInv
    <3>2. ~(count' > 0)
      BY <2>7 DEF HandlerPanic, LeaveLoop
    <3>3. count' = 0
      BY ONLY <3>1, <3>2
    <3> QED BY <2>2, <2>7, <3>3, MessageOrder DEF HandlerPanic
  <2>8. CASE EmptyPanic(length)
    <3>1. length = 0 /\ DeleteData(length + PCK_MIN_SIZE)
      BY <2>8 DEF EmptyPanic, Take
    <3>2. count \in Nat
      BY DEF IInv, TypeInv
    <3>3. count' = count - 2
      BY <2>2, <3>1, <3>2 DEF DeleteData, PCK_MIN_SIZE
    <3>4. count' > 0
      BY <2>2, <3>2, <3>3
    <3>5. torn' = (torn \/ count' > 0)
      BY <2>8 DEF EmptyPanic, LeaveLoop
    <3> QED BY <3>4, <3>5
  <2> QED BY <2>3, <2>5, <2>6, <2>7, <2>8
<1> QED BY <1>1, <1>2

LEMMA IInvStep == IInv /\ [Next]_vars => IInv'
<1>1. IInv /\ UNCHANGED vars => IInv'
  BY DEF vars, IInv, TypeInv, RoomInv
<1>2. IInv /\ ReadNothing => IInv'
  BY DEF ReadNothing, received, IInv, TypeInv, RoomInv
<1> QED
  BY <1>1, <1>2, SendStep, ReadStep, ParseStep DEF Next, Receive

\* The worker reads without room only after a panic over a message has skipped
\* the Reset, for any buffer and any way the stream is cut: TcpBuffer's offset is
\* reset before the next Read whenever the packet loop has brought it to the end,
\* and slices beyond the buffer do not leave it there.
THEOREM RoomToReadCorrect == Spec => []RoomToRead
<1>1. IInv => RoomToRead
  BY FramingAssumption DEF IInv, TypeInv, RoomInv, RoomToRead
<1> QED
  BY <1>1, IInvInit, IInvStep, PTL DEF Spec

\* Only Read cuts the stream, and no later Read mends it.
LEMMA CutsStay == [Next]_vars => (torn => torn') /\ (hollow => hollow')
<1>0. UNCHANGED cuts => (torn => torn') /\ (hollow => hollow')
  BY DEF cuts
<1>1. ASSUME Parse PROVE (torn => torn') /\ (hollow => hollow')
  <2>1. Reset \/ Panic \/ ParseGarbage => UNCHANGED cuts
    BY DEF Reset, Panic, ParseGarbage, cuts
  <2>2. ASSUME LeaveLoop PROVE (torn => torn') /\ (hollow => hollow')
    <3>1. torn' = (torn \/ count' > 0)
      BY <2>2 DEF LeaveLoop
    <3>2. hollow => hollow'
      BY <2>2 DEF LeaveLoop
    <3>3. torn => torn'
      BY <3>1
    <3> QED BY <3>2, <3>3
  <2>3. ASSUME NEW length \in ReadShort,
               \/ ParseShort(length) \/ ParseBeyond(length)
               \/ ParseMessage(length) \/ HandlerPanic(length) \/ EmptyPanic(length)
        PROVE  UNCHANGED cuts \/ LeaveLoop
    BY <2>1, <2>3 DEF ParseShort, ParseBeyond, ParseMessage, HandlerPanic, EmptyPanic, cuts
  <2> QED BY <1>0, <1>1, <2>1, <2>2, <2>3 DEF Parse, ParseNone, ParsePanic
<1>2. \A l \in Lengths : Send(l) => UNCHANGED cuts
  BY DEF Send
<1>3. ASSUME Receive PROVE (torn => torn') /\ (hollow => hollow')
  <2>1. ReadNothing => UNCHANGED cuts
    BY DEF ReadNothing
  <2>2. ASSUME NEW n \in 1 .. Len(stream), Read(n)
        PROVE  (torn => torn') /\ (hollow => hollow')
    <3>1. torn' = (torn \/ (stream' # <<>> /\ Head(stream') # MarkByte))
      BY <2>2 DEF Read
    <3>2. hollow' = (hollow \/ stream[n] = LengthByte(0))
      BY <2>2 DEF Read
    <3>3. torn => torn'
      BY <3>1
    <3>4. hollow => hollow'
      BY <3>2
    <3> QED BY <3>3, <3>4
  <2> QED BY <1>0, <1>3, <2>1, <2>2 DEF Receive
<1> QED BY <1>0, <1>1, <1>2, <1>3 DEF Next, vars, cuts

LEMMA WInvStep == WInv /\ [Next]_vars => WInv'
<1> SUFFICES ASSUME WInv, [Next]_vars, ~torn', ~hollow' PROVE OrderInv'
  BY IInvStep DEF WInv
<1>1. IInv /\ OrderInv
  BY CutsStay DEF WInv
<1>2. ASSUME NEW l \in Lengths, Send(l) PROVE OrderInv'
  BY <1>1, <1>2, SendOrder
<1>3. ASSUME NEW n \in 1 .. Len(stream), Read(n) PROVE OrderInv'
  BY <1>1, <1>3, ReadOrder
<1>4. CASE Parse
  BY <1>1, <1>4, ParseOrder
<1>5. CASE ReadNothing \/ UNCHANGED vars
  <2>1. /\ UNCHANGED <<sent, stream, buffer, offset, count, got>>
        /\ pc' # "parse" => pc # "parse"
    BY <1>5 DEF ReadNothing, received, vars
  <2>2. \A at : /\ (Starts(at))' = Starts(at) /\ (Packed(at))' = Packed(at)
               /\ (Whole(at))' = Whole(at)
    BY <2>1 DEF Starts, Packed, Whole, Incoming, PacketByte, Next1, Pending
  <2>3. Prefix' = Prefix /\ Next1' = Next1
    BY <2>1 DEF Prefix, Message, Next1
  <2> QED BY <1>1, <2>1, <2>2, <2>3 DEF OrderInv
<1> QED BY <1>2, <1>3, <1>4, <1>5 DEF Next, Receive

\* Whatever messages are sent and however the stream is cut into reads: as long
\* as every read ends with a message that is not empty, and every panic, an empty
\* message's included, with an empty buffer, those handed over are the first of
\* those sent, whole and in their order, also with an offset that panics have
\* left anywhere in the buffer.
THEOREM WholeReadsInOrderCorrect == Spec => []WholeReadsInOrder
<1>1. Init => WInv
  BY IInvInit, OrderInvInit DEF WInv
<1>2. WInv => WholeReadsInOrder
  BY DEF WInv, OrderInv, WholeReadsInOrder
<1> QED BY <1>1, <1>2, WInvStep, PTL DEF Spec
=============================================================================
