----------------------------- MODULE TcpFraming -----------------------------
(***************************************************************************)
(* Packets on a TCP connection: TcpNetWorker.Send, TcpBuffer and the       *)
(* packet loop of h_tcpSocket (nets/tcp.go).  A packet is a header of      *)
(* PCK_MIN_SIZE bytes, the mark and the length of the message, and the     *)
(* message.  Here mark and length are a byte each, a message byte is its   *)
(* place in the message.  One message is parsed per step; nobody but the   *)
(* worker touches its buffer.  The connection is registered; an origin     *)
(* that is rejected closes it, which is in module Nets.  No message is a   *)
(* #ping or #pong, which CheckPingPong keeps to itself.                    *)
(***************************************************************************)
EXTENDS Integers, Sequences

CONSTANTS Lengths,  \* the lengths of messages
          Messages, \* how many are sent
          Size,     \* size of the receive buffer (8192)
          Shorts,   \* how many values the length field has (2^16)
          Panicking, \* whether what a message is handed to may panic
          Bound     \* bound of the model: messages handed over

PCK_MIN_SIZE == 2

ASSUME FramingAssumption ==
    /\ Lengths \subseteq Nat /\ Messages \in Nat /\ Bound \in Nat
    /\ Panicking \in BOOLEAN
    /\ Size \in Nat \ {0} /\ Shorts \in Nat \ {0} /\ Size <= Shorts \div 2

VARIABLES sent,   \* lengths of the messages sent
          stream, \* the bytes under way
          buffer, \* TcpBuffer._buffer
          offset, \* TcpBuffer._offset
          count,  \* TcpBuffer._count
          pc,     \* "read", "parse" or "closed"
          got,    \* the messages handed over
          torn,   \* history: a Read has ended inside a packet, or a panic of a
                  \* message's handler has left packets in the buffer
          hollow, \* history: a Read has ended with the packet of an empty message
          skipped \* history: such a panic has skipped the last Reset

vars == <<sent, stream, buffer, offset, count, pc, got, torn, hollow, skipped>>
cuts == <<torn, hollow>>
received == <<buffer, offset, count>>

MarkByte == [kind |-> "mark"]
Zero == [kind |-> "zero"]
LengthByte(l) == [kind |-> "length", value |-> l]
DataByte(m, i) == [kind |-> "data", msg |-> m, at |-> i]

\* Message m as the receiver should get it.
Message(m) == [i \in 1 .. sent[m] |-> DataByte(m, i)]

\* int16(datalen), for a length field of Shorts values.
Short(l) == ((l + Shorts \div 2) % Shorts) - (Shorts \div 2)

Clean == [i \in 1 .. Size |-> Zero]

Init ==
    /\ sent = <<>> /\ stream = <<>> /\ got = <<>>
    /\ buffer = Clean /\ offset = 0 /\ count = 0
    /\ pc = "read" /\ torn = FALSE /\ hollow = FALSE /\ skipped = FALSE
-----------------------------------------------------------------------------
Send(l) ==
    /\ Len(sent) < Messages
    /\ sent' = Append(sent, l)
    /\ stream' = stream \o <<MarkByte, LengthByte(Short(l))>>
                        \o [i \in 1 .. l |-> DataByte(Len(sent) + 1, i)]
    /\ UNCHANGED <<received, pc, got, cuts, skipped>>

\* conn.Read(rcvbuf.Buffer()) stores the next n bytes from the offset on, where
\* the bytes kept from earlier reads are as well.
Read(n) ==
    /\ pc = "read" /\ offset + n <= Size
    /\ buffer' = [i \in 1 .. Size |->
                    IF i - offset \in 1 .. n THEN stream[i - offset] ELSE buffer[i]]
    /\ count' = count + n
    /\ stream' = SubSeq(stream, n + 1, Len(stream))
    /\ torn' = (torn \/ (stream' # <<>> /\ Head(stream') # MarkByte))
    /\ hollow' = (hollow \/ stream[n] = LengthByte(0))
    /\ pc' = "parse"
    /\ UNCHANGED <<sent, offset, got, skipped>>

\* Without room conn.Read returns no bytes and no error at once, for which the
\* worker calls onError.
ReadNothing ==
    /\ pc = "read" /\ offset = Size
    /\ pc' = "closed"
    /\ UNCHANGED <<sent, stream, received, got, cuts, skipped>>
-----------------------------------------------------------------------------
(* The packet loop.  A slice beyond the buffer panics; errutil.Try recovers *)
(* the panic, and the worker reads again with the buffer as it is.         *)

Sliceable == offset + count <= Size

\* Reset, after the loop was left by its condition or a break.
Reset ==
    /\ buffer' = IF ~Sliceable THEN buffer
                 ELSE [i \in 1 .. Size |->
                         IF i <= count THEN buffer[offset + i] ELSE buffer[i]]
    /\ offset' = IF Sliceable THEN 0 ELSE offset
    /\ skipped' = (skipped /\ ~Sliceable)
    /\ pc' = "read"
    /\ UNCHANGED <<sent, stream, count, got, cuts>>

\* Mutant: a packet of a header and one byte is not waited for.
ParseNone_oneMore == pc = "parse" /\ count <= PCK_MIN_SIZE + 1 /\ Reset

\* Mutant: the offset is reset only when bytes are left.
ParseNone_keep ==
    /\ pc = "parse" /\ count <= PCK_MIN_SIZE
    /\ IF count > 0 THEN Reset
       ELSE pc' = "read" /\ UNCHANGED <<sent, stream, received, got, cuts, skipped>>

ParseNone == pc = "parse" /\ count <= PCK_MIN_SIZE /\ Reset

Parsing == pc = "parse" /\ count > PCK_MIN_SIZE

Panic ==
    /\ pc' = "read"
    /\ UNCHANGED <<sent, stream, received, got, cuts, skipped>>

ParsePanic == Parsing /\ ~Sliceable /\ Panic

\* Clear and Reset.
ParseGarbage ==
    /\ Parsing /\ Sliceable /\ buffer[offset + 1] # MarkByte
    /\ buffer' = Clean /\ offset' = 0 /\ count' = 0
    /\ pc' = "read" /\ skipped' = FALSE
    /\ UNCHANGED <<sent, stream, got, cuts>>

\* The length read from the second byte; another byte may mean any length.
ReadShort ==
    LET b == IF offset + 2 <= Size THEN buffer[offset + 2] ELSE Zero IN
      IF b.kind = "length" THEN {b.value}
      ELSE {Short(l) : l \in 0 .. Shorts - 1}

Parsed(length) ==
    Parsing /\ Sliceable /\ buffer[offset + 1] = MarkByte /\ length \in ReadShort

ParseShort(length) == Parsed(length) /\ length > count /\ Reset

\* The message may end behind the bytes received, but not behind the buffer.
InBuffer(length) == length >= 0 /\ offset + PCK_MIN_SIZE + length <= Size

ParseBeyond(length) ==
    Parsed(length) /\ length <= count /\ ~InBuffer(length) /\ Panic

\* Mutant: the header stays in the buffer.
DeleteData_payload(n) ==
    /\ offset' = offset + n - PCK_MIN_SIZE
    /\ count' = count - n + PCK_MIN_SIZE

DeleteData(n) ==
    /\ offset' = IF count >= n THEN offset + n ELSE offset
    /\ count' = IF count >= n THEN count - n ELSE count

\* The message is copied, and its packet taken out of the buffer.
Take(length) ==
    /\ Parsed(length) /\ length <= count /\ InBuffer(length)
    /\ DeleteData(length + PCK_MIN_SIZE)
    /\ UNCHANGED <<sent, stream, buffer>>

HandOver(length) ==
    /\ length > 0 /\ Len(got) < Bound
    /\ got' = Append(got, SubSeq(buffer, offset + PCK_MIN_SIZE + 1,
                                 offset + PCK_MIN_SIZE + length))

ParseMessage(length) ==
    /\ Take(length) /\ HandOver(length)
    /\ UNCHANGED <<pc, cuts, skipped>>

\* A panic behind onMsg or dealHandShake leaves the packet loop without Reset.
LeaveLoop ==
    /\ pc' = "read" /\ skipped' = TRUE
    /\ torn' = (torn \/ count' > 0)
    /\ UNCHANGED hollow

\* The listener or dealHandShake panics over a message it was given.
HandlerPanic(length) ==
    Panicking /\ Take(length) /\ HandOver(length) /\ LeaveLoop

\* CheckPingPong looks at the first byte of the message without asking whether
\* there is one: an empty message never reaches the listener.
EmptyPanic(length) ==
    length = 0 /\ Take(length) /\ LeaveLoop /\ UNCHANGED got
-----------------------------------------------------------------------------
Receive == ReadNothing \/ \E n \in 1 .. Len(stream) : Read(n)

Parse ==
    \/ ParseNone \/ ParsePanic \/ ParseGarbage
    \/ Parsing /\ \E length \in ReadShort :
          \/ ParseShort(length) \/ ParseBeyond(length)
          \/ ParseMessage(length) \/ HandlerPanic(length) \/ EmptyPanic(length)

Next == (\E l \in Lengths : Send(l)) \/ Receive \/ Parse

Spec == Init /\ [][Next]_vars

\* The worker runs, and what was sent can be read in the end.
FairSpec == Spec /\ WF_vars(Receive) /\ WF_vars(Parse)
-----------------------------------------------------------------------------
(* Properties.                                                             *)

Prefix == Len(got) <= Len(sent) /\ \A m \in 1 .. Len(got) : got[m] = Message(m)

\* As long as every Read ends with a message, and not with an empty one, and no
\* panic over a message leaves others behind in the buffer (as one over an empty
\* message between others does), the messages handed over are those sent, in
\* their order, whole, however many packets one Read returns.  A panic over the
\* last message in the buffer costs nothing: the next packet is read behind it.
WholeReadsInOrder == ~torn /\ ~hollow => Prefix

\* As long as it is so every message that was sent arrives, unless such panics
\* have used up the buffer and the worker closes the connection.
WholeReadsArrive == []<>(torn \/ hollow \/ pc = "closed" \/ Len(got) >= Len(sent))

\* However the stream was cut and whatever slices beyond the buffer have left
\* behind, Read has room, or a panic over a message has skipped the Reset: the
\* packet loop itself never brings the worker to close a sound connection.
RoomToRead == pc = "read" /\ offset = Size => skipped

\* "Solves the problem of split TCP packets at the lowest level" (README.md:27):
\* wherever the reads cut the stream, the messages are those sent.
SplitsHandled == Prefix
=============================================================================
