----------------------------- MODULE FrameCodec -----------------------------
(***************************************************************************)
(* The frames of the feed: protobuf fields in a Socket.IO packet in a      *)
(* WebSocket frame, and back.  A message travels from Send over Wrap to    *)
(* Receive, and a connection may cut it short on either level.             *)
(*                                                                         *)
(* Bytes are numbers.  A name (of a namespace or an event) is one byte;    *)
(* texts are short sequences of bytes.  The number of groups of a varint   *)
(* that are read and the thresholds of a frame's length are parameters, so *)
(* that small values pass every threshold.                                 *)
(***************************************************************************)
EXTENDS Integers, Sequences, FiniteSetsExt

CONSTANTS
    Groups,    \* groups readVarint reads at most (8)
    ShortLen,  \* first payload length with a length field of its own (126)
    LenRadix,  \* radix of that field (256)
    Ids,       \* game ids that are sent
    Mults,     \* multipliers in hundredths
    Elapsed,   \* elapsed times of progress events
    Hashes     \* texts that are sent as the hash of a round

VARIABLES
    stage,     \* "idle", "packet" (encoded), "frame" (wrapped), "received"
    message,   \* what was sent
    bytes,     \* what is on the wire
    cut        \* where it was cut short: "no", "packet" or "frame"

vars == <<stage, message, bytes, cut>>

Limb == 128       \* values of a varint group
MaxGroups == 10   \* groups of a number of 64 bits

None == [found |-> FALSE]
Nsp == <<47>>
EventNames == [pg |-> 1, pr |-> 2, prepare |-> 3, ready |-> 4, bg |-> 5, begin |-> 6, start |-> 7,
    ed |-> 8, st |-> 9, end |-> 10, crash |-> 11, bust |-> 12, ping |-> 13, pong |-> 14, other |-> 15]

-----------------------------------------------------------------------------
(* Numbers and their digits.                                               *)

\* n shifted right by i digits of radix r.
Shifted(n, r) == LET f[i \in Nat] == IF i = 0 THEN n ELSE f[i - 1] \div r IN f

\* The number with the digits d of radix r, the lowest first.
Values(d, r) == LET v[i \in 1 .. Len(d) + 1] == IF i > Len(d) THEN 0 ELSE d[i] + r * v[i + 1] IN v
Number(d, r) == Values(d, r)[1]

-----------------------------------------------------------------------------
(* Varints and fields.                                                     *)

\* writeVarint: groups of low digits first, all but the last flagged.
GroupCount(n) == Min({k \in 1 .. MaxGroups : Shifted(n, Limb)[k] = 0})
WriteVarint(n) ==
    [i \in 1 .. GroupCount(n) |->
        (Shifted(n, Limb)[i - 1] % Limb) + (IF i < GroupCount(n) THEN 128 ELSE 0)]

\* Mutant: one group less is read.
EndsShort(buf, off) == {i \in off .. Len(buf) : buf[i] < 128 /\ i - off < Groups - 1}

\* The indexes at which a varint at off may end: bytes without the flag among
\* the first Groups ones.
Ends(buf, off) == {i \in off .. Len(buf) : buf[i] < 128 /\ i - off < Groups}

\* readVarint from index off: fails at the end of the buffer and when no group
\* among the first Groups is the last.
ReadVarint(buf, off) ==
    LET end == Min(Ends(buf, off))
    IN  IF Ends(buf, off) = {} THEN None
        ELSE [found |-> TRUE, next |-> end + 1,
              value |-> Number([i \in 1 .. end - off + 1 |-> buf[off + i - 1] % 128], Limb)]

\* encodeProtobuf: a field is a number (wire type 0) or a text (wire type 2).
Num(f, n) == [field |-> f, wire |-> 0, num |-> n, text |-> <<>>]
Text(f, s) == [field |-> f, wire |-> 2, num |-> 0, text |-> s]
EncodeField(x) ==
    WriteVarint(x.field * 8 + x.wire) \o
    IF x.wire = 0 THEN WriteVarint(x.num) ELSE WriteVarint(Len(x.text)) \o x.text

\* encodeEndPayload and encodeProgressPayload.
EncodeEndPayload(id, mult, hash) ==
    EncodeField(Num(1, id)) \o EncodeField(Num(6, mult)) \o
    IF hash = <<>> THEN <<>> ELSE EncodeField(Text(7, hash))
EncodeProgressPayload(elapsed) == EncodeField(Num(1, elapsed))

\* One round of decodeProtobuf: the field at off, unless it is incomplete or of
\* another wire type.
DecodeField(buf, off) ==
    LET tag == ReadVarint(buf, off)
        value == ReadVarint(buf, tag.next)
        f == tag.value \div 8
    IN  IF ~tag.found THEN None
        ELSE IF tag.value % 8 \notin {0, 2} \/ ~value.found THEN None
        ELSE IF tag.value % 8 = 0 THEN [found |-> TRUE, next |-> value.next, field |-> Num(f, value.value)]
        ELSE IF value.next + value.value - 1 > Len(buf) THEN None
        ELSE [found |-> TRUE, next |-> value.next + value.value,
              field |-> Text(f, SubSeq(buf, value.next, value.next + value.value - 1))]

\* decodeProtobuf: the fields from each offset on, in order, up to the first one
\* that is not read.
FieldsFrom(buf) ==
    LET f[off \in 1 .. Len(buf) + 1] ==
            IF off > Len(buf) \/ ~DecodeField(buf, off).found THEN <<>>
            ELSE <<DecodeField(buf, off).field>> \o f[DecodeField(buf, off).next]
    IN  f
DecodeProtobuf(buf) == FieldsFrom(buf)[1]

\* getNum and getStr of fieldsToPayload; a later field replaces an earlier one.
\* The result is a sequence with the value, or empty.
Get(fields, f, wire) ==
    LET all == {i \in 1 .. Len(fields) : fields[i].field = f}
        x == fields[Max(all)]
    IN  IF all = {} \/ x.wire # wire THEN <<>> ELSE IF wire = 0 THEN <<x.num>> ELSE <<x.text>>

\* fieldsToPayload of the events that carry a round.  An id sent as a text is
\* kept as it is.
FieldsToPayload(fields) ==
    [id |-> IF Get(fields, 1, 0) # <<>> THEN Get(fields, 1, 0) ELSE Get(fields, 1, 2),
     mult |-> Get(fields, 6, 0),
     began |-> IF Get(fields, 3, 0) # <<>> THEN Get(fields, 3, 0) ELSE Get(fields, 4, 0),
     hash |-> Get(fields, 7, 2)]

\* decodeProgressElapsed: the tag of field 1, else a search among the fields.
DecodeProgressElapsed(buf) ==
    LET fast == ReadVarint(buf, 2)
    IN  IF buf = <<>> THEN <<>>
        ELSE IF buf[1] = 8 /\ fast.found THEN <<fast.value>>
        ELSE Get(DecodeProtobuf(buf), 1, 0)

-----------------------------------------------------------------------------
(* Packets.                                                                *)

\* encodeConnect, encodeJoin and encodeEvent.
EncodeConnect == <<4, 0, Len(Nsp)>> \o Nsp \o <<0>>
EncodeJoin(room) == <<4, 130, 0, 0, 0, 0, Len(Nsp)>> \o Nsp \o <<Len(room)>> \o room
EncodeEvent(name, payload) ==
    <<4, 2, Len(Nsp)>> \o Nsp \o <<1, EventNames[name]>> \o payload

\* parsePacket.  A packet that ends after its namespace counts as a connect.
Unknown == [kind |-> "Unknown", name |-> <<>>, nsp |-> <<>>, payload |-> <<>>]
ParsePacket(buf) ==
    LET at == IF buf[2] >= 128 THEN 7 ELSE 3
        ev == at + 1 + buf[at]
        pay == ev + 1 + buf[ev]
        nsp == SubSeq(buf, at + 1, ev - 1)
    IN  IF Len(buf) < 2 \/ buf[1] # 4 THEN Unknown
        ELSE IF at > Len(buf) THEN Unknown
        ELSE IF ev - 1 > Len(buf) THEN Unknown
        ELSE IF buf[2] % 16 = 0 \/ ev > Len(buf) THEN [Unknown EXCEPT !.kind = "Connect", !.nsp = nsp]
        ELSE IF pay - 1 > Len(buf) THEN [Unknown EXCEPT !.nsp = nsp]
        ELSE [kind |-> "Event", nsp |-> nsp, name |-> SubSeq(buf, ev + 1, pay - 1),
              payload |-> SubSeq(buf, pay, Len(buf))]

\* engineio: frames of one text character, and the opening one.
IsPing(buf) == buf = <<50>>
IsPong(buf) == buf = <<51>>
IsClose(buf) == Len(buf) >= 1 /\ buf[1] = 49
IsOpenFrame(buf) == Len(buf) > 1 /\ buf[1] = 48 /\ buf[2] = 123
IsMessage(buf) == Len(buf) >= 1 /\ buf[1] = 52

\* classifyFrame.
ClassifyFrame(buf) ==
    IF buf = <<>> THEN "Empty"
    ELSE IF IsPing(buf) THEN "EnginePing"
    ELSE IF IsPong(buf) THEN "EnginePong"
    ELSE IF IsOpenFrame(buf) THEN "EngineOpen"
    ELSE IF IsClose(buf) THEN "EngineClose"
    ELSE IF IsMessage(buf) THEN "EngineMessageText"
    ELSE IF buf[1] # 4 THEN "Unknown"
    ELSE IF Len(buf) < 2 THEN "Truncated"
    ELSE IF ParsePacket(buf) = Unknown THEN "Malformed"
    ELSE "BinaryPacket"

\* SocketIoParser::feed: the kind of the packet it yields, or an error.
Feed(buf) ==
    IF buf = <<>> THEN "Empty"
    ELSE IF IsPing(buf) THEN "Ping"
    ELSE IF IsPong(buf) THEN "Pong"
    ELSE IF IsClose(buf) THEN "Disconnect"
    ELSE IF IsOpenFrame(buf) THEN "Open"
    ELSE IF IsMessage(buf) /\ Len(buf) > 1 THEN "Event"
    ELSE IF buf[1] = 4 THEN ParsePacket(buf).kind
    ELSE "Error"

\* EventDecoder::mapEventName.  Upper case counts as lower case, and a name is
\* its number here.
Named(name, all) == \E n \in all : name = <<EventNames[n]>>
MapEventName(name) ==
    CASE Named(name, {"pg"}) -> "Progress"
      [] Named(name, {"pr", "prepare", "ready"}) -> "Prepare"
      [] Named(name, {"bg", "begin", "start"}) -> "Start"
      [] Named(name, {"ed", "st", "end", "crash", "bust"}) -> "End"
      [] Named(name, {"ping", "pong"}) -> "Heartbeat"
      [] OTHER -> "Unknown"

\* decodeEventPacket: what the payload says, and whether that is enough to be
\* valid.  An End with an id and no multiplier is, and so is a heartbeat without
\* a payload.
Error == [kind |-> "Error", valid |-> FALSE, id |-> <<>>, mult |-> <<>>, elapsed |-> <<>>]
DecodeEventPacket(p) ==
    LET kind == MapEventName(p.name)
        elapsed == DecodeProgressElapsed(p.payload)
        fields == FieldsToPayload(DecodeProtobuf(p.payload))
    IN  IF kind = "Unknown" THEN Error
        ELSE IF p.payload = <<>>
             THEN [kind |-> kind, valid |-> kind = "Heartbeat", id |-> <<>>, mult |-> <<>>, elapsed |-> <<>>]
        ELSE IF kind = "Progress"
             THEN [kind |-> kind, valid |-> elapsed # <<>>, id |-> <<>>, mult |-> <<>>, elapsed |-> elapsed]
        ELSE [kind |-> kind, valid |-> fields.id # <<>>, id |-> fields.id,
              mult |-> fields.mult, elapsed |-> <<>>]

\* EventDecoder::decodeBinary.
DecodeBinary(buf) ==
    IF buf = <<>> THEN Error
    ELSE IF IsPing(buf) THEN [Error EXCEPT !.kind = "Heartbeat", !.valid = TRUE]
    ELSE IF IsPong(buf) \/ IsOpenFrame(buf) \/ IsClose(buf) \/ buf[1] # 4 THEN Error
    ELSE CASE ParsePacket(buf).kind = "Event" -> DecodeEventPacket(ParsePacket(buf))
           [] ParsePacket(buf).kind = "Connect" -> [Error EXCEPT !.kind = "Connect", !.valid = TRUE]
           [] OTHER -> Error

-----------------------------------------------------------------------------
(* WebSocket frames.                                                       *)

Mask == <<18, 52, 86, 120>>
Bit(x, i) == Shifted(x, 2)[i - 1] % 2
Xor(a, b) == Number([i \in 1 .. 8 |-> (Bit(a, i) + Bit(b, i)) % 2], 2)
Masked(payload, mask) == [i \in 1 .. Len(payload) |-> Xor(payload[i], mask[((i - 1) % 4) + 1])]

\* A length in k digits, the highest first, and back.
Digits(n, k) == [i \in 1 .. k |-> Shifted(n, LenRadix)[k - i] % LenRadix]
FromDigits(buf, k) == Number([i \in 1 .. k |-> buf[3 + k - i]], LenRadix)

\* encodeFrame of a final binary frame.
EncodeFrame(payload, masked) ==
    LET len == Len(payload)
        flag == IF masked THEN 128 ELSE 0
    IN  <<130>> \o
        (IF len < ShortLen THEN <<len + flag>>
         ELSE IF len < LenRadix * LenRadix THEN <<ShortLen + flag>> \o Digits(len, 2)
         ELSE <<ShortLen + 1 + flag>> \o Digits(len, 8)) \o
        (IF masked THEN Mask \o Masked(payload, Mask) ELSE payload)

\* decodeFrame.
DecodeFrame(buf) ==
    LET short == buf[2] % 128
        masked == buf[2] >= 128
        wide == IF short = ShortLen THEN 2 ELSE IF short = ShortLen + 1 THEN 8 ELSE 0
        len == IF wide = 0 THEN short ELSE FromDigits(buf, wide)
        off == 2 + wide + IF masked THEN 4 ELSE 0
        payload == SubSeq(buf, off + 1, off + len)
    IN  IF Len(buf) < 2 THEN None
        ELSE IF Len(buf) < 2 + wide THEN None
        ELSE IF Len(buf) < off + len THEN None
        ELSE [found |-> TRUE, payload |-> IF masked THEN Masked(payload, SubSeq(buf, off - 3, off)) ELSE payload]

-----------------------------------------------------------------------------

RoundNames == {"ed", "st", "crash", "bg", "begin", "pr", "ready", "ping"}
Rounds == [name : RoundNames, id : Ids, mult : Mults, hash : Hashes]
Progresses == [name : {"pg"}, elapsed : Elapsed]
Controls == {<<>>, <<50>>, <<51>>, <<49>>, <<48, 123>>, <<52, 9>>, EncodeConnect, EncodeJoin(<<7>>)}

Encoded(m) ==
    EncodeEvent(m.name, IF m.name = "pg" THEN EncodeProgressPayload(m.elapsed)
                        ELSE EncodeEndPayload(m.id, m.mult, m.hash))

Init == stage = "idle" /\ message = [name |-> "none"] /\ bytes = <<>> /\ cut = "no"

\* The game sends an event.
Send(m) ==
    /\ stage = "idle"
    /\ stage' = "packet" /\ message' = m /\ bytes' = Encoded(m)
    /\ UNCHANGED cut

\* A control frame.
SendControl(c) ==
    /\ stage = "idle"
    /\ stage' = "packet" /\ message' = [name |-> "control", bytes |-> c] /\ bytes' = c
    /\ UNCHANGED cut

Wrap(masked) ==
    /\ stage = "packet"
    /\ stage' = "frame" /\ bytes' = EncodeFrame(bytes, masked)
    /\ UNCHANGED <<message, cut>>

\* What is on the wire ends early.
Cut(n) ==
    /\ stage \in {"packet", "frame"} /\ cut = "no"
    /\ n < Len(bytes)
    /\ bytes' = SubSeq(bytes, 1, n) /\ cut' = stage
    /\ UNCHANGED <<stage, message>>

\* The other side unwraps the frame, or waits for the rest of it.
Receive ==
    /\ stage = "frame"
    /\ stage' = "received"
    /\ bytes' = IF DecodeFrame(bytes).found THEN DecodeFrame(bytes).payload ELSE <<>>
    /\ UNCHANGED <<message, cut>>

\* The next message.
Again == stage = "received" /\ stage' = "idle" /\ bytes' = <<>> /\ cut' = "no"
    /\ message' = [name |-> "none"]

Next ==
    \/ \E m \in Rounds \cup Progresses : Send(m)
    \/ \E c \in Controls : SendControl(c)
    \/ \E masked \in BOOLEAN : Wrap(masked)
    \/ \E n \in 0..(Len(bytes) - 1) : Cut(n)
    \/ Receive
    \/ Again

Spec == Init /\ [][Next]_vars

-----------------------------------------------------------------------------

Arrived == stage = "received"
Readable(n) == Shifted(n, Limb)[Groups] = 0

\* What the decoder should make of a message.
Expected(m) ==
    LET kind == MapEventName(<<EventNames[m.name]>>) IN
    IF m.name = "pg"
    THEN [kind |-> kind, valid |-> TRUE, id |-> <<>>, mult |-> <<>>, elapsed |-> <<m.elapsed>>]
    ELSE [kind |-> kind, valid |-> TRUE, id |-> <<m.id>>, mult |-> <<m.mult>>, elapsed |-> <<>>]

\* A message that arrives whole is decoded to what was sent, across every
\* threshold of a varint and of a frame's length (socketio_protocol.hpp:89-107,
\* ws_frame.hpp:21-79); a number of more than Groups groups is not read.
WholeIsUnderstood ==
    Arrived /\ cut = "no" /\ message.name # "control"
        => (DecodeBinary(bytes) = Expected(message)
            <=> IF message.name = "pg" THEN Readable(message.elapsed)
                ELSE Readable(message.id) /\ Readable(message.mult))

\* A frame that ended early is not taken for a whole one (ws_frame.hpp:72).
CutFrameWaits == Arrived /\ cut = "frame" => bytes = <<>>

\* A packet that ended early is refused, or taken for a connect, or decoded to
\* an event of the same kind in which every field is the one that was sent or
\* missing; it never carries a wrong number (socketio_protocol.hpp:62-87, 109-133).
CutPacketKeepsFields ==
    Arrived /\ cut = "packet" /\ message.name # "control" =>
        LET got == DecodeBinary(bytes)
            sent == Expected(message)
        IN  \/ got.kind \in {"Error", "Connect"}
            \/ /\ got.kind = sent.kind
               /\ got.id \in {<<>>, sent.id}
               /\ got.mult \in {<<>>, sent.mult}
               /\ got.elapsed \in {<<>>, sent.elapsed}

\* classifyFrame, EventDecoder and SocketIoParser agree about a frame: what is
\* malformed or truncated is decoded by neither (protocol_edge_cases.hpp:15-44,
\* socketio_parser.hpp:18-61).
ParsersAgree ==
    Arrived =>
        /\ ClassifyFrame(bytes) \in {"Malformed", "Truncated", "Unknown", "Empty"}
            => ~DecodeBinary(bytes).valid /\ Feed(bytes) \in {"Unknown", "Empty", "Error"}
        /\ DecodeBinary(bytes).valid => Feed(bytes) \in {"Event", "Connect", "Ping"}

(* What arrives is understood as it was sent, or not at all, and by all    *)
(* parsers alike.                                                          *)
Understood == WholeIsUnderstood /\ CutFrameWaits /\ CutPacketKeepsFields /\ ParsersAgree

=============================================================================
