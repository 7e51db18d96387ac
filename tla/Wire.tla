------------------------------- MODULE Wire -------------------------------
(***************************************************************************)
(* A message as bytes: the client's new_message and onmessage              *)
(* (src/client/roomer.js, over its byte cursor), the Node server's         *)
(* create_message, encode and decode_message (src/server/node/message.js)  *)
(* and the envelope in which nodes pass frames on (adapter_redis.js).      *)
(*                                                                         *)
(* The layout and the widths of the fields are the code's; a byte has Base  *)
(* values.  Of these 0 and 1 are characters by themselves, 2 2 is the       *)
(* replacement character U+FFFD, 2 3 the byte order mark U+FEFF, and        *)
(* everything else is no valid encoding and is decoded to the replacement   *)
(* character, which is how TextDecoder and Buffer.toString treat bytes that *)
(* are not UTF-8.                                                           *)
(***************************************************************************)
EXTENDS ByteCursor

CONSTANTS
    Texts,          \* bound: the room names, events and identifiers sent
    Payloads,       \* bound: the payloads sent
    NodeId,         \* the bytes of a node's identifier
    MaxMessage      \* max_message_size

ASSUME WireAssumption == Base > 3 /\ MaxMessage \in Nat
ASSUME BytesAssumption == Texts \subseteq Seq(Seq(Byte)) /\ Payloads \subseteq Seq(Byte)
ASSUME NodeIdAssumption == NodeId \in Seq(Byte) /\ Len(NodeId) < Power[4]

VARIABLES
    stage,          \* where the message is; "idle": only the cursor is at work
    original,       \* the message a client sends
    frame,          \* its bytes
    forged,         \* is it another peer's frame, not new_message's?
    accepted,       \* the bytes the server accepted
    msg             \* what was decoded last

wireVars == <<stage, original, frame, forged, accepted, msg>>

HeaderOverhead == 12
ProtocolVersion == 1

Message(version, flags, room, event, dst, src, payload) ==
    [version |-> version, flags |-> flags, room |-> room, event |-> event, dst |-> dst,
     src |-> src, payload |-> payload]

-----------------------------------------------------------------------------
(* Texts *)

Replacement == <<2, 2>>

Mark == <<2, 3>>

(* The characters bytes are decoded to by Buffer.toString. *)
Decoded(bs) ==
    LET pair(i) == IF i < Len(bs) THEN <<bs[i], bs[i + 1]>> ELSE << >>
        from[i \in 1..(Len(bs) + 1)] ==
            IF i > Len(bs) THEN << >>
            ELSE IF bs[i] < 2 THEN <<<<bs[i]>>>> \o from[i + 1]
            ELSE IF pair(i) \in {Replacement, Mark} THEN <<pair(i)>> \o from[i + 2]
            ELSE <<Replacement>> \o from[i + 1]
    IN  from[1]

Marked(text) == text # << >> /\ Head(text) = Mark

(* The client's TextDecoder drops a byte order mark in front. *)
DecodedText(bs) == IF Marked(Decoded(bs)) THEN Tail(Decoded(bs)) ELSE Decoded(bs)

(* A length field of w bytes and what it announces. *)
Prefixed(bs, w) == <<Digits(Len(bs), w, FALSE), bs>>

TooLong(bs, w) == Len(bs) >= Power[w]

Unencodable(m) ==
    \/ TooLong(Encoded(m.room), 2) \/ TooLong(Encoded(m.event), 2)
    \/ TooLong(Encoded(m.dst), 1) \/ TooLong(Encoded(m.src), 1)

(* What is written for m, in order. *)
Fields(m) ==
    <<<<m.version>>, <<m.flags>>>> \o Prefixed(Encoded(m.room), 2)
        \o Prefixed(Encoded(m.event), 2) \o Prefixed(Encoded(m.dst), 1)
        \o Prefixed(Encoded(m.src), 1) \o Prefixed(m.payload, 4)

(* The widths of the length fields. *)
LengthFields == <<2, 2, 1, 1, 4>>

(* A frame taken apart up to position at; out is "ok", "null" or "throw". *)
Taken(at, parts, out) == [at |-> at, parts |-> parts, out |-> out]

-----------------------------------------------------------------------------
(* The server *)

(* create_message replaces a version that is not positive. *)
CreateMessage(parts, version, flags) ==
    Message(IF version > 0 THEN version ELSE ProtocolVersion, flags, Decoded(parts[1]),
            Decoded(parts[2]), Decoded(parts[3]), Decoded(parts[4]), parts[5])

(* Mutant: the version is always the server's own. *)
Encode_OwnVersion(m) ==
    IF Unencodable(m) THEN << >>
    ELSE FlattenSeq(Fields([m EXCEPT !.version = ProtocolVersion]))

(* encode; << >> if it throws. *)
Encode(m) == IF Unencodable(m) THEN << >> ELSE FlattenSeq(Fields(m))

(* Mutant: bytes may follow the payload. *)
TakeField_Trailing(buf, t, w) ==
    LET from == t.at + w
        end == from + Unsigned(SubSeq(buf, t.at + 1, from))
    IN  IF t.out # "ok" THEN t
        ELSE IF from > Len(buf)
             THEN [t EXCEPT !.out = IF t.parts = << >> THEN "throw" ELSE "null"]
        ELSE IF end > Len(buf) THEN [t EXCEPT !.out = "null"]
        ELSE Taken(end, Append(t.parts, SubSeq(buf, from + 1, end)), "ok")

(* One length and what it announces.  Every length but the first is read    *)
(* only after a check; the payload must end where the frame ends.           *)
TakeField(buf, t, w) ==
    LET from == t.at + w
        end == from + Unsigned(SubSeq(buf, t.at + 1, from))
    IN  IF t.out # "ok" THEN t
        ELSE IF from > Len(buf)
             THEN [t EXCEPT !.out = IF t.parts = << >> THEN "throw" ELSE "null"]
        ELSE IF end > Len(buf) \/ (Len(t.parts) = 4 /\ end # Len(buf))
             THEN [t EXCEPT !.out = "null"]
        ELSE Taken(end, Append(t.parts, SubSeq(buf, from + 1, end)), "ok")

(* Mutant: the length of the header is not checked. *)
Take_AnyLength(buf) ==
    IF Len(buf) > MaxMessage THEN Taken(0, << >>, "null")
    ELSE FoldLeft(LAMBDA t, w : TakeField(buf, t, w), Taken(2, << >>, "ok"), LengthFields)

(* decode_message *)
Take(buf) ==
    IF Len(buf) < HeaderOverhead \/ Len(buf) > MaxMessage THEN Taken(0, << >>, "null")
    ELSE FoldLeft(LAMBDA t, w : TakeField(buf, t, w), Taken(2, << >>, "ok"), LengthFields)

(* The envelope of a node, and the frame in it; << >> if there is none. *)
EncodeEnvelope(raw) == Digits(Len(NodeId), 4, FALSE) \o NodeId \o raw

DecodeEnvelope(env) ==
    LET from == 4 + Unsigned(SubSeq(env, 1, 4))
    IN  IF Len(env) < 4 \/ Len(env) < from THEN << >> ELSE SubSeq(env, from + 1, Len(env))

-----------------------------------------------------------------------------
(* The client *)

(* new_message: the fields written one after the other into a buffer of     *)
(* the computed size, which is then read from its start; << >> if it        *)
(* throws.                                                                  *)
NewMessage(m) ==
    LET total == HeaderOverhead + Len(Encoded(m.room)) + Len(Encoded(m.event))
                     + Len(Encoded(m.dst)) + Len(Encoded(m.src)) + Len(m.payload)
        write(c, bs) == IF Check(c, c.pos, Len(bs)) THEN PutBytes(c, bs)
                        ELSE [c EXCEPT !.len = 0]
        data == FoldLeft(write, Cursor(Zeros(total), 0, total), Fields(m))
    IN  IF Unencodable(m) THEN << >> ELSE BytesAt(data, 0, data.len)

(* data.getString(data.getUint16()) and the like. *)
ReadField(buf, t, w) ==
    LET c == [Cursor(buf, 0, Len(buf)) EXCEPT !.pos = t.at]
        n == Unsigned(BytesAt(c, c.pos, w))
    IN  IF t.out # "ok" THEN t
        ELSE IF ~Check(c, c.pos, w) \/ ~Check(c, c.pos + w, n)
             THEN [t EXCEPT !.out = "throw"]
        ELSE Taken(c.pos + w + n, Append(t.parts, BytesAt(c, c.pos + w, n)), "ok")

(* Mutant: destination and source are swapped. *)
Packet_Swapped(parts, version, flags) ==
    Message(version, flags, DecodedText(parts[1]), DecodedText(parts[2]),
            DecodedText(parts[4]), DecodedText(parts[3]), parts[5])

Packet(parts, version, flags) ==
    Message(version, flags, DecodedText(parts[1]), DecodedText(parts[2]),
            DecodedText(parts[3]), DecodedText(parts[4]), parts[5])

(* onmessage: an exception is caught; bytes after the payload are ignored. *)
OnMessage(buf) ==
    IF Len(buf) < HeaderOverhead THEN Taken(0, << >>, "null")
    ELSE FoldLeft(LAMBDA t, w : ReadField(buf, t, w), Taken(2, << >>, "ok"), LengthFields)

-----------------------------------------------------------------------------
(* The way of a message *)

NoMessage == Message(ProtocolVersion, 0, << >>, << >>, << >>, << >>, << >>)

Messages ==
    {Message(ProtocolVersion, flags, room, event, dst, src, payload) :
        flags \in {0, 3}, room \in Texts, event \in Texts, dst \in Texts, src \in Texts,
        payload \in Payloads}

Idle ==
    /\ stage = "idle" /\ original = NoMessage /\ frame = << >> /\ forged = FALSE
    /\ accepted = << >> /\ msg = NoMessage

WireInit ==
    \/ Init /\ Idle
    \/ /\ cur = Cursor(<< >>, 0, 0) /\ call = NoCall
       /\ stage = "new" /\ original \in Messages /\ frame = << >> /\ forged = FALSE
       /\ accepted = << >> /\ msg = NoMessage

(* Room.send; what new_message throws is caught. *)
ClientSends ==
    /\ stage = "new"
    /\ frame' = NewMessage(original)
    /\ stage' = IF frame' = << >> THEN "unsent" ELSE "toServer"
    /\ UNCHANGED <<original, forged, accepted, msg>>

(* A frame cut short, one too long, or one with another byte in it. *)
Variants(bs) ==
    {SubSeq(bs, 1, k) : k \in 0..(Len(bs) - 1)} \cup {Append(bs, b) : b \in Byte}
        \cup {[bs EXCEPT ![i] = b] : i \in DOMAIN bs, b \in Byte}

(* Another peer, or the network's end, sends something like it. *)
OtherSends ==
    /\ stage = "toServer" /\ ~forged
    /\ forged' = TRUE
    /\ frame' \in Variants(frame)
    /\ UNCHANGED <<stage, original, accepted, msg>>

(* The message handler of server.js: a frame that is not decoded closes the *)
(* connection; an exception would end the process.                          *)
ServerReceives ==
    LET t == Take(frame)
    IN  /\ stage = "toServer"
        /\ stage' = CASE t.out = "ok"   -> "decoded"
                      [] t.out = "null" -> "refused"
                      [] OTHER          -> "crashed"
        /\ accepted' = IF t.out = "ok" THEN frame ELSE << >>
        /\ msg' = IF t.out = "ok" THEN CreateMessage(t.parts, frame[1], frame[2]) ELSE msg
        /\ UNCHANGED <<original, frame, forged>>

(* dispatch encodes the message again; what encode throws is caught. *)
ServerForwards ==
    /\ stage = "decoded"
    /\ frame' = Encode(msg)
    /\ stage' = IF frame' = << >> THEN "unsent" ELSE "toClient"
    /\ UNCHANGED <<original, forged, accepted, msg>>

(* The recipient is on another node, which passes the frame on as it is. *)
NodeRelays ==
    /\ stage = "toClient"
    /\ frame' = DecodeEnvelope(EncodeEnvelope(frame))
    /\ stage' = "relayed"
    /\ UNCHANGED <<original, forged, accepted, msg>>

ClientReceives ==
    LET t == OnMessage(frame)
    IN  /\ stage \in {"toClient", "relayed"}
        /\ stage' = IF t.out = "ok" THEN "received" ELSE "ignored"
        /\ msg' = IF t.out = "ok" THEN Packet(t.parts, frame[1], frame[2]) ELSE msg
        /\ UNCHANGED <<original, frame, forged, accepted>>

Arrived ==
    /\ stage \in {"unsent", "refused", "crashed", "received", "ignored"}
    /\ UNCHANGED wireVars

Trip ==
    \/ ClientSends \/ OtherSends \/ ServerReceives \/ ServerForwards \/ NodeRelays
    \/ ClientReceives \/ Arrived

WireNext ==
    \/ stage = "idle" /\ Next /\ UNCHANGED wireVars
    \/ Trip /\ UNCHANGED vars

WireSpec == WireInit /\ [][WireNext]_<<vars, wireVars>>

-----------------------------------------------------------------------------
(* Properties *)

TextsOf(m) == {m.room, m.event, m.dst, m.src}

(* Two encoders and two decoders agree: what the client's new_message wrote *)
(* is what another client reads after decode_message and encode, whether it *)
(* is on the same node or not, if no text begins with a byte order mark,    *)
(* and only its size can get it refused.                                    *)
ArrivesUnchanged ==
    /\ stage = "received" /\ ~forged /\ (\A text \in TextsOf(original) : ~Marked(text))
         => msg = original
    /\ ~forged /\ Len(frame) <= MaxMessage => stage \notin {"refused", "ignored"}

(* The server forwards what it accepts byte for byte, whoever sent it, if   *)
(* its texts are valid and its version is not 0.                            *)
ForwardedVerbatim ==
    LET parts == Take(accepted).parts
    IN  stage \in {"toClient", "relayed"} /\ accepted[1] # 0
          /\ (\A i \in 1..4 : Encoded(Decoded(parts[i])) = parts[i])
        => frame = accepted

(* decode_message reads no byte past the end of what a peer sent: server.js *)
(* has no catch around it.                                                  *)
DecodeNeverThrows == stage # "crashed"

(* No accepted frame is the beginning of another: truncation is always      *)
(* noticed, and so is anything appended.                                    *)
PrefixFree ==
    stage = "decoded" =>
        \A k \in 0..(Len(accepted) - 1) : Take(SubSeq(accepted, 1, k)).out # "ok"

=============================================================================
