----------------------------- MODULE ByteCursor -----------------------------
(***************************************************************************)
(* The byte cursor of the browser client, src/client/bytecursor.js: a       *)
(* position in a view of an ArrayBuffer, moved by every read and write.    *)
(*                                                                         *)
(* A byte has Base values instead of 256, so that all of them can be       *)
(* enumerated; numbers are one or more bytes wide, signed or not, of either *)
(* byte order.  The floats are left out.  Arguments are integers: the type *)
(* checks are left out, and so is what check does with NaN and with         *)
(* fractions, which it lets pass.                                          *)
(***************************************************************************)
EXTENDS Integers, Sequences, SequencesExt, FiniteSetsExt

CONSTANTS
    Base,           \* values of a byte
    MaxLen,         \* bound: length of the ArrayBuffer
    Widths          \* bytes of a number

ASSUME BaseAssumption == Base \in Nat \ {0, 1}
ASSUME MaxLenAssumption == MaxLen \in Nat
ASSUME WidthsAssumption == Widths \subseteq Nat

VARIABLES
    cur,            \* the cursor: buffer, view offset and length, position
    call            \* the last call: what it was and how it ended

vars == <<cur, call>>

Byte == 0..(Base - 1)

(* new DataView(buffer, view_offset, view_length), cursor 0 *)
Cursor(buffer, off, len) == [buffer |-> buffer, off |-> off, len |-> len, pos |-> 0]

Zeros(n) == [i \in 1..n |-> 0]

(* bytecursor(buffer, view_offset, view_length), for the arguments it does  *)
(* not refuse.                                                              *)
Cursors ==
    UNION {UNION {{Cursor(Zeros(n), off, len) : len \in 0..(n - off)} : off \in 0..n} :
              n \in 0..MaxLen}

NoCall == [op |-> "none", w |-> 0, le |-> FALSE, v |-> 0, ok |-> TRUE]

Init == cur \in Cursors /\ call = NoCall

-----------------------------------------------------------------------------
(* Numbers *)

(* How many numbers w bytes can hold. *)
Power[w \in Nat] == IF w = 0 THEN 1 ELSE Base * Power[w - 1]

(* The value of bytes, most significant first. *)
Unsigned(bs) == FoldLeft(LAMBDA acc, b : acc * Base + b, 0, bs)

ToSigned(v, w) == IF 2 * v >= Power[w] THEN v - Power[w] ELSE v

Ordered(bs, le) == IF le THEN Reverse(bs) ELSE bs

(* The w bytes of v, which setUint and setInt take modulo Base^w. *)
Digits(v, w, le) ==
    Ordered([i \in 1..w |-> ((v % Power[w]) \div Power[w - i]) % Base], le)

-----------------------------------------------------------------------------
(* The view *)

(* check(offset, size) does not throw. *)
Check(c, offset, size) == offset >= 0 /\ size >= 0 /\ offset + size <= c.len

(* The n bytes at position p of the view. *)
BytesAt(c, p, n) == SubSeq(c.buffer, c.off + p + 1, c.off + p + n)

(* bs stored at position p of the view. *)
Store(c, p, bs) ==
    [c EXCEPT !.buffer =
        [i \in DOMAIN @ |-> IF c.off + p < i /\ i <= c.off + p + Len(bs)
                            THEN bs[i - c.off - p] ELSE @[i]]]

(* advance(size), where check passes. *)
Advance(c, size) == [c EXCEPT !.pos = @ + size]

(* writeBytes, where check passes. *)
PutBytes(c, bs) == Advance(Store(c, c.pos, bs), Len(bs))

-----------------------------------------------------------------------------
(* Calls *)

Ends(op, w, le, v, ok) == call' = [op |-> op, w |-> w, le |-> le, v |-> v, ok |-> ok]

Throws(op) == Ends(op, 0, FALSE, 0, FALSE)

Moved(op, c) == cur' = c /\ Ends(op, 0, FALSE, 0, TRUE)

Rewind == Moved("rewind", [cur EXCEPT !.pos = 0])

Seek(p) ==
    IF Check(cur, p, 0) THEN Moved("seek", [cur EXCEPT !.pos = p])
    ELSE Throws("seek") /\ UNCHANGED cur

(* Mutant: the distance is checked and not where it leads. *)
Skip_Distance(n) ==
    IF n <= cur.len THEN Moved("skip", [cur EXCEPT !.pos = @ + n])
    ELSE Throws("skip") /\ UNCHANGED cur

Skip(n) ==
    IF Check(cur, cur.pos + n, 0) THEN Moved("skip", [cur EXCEPT !.pos = @ + n])
    ELSE Throws("skip") /\ UNCHANGED cur

(* getBytes and getString: of n bytes, or of all that is left. *)
GetBytes(n) ==
    IF Check(cur, cur.pos, n) THEN Moved("getBytes", Advance(cur, n))
    ELSE Throws("getBytes") /\ UNCHANGED cur

GetRest == GetBytes(cur.len - cur.pos)

(* getUint8 ... getBigUint64 *)
GetNumber(w, le, signed) ==
    LET v == Unsigned(Ordered(BytesAt(cur, cur.pos, w), le))
    IN  IF Check(cur, cur.pos, w)
        THEN /\ cur' = Advance(cur, w)
             /\ Ends("get", w, le, IF signed THEN ToSigned(v, w) ELSE v, TRUE)
        ELSE Throws("get") /\ UNCHANGED cur

(* Mutant: the unsigned writers accept one value too many. *)
InRange_OffByOne(v, w, signed) ==
    IF signed THEN -Power[w] <= 2 * v /\ 2 * v < Power[w]
    ELSE 0 <= v /\ v <= Power[w]

(* assert_integer and assert_bigint, with the bounds each writer passes. *)
InRange(v, w, signed) ==
    IF signed THEN -Power[w] <= 2 * v /\ 2 * v < Power[w]
    ELSE 0 <= v /\ v < Power[w]

(* writeUint8 ... writeBigUint64 *)
WriteNumber(w, le, signed, v) ==
    IF InRange(v, w, signed) /\ Check(cur, cur.pos, w)
    THEN /\ cur' = PutBytes(cur, Digits(v, w, le))
         /\ Ends(IF signed THEN "putInt" ELSE "putUint", w, le, v, TRUE)
    ELSE Throws("put") /\ UNCHANGED cur

WriteBytes(bs) ==
    IF Check(cur, cur.pos, Len(bs)) THEN Moved("writeBytes", PutBytes(cur, bs))
    ELSE Throws("writeBytes") /\ UNCHANGED cur

(* A string is the sequence of its characters, each the bytes of its        *)
(* encoding.                                                                *)
Encoded(s) == FlattenSeq(s)

(* encodeInto: the characters that fit, and no part of one that does not. *)
EncodedInto(s, room) ==
    LET fit == Max({k \in 0..Len(s) : Len(Encoded(SubSeq(s, 1, k))) <= room})
    IN  SubSeq(s, 1, fit)

(* Mutant: the target of encodeInto ends with the buffer, not the view. *)
WriteString_WholeBuffer(s) ==
    LET part == EncodedInto(s, Len(cur.buffer) - cur.off - cur.pos)
        stored == Store(cur, cur.pos, Encoded(part))
    IN  IF part = s /\ Check(cur, cur.pos, Len(Encoded(s)))
        THEN Moved("writeString", Advance(stored, Len(Encoded(s))))
        ELSE cur' = stored /\ Throws("writeString")

(* writeString: what fits is stored even if the call throws. *)
WriteString(s) ==
    LET part == EncodedInto(s, cur.len - cur.pos)
        stored == Store(cur, cur.pos, Encoded(part))
    IN  IF part = s
        THEN Moved("writeString", Advance(stored, Len(Encoded(s))))
        ELSE cur' = stored /\ Throws("writeString")

(* Positions and distances a caller may pass. *)
Offsets == -(MaxLen + 1)..(MaxLen + 1)

Values(w) == -Power[w]..Power[w]

Strings == {<<a>> : a \in {<<1>>, <<1, 1>>}} \cup
           {<<a, b>> : a, b \in {<<1>>, <<1, 1>>}}

Next ==
    \/ Rewind
    \/ GetRest
    \/ \E n \in Offsets : Seek(n) \/ Skip(n) \/ GetBytes(n)
    \/ \E w \in Widths, le, signed \in BOOLEAN :
          GetNumber(w, le, signed) \/ \E v \in Values(w) : WriteNumber(w, le, signed, v)
    \/ \E s \in Strings : WriteString(s) \/ WriteBytes(Encoded(s))

Spec == Init /\ [][Next]_vars

-----------------------------------------------------------------------------
(* Properties *)

(* Whatever was called, in whatever order and with whatever outcome, the    *)
(* position is in the view: no later read starts past its end.              *)
InView == cur.pos \in 0..cur.len

(* A call changes only bytes of the view, from the position on, and one     *)
(* that succeeds leaves the position behind the last of them.               *)
WritesInPlace ==
    [][\A i \in DOMAIN cur.buffer :
          cur'.buffer[i] # cur.buffer[i] =>
              /\ cur.off + cur.pos < i
              /\ i <= cur.off + (IF call'.ok THEN cur'.pos ELSE cur.len)]_vars

(* The number a writer accepted is the one the reader of the same kind      *)
(* finds there, of either sign and byte order.                              *)
ReadBack ==
    LET v == Unsigned(Ordered(BytesAt(cur, cur.pos - call.w, call.w), call.le))
    IN  /\ call.op = "putUint" => call.v = v
        /\ call.op = "putInt" => call.v = ToSigned(v, call.w)

=============================================================================
