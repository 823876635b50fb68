---------------------------- MODULE StreamHeader ----------------------------
(***************************************************************************)
(* The synchronous codec of wtransport-proto: the BufferReader get_varint  *)
(* primitive (src/wtransport-proto/src/bytes.rs) and the StreamHeader      *)
(* framing built on it (src/wtransport-proto/src/stream.rs), as operators  *)
(* over a byte sequence and a reader offset.  A reader over a slice is the *)
(* pair (buf, off); the remaining bytes are buf[off+1 ..].                  *)
(***************************************************************************)
EXTENDS VarInt, Integers

CONSTANT ValidSessionIds  \* the varints SessionId::try_from_varint accepts

(* stream_type_ids: the discriminant of each fixed stream kind.            *)
Discriminant ==
  [Control |-> 0, QPackEncoder |-> 2, QPackDecoder |-> 3, WebTransport |-> 84]

FixedKinds == DOMAIN Discriminant

NoKind == [tag |-> "None"]
NoSession == -1

(* StreamKind::is_id_exercise: the HTTP/3 reserved (greasing) types.       *)
IsIdExercise(id) == id >= 33 /\ (id - 33) % 31 = 0

(* StreamKind::parse: fixed constants first, then the exercise rule.       *)
ParseKind(id) ==
  IF \E t \in FixedKinds : Discriminant[t] = id
    THEN [tag |-> CHOOSE t \in FixedKinds : Discriminant[t] = id]
  ELSE IF IsIdExercise(id) THEN [tag |-> "Exercise", id |-> id]
  ELSE NoKind

(* StreamKind::id.                                                         *)
KindId(kind) ==
  IF kind.tag = "Exercise" THEN kind.id ELSE Discriminant[kind.tag]

IsWebTransport(kind) == kind.tag = "WebTransport"

(* SessionId::try_from_varint succeeds.                                    *)
TryFromVarint(v) == v \in ValidSessionIds

(* StreamHeader::new (the session id is present iff the kind is           *)
(* WebTransport, as its debug assertion and session_id() expect).          *)
NewHeader(kind, sid) == [kind |-> kind, sid |-> sid]

NoHeader == [kind |-> NoKind, sid |-> NoSession]

(***************************************************************************)
(* BufferReader::get_varint (octets get_varint): fails without consuming  *)
(* if no byte is left or fewer than ParseSize(first) remain.               *)
(***************************************************************************)
GetVarint(buf, off) ==
  IF off >= Len(buf) THEN [ok |-> FALSE, val |-> 0, off |-> off]
  ELSE LET size == ParseSize(buf[off + 1]) IN
       IF Len(buf) - off < size THEN [ok |-> FALSE, val |-> 0, off |-> off]
       ELSE [ok |-> TRUE,
             val |-> Decode(SubSeq(buf, off + 1, off + size)),
             off |-> off + size]

(* Result of a header read: res is "None" (not enough bytes), "Ok",       *)
(* "UnknownStream" or "InvalidSessionId"; off is the reader's offset after *)
(* the call.                                                               *)
ReadResult(res, hdr, off) == [res |-> res, hdr |-> hdr, off |-> off]

(***************************************************************************)
(* StreamHeader::read over a reader at offset off.  Each get_varint is     *)
(* atomic, but the call as a whole is not: on None or Err the discriminant *)
(* may already have been consumed.                                         *)
(***************************************************************************)
Read(buf, off) ==
  LET k == GetVarint(buf, off)
      kind == ParseKind(k.val)
      s == GetVarint(buf, k.off)
  IN
  IF ~k.ok THEN ReadResult("None", NoHeader, off)
  ELSE IF kind = NoKind THEN ReadResult("UnknownStream", NoHeader, k.off)
  ELSE IF ~IsWebTransport(kind)
    THEN ReadResult("Ok", NewHeader(kind, NoSession), k.off)
  ELSE IF ~s.ok THEN ReadResult("None", NoHeader, k.off)
  ELSE IF ~TryFromVarint(s.val)
    THEN ReadResult("InvalidSessionId", NoHeader, s.off)
  ELSE ReadResult("Ok", NewHeader(kind, s.val), s.off)

(***************************************************************************)
(* StreamHeader::read_from_buffer: read through a child reader over the   *)
(* parent's remaining bytes (BufferReader::child, with_parent) and commit  *)
(* (skip the child's offset) only on Ok; otherwise the child is dropped    *)
(* and the parent keeps its offset.                                        *)
(***************************************************************************)
(* Mutant: read_from_buffer reading the parent in place, without a child. *)
ReadInPlace(buf, off) == Read(buf, off)

ReadFromBuffer(buf, off) ==
  LET child == Read(SubSeq(buf, off + 1, Len(buf)), 0) IN
  IF child.res = "Ok" THEN ReadResult("Ok", child.hdr, off + child.off)
  ELSE ReadResult(child.res, NoHeader, off)

(* StreamHeader::session_id as written: the session id iff WebTransport.   *)
SessionIdOf(h) == IF IsWebTransport(h.kind) THEN h.sid ELSE NoSession

(* StreamHeader::write into a Vec<u8> (BytesWriter for Vec<u8>): the       *)
(* discriminant varint, then the session id varint if there is one.       *)
Write(h) ==
  Encode(KindId(h.kind))
    \o (IF IsWebTransport(h.kind) THEN Encode(SessionIdOf(h)) ELSE <<>>)

(* StreamHeader::write_size.                                               *)
WriteSize(h) ==
  IF IsWebTransport(h.kind)
    THEN Size(KindId(h.kind)) + Size(SessionIdOf(h))
  ELSE Size(KindId(h.kind))


(***************************************************************************)
(* A BufferWriter over a fixed slice of cap bytes, of which written holds  *)
(* what has been put so far.  put_varint (octets put_varint) fails without *)
(* writing if fewer than Size(v) bytes are left.                          *)
(***************************************************************************)
PutVarintInto(bw, v) ==
  IF bw.cap - Len(bw.written) < Size(v) THEN [ok |-> FALSE, bw |-> bw]
  ELSE [ok |-> TRUE, bw |-> [bw EXCEPT !.written = @ \o Encode(v)]]

(* StreamHeader::write into a BufferWriter: each put_varint may fail, and *)
(* "In case Err, bytes_writer might be partially written".                *)
WriteInto(h, bw) ==
  LET k == PutVarintInto(bw, KindId(h.kind))
      s == PutVarintInto(k.bw, SessionIdOf(h))
  IN IF ~k.ok \/ ~IsWebTransport(h.kind) THEN k ELSE s

(***************************************************************************)
(* StreamHeader::write_to_buffer: Err(EndOfBuffer) before writing if the   *)
(* capacity is below write_size(), else write(..).expect("Enough capacity *)
(* for header"); panic is TRUE when that expect fires.                     *)
(***************************************************************************)
(* Mutant: the capacity check counts the discriminant only.               *)
WriteToBufferKindOnly(h, bw) ==
  IF bw.cap - Len(bw.written) < Size(KindId(h.kind))
    THEN [res |-> "EndOfBuffer", bw |-> bw, panic |-> FALSE]
  ELSE LET r == WriteInto(h, bw) IN
       [res |-> "Ok", bw |-> r.bw, panic |-> ~r.ok]

WriteToBuffer(h, bw) ==
  IF bw.cap - Len(bw.written) < WriteSize(h)
    THEN [res |-> "EndOfBuffer", bw |-> bw, panic |-> FALSE]
  ELSE LET r == WriteInto(h, bw) IN
       [res |-> "Ok", bw |-> r.bw, panic |-> ~r.ok]

=============================================================================
