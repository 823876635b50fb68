------------------------------ MODULE HeaderRead ------------------------------
(***************************************************************************)
(* One unidirectional stream whose header is read by the two receivers the *)
(* crate offers for data that arrives piecewise:                           *)
(*                                                                          *)
(*  - the synchronous receiver appends what the transport delivered to a    *)
(*    buffer and calls StreamHeader::read_from_buffer on a reader kept at   *)
(*    its offset, retrying after each delivery while the answer is None,    *)
(*    then reads the first payload varint with BufferReader::get_varint;    *)
(*  - the asynchronous receiver awaits StreamHeader::read_async, whose      *)
(*    GetVarint futures (bytes.rs) poll the stream's AsyncRead source.      *)
(*                                                                          *)
(* The peer's stream is a sequence of varints (msg), each in a chosen      *)
(* encoded length; the peer may close the stream after any prefix of it    *)
(* (sent).  The transport delivers sent in arbitrary chunks; FIN arrives   *)
(* with the last byte.                                                      *)
(***************************************************************************)
EXTENDS StreamHeader, SequencesExt

CONSTANT PeerMessages  \* the varint sequences <<[v, n], ...>> a peer may send
CONSTANT Cancellable   \* whether the task may drop read_async mid-header
ASSUME Cancellable \in BOOLEAN

VARIABLES
  msg,   \* the varints the peer encodes
  sent,  \* the bytes the peer wrote before FIN
  recv,  \* how many of them the transport has delivered
  sr,    \* synchronous receiver
  ar     \* asynchronous receiver: read_async and its current GetVarint

vars == <<msg, sent, recv, sr, ar>>

Pending == "Pending"
PayPending == -2
PayNone == -1

Content(m) == FlattenSeq([i \in DOMAIN m |-> EncodeIn(m[i].v, m[i].n)])

Received == SubSeq(sent, 1, recv)

(* The source returns 0 from poll_read: every byte is read and FIN is in.  *)
Eof == recv = Len(sent)

-----------------------------------------------------------------------------
(***************************************************************************)
(* GetVarint::new and GetVarint::poll (bytes.rs).  fut is the future's     *)
(* state {offset, varint_size, buffer[..offset]}.  In one poll the source  *)
(* hands over the first k of the avail bytes, in as many poll_read calls   *)
(* as it likes, and then answers Pending (k < Len(avail), or no data yet)  *)
(* or Ready(0) (all read and eof).  The first call asks for exactly one    *)
(* byte; varint_size comes from it; later calls ask for                    *)
(* buffer[offset..varint_size] and add what they get to offset.  A zero    *)
(* read in either phase is IoError::Closed.                                *)
(***************************************************************************)
NewGetVarint == [off |-> 0, size |-> 0, buf |-> <<>>]

(***************************************************************************)
(* Mutants of GetVarint::poll, each a plausible slip in that loop.         *)
(***************************************************************************)
(* offset = varint_size after any read, as if poll_read filled the request. *)
PollGetVarintAssumeFull(f, avail, eof, k) ==
  LET size == IF f.off = 0
                THEN IF k = 0 THEN 0 ELSE ParseSize(avail[1])
                ELSE f.size
      m == IF k <= size - f.off THEN k ELSE size - f.off
      g == [off |-> IF m > 0 THEN size ELSE f.off, size |-> size,
            buf |-> f.buf \o SubSeq(avail, 1, m)]
  IN [fut |-> g, used |-> m,
      out |-> IF g.off > 0 /\ g.off = g.size THEN "Ready"
              ELSE IF m = Len(avail) /\ eof THEN "Closed" ELSE Pending]

(* Reads into buffer[offset..] (up to VarInt::MAX_SIZE), as GetBuffer does. *)
PollGetVarintToMaxSize(f, avail, eof, k) ==
  LET size == IF f.off = 0
                THEN IF k = 0 THEN 0 ELSE ParseSize(avail[1])
                ELSE f.size
      m == IF k <= 8 - f.off THEN k ELSE 8 - f.off
      g == [off |-> f.off + m, size |-> size, buf |-> f.buf \o SubSeq(avail, 1, m)]
  IN [fut |-> g, used |-> m,
      out |-> IF g.off > 0 /\ g.off >= g.size THEN "Ready"
              ELSE IF m = Len(avail) /\ eof THEN "Closed" ELSE Pending]

(* A zero read in the second phase breaks the loop and decodes the scratch *)
(* buffer, whose unread bytes are still 0.                                  *)
PollGetVarintBreakOnEof(f, avail, eof, k) ==
  LET size == IF f.off = 0
                THEN IF k = 0 THEN 0 ELSE ParseSize(avail[1])
                ELSE f.size
      m == IF k <= size - f.off THEN k ELSE size - f.off
      g == [off |-> f.off + m, size |-> size, buf |-> f.buf \o SubSeq(avail, 1, m)]
      padded == [g EXCEPT !.off = size,
                          !.buf = g.buf \o [i \in 1 .. (size - g.off) |-> 0]]
  IN IF g.off > 0 /\ g.off = g.size THEN [fut |-> g, used |-> m, out |-> "Ready"]
     ELSE IF m = Len(avail) /\ eof /\ g.off > 0
       THEN [fut |-> padded, used |-> m, out |-> "Ready"]
     ELSE IF m = Len(avail) /\ eof THEN [fut |-> g, used |-> m, out |-> "Closed"]
     ELSE [fut |-> g, used |-> m, out |-> Pending]

(* A zero read for the first byte returns Pending instead of Closed.       *)
PollGetVarintPendingOnEof(f, avail, eof, k) ==
  LET size == IF f.off = 0
                THEN IF k = 0 THEN 0 ELSE ParseSize(avail[1])
                ELSE f.size
      m == IF k <= size - f.off THEN k ELSE size - f.off
      g == [off |-> f.off + m, size |-> size, buf |-> f.buf \o SubSeq(avail, 1, m)]
  IN [fut |-> g, used |-> m,
      out |-> IF g.off > 0 /\ g.off = g.size THEN "Ready"
              ELSE IF m = Len(avail) /\ eof /\ g.off > 0 THEN "Closed"
              ELSE Pending]

PollGetVarint(f, avail, eof, k) ==
  LET size == IF f.off = 0
                THEN IF k = 0 THEN 0 ELSE ParseSize(avail[1])
                ELSE f.size
      m == IF k <= size - f.off THEN k ELSE size - f.off
      g == [off |-> f.off + m, size |-> size, buf |-> f.buf \o SubSeq(avail, 1, m)]
  IN [fut |-> g,
      used |-> m,
      out |-> IF g.off > 0 /\ g.off = g.size THEN "Ready"
              ELSE IF m = Len(avail) /\ eof THEN "Closed"
              ELSE Pending]

(***************************************************************************)
(* The rest of read_async once the session-id GetVarint has been polled:   *)
(* SessionId::try_from_varint on its value.                                *)
(***************************************************************************)
AfterSessionId(r, kind, pos) ==
  LET sid == Decode(r.fut.buf)
      done(res, hdr) == [ar EXCEPT !.phase = "done", !.kind = kind, !.fut = r.fut,
                                   !.pos = pos + r.used, !.res = res, !.hdr = hdr]
  IN CASE r.out = Pending ->
            [ar EXCEPT !.phase = "sid", !.kind = kind, !.fut = r.fut,
                       !.pos = pos + r.used]
       [] r.out = "Closed" -> done("Closed", NoHeader)
       [] r.out = "Ready" /\ TryFromVarint(sid) -> done("Ok", NewHeader(kind, sid))
       [] r.out = "Ready" -> done("InvalidSessionId", NoHeader)

(* A read_async future just created over a source that has already given  *)
(* pos bytes away: its first GetVarint has not been polled.                *)
NewReadAsync(pos) ==
  [phase |-> "kind", kind |-> NoKind, fut |-> NewGetVarint, pos |-> pos,
   start |-> pos, res |-> Pending, hdr |-> NoHeader]

-----------------------------------------------------------------------------
Init ==
  /\ msg \in PeerMessages
  /\ \E cut \in 0 .. Len(Content(msg)) : sent = SubSeq(Content(msg), 1, cut)
  /\ recv = 0
  /\ sr = [res |-> Pending, hdr |-> NoHeader, off |-> 0, pay |-> PayPending]
  /\ ar = NewReadAsync(0)

(* The transport makes the next chunk of the peer's bytes readable.        *)
Deliver ==
  /\ recv < Len(sent)
  /\ \E k \in 1 .. (Len(sent) - recv) : recv' = recv + k
  /\ UNCHANGED <<msg, sent, sr, ar>>

(***************************************************************************)
(* Synchronous receiver: StreamHeader::read_from_buffer on a BufferReader  *)
(* over the bytes received so far, at the offset the receiver keeps.  On   *)
(* None it waits for more data, or gives up once FIN has arrived.          *)
(***************************************************************************)
SyncReadHeader ==
  /\ sr.res = Pending
  /\ LET r == ReadFromBuffer(Received, sr.off) IN
       sr' = [sr EXCEPT !.off = r.off,
                        !.hdr = r.hdr,
                        !.res = IF r.res # "None" THEN r.res
                                ELSE IF Eof THEN "None" ELSE Pending]
  /\ UNCHANGED <<msg, sent, recv, ar>>

(* After an Ok header: BufferReader::get_varint for the first payload      *)
(* varint, again retried until it succeeds or FIN has arrived.             *)
SyncReadPayload ==
  /\ sr.res = "Ok"
  /\ sr.pay = PayPending
  /\ LET g == GetVarint(Received, sr.off) IN
       sr' = [sr EXCEPT !.off = g.off,
                        !.pay = IF g.ok THEN g.val
                                ELSE IF Eof THEN PayNone ELSE PayPending]
  /\ UNCHANGED <<msg, sent, recv, ar>>

(***************************************************************************)
(* Asynchronous receiver: one poll of the read_async future on the bytes   *)
(* avail the source holds, eof telling whether FIN follows them.  It polls *)
(* the pending GetVarint; when the discriminant resolves it maps it with   *)
(* StreamKind::parse and, for WebTransport, creates the session-id         *)
(* GetVarint and polls it within the same poll on the bytes left.          *)
(***************************************************************************)
AsyncPollOn(avail, eof) ==
  /\ ar.res = Pending
  /\ \E k \in 0 .. Len(avail) :
       LET r == PollGetVarint(ar.fut, avail, eof, k)
           kind == ParseKind(Decode(r.fut.buf))
           rest == SubSeq(avail, r.used + 1, Len(avail))
       IN
       IF ar.phase = "sid" THEN ar' = AfterSessionId(r, ar.kind, ar.pos)
       ELSE IF r.out = Pending
         THEN ar' = [ar EXCEPT !.fut = r.fut, !.pos = @ + r.used]
       ELSE IF r.out = "Closed"
         THEN ar' = [ar EXCEPT !.fut = r.fut, !.pos = @ + r.used,
                               !.phase = "done", !.res = "Closed"]
       ELSE IF kind = NoKind
         THEN ar' = [ar EXCEPT !.fut = r.fut, !.pos = @ + r.used,
                               !.phase = "done", !.res = "UnknownStream"]
       ELSE IF ~IsWebTransport(kind)
         THEN ar' = [ar EXCEPT !.fut = r.fut, !.pos = @ + r.used, !.kind = kind,
                               !.phase = "done", !.res = "Ok",
                               !.hdr = NewHeader(kind, NoSession)]
       ELSE \E k2 \in 0 .. Len(rest) :
              ar' = AfterSessionId(PollGetVarint(NewGetVarint, rest, eof, k2),
                                   kind, ar.pos + r.used)

AsyncPoll ==
  /\ AsyncPollOn(SubSeq(sent, ar.pos + 1, recv), Eof)
  /\ UNCHANGED <<msg, sent, recv, sr>>

(***************************************************************************)
(* The task drops the pending read_async future (a timeout firing in a     *)
(* select) after it has taken some header bytes, and calls read_async     *)
(* again on the same source.  The dropped GetVarint scratch bytes are      *)
(* gone, the source is not rewound (spec.md section 5), so the new future  *)
(* starts at the source's current position.  Each cancellation follows    *)
(* progress, which bounds their number by the stream's length.            *)
(***************************************************************************)
CancelAndRetry ==
  /\ Cancellable
  /\ ar.res = Pending
  /\ ar.pos > ar.start
  /\ ar' = NewReadAsync(ar.pos)
  /\ UNCHANGED <<msg, sent, recv, sr>>

Next ==
  \/ CancelAndRetry
  \/ Deliver
  \/ SyncReadHeader
  \/ SyncReadPayload
  \/ AsyncPoll

(***************************************************************************)
(* The transport eventually delivers what the peer sent (QUIC retransmits  *)
(* lost packets); the receiver's loop retries after each delivery; the     *)
(* executor polls the read_async task whenever the source wakes it.        *)
(***************************************************************************)
Fairness ==
  /\ WF_vars(Deliver)
  /\ WF_vars(SyncReadHeader)
  /\ WF_vars(SyncReadPayload)
  /\ WF_vars(AsyncPoll)

Spec == Init /\ [][Next]_vars /\ Fairness

-----------------------------------------------------------------------------
(* Value of the peer's i-th varint, NoSession past the end.                *)
ValueAt(i) == IF i <= Len(msg) THEN msg[i].v ELSE NoSession

(* Wire length of the peer's first i varints.                              *)
HeaderBytes(i) == Len(Content(SubSeq(msg, 1, i)))

(* How many varints a header of this kind occupies.                        *)
HeaderVarints(kind) == IF IsWebTransport(kind) THEN 2 ELSE 1

(* read_async reports "not enough bytes" as IoError::Closed.               *)
AsyncVerdict(res) == IF res = "Closed" THEN "None" ELSE res

TypeOK ==
  /\ msg \in PeerMessages
  /\ sent \in Seq(Byte)
  /\ recv \in 0 .. Len(sent)
  /\ sr.res \in {Pending, "None", "Ok", "UnknownStream", "InvalidSessionId"}
  /\ sr.off \in 0 .. recv
  /\ sr.pay \in {PayPending, PayNone} \cup Nat
  /\ ar.phase \in {"kind", "sid", "done"}
  /\ ar.res \in {Pending, "Closed", "Ok", "UnknownStream", "InvalidSessionId"}
  /\ ar.pos \in 0 .. recv
  /\ ar.start \in 0 .. ar.pos
  /\ ar.fut.off \in 0 .. 8
  /\ Len(ar.fut.buf) = ar.fut.off

(***************************************************************************)
(* The synchronous receiver decodes the peer's varints in order although   *)
(* it calls read_from_buffer again after every partial delivery: an Ok     *)
(* header carries the peer's discriminant (and, for WebTransport, its      *)
(* session id), and the payload varint get_varint reads next is the        *)
(* peer's next varint.  A failed call that moved the reader would make the *)
(* retry start mid-header.                                                 *)
(***************************************************************************)
SyncDecodesPeer ==
  /\ sr.res = "Ok" =>
       /\ KindId(sr.hdr.kind) = ValueAt(1)
       /\ IsWebTransport(sr.hdr.kind) => sr.hdr.sid = ValueAt(2)
  /\ sr.pay \in Nat => sr.pay = ValueAt(HeaderVarints(sr.hdr.kind) + 1)

(***************************************************************************)
(* read_async takes exactly the header's bytes from the source: once it    *)
(* has a verdict on the content (Ok, UnknownStream, InvalidSessionId), the *)
(* GetVarint futures have read the discriminant, and the session id if the *)
(* kind is WebTransport, and not one byte more, however the bytes were     *)
(* split across poll_read calls and polls.                                 *)
(***************************************************************************)
AsyncStopsAtHeader ==
  ar.res \in {"Ok", "UnknownStream", "InvalidSessionId"} =>
    ar.pos = HeaderBytes(HeaderVarints(ar.kind))

(***************************************************************************)
(* The reading entry points agree (spec.md 4.4): read_from_buffer retried  *)
(* on partial data, read_async, and StreamHeader::read over the complete   *)
(* stream give the same verdict and header; None on the synchronous paths *)
(* is IoError::Closed on the asynchronous one.                             *)
(***************************************************************************)
EntryPointsAgree ==
  (sr.res # Pending /\ ar.res # Pending) =>
    LET raw == Read(sent, 0) IN
    /\ sr.res = raw.res
    /\ sr.hdr = raw.hdr
    /\ AsyncVerdict(ar.res) = raw.res
    /\ ar.hdr = raw.hdr

(***************************************************************************)
(* The asynchronous receiver implements AsyncHeaderRead: read_async only   *)
(* takes bytes of the header that starts where it was called, however the  *)
(* bytes are split across poll_read calls and polls, then gives the        *)
(* verdict StreamHeader::read gives from that position and keeps it.  A    *)
(* read_async dropped mid-header and called again (CancelAndRetry) reads   *)
(* on from where the source stands: the dropped GetVarint's scratch bytes  *)
(* are neither re-read nor reused (spec.md section 5).                     *)
(***************************************************************************)
Abs == INSTANCE AsyncHeaderRead
         WITH stream <- sent, start <- ar.start, pos <- ar.pos,
              res <- ar.res, hdr <- ar.hdr

ImplementsAsyncHeaderRead == Abs!Spec

(***************************************************************************)
(* spec.md section 6 and its glossary: a discriminant matching the         *)
(* exercise (greasing) rule is "always rejected as unknown by this core".  *)
(* Stated of the synchronous receiver: it never obtains an Ok header of    *)
(* kind Exercise.  StreamKind::parse maps such ids to StreamKind::Exercise. *)
(***************************************************************************)
ExerciseRejected ==
  sr.res = "Ok" => sr.hdr.kind.tag # "Exercise"

(***************************************************************************)
(* Every read finishes: with the stream delivered, both receivers reach a  *)
(* verdict and, after an Ok header, the synchronous receiver a payload     *)
(* outcome; no GetVarint future waits forever at end of stream.            *)
(***************************************************************************)
Terminates ==
  <>(/\ sr.res # Pending
     /\ ar.res # Pending
     /\ sr.res = "Ok" => sr.pay # PayPending)

=============================================================================
