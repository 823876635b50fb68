------------------------------ MODULE HeaderWrite ------------------------------
(***************************************************************************)
(* A stream header and a payload sent and received end to end.  The        *)
(* sending task writes a header, then a payload as its length varint       *)
(* (put_varint) and its bytes (put_buffer), to the stream's AsyncWrite     *)
(* sink.  The header is written in one of the two ways the crate offers:   *)
(*                                                                          *)
(*  - "async":  StreamHeader::write_async (a PutVarint future for the      *)
(*              discriminant, one for the session id of a WebTransport     *)
(*              header);                                                   *)
(*  - "buffer": StreamHeader::write_to_buffer into a BufferWriter over a   *)
(*              fixed slice of w.cap bytes, then                           *)
(*              put_buffer(buffer_written()).                              *)
(*                                                                          *)
(* The sink accepts any non-empty part of what a poll_write offers, fails  *)
(* (IoError), or, where SinkWritesZero, answers Ok(0) from then on.        *)
(* Whatever the outcome, a task that returns drops the stream, which       *)
(* finishes it (FIN).  The transport delivers the bytes in arbitrary       *)
(* chunks to the receiving task, which awaits StreamHeader::read_async,    *)
(* then get_varint for the length and get_buffer for the bytes.            *)
(***************************************************************************)
EXTENDS StreamHeader

CONSTANTS
  Headers,        \* the headers the sender may write
  Payloads,       \* the byte strings it may send after them
  Capacities,     \* the sizes of the BufferWriter slices
  SinkWritesZero  \* whether the sink may answer Ok(0) to a non-empty write

ASSUME SinkWritesZero \in BOOLEAN

VARIABLES
  hdr,       \* the header being sent
  data,      \* the payload bytes sent after it
  w,         \* the sending task: mode, capacity, stage, current future, result
  bufw,      \* the BufferWriter of the "buffer" mode: [cap, written]
  panicked,  \* an expect() of write_to_buffer has fired
  wire,      \* the bytes the sink has accepted, in order
  fin,       \* the stream has been finished
  recv,      \* how many bytes of wire the transport has delivered
  ar,        \* read_async and its current GetVarint (as in HeaderRead)
  rp         \* the receiver's payload read: get_varint, then get_buffer

vars == <<hdr, data, w, bufw, panicked, wire, fin, recv, ar, rp>>

R == INSTANCE HeaderRead
       WITH PeerMessages <- {}, msg <- <<>>, sent <- wire, sr <- <<>>,
            Cancellable <- FALSE

Pending == R!Pending

(* The source's poll_read returns 0: FIN is in and every byte was read.    *)
Eof == fin /\ recv = Len(wire)

(* The stages at which the task awaits a PutVarint or PutBuffer.          *)
Writing == {"kind", "sid", "buf", "len", "data"}

(* Results of a task that gave up on the stream.                          *)
Failed == {"IoError", "EndOfBuffer", "Panic"}

(***************************************************************************)
(* PutVarint::new pre-encodes the value with a BufferWriter over an 8-byte *)
(* scratch buffer; PutBuffer::new borrows the bytes.  Either future is     *)
(* then the bytes it must write and its offset in them.                    *)
(***************************************************************************)
NewPutVarint(v) == [bytes |-> Encode(v), off |-> 0]

NewPutBuffer(b) == [bytes |-> b, off |-> 0]

NoFuture == NewPutBuffer(<<>>)

(* The future the task awaits at each stage.                               *)
FutureFor(stage) ==
  CASE stage = "kind" -> NewPutVarint(KindId(hdr.kind))
    [] stage = "sid"  -> NewPutVarint(SessionIdOf(hdr))
    [] stage = "buf"  -> NewPutBuffer(bufw.written)
    [] stage = "len"  -> NewPutVarint(Len(data))
    [] stage = "data" -> NewPutBuffer(data)
    [] OTHER          -> NoFuture

(***************************************************************************)
(* What the task awaits after the future of stage completes.  An empty     *)
(* put_buffer is Ready at its first poll (its loop does not run), so the   *)
(* task passes over it within the same poll.                               *)
(***************************************************************************)
NextStage(stage) ==
  CASE stage = "kind" -> IF IsWebTransport(hdr.kind) THEN "sid" ELSE "len"
    [] stage = "sid"  -> "len"
    [] stage = "buf"  -> "len"
    [] stage = "len"  -> IF data = <<>> THEN "done" ELSE "data"
    [] stage = "data" -> "done"

(***************************************************************************)
(* PutVarint::poll and PutBuffer::poll: each poll_write offers             *)
(* bytes[offset..] and the sink answers how many it took, n > 0 by the     *)
(* AsyncWrite contract; offset grows by n and the loop ends at offset =    *)
(* size.                                                                   *)
(***************************************************************************)
Accepts(f) == 1 .. (Len(f.bytes) - f.off)

(* Mutant: the loop runs while offset + 1 < size.                          *)
CompleteEarly(f) == f.off + 1 >= Len(f.bytes)

Complete(f) == f.off >= Len(f.bytes)

(* GetBuffer::new over a buffer of len bytes.                              *)
NewGetBuffer(len) == [off |-> 0, len |-> len, buf |-> <<>>]

(***************************************************************************)
(* GetBuffer::poll, with the source handing over k of the avail bytes and  *)
(* then answering Pending, or 0 at eof: the loop runs while offset < len,  *)
(* so an empty buffer is Ready without reading; a zero read is Closed.     *)
(***************************************************************************)
(* Mutant: the loop reads before testing offset < len (a do-while), so an  *)
(* empty buffer asks the source for 0 bytes, gets 0, and reports Closed.   *)
PollGetBufferDoWhile(f, avail, eof, k) ==
  LET m == IF k <= f.len - f.off THEN k ELSE f.len - f.off
      g == [f EXCEPT !.off = @ + m, !.buf = @ \o SubSeq(avail, 1, m)]
  IN [fut |-> g, used |-> m,
      out |-> IF f.len = 0 THEN "Closed"
              ELSE IF g.off = g.len THEN "Ready"
              ELSE IF m = Len(avail) /\ eof THEN "Closed" ELSE Pending]

PollGetBuffer(f, avail, eof, k) ==
  LET m == IF k <= f.len - f.off THEN k ELSE f.len - f.off
      g == [f EXCEPT !.off = @ + m, !.buf = @ \o SubSeq(avail, 1, m)]
  IN [fut |-> g, used |-> m,
      out |-> IF g.off = g.len THEN "Ready"
              ELSE IF m = Len(avail) /\ eof THEN "Closed" ELSE Pending]

-----------------------------------------------------------------------------
Init ==
  /\ hdr \in Headers
  /\ data \in Payloads
  /\ \/ w = [mode |-> "async", cap |-> 0, stage |-> "kind",
             fut |-> NewPutVarint(KindId(hdr.kind)), res |-> Pending]
     \/ \E c \in Capacities :
          w = [mode |-> "buffer", cap |-> c, stage |-> "encode",
               fut |-> NoFuture, res |-> Pending]
  /\ bufw = [cap |-> w.cap, written |-> <<>>]
  /\ panicked = FALSE
  /\ wire = <<>>
  /\ fin = FALSE
  /\ recv = 0
  /\ ar = R!NewReadAsync(0)
  /\ rp = [phase |-> "len", fut |-> R!NewGetVarint, gb |-> NewGetBuffer(0),
           pos |-> 0, res |-> Pending]

(***************************************************************************)
(* "buffer" mode: StreamHeader::write_to_buffer.  On Err(EndOfBuffer) the  *)
(* task gives up; on Ok it awaits put_buffer(buffer_written()).            *)
(***************************************************************************)
EncodeHeader ==
  /\ w.stage = "encode"
  /\ LET r == WriteToBuffer(hdr, bufw) IN
     /\ bufw' = r.bw
     /\ panicked' = r.panic
     /\ w' = IF r.res = "Ok"
               THEN [w EXCEPT !.stage = "buf", !.fut = NewPutBuffer(r.bw.written)]
               ELSE [w EXCEPT !.stage = "done", !.res = "EndOfBuffer"]
  /\ UNCHANGED <<hdr, data, wire, fin, recv, ar, rp>>

(***************************************************************************)
(* One poll_write call of the future the task awaits, answered Ok(n).      *)
(* When the future completes the task creates the next one.  A Pending     *)
(* answer changes nothing and is not a step.                               *)
(***************************************************************************)
WriteCall ==
  /\ w.stage \in Writing
  /\ \E n \in Accepts(w.fut) :
       LET f == [w.fut EXCEPT !.off = @ + n] IN
       /\ wire' = wire \o SubSeq(w.fut.bytes, w.fut.off + 1, f.off)
       /\ w' = IF ~Complete(f) THEN [w EXCEPT !.fut = f]
               ELSE IF NextStage(w.stage) = "done"
                 THEN [w EXCEPT !.stage = "done", !.fut = f, !.res = "Ok"]
               ELSE [w EXCEPT !.stage = NextStage(w.stage),
                              !.fut = FutureFor(NextStage(w.stage))]
  /\ UNCHANGED <<hdr, data, bufw, panicked, fin, recv, ar, rp>>

(* poll_write returns Err: the future returns it (IoError::from) and the  *)
(* task stops writing.                                                     *)
WriteFails ==
  /\ w.stage \in Writing
  /\ w' = [w EXCEPT !.stage = "done", !.res = "IoError"]
  /\ UNCHANGED <<hdr, data, bufw, panicked, wire, fin, recv, ar, rp>>

(***************************************************************************)
(* poll_write returns Ok(0), and keeps doing so.  debug_assert!(written >  *)
(* 0) panics in a debug build, which ends the task; in a release build the *)
(* loop adds 0 to offset and calls poll_write again, forever, within the   *)
(* same poll: the task never returns and never drops its stream.           *)
(***************************************************************************)
WriteZero ==
  /\ SinkWritesZero
  /\ w.stage \in Writing
  /\ \/ w' = [w EXCEPT !.stage = "done", !.res = "Panic"]
     \/ w' = [w EXCEPT !.stage = "spin"]
  /\ UNCHANGED <<hdr, data, bufw, panicked, wire, fin, recv, ar, rp>>

(* The task is done with the stream and drops it, which finishes it.       *)
Finish ==
  /\ w.stage = "done"
  /\ ~fin
  /\ fin' = TRUE
  /\ UNCHANGED <<hdr, data, w, bufw, panicked, wire, recv, ar, rp>>

(* The transport makes the next chunk of the accepted bytes readable.      *)
Deliver ==
  /\ recv < Len(wire)
  /\ \E k \in 1 .. (Len(wire) - recv) : recv' = recv + k
  /\ UNCHANGED <<hdr, data, w, bufw, panicked, wire, fin, ar, rp>>

(* One poll of the receiver's read_async future.                           *)
ReadHeaderPoll ==
  /\ R!AsyncPollOn(SubSeq(wire, ar.pos + 1, recv), Eof)
  /\ UNCHANGED <<hdr, data, w, bufw, panicked, wire, fin, recv, rp>>

(* The bytes the source holds for the payload read.                        *)
PayloadAvail == SubSeq(wire, ar.pos + rp.pos + 1, recv)

(***************************************************************************)
(* After an Ok header, one poll of get_varint for the payload length; when *)
(* it is Ready the task creates get_buffer over a buffer of that length.   *)
(***************************************************************************)
ReadLengthPoll ==
  /\ ar.res = "Ok"
  /\ rp.phase = "len"
  /\ \E k \in 0 .. Len(PayloadAvail) :
       LET r == R!PollGetVarint(rp.fut, PayloadAvail, Eof, k) IN
       rp' = CASE r.out = "Ready" ->
                    [rp EXCEPT !.fut = r.fut, !.pos = @ + r.used, !.phase = "data",
                               !.gb = NewGetBuffer(Decode(r.fut.buf))]
               [] r.out = "Closed" ->
                    [rp EXCEPT !.fut = r.fut, !.pos = @ + r.used, !.phase = "done",
                               !.res = "Closed"]
               [] OTHER -> [rp EXCEPT !.fut = r.fut, !.pos = @ + r.used]
  /\ UNCHANGED <<hdr, data, w, bufw, panicked, wire, fin, recv, ar>>

(* One poll of get_buffer for the payload bytes.                           *)
ReadDataPoll ==
  /\ rp.phase = "data"
  /\ \E k \in 0 .. Len(PayloadAvail) :
       LET r == PollGetBuffer(rp.gb, PayloadAvail, Eof, k) IN
       rp' = [rp EXCEPT !.gb = r.fut, !.pos = @ + r.used,
                        !.phase = IF r.out = Pending THEN "data" ELSE "done",
                        !.res = IF r.out = "Ready" THEN "Ok" ELSE r.out]
  /\ UNCHANGED <<hdr, data, w, bufw, panicked, wire, fin, recv, ar>>

Next ==
  \/ EncodeHeader
  \/ WriteCall
  \/ WriteFails
  \/ WriteZero
  \/ Finish
  \/ Deliver
  \/ ReadHeaderPoll
  \/ ReadLengthPoll
  \/ ReadDataPoll

(***************************************************************************)
(* The sink eventually takes what it is offered (flow control credit is    *)
(* granted as the receiver reads), the task that is done drops its stream, *)
(* the transport delivers, and the executor polls a woken task.  A sink    *)
(* error or zero write is possible but never forced: WriteFails and        *)
(* WriteZero have no fairness.                                             *)
(***************************************************************************)
Fairness ==
  /\ WF_vars(EncodeHeader)
  /\ WF_vars(WriteCall)
  /\ WF_vars(Finish)
  /\ WF_vars(Deliver)
  /\ WF_vars(ReadHeaderPoll)
  /\ WF_vars(ReadLengthPoll)
  /\ WF_vars(ReadDataPoll)

Spec == Init /\ [][Next]_vars /\ Fairness

-----------------------------------------------------------------------------
(* The bytes the task writes: the header as StreamHeader::write lays it    *)
(* out, then the payload's length varint and its bytes.                    *)
Stream == Write(hdr) \o Encode(Len(data)) \o data

TypeOK ==
  /\ hdr \in Headers
  /\ data \in Payloads
  /\ w.mode \in {"async", "buffer"}
  /\ w.stage \in {"encode", "done", "spin"} \cup Writing
  /\ w.res \in {Pending, "Ok"} \cup Failed
  /\ w.fut.off \in 0 .. Len(w.fut.bytes)
  /\ bufw.written \in Seq(Byte)
  /\ panicked \in BOOLEAN
  /\ wire \in Seq(Byte)
  /\ fin \in BOOLEAN
  /\ recv \in 0 .. Len(wire)
  /\ ar.res \in {Pending, "Closed", "Ok", "UnknownStream", "InvalidSessionId"}
  /\ ar.pos \in 0 .. recv
  /\ Len(ar.fut.buf) = ar.fut.off
  /\ rp.phase \in {"len", "data", "done"}
  /\ rp.res \in {Pending, "Closed", "Ok"}
  /\ ar.pos + rp.pos \in 0 .. recv
  /\ rp.gb.off \in 0 .. rp.gb.len
  /\ Len(rp.gb.buf) = rp.gb.off

(***************************************************************************)
(* write_to_buffer is all or nothing, as its doc comment says ("In case    *)
(* Err, buffer_writer is not advanced"): its capacity check before         *)
(* write() makes the expect("Enough capacity for header") unreachable, and *)
(* an EndOfBuffer leaves nothing in the BufferWriter, whatever the header  *)
(* and the capacity.                                                       *)
(***************************************************************************)
WriteToBufferAtomic ==
  /\ ~panicked
  /\ w.res = "EndOfBuffer" => bufw.written = <<>>

(***************************************************************************)
(* A header and its payload survive the round trip (spec.md 8): whichever  *)
(* way the header was written and however the sink and the transport split *)
(* the bytes, the sink has taken a prefix of them in order; read_async     *)
(* never calls a header the sender wrote unknown or its session id         *)
(* invalid; an Ok header equals the one written and took exactly           *)
(* write_size() bytes; get_varint and get_buffer then return exactly the   *)
(* payload, an empty one included; and a read fails only if the sender     *)
(* gave up.                                                                 *)
(***************************************************************************)
RoundTrip ==
  /\ wire = SubSeq(Stream, 1, Len(wire))
  /\ ar.res \in {Pending, "Closed", "Ok"}
  /\ ar.res = "Ok" => ar.hdr = hdr /\ ar.pos = WriteSize(hdr)
  /\ rp.res = "Ok" => rp.gb.buf = data
  /\ (ar.res = "Closed" \/ rp.res = "Closed") => w.res \in Failed

(***************************************************************************)
(* Every receive concludes, and a payload the sender wrote in full reaches *)
(* the receiver: no PutVarint or PutBuffer loop and no GetVarint or        *)
(* GetBuffer future stalls while the sink keeps taking bytes.              *)
(***************************************************************************)
Delivered ==
  /\ <>(ar.res = "Closed" \/ rp.res # Pending)
  /\ (w.res = "Ok") ~> (rp.res = "Ok")

=============================================================================
