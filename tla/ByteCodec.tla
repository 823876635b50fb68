----------------------------- MODULE ByteCodec -----------------------------
(***************************************************************************)
(* The two BytesWriter implementations of wtransport-proto (bytes.rs): a   *)
(* BufferWriter over a slice of fixed capacity and a growable Vec<u8>, and *)
(* the two BytesReader implementations: a BufferReader and a plain &[u8]   *)
(* that shrinks as it is read.  The same calls are made on both writers;   *)
(* once writing stops, both readers are set over buffer_written() and are  *)
(* given the same calls.  The properties say the writers and the readers  *)
(* of each pair agree on every sequence of calls.                          *)
(***************************************************************************)
EXTENDS StreamHeader

LOCAL Ext == INSTANCE SequencesExt

CONSTANTS
  Values,     \* varints handed to put_varint
  Blobs,      \* byte strings handed to put_bytes
  Capacity,   \* the length of the slice under the BufferWriter
  ReadLens,   \* lengths handed to get_bytes
  MaxCalls    \* bound on the number of put calls

VARIABLES
  bw,        \* the BufferWriter: capacity and buffer_written()
  vec,       \* the Vec<u8>
  log,       \* history: each put call's encoded bytes and its BufferWriter result
  panicked,  \* an expect fired
  reading,   \* writing has stopped and the readers are set up
  sl,        \* the &[u8] reader: the bytes it still holds
  br,        \* the BufferReader's offset into buffer_written()
  last       \* the results of the last read on each reader

vars == <<bw, vec, log, panicked, reading, sl, br, last>>

(* A read result; a varint is returned as a one-element sequence.          *)
None == [ok |-> FALSE, val |-> <<>>]
Some(val) == [ok |-> TRUE, val |-> val]

(* BytesWriter for Vec<u8>::put_varint: resize by varint.size() zeroes,    *)
(* then put_varint into a BufferWriter over the new tail, expecting Ok.    *)
VecPutVarint(vc, v) ==
  LET r == PutVarintInto([cap |-> Size(v), written |-> <<>>], v)
  IN  [ok  |-> r.ok,
       vec |-> IF r.ok THEN vc \o r.bw.written
                       ELSE vc \o [i \in 1 .. Size(v) |-> 0]]

(* BytesWriter for Vec<u8>::put_bytes: extend_from_slice, always Ok.       *)
VecPutBytes(vc, b) == vc \o b

(* Mutant: bytes that do not fit are copied up to the capacity before Err. *)
PutBytesPartial(w, b) ==
  LET room == w.cap - Len(w.written) IN
  IF room < Len(b)
  THEN [ok |-> FALSE, bw |-> [w EXCEPT !.written = @ \o SubSeq(b, 1, room)]]
  ELSE [ok |-> TRUE, bw |-> [w EXCEPT !.written = @ \o b]]

(* BufferWriter::put_bytes (octets put_bytes): Err without writing when    *)
(* the remaining capacity is short, else copy and advance.                 *)
PutBytesInto(w, b) ==
  IF w.cap - Len(w.written) < Len(b) THEN [ok |-> FALSE, bw |-> w]
  ELSE [ok |-> TRUE, bw |-> [w EXCEPT !.written = @ \o b]]

(* BytesReader for &[u8]::get_varint: the size comes from the first byte;  *)
(* None if the slice is empty or shorter than the size; the varint is     *)
(* decoded by a BufferReader over exactly those bytes, with an expect.     *)
SliceGetVarint(s) ==
  IF s = <<>> THEN [res |-> None, rest |-> s, panics |-> FALSE]
  ELSE LET size == ParseSize(s[1]) IN
       IF Len(s) < size THEN [res |-> None, rest |-> s, panics |-> FALSE]
       ELSE LET g == GetVarint(SubSeq(s, 1, size), 0) IN
            [res |-> Some(<<g.val>>), rest |-> SubSeq(s, size + 1, Len(s)),
             panics |-> ~g.ok]

(* Mutant: a short slice hands back what it has instead of None.           *)
SliceGetBytesShort(s, n) ==
  LET m == IF Len(s) < n THEN Len(s) ELSE n IN
  [res |-> Some(SubSeq(s, 1, m)), rest |-> SubSeq(s, m + 1, Len(s))]

(* BytesReader for &[u8]::get_bytes: self.get(..len)?, then shrink.        *)
SliceGetBytes(s, n) ==
  IF Len(s) < n THEN [res |-> None, rest |-> s]
  ELSE [res |-> Some(SubSeq(s, 1, n)), rest |-> SubSeq(s, n + 1, Len(s))]

(* Mutant: the offset moves by len before the capacity check.             *)
BufGetBytesAdvanceFirst(buf, off, n) ==
  IF Len(buf) - off < n THEN [res |-> None, off |-> off + n]
  ELSE [res |-> Some(SubSeq(buf, off + 1, off + n)), off |-> off + n]

(* BytesReader for BufferReader::get_bytes (octets get_bytes).             *)
BufGetBytes(buf, off, n) ==
  IF Len(buf) - off < n THEN [res |-> None, off |-> off]
  ELSE [res |-> Some(SubSeq(buf, off + 1, off + n)), off |-> off + n]

Init ==
  /\ bw = [cap |-> Capacity, written |-> <<>>]   \* BufferWriter::new
  /\ vec = <<>>
  /\ log = <<>>
  /\ panicked = FALSE
  /\ reading = FALSE
  /\ sl = <<>>
  /\ br = 0
  /\ last = [slice |-> None, buf |-> None]

Writable == ~reading /\ ~panicked /\ Len(log) < MaxCalls

(* put_varint(v) on both writers.                                          *)
PutVarint(v) ==
  /\ Writable
  /\ LET r == PutVarintInto(bw, v)
         x == VecPutVarint(vec, v)
     IN /\ bw' = r.bw
        /\ vec' = x.vec
        /\ panicked' = ~x.ok
        /\ log' = Append(log, [bytes |-> Encode(v), ok |-> r.ok])
  /\ UNCHANGED <<reading, sl, br, last>>

(* put_bytes(b) on both writers.                                           *)
PutBytes(b) ==
  /\ Writable
  /\ LET r == PutBytesInto(bw, b) IN
     /\ bw' = r.bw
     /\ vec' = VecPutBytes(vec, b)
     /\ log' = Append(log, [bytes |-> b, ok |-> r.ok])
  /\ UNCHANGED <<panicked, reading, sl, br, last>>

(* Both readers are set over buffer_written(): the &[u8] is the slice     *)
(* itself, the BufferReader is BufferReader::new over it.                  *)
StartRead ==
  /\ ~reading /\ ~panicked
  /\ reading' = TRUE
  /\ sl' = bw.written
  /\ br' = 0
  /\ UNCHANGED <<bw, vec, log, panicked, last>>

(* get_varint on both readers.                                             *)
ReadVarint ==
  /\ reading /\ ~panicked
  /\ LET s == SliceGetVarint(sl)
         b == GetVarint(bw.written, br)
     IN /\ sl' = s.rest
        /\ br' = b.off
        /\ panicked' = s.panics
        /\ last' = [slice |-> s.res,
                    buf |-> IF b.ok THEN Some(<<b.val>>) ELSE None]
  /\ UNCHANGED <<bw, vec, log, reading>>

(* get_bytes(n) on both readers.                                           *)
ReadBytes(n) ==
  /\ reading /\ ~panicked
  /\ LET s == SliceGetBytes(sl, n)
         b == BufGetBytes(bw.written, br, n)
     IN /\ sl' = s.rest
        /\ br' = b.off
        /\ last' = [slice |-> s.res, buf |-> b.res]
  /\ UNCHANGED <<bw, vec, log, panicked, reading>>

Next ==
  \/ \E v \in Values : PutVarint(v)
  \/ \E b \in Blobs : PutBytes(b)
  \/ StartRead
  \/ ReadVarint
  \/ \E n \in ReadLens : ReadBytes(n)

Spec == Init /\ [][Next]_vars

-----------------------------------------------------------------------------
Bytes == Seq(0 .. 255)
Result == [ok : BOOLEAN, val : Seq(Nat)]

TypeOK ==
  /\ bw \in [cap : {Capacity}, written : Bytes]
  /\ vec \in Bytes
  /\ log \in Seq([bytes : Bytes, ok : BOOLEAN])
  /\ panicked \in BOOLEAN
  /\ reading \in BOOLEAN
  /\ sl \in Bytes
  /\ br \in 0 .. Len(bw.written)
  /\ last \in [slice : Result, buf : Result]

(* The Vec writer never trips the expect of its put_varint and holds every *)
(* put's bytes in call order; the BufferWriter stays within its capacity   *)
(* and holds exactly the bytes of the puts that returned Ok, so a put that *)
(* returns EndOfBuffer leaves no byte behind.                              *)
WritersAgree ==
  /\ ~panicked
  /\ vec = Ext!FlattenSeq([i \in DOMAIN log |-> log[i].bytes])
  /\ LET okd == SelectSeq(log, LAMBDA e : e.ok) IN
     bw.written = Ext!FlattenSeq([i \in DOMAIN okd |-> okd[i].bytes])
  /\ Len(bw.written) <= Capacity

(* Over the same bytes, the &[u8] reader and the BufferReader return the   *)
(* same result for every call, None included, and the slice always holds   *)
(* exactly the bytes after the BufferReader's offset.                      *)
ReadersAgree ==
  reading =>
    /\ sl = SubSeq(bw.written, br + 1, Len(bw.written))
    /\ last.slice = last.buf

=============================================================================
