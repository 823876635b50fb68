----------------------------- MODULE BufferCursor -----------------------------
(***************************************************************************)
(* BufferReader and BufferReaderChild (src/wtransport-proto/src/bytes.rs)  *)
(* driven by an owner that may call any of their operations in any order.  *)
(* rd is the stack of live readers: rd[1] is the BufferReader the owner    *)
(* created, rd[i+1] a child of rd[i].  A child mutably borrows its parent, *)
(* so only the innermost reader, rd[Len(rd)], can be used; a child is      *)
(* itself a BufferReader (Deref) and can have children.                    *)
(*                                                                          *)
(* Each reader is [base, off, log]: it reads buf from base + 1, its offset *)
(* is off, and log (a history variable) holds the bytes its successful     *)
(* reads handed to the owner, with what committed children handed over.    *)
(***************************************************************************)
EXTENDS StreamHeader

CONSTANTS
  Buffers,   \* the slices BufferReader::new may be given
  MaxLen,    \* largest len passed to get_bytes and skip
  MaxDepth   \* most readers alive at once (the root and its descendants)

VARIABLES
  buf,       \* the slice under the root reader
  rd,        \* the stack of live readers
  panicked   \* an expect() in the code has fired

vars == <<buf, rd, panicked>>

Top == Len(rd)

(* The bytes reader i was created over: BufferReader::buffer().            *)
Slice(i) == SubSeq(buf, rd[i].base + 1, Len(buf))

(* BufferReader::capacity.                                                 *)
Capacity(i) == Len(Slice(i)) - rd[i].off

(* Reader i after a read that moved it to off: the passed bytes go to log. *)
Advanced(i, off) ==
  [rd[i] EXCEPT !.off = off,
                !.log = @ \o SubSeq(Slice(i), rd[i].off + 1, off)]

-----------------------------------------------------------------------------
(* BufferReader::new over one of the slices.                               *)
Init ==
  /\ buf \in Buffers
  /\ rd = << [base |-> 0, off |-> 0, log |-> <<>>] >>
  /\ panicked = FALSE

(* BytesReader::get_varint on the innermost reader; None leaves it as is.  *)
ReadVarint ==
  /\ ~panicked
  /\ LET g == GetVarint(Slice(Top), rd[Top].off) IN
       rd' = IF g.ok THEN [rd EXCEPT ![Top] = Advanced(Top, g.off)] ELSE rd
  /\ UNCHANGED <<buf, panicked>>

(* BytesReader::get_bytes(len): octets get_bytes fails if capacity < len.  *)
ReadBytes ==
  /\ ~panicked
  /\ \E len \in 0 .. MaxLen :
       rd' = IF Capacity(Top) < len THEN rd
             ELSE [rd EXCEPT ![Top] = Advanced(Top, rd[Top].off + len)]
  /\ UNCHANGED <<buf, panicked>>

(* Mutant: skip without the capacity check.                               *)
SkipUnchecked ==
  /\ ~panicked
  /\ \E len \in 0 .. MaxLen : rd' = [rd EXCEPT ![Top].off = @ + len]
  /\ UNCHANGED <<buf, panicked>>

(* BufferReader::skip(len): Err(EndOfBuffer) and no move if capacity < len. *)
(* The skipped bytes are passed to the owner like read ones.               *)
Skip ==
  /\ ~panicked
  /\ \E len \in 0 .. MaxLen :
       rd' = IF Capacity(Top) < len THEN rd
             ELSE [rd EXCEPT ![Top] = Advanced(Top, rd[Top].off + len)]
  /\ UNCHANGED <<buf, panicked>>

(* Mutant: the child over parent.buffer(), the whole of the parent's slice. *)
ChildOverWholeBuffer ==
  /\ ~panicked
  /\ Top < MaxDepth
  /\ rd' = Append(rd, [base |-> rd[Top].base, off |-> 0, log |-> <<>>])
  /\ UNCHANGED <<buf, panicked>>

(* BufferReader::child / BufferReaderChild::with_parent: a new reader over *)
(* parent.buffer_remaining(), at offset 0.                                 *)
Child ==
  /\ ~panicked
  /\ Top < MaxDepth
  /\ rd' = Append(rd, [base |-> rd[Top].base + rd[Top].off, off |-> 0, log |-> <<>>])
  /\ UNCHANGED <<buf, panicked>>

(* BufferReaderChild::commit: parent.skip(child.offset()).expect(..); the  *)
(* parent is handed what the child read.                                   *)
Commit ==
  /\ ~panicked
  /\ Top > 1
  /\ LET p == Top - 1 IN
     IF Capacity(p) < rd[Top].off
       THEN /\ panicked' = TRUE
            /\ UNCHANGED rd
       ELSE /\ rd' = [SubSeq(rd, 1, p) EXCEPT ![p].off = @ + rd[Top].off,
                                              ![p].log = @ \o rd[Top].log]
            /\ UNCHANGED panicked
  /\ UNCHANGED buf

(* Dropping a BufferReaderChild without commit.                            *)
Drop ==
  /\ ~panicked
  /\ Top > 1
  /\ rd' = SubSeq(rd, 1, Top - 1)
  /\ UNCHANGED <<buf, panicked>>

(* StreamHeader::read_from_buffer on the innermost reader: on Ok the      *)
(* owner is handed the header's bytes; on None or Err nothing.             *)
ReadHeader ==
  /\ ~panicked
  /\ LET r == ReadFromBuffer(Slice(Top), rd[Top].off) IN
       rd' = [rd EXCEPT ![Top].off = r.off,
                        ![Top].log = @ \o (IF r.res = "Ok"
                                            THEN SubSeq(Slice(Top), rd[Top].off + 1, r.off)
                                            ELSE <<>>)]
  /\ UNCHANGED <<buf, panicked>>

Next ==
  \/ ReadVarint
  \/ ReadBytes
  \/ Skip
  \/ Child
  \/ Commit
  \/ Drop
  \/ ReadHeader

Spec == Init /\ [][Next]_vars

-----------------------------------------------------------------------------
TypeOK ==
  /\ buf \in Buffers
  /\ rd \in Seq([base : 0 .. Len(buf), off : 0 .. Len(buf), log : Seq(Byte)])
  /\ Len(rd) \in 1 .. MaxDepth
  /\ panicked \in BOOLEAN

(***************************************************************************)
(* BufferReaderChild::commit never panics: "Child offset is bounded to     *)
(* parent" holds for every child at every depth, whatever its owner read,  *)
(* skipped, committed or dropped before.                                   *)
(***************************************************************************)
CommitNeverPanics == ~panicked

(***************************************************************************)
(* The root BufferReader implements AtomicReader: its offset only moves    *)
(* forward, and by exactly the bytes handed to its owner, in order; a      *)
(* child's reads reach it only through commit, all at once, and a dropped  *)
(* child leaves no trace.                                                  *)
(***************************************************************************)
Abs == INSTANCE AtomicReader WITH pos <- rd[1].off, consumed <- rd[1].log

ImplementsAtomicReader == Abs!Spec

=============================================================================
