--------------------------- MODULE AsyncHeaderRead ---------------------------
(***************************************************************************)
(* What StreamHeader::read_async promises its caller over a stream         *)
(* (spec.md 4.3, 4.4 and 5).  It takes bytes from the source only forward, *)
(* and never past the end of the header that starts where it was called,   *)
(* however the bytes arrive.  It then gives one verdict and keeps it: the  *)
(* verdict StreamHeader::read gives over the whole stream from that        *)
(* position, with Closed for a stream that ends before a header.  A caller *)
(* may drop a read that has taken bytes and call read_async again; the new *)
(* read starts where the source stands.                                    *)
(***************************************************************************)
EXTENDS StreamHeader

VARIABLES
  stream,  \* every byte the peer sends before FIN
  start,   \* where the current read_async call began
  pos,     \* how many bytes have been taken from the source
  res,     \* the verdict, Pending until there is one
  hdr      \* the header of an Ok verdict

vars == <<stream, start, pos, res, hdr>>

Pending == "Pending"

(* StreamHeader::read over the stream from where the call began.           *)
Raw == Read(stream, start)

(* The verdict due, and where the source stands after it.                  *)
Verdict == IF Raw.res = "None" THEN "Closed" ELSE Raw.res
End == IF Raw.res = "None" THEN Len(stream) ELSE Raw.off

Init ==
  /\ stream \in Seq(0 .. 255)
  /\ start = 0
  /\ pos = 0
  /\ res = Pending
  /\ hdr = NoHeader

(* Bytes are taken, but never past the end of the header.                  *)
Take ==
  /\ res = Pending
  /\ \E p \in (pos + 1) .. End : pos' = p
  /\ UNCHANGED <<stream, start, res, hdr>>

(* The read concludes, having taken exactly the header's bytes.            *)
Conclude ==
  /\ res = Pending
  /\ pos' = End
  /\ res' = Verdict
  /\ hdr' = Raw.hdr
  /\ UNCHANGED <<stream, start>>

(* The pending read is dropped after taking bytes and called again.        *)
Restart ==
  /\ res = Pending
  /\ pos > start
  /\ start' = pos
  /\ UNCHANGED <<stream, pos, res, hdr>>

Next == Take \/ Conclude \/ Restart

Spec == Init /\ [][Next]_vars

=============================================================================
