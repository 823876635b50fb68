---------------------------- MODULE MCByteCodec ----------------------------
(***************************************************************************)
(* Model of ByteCodec for TLC.  Varints of one and two bytes; blobs that   *)
(* are empty, a lone 0x40 (the first byte of a two-byte varint, so a       *)
(* get_varint on it is cut short) and two bytes starting with 0x80 (a     *)
(* four-byte varint tag).  A capacity of 3 fills after two or three puts, *)
(* so puts fail both with some room left and with none.                   *)
(***************************************************************************)
EXTENDS ByteCodec

MCValidSessionIds == {0}
MCValues == {5, 300}
MCBlobs == {<<>>, << \h40 >>, << \h80, \h01 >>}
MCReadLens == {0, 1, 2}

=============================================================================
