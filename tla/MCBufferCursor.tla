---------------------------- MODULE MCBufferCursor ----------------------------
(***************************************************************************)
(* Model of BufferCursor for TLC: slices holding the varint test vectors   *)
(* of bytes.rs and WebTransport headers that are complete, invalid,        *)
(* unknown and cut short.                                                  *)
(***************************************************************************)
EXTENDS BufferCursor

MCValidSessionIds == {0, 4}

MCBuffers ==
  { << \h25, \h7b, \hbd >>,           \* 37, then 15293
    << \h40, \h54, \h00, \h25 >>,   \* WebTransport, session 0, 37
    << \h40, \h54, \h01 >>,           \* WebTransport, session 1
    << \h40, \h42, \h25 >>,           \* 0x42: neither kind nor exercise
    << \h40, \h54, \h40 >> }          \* WebTransport, session id cut

(* The varint test vectors of bytes.rs that fit TLC's integers, and the    *)
(* minimal encoding of each.                                               *)
ASSUME Decode(<< \h25 >>) = 37 /\ Encode(37) = << \h25 >>
ASSUME Decode(<< \h7b, \hbd >>) = 15293 /\ Encode(15293) = << \h7b, \hbd >>
ASSUME Decode(<< \h9d, \h7f, \h3e, \h7d >>) = 494878333
ASSUME Encode(494878333) = << \h9d, \h7f, \h3e, \h7d >>

=============================================================================
