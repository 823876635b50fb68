----------------------------- MODULE MCHeaderRead -----------------------------
(***************************************************************************)
(* Model of HeaderRead for TLC.  The peer sends a discriminant, a second   *)
(* varint (a session id after WebTransport, payload otherwise) and one     *)
(* payload varint, and may close the stream after any prefix.              *)
(***************************************************************************)
EXTENDS HeaderRead

(* SessionId::try_from_varint accepts client-initiated bidirectional       *)
(* stream ids: 0 and 4 are valid, 1 is not.                                *)
MCValidSessionIds == {0, 4}

(* Control, QPackDecoder, an exercise id (0x21 + 0x1f), an id that is      *)
(* neither (0x42, as in the unknown_stream test), and WebTransport (0x54). *)
MCDiscriminants == {0, 3, 64, 66, 84}

(* Minimal and one longer (non-minimal) encoding.                          *)
MCLengths(v) == {Size(v), 2 * Size(v)}

MCPeerMessages ==
  UNION { { << [v |-> d, n |-> n1], [v |-> x, n |-> n2], [v |-> 5, n |-> 1] >> :
            n1 \in MCLengths(d), x \in {0, 1, 4}, n2 \in {1, 2} } :
          d \in MCDiscriminants }

=============================================================================
