---------------------------- MODULE MCHeaderWrite ----------------------------
(***************************************************************************)
(* HeaderWrite for TLC.  Session ids 4 and 64 take one and two bytes, the  *)
(* WebTransport discriminant 84 two, so a header spans 1 to 4 bytes; the   *)
(* Exercise id 64 checks that a greasing header also round-trips.  The     *)
(* capacities 2 and 4 fall below and at the largest write_size.  The       *)
(* payloads are empty (a get_buffer and put_buffer of nothing) and two     *)
(* bytes (split across reads and writes).                                  *)
(***************************************************************************)
EXTENDS HeaderWrite

MCValidSessionIds == {4, 64}

MCHeaders ==
  { NewHeader([tag |-> "Control"], NoSession),
    NewHeader([tag |-> "Exercise", id |-> 64], NoSession),
    NewHeader([tag |-> "WebTransport"], 4),
    NewHeader([tag |-> "WebTransport"], 64) }

MCPayloads == {<<>>, <<7, 9>>}

MCCapacities == {2, 4}

=============================================================================
