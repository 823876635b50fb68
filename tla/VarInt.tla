------------------------------- MODULE VarInt -------------------------------
(***************************************************************************)
(* The QUIC variable-length integer codec the core consumes as an external *)
(* contract: wtransport_proto::varint::VarInt (parse_size, size) and the    *)
(* octets crate's get_varint/put_varint that BufferReader and BufferWriter  *)
(* call.  Neither is under src/; the operators follow spec.md section 3     *)
(* and section 6.                                                           *)
(*                                                                          *)
(* Bytes are integers in 0..255.  Values are naturals; TLC integers are     *)
(* 32-bit, so a model only uses values below 2^31 (VarInt::MAX = 2^62-1 is  *)
(* out of reach), which still exercises all four encoded sizes.             *)
(***************************************************************************)
EXTENDS Naturals, Sequences

Byte == 0 .. 255

(* The two most significant bits of the first byte, per encoded length.    *)
SizeCode(n) == CASE n = 1 -> 0 [] n = 2 -> 1 [] n = 4 -> 2 [] n = 8 -> 3

(* VarInt::parse_size: encoded length from the first byte, 1 << (b >> 6).  *)
ParseSize(first) == 2 ^ (first \div 64)

(* VarInt::size: the minimal encoded length of a value.                    *)
Size(v) ==
  IF v <= 63 THEN 1
  ELSE IF v <= 16383 THEN 2
  ELSE IF v <= 1073741823 THEN 4
  ELSE 8

(* The n low-order bytes of v, most significant first.                     *)
RECURSIVE BigEndian(_, _)
BigEndian(v, n) ==
  IF n = 0 THEN <<>> ELSE BigEndian(v \div 256, n - 1) \o <<v % 256>>

(* octets put_varint_with_len: v in n bytes, length tag in the top bits.   *)
(* n may exceed Size(v): a peer may send a non-minimal encoding.           *)
EncodeIn(v, n) ==
  LET be == BigEndian(v, n) IN [be EXCEPT ![1] = @ + 64 * SizeCode(n)]

(* octets put_varint: the minimal encoding, as every writer here emits.    *)
Encode(v) == EncodeIn(v, Size(v))

(* octets get_varint on exactly ParseSize(bytes[1]) bytes: clear the tag   *)
(* bits of the first byte and read the rest big-endian.                    *)
RECURSIVE DecodeFrom(_, _)
DecodeFrom(acc, s) ==
  IF s = <<>> THEN acc ELSE DecodeFrom(acc * 256 + Head(s), Tail(s))

Decode(bytes) == DecodeFrom(bytes[1] % 64, Tail(bytes))

=============================================================================
