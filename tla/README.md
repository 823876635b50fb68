# TLA+ models of wtransport-proto stream headers and byte cursors

This directory holds TLA+ models of the protocol core of `wtransport`
(`src/wtransport-proto`). Each module is checked with TLC. The core turns
the first bytes of an HTTP/3 unidirectional stream into a `StreamHeader`, and a
header back into bytes. It does this over in-memory buffers and over
asynchronous byte sources and sinks that deliver data piecewise.

## The system

| Part | Source | State | Operations |
|---|---|---|---|
| `BufferReader` | bytes.rs 81-154 | an offset into a borrowed slice | `new`, `get_varint`, `get_bytes`, `skip`, `child` |
| `BufferReaderChild` | bytes.rs 156-201 | its own reader over the parent's remaining bytes; a mutable borrow of the parent | reads through `Deref`, `commit` (parent `skip`s the child's offset, `expect`), drop |
| `BufferWriter`, `Vec<u8>` writer, `&[u8]` reader | bytes.rs 12-76, 204-250 | offset into a fixed slice / a growing vector | `put_varint`, `put_bytes` |
| async adapters | bytes.rs 252-632 | per future: scratch buffer, `offset`, `varint_size` | `GetVarint::poll` (two phases), `GetBuffer::poll`, `PutVarint::new/poll`, `PutBuffer::poll`, `IoError::from` |
| `StreamKind` | stream.rs 50-94 | Control / QPackEncoder / QPackDecoder / WebTransport / Exercise(id) | `parse`, `id`, `is_id_exercise` |
| `StreamHeader` | stream.rs 99-287 | kind and optional session id | `read`, `read_from_buffer`, `read_async`, `write`, `write_async`, `write_to_buffer`, `write_size`, `session_id` |
| QUIC varint, `SessionId` | not in this repository's `src/` | | size/encode/decode, `try_from_varint` |
| endpoint config builder | wtransport/src/config.rs | typestate builder | `with_*` steps, `build` |

The parts interact in three ways.

- **Synchronous reading.** `read_from_buffer` reads the header through a child
  reader and commits the child only on `Ok`. A receiver that buffers data
  calls it again after each delivery, at the offset it keeps.
- **Asynchronous reading.** `read_async` awaits one `GetVarint` future for the
  discriminant. For a WebTransport header it awaits a second one for the
  session id. Each future may see its varint arrive over several polls, or see
  end of stream.
- **Writing.** `write_async` awaits `PutVarint` futures against a sink that may
  take part of what is offered, or fail. `write_to_buffer` checks the capacity
  first and then `expect`s `write` to succeed.

The hard behaviours in this code are:

- data split at any byte boundary, across `poll_read` calls and across polls;
- a stream that ends mid-varint;
- a parse that fails halfway through a header and must leave no trace;
- nested child readers;
- sinks that make partial progress and then fail;
- a capacity check that must exactly match what `write` needs.

## Modules

- **`VarInt`** models the QUIC variable-length integer: `ParseSize`, `Size`,
  `EncodeIn`/`Encode` and `Decode`. The `VarInt` type lives in a module that
  is not part of this repository's `src/`, so these operators follow spec.md.
  They are marked `spec_modelled` in PROJECT.json. `MCBufferCursor` checks them
  against the RFC 9000 test vectors with ASSUME.
- **`StreamHeader`** models the synchronous codec as pure operators over a
  byte sequence and an offset:
  - reading: `GetVarint`, `ParseKind`, `Read` and `ReadFromBuffer`;
  - writing: `Write`, `WriteSize`, `PutVarintInto`/`WriteInto` (a
    `BufferWriter` of fixed capacity) and `WriteToBuffer`.

  `Read` keeps the partial consumption of the raw `read`.
- **`AtomicReader`** is the abstract specification of a reader. Its position
  only moves forward, and each move hands the owner exactly the bytes it
  passes.
- **`AsyncHeaderRead`** is the abstract specification of `read_async`. It
  takes bytes only forward and never past the end of the header that starts
  where it was called (`Take`). It then gives once the verdict
  `StreamHeader::read` gives from that position, with `Closed` for a stream
  that ends first (`Conclude`). A pending read that has taken bytes may be
  dropped and called again (`Restart`). `HeaderRead`'s asynchronous receiver
  refines it under the mapping `stream <- sent`, `start <- ar.start`,
  `pos <- ar.pos`, `res <- ar.res`, `hdr <- ar.hdr`.
- **`BufferCursor`** models a root `BufferReader` and a stack of nested children.
  Only the innermost reader is usable, which is what the borrow checker
  enforces. Its actions are `ReadVarint`, `ReadBytes`, `Skip`, `Child`,
  `Commit`, `Drop` and `ReadHeader` (`read_from_buffer`). `Commit` sets
  `panicked` when its `expect` would fire. The root reader refines
  `AtomicReader` under the mapping `pos <- rd[1].off, consumed <- rd[1].log`.
  `log` is a history variable: it holds the bytes successful reads returned.
- **`HeaderRead`** models a peer stream: a sequence of varints in chosen
  encoded lengths, cut at any point (FIN).
  - `Deliver` makes it readable in arbitrary chunks.
  - `SyncReadHeader` and `SyncReadPayload` form the synchronous receiver, which
    retries after each delivery.
  - `AsyncPoll` is one poll of `read_async`. It is built from `PollGetVarint`,
    which is `GetVarint::poll` with its one-byte first phase, its
    `varint_size` loop and zero reads meaning `Closed`.
  - `AsyncPollOn` is the same poll over given bytes. `HeaderWrite` reuses it.
  - `CancelAndRetry` (enabled when the constant `Cancellable` is TRUE) is the
    task dropping a pending `read_async` after it took some bytes, as a
    timeout in a `select` would, and calling `read_async` again on the same
    source. The new future (`NewReadAsync`) starts where the source stands;
    `ar.start` records that position.
- **`ByteCodec`** drives the two `BytesWriter` implementations, a
  `BufferWriter` of capacity `Capacity` and a `Vec<u8>`, with the same
  `put_varint` and `put_bytes` calls (`PutVarint`, `PutBytes`). `log` is a
  history variable holding each call's bytes and the `BufferWriter`'s result.
  `StartRead` sets the two `BytesReader` implementations over
  `buffer_written()`: a `&[u8]` that shrinks as it is read (`sl`) and a
  `BufferReader` (offset `br`). `ReadVarint` and `ReadBytes` make the same
  call on both. The `&[u8]` reader's `get_varint` decodes through an
  expecting `BufferReader`, and the `Vec` writer's `put_varint` through an
  expecting `BufferWriter`; both `expect`s set `panicked`.
- **`HeaderWrite`** composes a writer, a stream and a reader.
  - The sending task writes a header, then a payload as a length varint
    followed by its bytes, in one of two ways: `write_async` (mode `async`),
    or `write_to_buffer` into a `BufferWriter` of capacity `w.cap` followed by
    `put_buffer` (mode `buffer`).
  - `WriteCall` is one `poll_write` call of the awaited `PutVarint` or
    `PutBuffer`. The sink takes any non-empty part of what is offered
    (`Accepts`), and the loop ends when `Complete` holds.
  - `WriteFails` is a sink error. `WriteZero` is a sink answering `Ok(0)`,
    enabled only when the constant `SinkWritesZero` is TRUE: a debug build
    panics on the `debug_assert`, a release build spins forever in the poll
    loop (stage `spin`).
  - `Finish` is the task dropping the stream, which finishes it.
  - The receiver runs `read_async` (through `HeaderRead`'s `AsyncPollOn`),
    then `get_varint` for the payload length (`ReadLengthPoll`), then
    `get_buffer` into a buffer of that length (`ReadDataPoll`, built from
    `PollGetBuffer`, which is `GetBuffer::poll`).

Every action models a whole call. A `read_async` poll includes the nested
session-id future it creates within the same poll. `write_to_buffer` includes
its precheck, the `write` and the `expect`. PROJECT.json's `map` gives the
lines each definition translates.

## Runs

| Run | Checks | Result |
|---|---|---|
| `header_read` (`MCHeaderRead.cfg`) | `TypeOK`, `SyncDecodesPeer`, `AsyncStopsAtHeader`, `EntryPointsAgree`, `Terminates` | pass, 5683 states |
| `exercise_accepted` (`MCHeaderRead_exercise.cfg`) | `ExerciseRejected` | violation (finding) |
| `header_read_cancel` (`MCHeaderRead_cancel.cfg`) | `ImplementsAsyncHeaderRead`, `Terminates` | pass, 11291 states |
| `buffer_cursor` (`MCBufferCursor.cfg`) | `TypeOK`, `CommitNeverPanics`, `ImplementsAtomicReader` | pass, 191 states |
| `byte_codec` (`MCByteCodec.cfg`) | `TypeOK`, `WritersAgree`, `ReadersAgree` | pass, 9705 states |
| `header_write` (`MCHeaderWrite.cfg`) | `TypeOK`, `WriteToBufferAtomic`, `RoundTrip` | pass, 4514 states |
| `header_write_live` (`MCHeaderWrite_live.cfg`) | `Delivered` | pass, 2637 states |
| `zero_write_hangs` (`MCHeaderWrite_zero.cfg`) | `Delivered` | violation (finding) |

### What the passing runs show

**Synchronous and asynchronous reads agree.**
- `SyncDecodesPeer`: retrying `read_from_buffer` on partial data yields the
  peer's header, and the next varint read is the peer's first payload varint.
- `AsyncStopsAtHeader`: `read_async` takes exactly the header's bytes.
- `EntryPointsAgree`: both receivers agree with `read` over the whole stream.
- `Terminates`: every read ends.

**A cancelled read reads on.** spec.md section 5 says a dropped future
loses its scratch state but not the bytes it took from the source.
- `ImplementsAsyncHeaderRead` (run `header_read_cancel`): `read_async`
  refines `AsyncHeaderRead`. In every state, not only at the verdict, it has
  taken no byte past the header that starts where it was called. A verdict
  is final. A `read_async` called again after a cancellation gives exactly
  what `StreamHeader::read` gives from the source's position, and leaves the
  source where `read` would leave its reader. Cancellation is optional in
  this run, so the refinement covers the uncancelled reads of `header_read`
  as well.
- `Terminates` holds with cancellations too.

TLC reaches the case the spec warns about: a Control header sent in two bytes
(`0x40 0x00`), cancelled after the first byte, is read again as `0x00` and
returned as an `Ok` Control header. The spec makes callers responsible for not
cancelling mid-header, so this is not a finding.

**Child readers are safe.**
- `CommitNeverPanics`: no sequence of child, read, skip, commit and drop trips
  `commit`'s `expect`.
- `ImplementsAtomicReader`: the root reader implements `AtomicReader`, so a
  dropped child leaves no trace and a failed `read_from_buffer` consumes
  nothing.

**The two writers and the two readers agree.**
- `WritersAgree`: the `Vec` writer never panics and holds every put's bytes in
  order. The `BufferWriter` holds exactly the bytes of the puts that returned
  `Ok`, so a put that fails leaves nothing behind.
- `ReadersAgree`: over the same bytes, the `&[u8]` reader and `BufferReader`
  give the same answer to every call, `None` included, and stay at the same
  position.

**Headers survive a write and a read.**
- `RoundTrip`: the wire is always a prefix of the header plus the payload.
  `read_async` never reports a written header as unknown or invalid, and an
  `Ok` header equals the written one and spans `write_size()` bytes.
  `get_buffer` returns exactly the written payload. `read_async` and
  `get_buffer` report `Closed` only if the writer failed, even when the sink
  answers `Ok(0)`.
- `WriteToBufferAtomic`: `write_to_buffer` never panics and is all or nothing.
- `Delivered` (run `header_write_live`, a sink that never answers `Ok(0)`):
  every read ends, and a payload written in full reaches the receiver.

Each property has a mutant in PROJECT.json: a plausible slip in the code it
covers, which TLC finds.

### Findings

`StreamKind::parse` (stream.rs:80) returns `Exercise(id)` for greasing ids.
spec.md section 6 and its glossary say such ids are "always rejected as
unknown". The `exercise_accepted` run reaches an `Ok` header of kind
`Exercise` from a stream starting with varint 64 (0x21 + 31).

`PutVarint::poll` and `PutBuffer::poll` (bytes.rs:544 and 593) add a
zero-length write to `offset` and loop again within the same poll. Only a
`debug_assert` guards this. spec.md sections 4.3 and 9 say a zero write "is
treated as an assertion in this core" and leave it open. In a release build the
`zero_write_hangs` run writes a Control header, then gives the payload-length
`put_varint` an `Ok(0)`. Its loop (line 536) repeats forever, the stream is
never finished, and the receiver's `get_varint` stays `Pending`.

## Bounds and why they suffice

- **`MCHeaderRead`**
  - Discriminants: 0, 3, 84 (WebTransport), 66 and 64.
    - 66 is unknown.
    - 64 is a greasing id.
  - Encodings: each discriminant is sent in its minimal encoding and in twice
    that length.
  - Session ids: 0, 1 and 4, with {0, 4} valid.
  - Payload varint: 5.
  - Cuts: every cut point of the stream.

  `header_read_cancel` uses the same messages with `Cancellable = TRUE`.
  Non-minimal encodings make a cancellation inside a single varint possible.

  This gives headers of 1 to 4 bytes, split at every boundary. Both the
  `None`/`Closed` paths and the invalid and unknown paths are covered.
- **`MCBufferCursor`**
  - Buffers: five buffers of 3 or 4 bytes, holding a complete WebTransport
    header, a truncated one, an invalid session id, an unknown kind and a
    1-byte varint.
  - `MaxLen = 2` for `get_bytes` and `skip`.
  - `MaxDepth = 3`, a root and two nested children. This is the smallest depth
    at which a child commits into a parent that is itself a child.
- **`MCByteCodec`**
  - Varints: 5 and 300 (one and two bytes).
  - Blobs: empty; `0x40` (a two-byte varint tag, so `get_varint` on it is cut
    short); `0x80 0x01` (a four-byte tag).
  - `Capacity = 3`, `MaxCalls = 4`: puts fail both with room left and with
    none.
  - `get_bytes` lengths: 0, 1 and 2, so reads run past the end.
- **`MCHeaderWrite`**
  - Headers: Control (1 byte), Exercise 64 (2 bytes), and WebTransport with
    session ids 4 (3 bytes) and 64 (4 bytes).
  - Payloads: empty and two bytes. The empty payload takes `GetBuffer`'s
    path that completes without reading.
  - Capacities: 2 and 4. A capacity of 2 is too small for a WebTransport
    header but large enough for its discriminant, which is the boundary
    `write_to_buffer`'s precheck guards. A capacity of 4 fits every header.
  - `SinkWritesZero`: TRUE for the safety run and the violation run, FALSE for
    the liveness run.
- **Value range.** Values stay below 2^31 because TLC's integers are 32-bit.
  Every varint length up to 4 bytes is exercised. 8-byte encodings appear only
  in `Decode`'s test vectors.

## Fairness

The liveness properties rest on four fairness assumptions:
- QUIC retransmits until data is delivered, so delivery is weakly fair.
- An executor polls a task that its source or sink woke, so the polls of
  `read_async`, `get_varint` and the writer are weakly fair.
- Flow control credit is granted as the receiver reads, so the sink eventually
  takes bytes: `WriteCall` is weakly fair.
- The synchronous receiver loops after each delivery.

Sink errors (`WriteFails`) and `Ok(0)` answers (`WriteZero`) are possible but
never forced, so they carry no fairness. `CancelAndRetry` is never forced either. `header_read`, `header_read_cancel`
and `header_write` disable deadlock checking, because both tasks return and the
system stops. `buffer_cursor` and `byte_codec` check for deadlock.

## Not modelled

- **`wtransport/src/config.rs`.** This is a compile-time typestate builder
  over quinn and rustls configuration. Its failures are external I/O:
  - `with_single_cert(..).unwrap()` at line 71;
  - native root store load errors swallowed at lines 150-156.

  spec.md section 1 places the certificate-configuration layer out of scope,
  as an external collaborator. The two points are listed as hazards without a
  property.
- **The `&[u8]` / `Vec<u8>` AsyncRead/AsyncWrite impls and the test
  helpers.** The `&[u8]` source hands over everything it holds and never
  answers `Pending`. The `Vec` sink takes every write in full. Both are single
  behaviours of the arbitrary-chunk source and sink the models use, so every
  property checked for those holds for them. For this reason the async
  adapters component stays "partly" modelled.
- **The crate root (`lib.rs`).** It holds module declarations and the ALPN
  constant, with no state or operations.
- **Cancellation of a pending write.** A dropped `write_async` leaves a
  partial header on the wire, which is the same state as a sink error after a
  partial write, so `WriteFails` covers it.
- **A `poll_read` error.** It ends the `GetVarint` future with the classified
  `IoError`, a terminal verdict like `Closed`. The models' sources end only
  with FIN.

## Limits of the project

What remains outside the models is either out of scope by spec.md section 1
(`config.rs`), has no state (`lib.rs`), or is already covered by a more
general behaviour of the models (the `&[u8]` and `Vec` adapters, a cancelled
write, `poll_read` errors). The unmapped lines of `bytes.rs` and `stream.rs`
are mostly `#[cfg(test)]` modules and doc comments.
