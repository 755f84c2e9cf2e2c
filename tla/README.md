# Formal models of apx-lib

apx-lib is the communication library of the uavos autopilot software. It moves
packets between the nodes of a vehicle and its ground station over CAN, serial
lines, TCP and UDP, and packs the values of the vehicle into telemetry streams.
The library has no tests; its behaviour is documented by a few comments, so the
models are translated from the code alone.

This directory holds TLA+ modules, the TLC configurations that check them on
small instances, and proofs that TLAPS checks for every size of the instances.
`PROJECT.json` lists components, runs, wrong variants ("mutants"), the source
lines of each definition, hazards, findings and theorems.

## The system

### Components

| component | state | operations |
|---|---|---|
| **CAN message pool** `xbus/can/CanPool.*` | array of items (8 bytes and an index), array of trees (packet id, expected frame number, head of a chain of items, length of the last item, countdown), free list | `push`, `read_packet`, `timeout` |
| **CAN codec** `xbus/can/CanCodec.*` | the pool, `txmsg` (frame under construction), node address, address counter | `send_packet`, `push_message`, `read_packet`, `sendAddressing`, `updateNodeId` |
| CAN codec V9 `xbus/can/V9` | — | retired: refers to types that no longer exist |
| **Telemetry encoder** `xbus/telemetry/TelemetryEncoder.*` | slot table sorted by format and id (field, flags, value, packed value), count, pending slots behind the table, hash of the table, position of the forced update | `add`, `clear`, `update`, `sync_flush`, `encode`, `encode_format`, `encode_xpdr` |
| **Telemetry decoder** `xbus/telemetry/TelemetryDecoder.*` | copy of the table, hash received so far and how much of it, timestamp | `decode`, `decode_format`, `reset` |
| **Value packing** `TelemetryValuePack.h`, `TelemetryValueUnpack.h` | none | conversions between raw values and wire formats |
| **Serial COBS codec** `xbus/serial/Cobs*.h`, `SerialCodec.h` | decoder: buffer, position, code of the block, bytes left in the block | `encode`, `decode`, `reset` |
| Escape codec `xbus/serial/EscV9.h` | — | the implementation is commented out as a whole |
| **TCP client** `xbus/tcp/tcp_client.*` | descriptor, path and mode of the host | `set_host`, `connect`, `is_connected`, `read`, `write`, `close`; the static `readline(fd)`, `read(fd)`, `write(fd)` are the server's, too |
| **TCP server** `xbus/tcp/_tcp_server.*` | descriptor of the server, table of client descriptors and its count, table of threads and its count, a mutex | `connect`, `create_thread`, `run` (one thread per connection, and one that accepts the next), `read`, `write`, `close` |
| UDP client `xbus/tcp/udp_client.*` | descriptor, peer address | `connect`, `read`, `write`, `close` |
| **Byte streams** `xbus/XbusStream*.h` | buffer, size, position | bounded reads and writes of numbers, bytes and strings, `reset` |
| **Wire structures** `xbus/Xbus*.h` | none | one `read` and one `write` each |
| **Mandala dictionary** `mandala/` | generated tables | format lookup by id, `pack_set` and `unpack_set` |
| **Mandala backport** `mandala/backport` | table of variables, snapshot of what was sent, masks, mode and clock of the downlink stream | `pack`, `unpack`, `pack_set`, `unpack_set`, `pack_downstream`, `unpack_downstream`; vector algebra |
| **CRC** `crc/` | none | checksums of 8, 16 and 32 bits, by bits, by nibbles, by tables |

### Interaction

* `Codec::send_packet` cuts a packet into CAN frames and hands each one to the
  driver (`send_message`). `Codec::push_message` filters a received frame and
  calls `Pool::push`; `Codec::read_packet` is polled by its owner, takes one packet at
  a time out of the pool and checks its CRC. Only the latter takes the codec's lock
  (`lock_push`, `CanCodec.cpp:54-56`): around `push_message` the owner has to.
* `TelemetryEncoder::encode` writes packets for any carrier; a packet carries
  one byte of the hash of the encoder's table, `decode` collects the four bytes
  and asks for the table (`decode_format`) in blocks.
* COBS frames packets on serial lines.
* A TCP client connects and asks for a path by a line, as in HTTP; the server
  answers, enters the client into its table, and sends every packet of its owner to
  every client of the table. A thread of the server that has accepted a
  connection creates the thread that accepts the next one.
* The downlink of the backported Mandala sends the variables that differ from a
  snapshot of what was sent before, and everything again every ten seconds.

### What is hard

Several senders interleave their frames in one pool whose items and trees are
shared; frames are lost, repeated and cut off; a countdown is shared by all
that fails; complete packets wait for a reader that may be late. The two threads
of a CAN node build their frames in one `txmsg` without a lock. The encoder's
table changes while decoders hold copies of it and packets are lost. The threads
of the TCP server share a table under a mutex, but keep an index into it while other
threads shift its entries, and `close()` empties it under them; the kernel gives
a closed descriptor to the next connection. The downlink gets no acknowledgement:
what a lost packet carried is lost until the next turn of its clock, and in between
the mode may change, which changes what every byte of the snapshot means. The
hazards are listed one by one, at their lines, in `PROJECT.json`.

What makes each component correct:

* pool: no item is lost or shared, complete packets are untouched until read,
  one packet in progress per id, packets consist of their frames in order,
  orphans cannot block the pool, every complete packet is read;
* codec: what is read was sent, in full, by the node it names; what arrives in
  full is read; segmentation and reassembly fit for every length;
* encoder: the table is sorted, free of duplicates and bounded, what is pending
  gets into it, each value reaches the stream after a change;
* decoder: values are assigned to the right ids, never by an outdated table,
  and decoding resumes after any loss;
* COBS: encoding followed by decoding is the identity, the decoder stays in its
  buffer and finds the next packet after garbage;
* CAN addresses: nodes whose addresses differ keep them, and a thread that answers a
  conflict does not tear a packet of several frames unnoticed;
* TCP: the table holds the live connections and only those, one thread accepts, no
  thread uses the descriptor of another, a connected client hears every packet;
* streams, structures, values, checksums: what is written is read, up to the
  precision of the format, also where the buffer ends early;
* downlink: what the ground shows is what the vehicle has, when losses end.

## Modules

| module | models | checked by |
|---|---|---|
| `CanPool` | `xbus/can/CanPool.{h,cpp}`, `CanFormat.h` | run `pool`; proofs in `CanPoolProofs` |
| `CanPoolHistory` | `CanPool` with history variables, for what happens to orphans over several calls | run `pool`; proofs in `CanPoolRefinementProofs` |
| `CanPoolLoops` | the loops of `CanPool.cpp`, turn by turn, as reference for the operators of `CanPool` | run `pool`; proofs in `CanPoolRefinementProofs` |
| `PacketPool` | what the pool promises, without trees, items and countdowns | run `pool_packets` |
| `CanPoolRefinement` | the mapping from `CanPool` to `PacketPool` | run `pool_packets`; proofs in `CanPoolRefinementProofs` |
| `CanPoolProofs` | theorems about `CanPool` | TLAPS |
| `CanPoolRefinementProofs` | that `CanPool` implements `PacketPool`; theorems about `CanPoolHistory` and `CanPoolLoops` | TLAPS |
| `CanLink` | senders of `CanCodec.cpp`, a bus, and a receiver over `CanPool` | run `can_link`; proofs in `CanLinkProofs` |
| `CanAddress` | `CanLink` with nodes of one address, the answer to a conflict, and the two threads that share `txmsg` | run `can_link`; proofs in `CanLinkProofs` |
| `CanLinkProofs` | theorems about `CanLink` and `CanAddress` | TLAPS |
| `TelemetryEncoder` | the slot table of `TelemetryEncoder.cpp` and which values a packet carries | runs `encoder_table`, `encoder_settle`, `encoder_synced`; proofs in `TelemetryEncoderProofs` |
| `TelemetryEncoderProofs` | theorems about `TelemetryEncoder` | TLAPS |
| `TelemetryStream` | `encode_values` and `decode_values`, byte by byte, over the bounded streams | runs `formats`, `stream_pair` |
| `TelemetryLink` | hash feed and table transfer between `TelemetryEncoder.cpp` and `TelemetryDecoder.cpp` over a carrier | runs `telemetry_link`, `telemetry_transfer`; proofs in `TelemetryLinkProofs` |
| `TelemetryLinkProofs` | theorems about `TelemetryLink` | TLAPS |
| `XbusStreams` | `XbusStreamReader.h`, `XbusStreamWriter.h` and the structures of `Xbus*.h` that use them | run `formats` |
| `Transponder` | `encode_xpdr`, `decode_xpdr` and the clock that `decode` makes of the time stamps | run `formats` |
| `Checksums` | `crc/` | run `formats` |
| `ValueFormats` | `TelemetryValuePack.h`, `TelemetryValueUnpack.h`, the value formats of `MandalaCore.cpp` and `MandalaPackBase.h` | run `formats` |
| `MandalaVars` | the table of `MandalaTemplate.h`, `pack` and `pack_set` of single variables | run `formats` |
| `WireFormats` | what the five modules above promise, for samples of their inputs | run `formats` |
| `Cobs` | `xbus/serial/CobsEncoder.h`, `CobsDecoder.h` | run `cobs`; proofs in `CobsDownlinkProofs` |
| `CobsDownlinkProofs` | theorems about `Cobs` and `Downlink` | TLAPS |
| `Downlink` | `pack_downstream`, `unpack_downstream`, `unpack_stream` of the backport, with a carrier that loses packets | run `cobs`, second part; proofs in `CobsDownlinkProofs` |
| `TcpSockets` | connections as the calls of `xbus/tcp` see them; `readline(fd)`, `read(fd)`, `write(fd)` of `tcp_client.cpp` | run `tcp_link` |
| `TcpClient` | `tcp_client.cpp` | run `tcp_link` |
| `TcpServer` | `_tcp_server.cpp` | run `tcp_link`; proofs in `TcpLinkProofs` |
| `TcpLink` | the server with its clients | run `tcp_link`; proofs in `TcpLinkProofs` |
| `TcpLinkProofs` | theorems about the table and the threads of the server, and about what the server and its clients may rely on | TLAPS |
| `NumberLemmas` | least numbers of sets and division, for the modules of proofs | TLAPS |

A module `MC<name>` holds the constants of the instances of `<name>`. Operators
named `Bad...` are wrong variants of the operator behind them; the list of
mutants in `PROJECT.json` says which property notices which of them, and they
occur nowhere else.

### CAN pool

`trees`, `items` and `free` are the members of the class, with the same
indices and the same "none" (`max_idx`); `rv` and `got` are the results of the
last call. The extid is split into the part that identifies a packet (`key`)
and the frame number (`frm`). One action is one call of `push`, `read_packet`
or `timeout`; `push` has one action for each way it can end, among them the
calls of `timeout()` and `remove()` that the error paths make. An action is a whole
call, which assumes that the owner does not let calls of one pool overlap: `read_packet` of the
codec takes `lock_push`, `push_message` does not (`CanCodec.cpp:77-93`).

List operations are written by what they compute: `Chain` is the least set
that is closed under "next", `Release` is the array that the loop of
`remove(Tree &)` leaves behind, for the released trees together. `CanPoolLoops`
writes the same loops as recursive functions over their turns, and the invariants
`ListLoops` and `ReadLoop` compare the two in every reachable state and for
every buffer size, so that the short definitions are not a matter of trust. TLC
checks both on an instance, and they are proved for all sizes.

`PacketPool` knows packets only: what is collected for each key, and which
complete packets wait. It is nondeterministic in what it leaves open: which
place a packet takes, which of the waiting packets is read, which of the other
packets in progress are given up by a call that reports an error or by a
timeout. `CanPoolRefinement` adds the last call with its arguments as a
variable, since the abstract step has to be the same call. How many items are in use
is counted without a recursion (`Held`), by the blocks of the packets, each with its place.

### CAN link

A byte is a token that names its message and its position, so that bytes of two
packets cannot be mixed up without notice. The loop of `send_packet` is
interleaved with everything else frame by frame, and `send_message` may fail at
each; the buffer `txmsg` keeps its bytes from frame to frame, as the member of
the class does. The bus holds one frame and may lose or repeat it. The receiver
is a `CanPool` with the filter in front and `read_packet`/`check_crc` behind.
The CRC is ideal. `completed`, `delivered` and `whole` are history; a key leaves `whole`
when a frame of it is lost or refused, and when a timeout gives its packet up (`Late`).

`CanAddress` gives each node the two threads that it has: one is in `send_packet`,
the other hands what it hears to `push_message`, which on a frame with the own
address calls `updateNodeId` and `sendAddressing`. Both threads write `txmsg`, and
nothing serialises them, so that each assignment to `id`, `dlc` and `data` is a step
of its own. `updateNodeId` is not in the repository: it chooses any other
address. A frame is heard by the other nodes one at a time. `Underway(n)` are
the addresses that frames of node `n` may still carry: that of the packet it is sending,
of its answer, and the one which is in `txmsg` since a thread has written it.

### Telemetry

`TelemetryEncoder` has the slots with their flags and values as an array of
records, including the slots behind the table where `update()` keeps pending
values, and everything that `add()` derives from the table. A call is an
action, except that `sync_flush()` takes one step for each turn of its loop. A
write behind the array changes the slots whose memory lies there to any value
(`WrittenBehind`): the places follow from the layout of `enc_slots_s`, the
values do not. Formats are "word" (fills a `raw_t`), "byte", "u4" and "bit"; a
packed value shorter than a `raw_t` leaves the other bytes as they were, which
is why an enforced update compares unequal or not (`Repacked`, `RawsOf`).

`TelemetryStream` follows the loops over fields with the variables of the code
(position in the buffer, current code byte and bit, nibble in progress, run of
empty codes) as fields of a record that a recursion passes on. The writer drops
what does not fit, as `XbusStreamWriter` does. Codes that are taken back (`Mark`, `Back`) are taken off what is
in the buffer by the number that the encoder meant to write, as at
`TelemetryEncoder.cpp:361`: when some of them had found no place, values in front go with
them, or the byte that counts the values, or the header, which is part of the packet for that
reason (`Hdr`); below 0 the position is set to the end. The history `torn` remembers that
this happened.

`TelemetryLink` has the members of the decoder (bytes of the table as far as
received, hash bytes and how many of them are known, `slots_cnt`, `valid`).
Messages carry the table they were written with, so that a packet read with
another table is recognised (`Misread`). The owner of a decoder is outside the
repository; it asks for blocks in any order (`AnyPart`) or one after the other.

### Formats

`XbusStreams` has a writer as the bytes written so far and a reader as bytes and a
position; hosts of both byte orders write and read. A structure is the list of
its fields in the order of `read` and `write`, with the checks of `available()` that are
in the code, and a byte is named by its field and its significance. In
`ValueFormats` a float is sign, exponent and mantissa for the conversion to 16 bits, which
is done bit by bit; where the code multiplies and divides, a number is an integer in
fractions, and the rounding of the float arithmetic is a parameter of at most one of
them, so that a claim holds however the hardware rounds. `Checksums`
has registers as sets of bits; the reference is the division by the polynomial, the
loops of the code are folds over nibbles, table entries and words. `Transponder` takes
example sizes for the dataset, whose formats are in the dictionary.

`WireFormats` takes one sample in a behaviour, and its properties say what is to hold
of it. These are pure functions, and bounded inputs are all there is to check;
`MCFormats` lists the samples.

### Serial lines

`Cobs` has `encode()` as a function of the payload: `Blocks` is what it has written behind
each of its bytes and those of its CRC. `decode()` is an action: one call with any bytes at all. The
loop over the bytes repeats `Turn`, which is one turn of it; `dec` holds the
members of the decoder, of the buffer only the bytes up to `_rcnt`. What a
byte of 255 means as the code of a block is a parameter (`MaxByte`), so that full
blocks are short. Since the bytes are arbitrary, lost and damaged bytes and the
start in the middle of a packet need no actions of their own.

### TCP

The kernel is external: `TcpSockets` has a connection as two ends, each with what
waits to be read, whether the peer has closed, and whether a reset is to be reported; it is
written from how the code uses `poll`, `recv`, `send`, `accept` and `close`. The
lowest free number is the next descriptor, as POSIX requires. `accept()` in a thread may or may not
return when another thread closes the socket (`lingering`); one that goes on waits for
a connection that was on its way or for the timeout of the socket (`LingerEnds`). A path is a sequence
of tokens, of which the server compares as many as its own path has (`Begins`), as
`strncmp` does at `_tcp_server.cpp:188`; either path may be empty. `_host.stream` of a client
starts with any value, as nothing in the code initialises it (`Disconnected`).

`TcpServer` has `run()` step by step: accept and create the next thread, read the
request, answer, register, the loop over `read(fd)` (with the two calls in it that
wait, "poll" and "peek"), leave the table, close. What the code does under
the mutex is one step, as no other thread can see its middle. `close()` and the calls of the owner are
steps as well, and may come between any two steps of the threads. The histories
`forgotten` (clients that `close()` dropped from the count), `moved` (registered threads in front
of which another has left, whose index is out of date) and `orderly` (none of these
has left, and nobody called `close()` while clients were there)
say under which condition a property holds. They stand for causes, steps of the code, and not for
the damage that the properties speak of. The model ends where the code leaves its
arrays: with the 51st thread or client, which nothing in the code prevents.

The lines of the answer are one word in the model. A client that finds something else in front of it
(a packet, which an entry of the table that is out of date brings to a new connection) takes that for a
status line without "200 OK" and closes, or skips it. That takes more connections than
the run has, so it is in the proofs only.

### Downlink

A variable is a small number that takes a number of bytes in each of the two modes; a
packet is the list of masks and bytes. The loop of `pack_downstream` is a function of the
turns that were done (`Packing`, one `PackTurn` per variable), that of `unpack_stream` likewise
(`Unpacking`, `UnpackTurn`); both have the pointers and counters of the code. One step packs a packet, which arrives or is lost. The
snapshot is an array of bytes whose places depend on the mode, as in the code, and starts
with any content. The clock counts packets; without `dl_period` it moves by any amount.

## Runs

Each run uses small values of the constants; the structure of the code does not
depend on them otherwise. A `VIEW` leaves results of the last call, histories
that no later step reads, and bytes in free items (which the next frame
overwrites) out of what makes two states different, in `tcp_link` also what a
thread or a client that is gone leaves behind; every property of such a run
speaks of the results of a step only in the step that makes them.

| run | instance | why the bounds are enough | properties |
|---|---|---|---|
| `pool` | 4 items, 2 trees, 2 keys, frame numbers 0 and 1, timeout 1, lengths 0 and 8 | two chains and the free list in every shape, both arrays full, numbers wrap around, a countdown takes two calls | `ItemsOwnedOnce`, `ChainsEnd`, `OnePartialPerKey`, `ListLoops`, `ReadLoop`, `OrphansExpire`, `FinishedKept`, `NotGivenUpEarly` |
| `pool_packets` | 3 items, 2 trees, 2 keys, 2 contents, lengths 3 and 8, buffers of 10 and 64 bytes | contents tell order and staleness of blocks, one buffer cuts packets of two frames and more | `ImplementsPacketPool` |
| `can_link`, first part | 5 items, 2 trees, lengths 0 to 17 and 33, 2 senders, 2 packets, 2 faults, 2 frame numbers | all residues of the length modulo 8 with one, two and three frames; 33 bytes are five frames, so that two losses hide a whole turn of the numbers; two packets do not fit into the pool together | `Integrity`, `NotMultiplied`, `ArrivedComplete` |
| `can_link`, second part | 2 nodes that start with one address, 2 addresses, messages of 11 and 9 bytes, 3 items | both threads of both nodes are in the middle of their frames at once; addresses collide, are swapped and collide again; no losses, which the first part has | `SharedIntegrity`, `SettledStay` |
| `encoder_table` | array of 4 slots, three fields that are added, three that are synchronised | each group of formats, more fields than slots, every order of insertion, pending slots that the table grows over | `Sorted`, `NoDuplicates`, `Cached`, `ValuesKept` |
| `encoder_settle` | 2 slots, three fields of different paces, two values, bytes of 5 and words of 10 values | the wrap of the enforced updates, and raw values that equal their mark, occur | `Settles` |
| `formats`, packets | 19,343 packets from 6 tables | every format and pace; every subset of changes in tables of 9 fields; pairs across the end of a code; nine bits; offsets 126 to 128 and above 127 in a table of 240; every buffer size from 3 (the header) to 28 for a packet that does not fit, and sizes where one or more codes are taken back from a full buffer, in tables of 25 and 240 | `RoundTrip`, `Truthful` |
| `formats`, samples | every structure in every buffer size, cut at every byte, between hosts of both byte orders; strings with every kind of character; messages of 0 to 9 bytes with single bits at every place and with mixed ones; 16-bit floats of every exponent at both ends of it, and the floats around them; the fixed formats over their range and past its ends; angles over three turns; lists of 1 to 12 for the lookup; arguments of every type and mask for `pack_set`; transponder packets of 0 to 16 bytes with 7 tables; three time stamps across the turn of the 16 bits | the functions are made of cases (field, exponent, bit, comparison), and the samples reach each case and both sides of its ends | `StreamsReturn`, `ChecksumsAgree`, `ValuesReturn` |
| `telemetry_link` | 3 tables (none, two and three blocks, with a block in common), 2 messages on their way, loss and reordering, blocks in any order | a block of any table meets any state of the decoder; the hash feed wraps around many times | `Genuine`, `NeverMisread` |
| `telemetry_transfer` | 3 tables of which two have hashes that differ in one byte, 1 message on its way, loss | the worst case of three misread packets is reached (with 2 as bound TLC finds a counterexample) | `FewMisreads`, `GetsTable` |
| `cobs`, first part | packets of up to 4 bytes of 4 values, codes up to 3 (blocks of 2 bytes), calls with 0 to 2 bytes | packets of up to three full blocks, CRC bytes of zero and across the end of a block, packets one byte too long; the decoder has no memory behind a delimiter or an error, so that all streams are covered | `EncodedFits`, `WholeReturned`, `OthersRefused` |
| `cobs`, second part | 3 variables, 2 to a mask, 3 values, packets with room for two variables, for all of them in the compact mode only, and for all, with and without `dl_period`; 4 packets in ten seconds, 2 losses, 2 changes of values or mode | a group that is full and one that is not; the mode changes while variables wait for room, and back before they are sent; the turn of the clock comes while variables of the one before wait | `DownlinkInSync`, `Recovers` |
| `tcp_link` | 2 clients with a path that the server's is a beginning of, another one or none, 2 connections, 4 threads, 2 descriptors, 2 `connect`s of the server, 1 fault, 1 packet of a client and 2 of the owner, with either one `connect` and 2 of the others or two and none, the count modulo 8 | one client leaves in front of the other; `close()` meets every step of the threads and makes the count turn; the server is closed and opened again while threads of its first life run; a descriptor is closed and given again; a thread is not created, a connection breaks, a buffer is full | `CountIsRegistered`, `TableIsRegistered`, `OwnDescriptor`, `AcceptorsAccounted`, `ConnectedIsServed`, `EveryPacketHeard`, `OnlyLostLeave` |
| `encoder_synced` | as `encoder_table`, 3 slots | expected to fail, see findings | `SyncedAdded` |
| `stream_pair` | pairs of four-bit values at the end of a packet | expected to fail, see findings | `UpdatedSlotsRead` |

Two runs have two parts that share no variables; a behaviour is of one of them
(variable `part`), and the properties of the other part hold of it trivially. The type
invariants `TypeOK` of the pool, the encoder, the link, the server and the COBS decoder are proved rather
than run.

What the properties say is stated in front of each in its module. A few remarks
on what the runs taught:

* The number of an end frame is not checked, and frame numbers repeat after five
  frames: the pool does complete packets with holes. `Integrity` holds by the CRC,
  and not for packets of one frame, which have none but cannot have a hole.
* A repeated single frame delivers its packet twice; `NotMultiplied` is about
  packets of several frames.
* `ArrivedComplete` needs a free item for the last frame only: an overflow that
  one sender causes costs another sender at most the frames that meet it.
* `SharedIntegrity` needs the CRC as well: an answer to a conflict does get its id or
  length into a frame of a packet, and that packet is refused. A packet of a single
  frame has no CRC, and the property does not hold for it.
* `SettledStay` is as much as there is to say of conflicts: two nodes that choose the
  same new address again and again need not settle.
* `NeverMisread` needs hashes without a common byte. With a common byte up to
  three packets in a row that are written with one table are read with one other, and no more
  (`FewMisreads`). The proof showed that a first form, without "one table" and "in a row",
  said too much: packets of two tables that share different bytes with the hash of the
  decoder may follow each other, and a byte may fail to come because its packet is lost.
* `ValuesReturn` states how far a value comes back: it may lose one unit toward zero in the
  fixed formats, 16-bit floats return the nearest one, and repeated packing
  does not return to the same value (see observations).
* `CountIsRegistered` holds modulo the range of the count only: `close()` sets the count to
  zero while threads are registered, each of which takes one away later.
* `TableIsRegistered` and `EveryPacketHeard` hold until a thread leaves whose entry has moved
  (`orderly`): from then on the table lacks a client that is there and has one that is gone,
  as `_tcp_server.cpp:240` removes by an index that is out of date. The properties say that
  this and `close()` are the only causes.
* `ConnectedIsServed` says no more of the path than the server compares: a client that asks
  for `/service2` is answered, and entered, by the server of `/service`, and a server without a
  path answers every request.
* `Truthful` leaves out the packets whose codes were taken back without having found a place
  (`Torn`): without this exception TLC finds a packet of two values, in a buffer of 8 bytes, that is
  accepted with wrong values (see observations).
* `ConnectedIsServed` and `EveryPacketHeard` hold until `close()` drops clients only: it closes
  descriptors under their threads. With three connections a thread of the first life of the
  server, still in the handshake, answers at a descriptor that by then belongs to a client with
  a path that nobody serves, and that client takes the answer for its own.
* `DownlinkInSync` is about packets with room for everything: a variable that
  is cut off stays outdated until there is room, and those at the end of the table
  may wait for ever if the ones in front change all the time.

### Fairness

`encoder_settle`: the loop of `sync_flush()` has no wait in it, hence weak
fairness of its turns; packets are sent periodically by the owner of the
encoder whatever else it calls, hence strong fairness of `Encode` (a flush in
progress disables it). `Settles` assumes that values stop changing.

`telemetry_transfer`: packets and requests are sent again and again although
the carrier may be full now and then (strong fairness of `Encode` and
`Request`), and what was sent and not lost arrives (weak fairness of `Decode` and
`DecodeFormat`). That losses and changes of the table stop is a hypothesis of
`GetsTable`, as is that the owner asks for one block after the other. Packets that
end in a pair (see findings) are not sent in this run: with them the decoder
loses its table again and again.

`cobs`, second part: the vehicle calls `pack_downstream` periodically, which moves
the clock (weak fairness of steps that move it); whether the packet arrives is not a
matter of fairness, losses are bounded (`MaxLost`). `Recovers` assumes a `dl_period`
that divides ten seconds, because the code compares the clock to multiples of
ten seconds with `==`, and that ten seconds have room for all variables.

Deadlock is checked in all runs but `formats` and `stream_pair`, where a behaviour
is one packet or one sample and ends, and `tcp_link`, where connections and calls
are bounded and the system comes to rest.

## Proofs

`CanPoolProofs` proves, for every number of items up to the 255 that an index
of one byte can name, every number of trees, every timeout, every set of keys
and frame numbers (`SizesAssumption`, `DataAssumption`):

* `TypeCorrect`: `Spec => []TypeOK`. The countdown does not fall below zero and
  no frame number leaves its range.
* `Ownership`: `Spec => []ItemsOwnedOnce`. No sequence of calls leaks an item or shares it.
* `EveryChainEnds`: `Spec => []ChainsEnd`. None closes a cycle, so that the loops of
  the class end and `ErrorSeqIdx` is not returned.
* `OnePartial`: `Spec => []OnePartialPerKey`.
* `CompleteKept`: `Spec => FinishedKept`.

*The argument.* `ItemsOwnedOnce` is not inductive: that the chains are disjoint
says nothing of the list that results from relinking them, because `Chain` is
defined by closure and the library's induction theorems are out of reach. The
inductive invariant `IInv` therefore carries witnesses. `Linked` says that there
are functions `own` and `rank` on the items such that every item is the head of
its owner's list or the successor of one other item of the same owner, the rank grows
along "next", and each list has one end. From any such witnesses it follows that a chain is exactly
the set of items with its owner (`ChainIsOwned`, by taking the item of the
least rank that is not reached) and that the last item is the one without a
successor (`LastIsTail`). Each private function of the pool is shown to preserve
`Linked` by naming new witnesses: `Release` appends the chains of the
released trees, ranks spaced apart (`Spaced`), in front of the free list;
`Begin` and `Extend` move the first free item to the end of a chain. `Good`
adds what the handlers rely on: the types, and one partial tree per key. `Keeps` is the
relation of two pools in which the complete packets of the first are unchanged
in the second; it is transitive, so that a call that is made of several
private functions keeps them as well. `StepKeeps` combines the actions, one step each.

`CanPoolRefinementProofs` proves, for the same constants,

* `OrphansGone`: `HSpec => []OrphansExpire`. A packet that gets no more frames is given up
  after `Timeout + 1` timeouts, wherever they come from.
* `KeptInProgress`: `HSpec => NotGivenUpEarly`. It is not given up before, but for a
  frame of its own.

*The argument.* `HInv` adds to `IInv` that the countdown of a partial tree and the
timeouts since its last frame add up to `Timeout` (`Counting`). `Leaves` and `Counted`
say what the private functions do to the partial trees, leaving open which ones
they free; `CountingCall`, `AcceptingCall` and `OtherCall` are the three kinds of calls
that the handlers amount to.

It also proves `PoolImplements`:
`RSpec => ImplementsPacketPool`. Every call of the pool is the abstract call of the
same name, or leaves the packets as they are.

*The argument.* The chains are known from `IInv`; what is added is a bijection from the items
in use to the blocks of the packets (`CellOf`, `CellsAreItems`), so that an overflow for want
of items happens if and only if the abstract pool is full (`BlocksHeld`), and likewise
for trees (`PlacesTaken`). That the abstract pool accepts the same frame needs one more invariant,
`AllNumbered`: the frame number that a tree expects is the number of its blocks, counted in
turn, which the pool nowhere stores. The blocks of a chain are a sequence that is defined by
the function on ranks (`PathIsChain`); the lemmas `Begun...` and `Extended...` say what `Begin` and
`Extend` make of it, `AbstractGiveUp`, `AbstractRefuse` and `AbstractStays` put the kinds of
abstract steps together from what happens to each key and place, and
`OverflowImplements`, `NewImplements` and so on are the cases of the calls.

And it proves that the loops of the class compute what the operators of the model say:

* `ListsAsLooped`: `Spec => []ListLoops`.
* `ReadAsLooped`: `Spec => []ReadLoop`, for every room that a caller's buffer may have.

*The argument.* A loop is a recursive function on the number of its turns. Each proof names the value
that the loop has after every turn, as an expression in the path through the list, shows that one turn leads
from each value to the next, and concludes that the two functions agree, by the
least turn at which they would not (`SameTurns`). For `remove(Tree &)` the value is `Moved`: the first
items of the path hang in front of the free list in reverse order, the rest is as it was. At the end this is
what `Release` says of one tree (`RemoveTreeReleases`). `remove(extid)` and `timeout()` release
several trees, one after the other, where `Release` does so at once: `ReleaseOneMore`
puts one more tree in front of those that were released, which needs that the chains are disjoint (`IInv`);
in `timeout()` the other trees count down in between, which `ReleaseCounted` shows to make no difference.
`TailLoop` and `SpaceLoop` go along the path and stop at its end, `CopyLoop` appends the blocks it passes, up to
the first one without room (`CopyLoopIs`, `CopyLoopCopies`).

`CanLinkProofs` proves, for any number of nodes, messages and faults, any lengths of
messages, any sizes of the pool (`LinkAssumption`; the CRC is ideal):

* `IntegrityHolds`: `LSpec => []Integrity`, under the hypothesis `LargeBuffers`: every reader's
  buffer has room for the id and two frames (18 bytes). It does not hold without it: the pool
  returns the beginning of a packet that does not fit, and the codec takes up to ten bytes for a
  packet of a single frame, which has no CRC.
* `NotMultipliedHolds`: `LSpec => []NotMultiplied`, without that hypothesis.
* `ArrivedWhole`: `LSpec => ArrivedComplete`, for every number of frame numbers (at least one).
* `AddressesStay`: `ASpec => SettledStay`, for every number of nodes and addresses.
* `AddressedHolds`: `ASpec => []AddressedIntegrity`, without a hypothesis on the buffers: the
  property is about packets with a CRC only, and a packet that is cut off fails its check. The
  run checks it as `SharedIntegrity`, of the instance that `MCCanLink` has of `CanAddress`.

*The argument.* That a packet in the pool is a packet of somebody is not an invariant: when
five frames in a row are lost, the pool puts together what does not belong together, and the CRC is all
that tells. `LinkInv` is therefore about single bytes. A frame of the start or the middle has
no high byte of a CRC (`FullBlock`), one of the end has that of its message as last
byte, and all frames of that message were handed to the driver before (`GoodFrame`); so
the last byte of a complete packet in the pool names a message that was sent (`GoodTree`). If the
CRC matches, it is the CRC of that message in front of which all of its bytes stand. For
`NotMultiplied`, the returned packets, the complete ones in the pool that end like `m`
and the frame on the bus, if the pool would still take it for an end, are together no more than the
packets that were sent (`EndsCounted`); the pool takes the repetition of an end for a repetition or an
orphan because the tree is complete by then.

For `ArrivedWhole` it is about one sender: as long as every frame of its packet came through
(`Followed`: its key is in `whole`), one tree of the pool has exactly the bytes in front of its next frame
and expects the number of that frame (`Held`). While a frame is on the bus the sender is already a
turn ahead, and since the bus may have delivered it before, the pool has what stands before it or that
too (`OnItsWay`); the repetition of a frame of the middle has the number of the last and is dropped.
A frame of another key leaves the tree alone (`PushOthers`) unless it makes the pool
call `timeout()`, and the keys that lose a tree by that are no longer in `whole` (`Late`). A frame of
the same key cannot be that of another node, since a key has the address of its node and a node
sends one packet at a time.

For `AddressesStay`: Only a node that heard its own address
moves, and what a node hears is in `Underway` of another (`Quiet`). All steps
but that of the conflict are quiet: they add to `Underway(n)` no address but the one
that `n` has at the time, which needs that `txmsg` counts only from when a thread
has written it, and `as` only while a packet is being sent.

`AddressedHolds` rests on the same (`HadInv`: what is `Underway` of a node are addresses that it had)
and again on single bytes. A packet in the pool may be a mix of frames of several nodes, but each byte of one with
several frames is of a node that had the address it names (`NamedTree`). For that a
frame must not carry what was in `txdata` at the start: the first frame of several overwrites all
eight bytes before its id is written, and until then whatever id the other thread sends is that of a
`frm_single` (`NodeFill`). The last byte then names the message, and the CRC tells that all of it is there;
it need not be the CRC of the frame that the address came with.

`TelemetryLinkProofs` proves, for every set of tables, every size of fields,
blocks and arrays, and every carrier (`LinkAssumption`; the hash is ideal):

* `TypeCorrect`: `Spec => []TypeOK`.
* `TableGenuine`: `Spec => []Genuine`.
* `ReadRight`: `Spec => []NeverMisread`, under the hypothesis that two hashes
  differ in every byte (`HashesDiffer`), without which it does not hold.
* `MisreadsFew`: `Spec => []FewMisreads`, without that hypothesis.

*The argument.* `Genuine` speaks of tables, the decoder of bytes: the invariant
says that the hash of the bytes of the table in use is the hash the decoder has
(`Matches`), and that both consist of bytes, so that no hash is that of bytes
which are no table (`HashOfTable`). `Messages` is the set of all that encoders
ever send; the carrier only takes messages away. Each step of the decoder is a lemma
about a decoder and a message alone: `FeedDecoder`, `ValuesDecoder`,
`BeginDecoder`, `LoadDecoder`, `RecheckDecoder`, put together by
`FormatDecoder`. A block may leave a decoder that does not match for a
moment, which is why `WriteDecoder` promises less and the check that follows
restores it. For `ReadRight`, a table that survives `Feed` has the byte that the packet
brought (`FeedDecoder`), and one byte tells the table. Without the hypothesis the byte that a misread packet brought
is one that both hashes share (`MisreadFeed`); `MisreadInv` says that they share as many bytes, at
the places of the last packets, as packets were misread in a row, and four are the hash.

`TelemetryEncoderProofs` proves, for every size of the array, every set of
fields and every dictionary (`EncoderAssumption`):

* `TypeCorrect`: `Spec => []TypeOK`.
* `TableOrdered`: `Spec => []Sorted`, and `TableUnique`: `Spec => []NoDuplicates`.
* `CacheFits`: `Spec => []Cached`.
* `ValuesStay`: `Spec => ValuesKept`.

*The argument.* The inductive invariant `IInv` adds to these only that the loop
of `sync_flush()` has left its initial index behind (`TypedFlush`): what lies
behind the table may be anything, as the finding `encoder_synced` shows, and the
table is in order all the same. The steps of the loops that look for a place are not
followed; `UntilStops` and `GroupStops` say where they stop, and `UntilSplits` and
`GroupSplits`, that such a place has all lower fields in front of it and all higher ones behind,
which for the choices takes both loops together (`PlaceSplits`). `SlotAdded`
says what the array is after the slots have moved up, `AddKeeps` and
`AddValues`, what that means for order, caches and values. All other calls
leave the fields of the table alone (`SameFields`).

`TcpLinkProofs` proves, for all numbers of clients, threads, descriptors and
connections (`SocketsAssumption`, `ServerAssumption`, `ClientAssumption`):

* `TypeCorrect`: `Spec => []TypeOK`.
* `ClientsCounted`: `Spec => []CountIsRegistered`.
* `TableRight`: `Spec => []TableIsRegistered`.
* `DescriptorsOwned`: `Spec => []OwnDescriptor`.
* `AcceptorsCounted`: `Spec => []AcceptorsAccounted`.

*The argument.* `IInv` says that threads are created in the order of their numbers, that
those that serve a client have a descriptor and the registered ones a place, and that
the count and the clients that `close()` dropped are the registered threads and a
number of whole turns of the count (`Counted`); a lemma on remainders takes care of the modulo.
`TableInv` is what `TableRight` needs: while `orderly`, the first entries of the table are
exactly the descriptors of the registered threads, each once, and a thread that is not in `moved` has its
own descriptor at its index. Removing the entry at the index of such a thread is then the
removal of its own, a bijection that loses one pair; the threads with a higher index become `moved`. `OwnDescriptor` relies on the kernel: a descriptor that is
given out was closed before.

It also proves `LostLeave`: `Spec => []OnlyLostLeave`.
Unless something broke or `close()` dropped clients, a thread leaves its loop only when
its client has closed its end.

*The argument.* `LinkInv` adds to `IInv`, as long as `Calm` (nothing broke, nothing was
dropped), that every end whose reader would be told of an error or of the end of the
stream faces an end that its owner closed (`Honest`), that the descriptors that are open belong to
connections of their own, and that a thread that is about to leave has seen such an end
(`CalmInv`). A step that only adds to what waits at the ends, or takes from it, keeps
that (`Softly`, `SoftStep`). The loop of `write()` is a recursive function over
the entries of the table: `LoopExists` and `LoopSoftly` show that it is one such step, by
the least entry that would not be.

And it proves what a client may rely on:

* `ConnectedServed`: `Spec => []ConnectedIsServed`.
* `PacketsHeard`: `Spec => []EveryPacketHeard`.

*The argument.* `HandInv` types what waits at the ends and says who may have what: every client has a
connection of its own, and as long as `close()` drops nobody there is neither a request that the
server accepts nor an answer on a connection whose client has a path that does not begin with
that of the server, or none. So a
client that is past the handshake has such a path. `ServedInv` says, while `Calm`, that
a client to which the answer is on its way, or which has it, is served by a thread: the
answer and the place of the thread behind it come in one step (`ReplyTo`), threads keep their
connections (`ConnKept`, by `OwnDescriptor`), and they leave only clients that are gone (`CalmInv`).
`HeardInv` follows every connection through its stages while nothing broke and the table is
`orderly` (`Hears`): while it is `Fresh` nothing was sent to the client; while its thread is about to
register it, at most the answer, in front of all else (`AnswerFirst`); from then on what the client has heard and what waits
behind the answer are the packets since (`Packets`). A connection never goes back
(`Stages`), and the answer comes once, since two threads at one connection would have one
descriptor (`OwnConn`). `write()` reaches exactly the connections of the registered threads, each
once (`WriteExact`, from `TableInv`), and each of them is ready to take the packet: only an
end whose client has closed refuses it (`Honest`).

`CobsDownlinkProofs` proves of the COBS codec, for every size of packets and of blocks (`CobsAssumption`) and every
checksum of two bytes (`CrcAssumption`),

* `DecoderBounded`: `Spec => []TypeOK`. No byte is written behind the decoder's buffer.
* `BufferFits`: `Spec => []EncodedFits`. Nor behind the encoder's, by `overhead()`.
* `PacketsReturned`: `Spec => []WholeReturned`.
* `OthersAreRefused`: `Spec => []OthersRefused`.

*The argument.* The decoder keeps neither the bytes that it saw nor where the block it copies
began. `Reads` says what they were: behind some number of bytes of its buffer, at which the
encoder starts a block (`StartsAt`), it has seen the blocks of all that is in front, the code
of the block, and the bytes of it that it has copied (`InBlock`). A byte of the block, or the code
of the next, keeps that (`ByteReads`, `CodeReads`). At a delimiter with no byte missing, what was seen is
what the encoder writes for the buffer, or that and the code 1 (`WrittenAsRead`), and the CRC
makes it a packet (`PacketRead`): that is `OthersRefused`. For `WholeReturned`, `Follows` says that while what
was seen is a beginning of a packet's encoding, the buffer is a beginning of its data.
Two data that agree up to a place have the same blocks up to there (`BlocksAgree`), so the next code
is the one that the encoder gives to the packet's block (`BlockFollows`, `BlockAhead`), and
the next byte is the packet's too (`TakenFollows`); at the end of the encoding, the buffer is all of
the data (`EndFollows`). `TurnKeeps` puts the cases of a turn together, `TurnsKeep` the turns of a
call. For `EncodedFits`, each code behind which no zero was left out stands for a full block
(`Sized`), and `overhead()` has room for these, the first code, the CRC and the delimiter
(`OverheadEnough`). Both loops are recursive functions on the numbers of the bytes, and a claim about all of them follows from
the least one for which it would fail.

The same module proves of the downlink, for every table of variables of at least one byte that
are no longer in the compact mode (`SettingsAssumption`, which the table in
`MandalaTemplate.h` fulfils), any number of variables to a mask, any room in a packet and
any values,

* `DownlinkSynced`: `DownlinkSpec => []DownlinkInSync`.

*The argument.* The places of the variables in the snapshot do not overlap and are inside it in either mode
(`PlaceIs`), so that writing a variable leaves the others alone (`StoreIs`). `PackInv` says, behind each
turn of `pack_downstream`, that what was written is in the snapshot and no longer flagged, that the rest
is as it was, and, if nothing was cut off, as the vehicle has it. The receiver cannot be compared with the turn
of the vehicle at the same variable directly: the mask that it reads was still written to later, and
the packet may end behind any variable, without the masks of zero that come last. `Ahead` relates a turn to the last one: the
bytes are the same but for later bits of the mask of the group, and whatever else was written
is behind them. So the bit of a variable is in the packet if and only if it was set in
its turn (`MarkStays`), and the receiver has its pointers where the vehicle had them
(`InStep`), until there is nothing left for it to read (`Spent`): it reads what was sent, and nothing else (`StreamRead`). The
invariant `LinkInv` says that what the receiver has of a variable whose last copy arrived is in
the snapshot, at its place in the mode of the last packet, or the variable is flagged; with a change of the mode
everything is flagged, which is why the places may move.

*Not proved*, only model-checked: what is said of `TelemetryStream` (`RoundTrip`, `Truthful`), of the
checksums and of the formats (`ChecksumsAgree`, `StreamsReturn`, `ValuesReturn`). It is what a fold or a `RECURSIVE`
operator computes, which takes an induction over data that the provers at hand cannot do; they cannot do
liveness (`Settles`, `GetsTable`, `Recovers`) either.

## Findings

Runs with the expectation "violation"; details in `PROJECT.json`.

* `encoder_synced`: `update(..., sync)` writes a pending value one place behind
  the place where `sync_flush()` looks for it. The last one of the values that
  were reported as synced is not added, and a slot nobody wrote is.
* `stream_pair`: a packet that ends in a pair of four-bit values, of a table
  without bit fields, makes the decoder drop its table.

Observations that no run states:

* The comment on `XCAN_CODEC_TIMEOUT` ("number of valid packets to remove old
  orphans", `CanPool.cpp:41`) does not fit the code: valid packets do not call
  `timeout()`; refused frames do. `OrphansExpire` states what holds.
* With one place left in its array, `update()` writes the pending slot before it
  reports the overflow (`TelemetryEncoder.cpp:192-201`).
* A packet without values makes a decoder that knows the hash valid although
  it has no table ("empty dataset stream", `TelemetryDecoder.cpp:78`), whatever
  the size of the table.
* The COBS decoder accepts an empty block behind a full last block, which the
  encoder does not write. After `ErrorOverflow` the rest of an overlong packet is
  read as a packet of its own, with nothing but the CRC to refuse it. Neither
  does harm.
* Under an ideal hash the second check of `decode_format` (`Recheck`) never finds
  anything, because a block with the right hash has the right bytes.
* Packets with the same id that completed one after the other are read in the order of
  their trees, which need not be that of their arrival (`CanPool.cpp:252`).
* Telemetry: in a full buffer the encoder takes back as many codes as it meant to write
  (`TelemetryEncoder.cpp:361`), also those that found no place, and so removes values that it
  has written, or their count. Tables whose packets may be larger than the buffer are exposed:
  of 25 one-byte values, with number 1 and 22 changed and 8 bytes, the receiver accepts wrong ones;
  a packet that would have fitted without the codes in between is damaged as well (`Fits`).
* TCP: the server compares as many characters of the path as its own has
  (`_tcp_server.cpp:188`), and answers a request for a longer one. Its answer names the stream
  by `_host.path + 1` (`:206`), which is behind the string when the path is empty.
  `_host.stream` of a client has no initial value; a client without a path may count as
  connected by it.
* TCP: after the client has closed its end in order, `recv` returns 0, which `read(fd)` takes
  for "no data": the server keeps the thread and the entry until a packet for
  that client fails (`tcp_client.cpp:239`), unless the end comes while the thread looks for
  it with `recv(MSG_PEEK)`. `create_thread()` may fail unnoticed in `run()`
  (`_tcp_server.cpp:168`): then the server listens and nobody accepts. A `send` that takes a
  part of a packet tears the stream. The arrays of clients and threads have 50
  entries, and nothing checks their counts.
* The second time stamp within one tick moves the clock of the decoder by a whole turn, as a
  difference of zero counts as 65536 (a telemetry and a transponder packet of the
  same 20 ms, say). A transponder packet in which a value in the middle of the dataset
  has no slot is misread, as nothing in it tells.
* `CRC_16_CCITT_QT` (`crc/sw/crc_sw.c`) keeps the upper byte of the register
  where the algorithm of that name has it shifted down. `CRC32_SW` reads up to
  3 bytes behind the message and masks them; a message and its zero-padded form have
  equal sums.
* The status of a node says that it has 4 bytes (`XbusNode.h:287`), and writes 16; the
  counters of blackbox events are copied without conversion to the byte order
  of the wire (`XbusNodeBlackbox.h:55`).
* A value that is packed and unpacked again and again in a fixed format loses a unit
  toward zero each time; an angle of -128 units returns as one of the other sign.
  `pack_float_f2` of the backport sets an invalid variable of the vehicle to 0 while it
  sends NaN (`MandalaCore.cpp:257`). Integers above 2^24 lose bits in `pack_set`, which takes
  them through a float.
* Downlink: mask bytes of zero behind the last variable are written without a check of
  `maxSize` (`MandalaFlat.cpp:180`); with a `dl_period` of 0 the clock may never hit a multiple
  of ten seconds (`MandalaFlat.cpp:190`). `dl_reset_mask` is sized with `& 3` where `& 7`
  is meant (`MandalaFlat.h:53`), which for the present table gives the same size.

## What is not modelled

* In the links, CRC and hash functions are ideal (equal for equal data only);
  the checksums themselves are in `Checksums`, but for `CRC_8XOR` and `CRC_SUM`, which add
  up bytes, and `CRC_16_CCITT_QT`.
* Locks: that calls of one pool do not overlap is assumed of the owner, who has to hold
  `lock_push`, or something like it, around `push_message`; the mutex of the TCP server is
  assumed to be what it is called.
* Memory outside an array, but for the slots of `WrittenBehind`.
* The kernel, but for what the calls in `xbus/tcp` return (`TcpSockets`); time, but for
  timeouts that may or may not expire.
* The dictionaries, which are generated from a tree outside of the repository, and the
  owners of the codecs.
* The UDP client: each call is one system call on one descriptor, and there is no protocol
  over several calls.
* The layouts in `XbusMission.h`, of which no code in the repository reads or writes
  a byte, and the macros of `preprocessor.h`.
* The vectors, matrices, geometry and filters of the backport (`MatrixMath`, most of
  `MandalaCore`): formulas of floating-point numbers without state, about which TLC
  has nothing to say.
* The statistics of the downlink (how often a variable was sent).
* Retired code: `can/V9`, which refers to types that are gone and is in no
  build list, and `EscV9.h`, whose implementation is commented out.

## What could follow

The safety properties of the pool, the CAN link, the tables of the telemetry, TCP, the COBS codec and
the downlink are proved. The next would be the bytes of a telemetry packet (`TelemetryStream`), with
`decode_values` and `encode_values` as recursive functions like the loops of `Cobs` and `Downlink`; for the formats, a prover
that has induction. The owners of the
codecs, when they come into the repository, would decide on fairness and on the order of
requests, which the links now leave open.
