# LightweightFEC in TLA+

A specification of LightweightFEC's block protocol: a sender cuts a stream into blocks of N
payloads, adds K parity payloads, and sends N + K datagrams; a receiver collects what arrives,
decides when a block is over, and recovers what is missing. Paths below are relative to the
repository.

## The system

| Component | Source | State | Operations |
|---|---|---|---|
| Receive block table | `libfec/include/ltfec/pipeline/rx_block_table.h`, `block_tracker.h`, `block_state.h` | open blocks by generation id; per block the payload vectors, two sets of arrival bits, the start time | `ingest`, `should_close`, `close_if_ready`, `snapshot` |
| Block recovery | `libfec/src/fec_core/block_xor.cpp`, `gf256_decode.cpp`, `gf256.cpp`, `xor_parity.cpp` | none (lookup tables) | encode, recover |
| Transmit assembler | `libfec/src/pipeline/tx_block_assembler.cpp`, `pipeline/fec_encoder.h` | next generation id | `assemble_block` |
| Frame format | `libfec/include/ltfec/protocol/` | none | encode, decode, checksum |
| `fec_sender` | `apps/f/fec_sender/main.cpp` | block and frame counters, pacing, metrics rows | one loop, then the footer |
| `fec_receiver` | `apps/fec_receiver/main.cpp` | the table, `last_seen_ms`, `closed_blocks`, metrics rows | receive, ingest, scan |
| UDP transport | `libfec/src/transport/udp_asio.cpp` | a socket and the options set on it | open and configure, open and bind, send, `recv_once` (blocking) |
| Endpoint parser | `libfec/include/ltfec/transport/ip.h` | none | `parse_endpoint`, `ipv4_is_multicast` |
| Metrics | `libfec/src/metrics/csv.cpp`, `libfec/include/ltfec/metrics/` | the CSV buffer | header, rows, footer, save |
| Utilities | `libfec/include/ltfec/util/`, `libfec/src/util/`, `sim/rng.h` | the generator's word | CRC-32C, little-endian words, generator, run id |
| Loss simulator | `libfec/include/ltfec/sim/` but for `rng.h` | the generator, the channel's state | drop decisions (tests only) |

The two programs share nothing but datagrams. Inside the receiver everything is one thread: a
datagram is received, the clock is read once, the frame is ingested, and every generation seen
since its last close is asked whether it is due; a datagram that cannot be decoded ends the turn
before that, with whatever is due left open. What is hard is therefore not locking but
*arrival*: any subset of the frames, in any order, repeatedly, late, from a sender that was
restarted meanwhile or from two senders at once, against deadlines that are looked at only when
something arrives.

What makes each part correct:

- *table*: three records of what arrived never disagree; every payload of a block has one size;
  a deadline never moves; closing loses nothing; any N frames restore a block; no wrong bytes;
- *receiver loop*: every open block is tried, the turn of an intact datagram closes everything due,
  the loop stops at the right block, every block is closed eventually;
- *sender*: generation ids are never reused, frames are paced, the footer tells the truth;
- *wire format*: decoding gives back what was encoded; a damaged datagram never passes as a
  payload that was not sent;
- *start-up and shut-down*: an address means what was typed, no loop runs over a half-configured
  socket, the metrics file agrees with the exit code and can be read back;
- *all together*: what is handed over is one block of one sender; a single loss is repaired.

`PROJECT.json` lists the hazards line by line with the properties that cover them.

## Modules

    Frame ── RxBlock ── RxBlockTable ─┬─ RxDelivery ···implements··> BlockDelivery
      └───── TxBlock ────────────────-┘      │
               │             RxBlockTable ── Receiver ─┐
               └──────────────────────────── Sender ───┴─ Link

    Gf256 ── ErasureCode

    Words ─┬─ Crc32c ── FrameCodec ── TxDatagram (with TxBlock) ─┐
           └─ Rng ───────────────────────────────────────────────┤
    Endpoint ── Udp ─────────────────────────────────────────────┼─ Program
    CsvWriter ───────────────────────────────────────────────────┘

- `Frame`: a decoded frame. A payload is a token (block it was made for, position, length); equality
  of tokens is equality of bytes.
- `RxBlock`: class `RxBlock` with its `BlockState` and `BlockTracker`, as operators on a record. The
  three records of arrival are kept apart, as in the code. Recovery keeps every guard of
  `extract_closed` and of the two decoders (which rows are taken, how many holes are allowed); the
  field arithmetic is the operator `decode`: rows and payloads of one block, at the positions its
  sender gave them and at least as many rows as holes, give the original payload; anything else
  gives `Garbage`. Patterns the solver cannot solve are the constant `Singular`. That this
  abstraction is right is what `ErasureCode` is about.
- `Gf256`: the field. A byte is the set of its 1 bits, addition is symmetric difference, the tables
  are filled by repeated multiplication with alpha as `tables()` does; TLC evaluates them once.
- `ErasureCode`: `FecEncoder::encode`, a loss, and the decoder `extract_closed` picks, on one byte
  column of a block (the columns do not interact and share one matrix). One action per frame and row
  of the encoder, per frame of `block_xor_recover_one`, and per column of `solve_gf256` with its
  pivot search, exchange, scaling and elimination.
- `TxBlock`: the frames `assemble_block` emits, with u16 sequence numbers and u8 indices.
- `RxBlockTable`: the table as a state machine under any caller with a monotone clock
  (`steady_clock`) and ANY frames, contradictory headers included. `Ingest`/`IngestRefused` are the
  two outcomes of `ingest`, `close_if_ready(g)` the successful call; a call that finds nothing due
  changes nothing. `out` is the result of the latest call.
- `BlockDelivery`: the promise, with no vectors or bits: any N of N + K frames restore a block, with
  fewer the arrived payloads are handed over alone, the deadline runs from the first frame.
- `RxDelivery`: the table fed with frames of the assembler (lost, repeated and reordered at will)
  beside generations that follow no rule, and the refinement mapping to `BlockDelivery`.
- `Receiver`: the loop of `fec_receiver`. `pc` is where it stands (blocked in `recv_once`, scanning,
  ended); `todo` is what the iteration over the unordered map has not reached, so every order is
  explored; `log` holds the "block CLOSED" lines. `RecvDamaged` and `Continue` are the turn of a
  datagram that `decode_frame` or the CRC check refuses: back to `recv_once` without a scan. The
  clock moves only between turns, since a turn uses one reading.
- `Sender`: the loop of `fec_sender` with pacing, a failing `send`, a kill and a restart.
- `Link`: both programs and a path that loses, damages, repeats, delays and reorders. A damaged
  datagram wakes the receiver and is refused (`Damage`). It extends `Receiver` and instantiates
  `Sender` (its names begin with `S!`); both share `now` and the datagrams under way.
- `Words`: unsigned integers as sets of bits; shifts, `^`, and `endian.h`.
- `Crc32c`: the table-driven checksum, and beside it CRC-32C by its definition, the remainder of a
  polynomial division.
- `Rng`: `XorShift32` and the bytes `uuid_v4` makes of it.
- `FrameCodec`: header, subheader, payload and trailer as bytes; what the encoders refuse, what
  decoding checks and what it does not (the version, bytes after the trailer).
- `TxDatagram`: the headers `assemble_block` fills in, `make_payload`, and back from a datagram to
  the token frame of `Frame`; `contents` is everything a datagram holds, field by field.
- `Endpoint`: the address parser over texts cut into pieces (a run of digits, a separator, anything
  else), and independently the texts that spell an end point as `ip.h:56` has it.
- `Udp`: `open_and_configure` and `open_and_bind` as sequences of socket calls, each of which the
  system may refuse. A socket is the record of the calls that succeeded and their arguments.
- `CsvWriter`: the buffer of class `CsvWriter`, and a reader of quoted CSV.
- `Program`: both programs from the command line to the exit code. A scenario is a command line with
  the failures and datagrams around it; the actions are option checks, start-up, opening the socket,
  the rows of the loop, its errors, the footer and saving. The loops themselves are `Sender` and
  `Receiver`; here a step of a loop is the row it writes. A datagram is cut to the receiver's buffer
  (`truncated`).
- `MC*` modules give the constants for TLC. Operators introduced by a comment "Bug" are variants of
  the definition after them; mutation runs substitute them to see that a property notices.
- `RxBlockTable_proofs`, `RxDelivery_proofs`, `Receiver_proofs`, `Sender_proofs`, `Link_proofs`,
  `ErasureCode_proofs`, `FrameCodec_proofs`: theorems about the module of that name.
- `Program_proofs`: theorems about `Program` and the modules it is made of, `Endpoint`, `Udp`,
  `CsvWriter`, `Rng` and `TxDatagram`.

## Runs

| Run | Question | Result |
|---|---|---|
| `delivery` | Does the table implement `BlockDelivery` for a block with XOR beside one with GF(256)? Is nothing but sent bytes handed over? Does it stay consistent although two senders share a third id with different N, K, lengths, and indices out of range? | holds |
| `receiver_loop` | Does the turn of an intact datagram close all that is due, also what fell due while damaged ones arrived; is no block orphaned, does the loop stop at exactly Expect closings, does `last_seen_ms` stay small? | holds |
| `sender_restart` | Are ids unique over a kill and restart, bursts bounded, footers truthful? | holds |
| `link_faults` | With K = 1, one datagram lost or damaged, one copy and delays inside the deadline, is every block of a sender that was not killed whole when first closed? Can datagrams of a killed sender mix with its successor's in one recovery? | yes; no |
| `link_lossless` | With K = 1 and no loss, does the receiver finish, with as many different blocks as asked for? | yes, under fairness |
| `erasure_code` | Do encoder and decoders fit, for every loss? Does elimination keep the solution? Are as many rows as holes enough? | yes; yes; yes, unless K = 4, N > 21 and a parity frame between the rows used is lost |
| `program_edges` | Is an address read as spelled, the socket complete before the loop, the metrics file readable and in agreement with the exit code, the frame rate intact in the table, an intact datagram that fits the buffer understood field by field, and a damaged one never taken for other bytes? | holds, with the deviations in documented format listed under *Other disagreements* |
| `erasure_k4` | Are they always enough? | violated at N = 22: e.g. rows {0, 1, 3} with frames 0, 10 and 21 lost |
| `sender_footer` | Is there one footer? | violated: a failed send leaves `error` and `ok` |
| `link_reopened` | Does ok mean Expect different blocks with K = 2? | violated: a late parity frame reopens a closed block, whose shell counts |
| `link_idle` | Is every block closed eventually? | violated: nothing looks at the clock after the last datagram |
| `link_defaults` | Is a lossless block at the default settings closed whole? | violated: the 60 ms cap comes before the third of eight frames 33 ms apart |

The violated ones are disagreements with `docs/` or a comment and are quoted in `PROJECT.json`.

### Bounds

Frame rates of 1000 fps make a span N ms long, so deadlines of a few ms and clocks up to 8 ms cover
blocks that close early, in time and late, and a generation that is opened again after its close.
Which of the three deadline rules is the earliest varies between the runs: in `delivery` twice the
span (4 ms, two ticks) for blocks of 2 data frames and the reorder window (5 ms) for the shared id
when it is opened with 3; the reorder window in `receiver_loop`; twice the span in the link runs;
the 60 ms cap in `link_defaults`. Entries of the table do not interact but for the clock; three
generations suffice to have a block with XOR, one with GF(256) and a contradictory one at the same
time. The systems the real solver cannot solve need 22 data frames, so `delivery` puts another in
their place that only the contradictory block meets (`MCSingular`). Blocks of 2 or 3 data and 1 or 2
parity frames have losses below, at and above what parity repairs. In `Link`, one loss or damage and
one copy are allowed per run, each of any frame at any time, and delays let frames of neighbouring
blocks overtake each other. `MaxTime`, `MaxRuns`, `MaxLoss`, `MaxCopies`, `MaxRows`, `Blocks` and
`GenWrap` bound what the programs do not; `GenWrap` stands for 2^32, and no run lets ids wrap. A
restart takes at least one millisecond.

`FirstCloseWhole` speaks of the first incarnation of a sender as long as it was not killed: a
killed one leaves a block that nobody completes.

In `erasure_code`, blocks of up to 5 frames lose any subset of their frames and, independently,
any subset of the parity. Of 21 or 22 frames up to four are lost, the first of them frame 0;
moving all lost positions by d multiplies row j of the matrix by alpha^(jd), which changes nothing
about its rank. N = 21 and 22 are the border: smaller blocks are always repaired. The data is what
`make_payload` yields, one byte per frame.

In `program_edges` a scenario differs from a default command line in one respect, or in the few
that matter together: a text with one piece replaced, inserted or left out; the first octet on
both sides of both ends of the multicast range with TTL, loopback and interface at their edges;
each single socket call refused; N, K, `--fps` and the counts at and one past their limits. The
datagrams are data and parity frames of blocks of (N, K) = (2, 2), (255, 4) and (1, 0), so fields
fill one byte and two; each is cut at every length, lengthened, and has every single bit flipped,
and zeroed datagrams come in all sizes around the smallest accepted one. `BufferSize` is 25, the
size of the largest of these datagrams, where the code has 4096; one more is a byte longer. With the
1300 bytes of payload that `fec_sender` admits a datagram has at most 1322, so its own datagrams
always fit. That what does not fit is cut is how POSIX receives; Windows reports an error, which is
`LoopError`. A file has at most
`MaxRows` rows beside the first: rows do not depend on each other.

### Fairness

Only `link_lossless` and `link_idle` use it: weak fairness of the sender's steps, the receiver's
scan, delivery of a datagram that is still on the path, and the clock. All four are continuously
enabled steps of the operating system or of single-threaded loops that do not wait for each
other. No fairness is put on losses, failures, copies, kills or restarts.

## Proofs

Each theorem holds for all values of the constants that satisfy the named assumptions; TLC
evaluates those assumptions in the runs.

*Table.* `RxBlockTable_proofs` proves `TypeCorrect`, `OneSizeSafe`, `TrackersSafe`, `DueIsStable`
and `ClosingKeepsArrived` for any generations, any set of frames, any shapes, lengths and
configuration. None of the first three is inductive alone: storing a payload keeps the trackers in
agreement only if the vectors have the sizes of the policy and the block has started, and the
length check compares with a length that all stored payloads must share. `IInv` says that every
open block is *sound* (typed, one size, in agreement); the lemmas `NewBlockIsFresh`, `StartFresh`,
`PutData`, `PutParity` and `IngestedSound` carry soundness through `ingest` in the order the code
runs, `NextIInv` has one step per action. `DueIsStable` rests on `ShouldCloseMonotone`: bits are
only added, the start stays, the clock grows. `ClosingKeepsArrived` rests on `LostIsMissing`: in a
sound block "wrong size" and "nothing arrived" coincide. Assumed: frames carry natural numbers and
known generations (`FramesAssumption`), `Missing`, `Garbage` and `NoBlock` are distinct from what
they stand beside, the configuration and the ticks are naturals.

*Promise.* `RxDelivery_proofs` proves `DeliversOnlySent` (`Integrity`) for every shape `fec_sender`
admits (N up to 255, K up to 4), whichever systems the solver fails on, any deadlines, and anything
at all under other generation ids; and `KeepsThePromise`, the refinement of `BlockDelivery`, for
blocks with K <= 3 or N <= 21. With K = 4 and N >= 22, which `fec_sender` admits too, the code does
not keep that promise: a block may have N frames and keep its holes (`erasure_k4`). The invariant
`DInv` adds to `IInv` that an open block of an honest generation holds nothing but its sender's
payloads at their positions, at least one of them, and a start that is not in the future. The rest
is counting: N frames are as many rows as holes (`Counted`), the guards of the two decoders then let
recovery happen (`RecoversEnough`), the first m rows are m (`Smallest`, by a bijection onto an
initial segment), and they name the one origin that decoding needs (`HonestDecode`). `ingest` maps
to `Arrive`, closing to `Deliver`, other generations to `Elsewhere`. Assumed beside the above: every
frame of an honest generation is one its sender assembled (`TrafficAssumption`). `KeepsThePromise`
has the hypothesis `OnlyLargeSystemsFail`: the solver fails only on systems with the fourth parity
row and a payload beyond the first 21, which is what `EnoughRowsUpToThree` proves of it in
`ErasureCode`. The step before it, `KeptWhereSolvable`, needs only that the systems of the shapes
that are sent can be solved, which is the case in the run `delivery`.

*Receive loop.* `Receiver_proofs` proves `LoopTypeCorrect`, `NothingOrphaned`, `ScanMissesNothing`,
`NothingDueAfterScan`, `StopsOnTime` and `NothingPilesUp`. Every step of the loop is a step of
the table or leaves it alone, so `IInv` carries over; the invariant `RIInv` adds that what is open
is remembered, what is remembered and not open belongs to a frame the table refuses whatever it
holds, what is due during a scan still lies ahead of it, and count, lines and footer agree.
`NothingDueAfterScan` is about the turns that scan. The turn of a refused datagram goes back to
`recv_once` with blocks due, and the theorem says that the next intact datagram closes them all.

*Sender.* `Sender_proofs` proves `SenderTypeCorrect`, `IdsAreUnique`, `BurstsAreSmall` and
`OkIsTrue`, over any number of kills and restarts. Ids: `IdInv` says that ids never run ahead of
the clock, so an incarnation, which begins with the clock, begins above all ids used before. That
needs every block to take a millisecond (`Paced`: two data frames, or a pause between blocks) and
ids below 2^32 (`NoWrap`). Bursts: `PaceInv` counts the frames that left at the present reading by
the point the loop has reached. Footer: `SentInv` says which sequence numbers of which block have
left.

*Link.* `Link_proofs` proves `NothingMixed` (`BlockIntegrity`): whatever is handed over comes from
one block of one sender, although the path loses, repeats and reorders and the sender is killed and
started again. `LinkUsesReceiver` first shows that every behaviour of the link is one of the
receiver alone, fed with frames: every datagram on the path was assembled (`TInv`), so it is one of
`Frames`. All that is proved of the table and of the receive loop carries over. `OInv` then names,
for every generation id on the path, in the table or in the output, the one block that has it:
`IdsAreUnique` says that no second one gets it. The proof needs what `IdsAreUnique` needs (`NoWrap`,
`Paced`), and nothing about whether systems are solvable, since a block that cannot be recovered is
not handed over as if it were.

Two more theorems of `Link_proofs` are about time. `InDeadline` says that the sender's pauses within
a block, every one of them overslept, and the path's delay together stay below the earliest of the
receiver's deadlines; with the default options they do not (`link_defaults`). `LinkStep` first
reduces each step of either program or the path to its effect on the variables the argument is
about. `Ordered`: ids on the path, in the table and in the log lie below the id of the block that
comes next. `Timely`: the sender wakes in time, the frames of a block leave within its span of each
other, a datagram on the path arrives before the deadline of the block it belongs to, and the block
being sent is never closed by age. With that,

- `OkIsDistinct` (`OkMeansDistinctBlocks`): `Once` says that no datagram has a twin on the path or
  in the table and that of a closed generation nothing is on the path or to be sent, so each is
  closed once and the lines of the log count them. It needs that nothing is repeated and that a
  block has at most one parity frame: with more, a block can be closed when the first of them
  completes it and be opened again by the next one, which is what `link_reopened` shows. Losses,
  failing calls, kills and restarts do not matter.
- `FirstIsWhole` (`FirstCloseWhole`): `FewGone` says that of a generation not closed yet no more
  frames have disappeared than the path has lost. A block closed past its deadline has nothing left
  on the path, so what it misses was lost; if that is at most K frames, there is a parity row for
  every hole (`RowsForHoles`) and the decoders fill them (`RecoversAll`). It needs `MaxLoss` at most
  K and, for K = 4, systems that can be solved (`Solvable`, which `WhatDefeatsRecovery` below
  decides). Repeated frames, reordering and failing calls do not matter.

The constants of `link_lossless` and `link_faults` satisfy the hypotheses of the one and the other.

*Erasure codes.* `ErasureCode_proofs` proves `RecoveryIsExact` for every N, every data, every loss
and every K up to 4: what recovery leaves in a hole is the byte that was sent. Beyond 4 it is not
true: `FecEncoder` falls back to XOR and the decoder does not. With K = 1 (`XorRecovers`) the
invariant `XorInv` follows the two loops with partial sums, given by an existential, so that the
loops supply the induction (`SumsExtend`, `TakenStep`, `TakenEnd`). With K from 2 to 4 the argument
is the field's. Two closed facts about the tables are assumptions without constants, which TLC
evaluates exhaustively in the runs: `FieldTables` (the two tables are inverse to each other, with
period 255, and a product with a sum of single bits is taken apart bit by bit) and `NoThreeAddUp`.
From the first follow the laws of the field (`MulAssociates`, `MulInverse`, `MulDistributes`). Sums
over sets of frames are then taken apart one by one (`SumAdd`), encoding fills each row with its sum
(`EncodeKeeps`), the system that is set up holds for the bytes that were sent (`SetUpHolds`, which
is the theorem `SystemHolds`), every column that is eliminated keeps that (`ColumnKeeps`), also in
the columns the code skips, and an eliminated system spells out its solution (`EndSolves`). `GfInv`
carries this through a run.

*When recovery succeeds.* `WhatDefeatsRecovery` proves `OnlyGapsDefeat` for K up to 4 and N up to
255, and `EnoughRowsUpToThree` proves `EnoughRowsSuffice` where it is true. Both rest on the system
having one solution at most (`OneSolution`). Rows of consecutive exponents vanish only at zero
(`TwoHoles`, `ThreeHoles`, `FourHoles`): subtracting multiples of a row from the next one removes
one unknown at a time, and what is left is a product of differences of powers of alpha, which differ
as long as no two holes are 255 apart. If a row in between is missing, the sum of the powers at the
holes is a further factor (`RowsWithGap`); `NoThreeAddUp` says that it is not zero among the first
21 frames, and `erasure_k4` shows that it can be among 22. A column keeps `OneSolution`, because the
row operations are undone by others (`ColumnKeepsOne`), and if a pivot were missing, the column
would itself spell out a second solution (`PivotThere`). So the code's "unsolvable" is reached only
where the theorem says.

*Formats.* `FrameCodec_proofs` proves `DataRoundTrip` and `ParityRoundTrip`: whatever header and
payload the encoders take, the decoder gives back, and the checksum fits. `ChecksumIsTheRemainder`
says for bytes of any number that the loop over the table computes CRC-32C as it is defined, the
remainder of a polynomial division. That is an induction over data, and the library's induction
theorems take an operator, which no prover here instantiates; `SetInduction` states induction of a
set of numbers, `Recursion` that a recursive function obeys its equation, and both are proved from
well-foundedness. `BurstIsDetected` says what the checksum is for: byte sequences of one length that
differ, with their checksums, within 32 consecutive bits only are the same. Both are run through the
serial register (`SerialChecksum`). Up to the burst the two registers are equal; after it they are
fed the same bits and agree at the end, and since bit 31 of a register shows what was shifted out of
the one before (the polynomial has bit 31), they agree back to the end of the burst (`ShiftedBack`,
`RegistersAgree`); in between there are only 32 steps, in which a first difference cannot have left
the register (`ShortBurst`). `BurstIsRefused` carries this over to datagrams whose headers place the
payload alike.

*Programs.* `Program_proofs` proves for every scenario what `program_edges` checks. The parts come
first. `ParsesWhatIsSpelled` compares the address parser with the texts that spell an address, for
texts of any length: it takes those, and besides only texts with a fourth dot (`has_tail`), which it
reads as the text without what stands between that dot and the last colon (`without_tail`).
`RowIsReadBack` says that a row written by `CsvWriter` is read back as its fields: a chain of reader
states (`Leads`) follows the reader through an escaped field, a comma and a line end. `NeverStuck`
says that the generator never reaches 0 (each of its three steps is injective at 0),
`UuidIsVersion4` that every run id is marked version 4. The invariant `PInv` then follows a program
from the command line to its end: before start-up nothing is open and nothing written; after it, the
buffer read as a table is a header, rows as wide as the header, and footers that fit how far the
program has come; the socket has had every call of its kind, with the arguments of the command line;
what was heard is one of the datagrams the encoders make or a damaged one; the file is the buffer as
it stood when it was saved. `ProgramInvariance` has one lemma per action. From it follow `PTypeOK`,
`AddressReadRight`, `IntactIsUnderstood`, `TrailerIsRemainder`, `TableGetsTheRate`, `SocketIsReady`,
`FileTellsTheExit` and `ColumnsLineUp`.

`NoForeignPayload` is true of the payloads checked and not of all payloads: no checksum covers the
header, so a flipped bit in the payload length, or in the fields that make a frame a parity frame,
moves the window the checksum is taken over, and a payload may be made so that the moved window has
a checksum behind it. `ForeignIsAlwaysNested` says, with no hypothesis, that nothing else can go
wrong: a payload that was not sent lay complete, with its own checksum, before the end of the
datagram that was sent. A bit flipped elsewhere leaves the window in place and is found
(`BurstIsRefused`); a flip in the header that is accepted can only make the window end earlier,
since an encoder leaves nothing after the checksum (`DatagramLength`, `OneFlip`); a datagram that
was cut is too short for its header (`OneCut`). `NeverForeign` is `NoForeignPayload` for every
set of frames none of which nests a payload (`NothingNested`). That is a hypothesis about payloads
and not about the code; `MCProgram` assumes it of the frames of the run, so TLC evaluates it there.

Assumed: option values have their types, datagrams and frames are ones a program can send or meet
(`ScenariosAssumption`), a file may have at least one row (`RowsAssumption`), the
buffer has a size (`BufferAssumption`), `None` is no end point (`NoneAssumption`), a run of digits
has a value (`NumeralAssumption`).

*Model-checked only.* `ReceiverFinishes`, the one liveness property that holds: liveness under
fairness is out of the prover's reach. That the frames of `program_edges` nest no payload
(`NothingNested`) is evaluated by TLC; it depends on their bytes.

## Not modelled

- K > 4: `fec_sender` admits at most 4. `pick_scheme` and `scheme_id` have the fallback, no run
  takes it.
- The loss channel of `sim/`: it compares floating-point numbers and only tests use it. Its
  generator is `Rng`.
- Time stamps, byte counts and port numbers of metrics rows are opaque fields; the path of the
  file is left out, and so is the printing of a run id as hexadecimal digits.
- Splitting the command line into options; a scenario begins with their values, or with the
  information that they are malformed.
- `snapshot`, `BlockTracker::reset` and `BlockState::reset` have no caller in the programs.

### Other disagreements

Five disagreements with the repository's documents have a run each (above). These have none. The
properties and definitions say what the code does, and name the difference where it matters:

- *Doubled columns.* `set_header` and `add_row` put `schema_version` and `run_uuid` in front of
  fields that already begin with them, so every file has ten columns. `csv.h:23-25`,
  `docs/README.md:60-61`, `DESIGN.md:117-118` and `TEST-MATRIX.md:81-82` have eight. `ColumnsLineUp`
  says that header and rows begin with the two columns twice (`prefix_twice`).
- *A fourth dot.* `parse_ipv4` does not look at what follows a fourth dot: `192.0.0.1.x:5000` is
  taken for `192.0.0.1:5000`. `ip.h:37` and `:56` have `a.b.c.d` and `a.b.c.d:port`, which is what
  `spells` says; `AddressReadRight` makes an exception of this tail and of nothing else.
- *`flags2`.* For K = 0 the code writes 255 (`frame.h:13`), where `DESIGN.md:39` says 0; the field
  has two bytes, where `DESIGN.md:32` says one. Nothing reads it. `IntactIsUnderstood` compares all
  fields, this one included, with what was written.
- *Parity subheader.* `fec_scheme_id` is 1 for XOR and 10 to 12 for GF(256) (`ids.h`), and the
  subheader has two fields; `DESIGN.md:45-47` has 0 and 1, and a copy of the generation id as a
  third field.
- *Refusals.* A block the assembler refuses ends `fec_sender` with the footer `ok`
  (`fec_sender/main.cpp:176`), and after a receive error the footer is `error` and the exit code 0.
  No document says otherwise; the properties leave the first out and state the second.

## Plan

Done: the table, both programs with their loops, options, sockets and files, the wire format, the
link, the erasure codes, and the proofs named above. What could follow: senders with a library's
freedom, that is K > 4, and ids and sequence numbers that wrap.
