# Verification of BLE-Fuzzer

TLA+ models of BLE-Fuzzer (the mapper in `py/`, its serial driver, the bridge driver
that connects it to NimBLE), TLC runs that check them, and TLAPS proofs about them.
Every definition is translated from the code; `PROJECT.json` maps it to its lines.

## The system

A learner (ProtocolState-Fuzzer, Java) asks queries: `pre`, some `step(symbol)`, `post`.
`SulBLE` forwards each call to a Python interpreter on a thread of its own. There the
mapper (`BLESUL`) turns a symbol into a BLE packet, sends it over a serial port, collects
the answer and turns it back into a symbol. Behind the port is a radio dongle or, for
NimBLE, the *bridge*: a PHY driver that feeds a NimBLE process from a UART.

    learner --calls--> SulBLE --calls--> BLESUL --frames--> NRF52 driver
                                                              | serial port
      NimBLE link layer <--calls-- recv_packet <--fifo-- ble_phy_uart_rx_char
      NimBLE link layer --calls--> ble_phy_tx  --fifo--> ble_phy_uart_tx_char

| Component | State | Operations | What is hard | What makes it correct |
|---|---|---|---|---|
| mapper, query engine (`BLESUL.py`) | `input_sequence`, `output_sequence`, `is_retry_running`, the serial port, the device behind it | `pre`, `step`, `post`, `close`, `reset`, `reset_device`, `retry_sequence` | replays inside a step, device resets inside a replay or inside a receive, exceptions, three thresholds on one counter | history kept by the mapper = what the learner was told; every call ends; symbols only go to a device that works; the learner sees one answer per symbol |
| mapper, receive loop | packets so far, two timers | `receive`, `is_rsp_complete`, `handle_packet`, `is_target` | the timer is restarted by answers; heuristics of completeness | returns; an answer is not attributed to another request |
| mapper, encryption and pairing | `encrypted`, two packet counters, keys, IV, `confirm`, `random` | `ll_ctrl_enc_req`, `ll_ctrl_pause_enc_req_post`, `sm_pairing_req_pre`, `smp_process`, `send`, `receive`, `reset` | counters are reset before the peripheral agrees; key and IV change between two answers; lost packets | both sides agree on key, IV and counters; `reset` gets out of every disagreement |
| serial driver (`NRF52_Driver.py`) | the port | `raw_send`, `raw_receive`, `set_log_tx`, `reset_device`, `close` | blocking reads in the middle of a frame; resets; a port that does not open | frames stay aligned; the port is open when used |
| byte fifos (`fifo.h`) | `size`, `tail`, `buf` | add, get, peek | wrap-around | behaves as a bounded queue |
| bridge, receive path (`ble_phy.c`) | `serial_rx_buf`, `pkt_count`, event queue, receive task | `ble_phy_uart_rx_char`, `recv_packet` | coalesced events, a task that sleeps in its loop, asserts | packets popped complete, in order, none forgotten |
| bridge, link layer loop | channel, `ll_state`, `sent_non_empty_pkt`, `last_msg_was_conn` | `recv_packet`, `ble_phy_setchan` | a loop whose counter another task resets, an uninitialised variable, a deliberate hang | each request is answered before the loop ends; the loop ends |
| bridge, transmit path | `serial_tx_buf` | `ble_phy_tx`, `ble_phy_uart_tx_char` | fifo at its limit | no assert while the mapper reads |
| NimBLE test application | advertising or connected | `bleprph_gap_event`, `bleprph_on_sync` | failures that are printed only | advertises again after every connection, or the mapper resets it |
| `SulBLE` | `instanceCreated`, executor | constructor, `pre`, `step`, `post`, cleanup | cleanup while a step runs, interrupts, exceptions in the cleanup | the port is closed once, after the last call; the process ends |
| configuration, symbols, alphabets, other targets | - | - | - | not modelled (see below) |

## Modules

| Module | Models |
|---|---|
| `BLESUL` | the query engine; `MCBLESUL` gives it the suspicion rules of two flavours; `BLESULProofs` its theorems |
| `QuerySpec` | what the learner may rely on: a session of calls, one answer per symbol; implemented by `BLESUL` |
| `LinkEncryption` | encryption, pairing and `reset()` of the mapper composed with the peripheral's link layer, PHY and test application; `MCLinkEncryption` its instance, `LinkEncryptionProofs` its theorems |
| `SulBLE` | the learner's thread, the executor and the cleanup task; `SulBLEProofs` its theorems |
| `Fifo` | the operators of `fifo.h` |
| `FifoSpec` | one fifo with a producer and a consumer; `BoundedQueue` is what it promises |
| `SerialLemmas` | lemmas on sequences, frames and the fifo on which the proofs of both directions of the link rest, and the theorems about `FifoSpec` |
| `PacketLink` | what one direction of the serial link promises: packets whole, in order, at most once |
| `SerialRx` | requests from the driver's `raw_send` to the packet popped in `recv_packet`; uses `Fifo`, implements `PacketLink`; `MCSerialRx` its instances, `SerialRxProofs` its theorems |
| `SerialTx` | answers from `ble_phy_tx` to what `raw_receive` returns; uses `Fifo`, implements `PacketLink`; `MCSerialTx` its instance, `SerialTxProofs` its theorems |
| `PsfBridge` | what `recv_packet` does with a packet it popped, against the link layer of NimBLE; `PsfBridgeProofs` its theorems |
| `ReceiveLoop` | `receive()` and `is_rsp_complete()` with time; `MCReceiveLoop` its instance, `ReceiveLoopProofs` its theorems |

### BLESUL

`pc` is where the interpreter thread is: `idle`, `ready` (between steps), `pre`, `reset`,
`scan`/`scan_receive` (the scan check of `reset()`), `receive` (inside `receive()`), `blocked` (in
a read without a timeout), `retry` and `replay` (the two loops of `retry_sequence()`),
`reset_device`, `run_cmd` and `reopen` (in the driver: the port is closed, the reset command runs,
the port is opened), `raised` (an exception on its way to the learner) and `closed`. `ret` is where
`reset_device()` returns to. The other variables carry the names of the code, or are the
learner's view (`asked`, `reported`). An answer is the set of symbols joined by `+`; the
peripheral may give any of `Outputs` to any request, so nothing depends on a model of it.
`checked`, `dirty` and `gave_up` record history for the properties and guard nothing.
`reset_cmd` says whether the flavour has a reset command.

The one `try` of the driver's `reset_device()` covers two calls. If `serial.open()` raises
(`ReopenFails`), the port stays closed and the next turn may open it. If the write of
`set_log_tx(0)` raises (`ConfigFails`), the port stays open, `open()` raises in every turn from then
on, and the loop never ends (`PortStuck`). The comment at `NRF52_Driver.py:187` names an endless
loop for a device that cannot be opened; this is a second way into it. `ReadBlocks` is a message
whose rest never comes: `raw_receive` reads it without a timeout.

`QuerySpec` is the abstract specification. The learner's view of the interpreter thread is
`session`: `busy` inside a call, `open` between calls, `idle` between queries. `BLESUL`
implements it with `session`, `asked` and `reported`: whatever happens in a replay is a stutter.
Its liveness property, that a busy session ends, is not implemented without exceptions: `CallsReturn` of
`BLESUL` says that a call returns, or raises, or is in one of the two states above, and that
there is no third way to stay in a call.

The thresholds of the code (32 scans, reset from failure 28, reset from attempt 4, 6 and 7
attempts) are constants, so that runs can take smaller loops; the order of the thresholds
is kept where it matters, and the retry thresholds are those of the code.

### LinkEncryption

The mapper's variables have their names in the code. Cryptography is symbolic: a sealed packet
carries the key, IV and counter it was sealed with and is opened by exactly those. One value of
`Nonces` stands for what the peripheral draws for an `LL_ENC_RSP`, one of `Pairings` for what
both ends compute in a pairing. A request is kept as its kind; a kind in `Short` has less than
five bytes of payload, which `receive()` and the bridge pass without decrypting when they come
in plain text, as the code looks at the length only.

`flavour` is the mapper's class: `NimBLE` behind the bridge, the other two behind a radio dongle.
They differ in who drops packets of the wrong channel, and in which `_pre` functions they
replace. `link` is the connection: `lost` when the dongle has left it and the
peripheral not yet noticed. `AdvSeen` says that the dongle passes on the advertisement it
answered with the CONNECT_IND; the firmware is external.

The peripheral is external except for `ble_phy.c` and the test application, and follows what
the comments of the code say of it: after an `LL_ENC_REQ` in an encrypted link it answers with
the old key and IV, goes on with the new IV, and keeps its session key (`BLESUL.py:226-229`,
`248-250`); it may refuse, not answer, or drop the connection by itself. It always answers a
pairing request. `Handles` lists its answers. `bleprph_advertise` may fail.

In this query `troubles` counts the answers that came late or were lost and the failures to
advertise, `refused` says that an encryption was refused while another was on. `Disturbed`, one
of these happened, is the condition under which `Agreement`, `NothingBroken` and
`ResetWithoutDevice` make no claim; `ResetSucceeds` makes its claim always. `MaxTroubles` and
`MaxSent` (packets with one key, in `WithinBound`) are bounds.

### SulBLE

`main` is the learner's thread: in the constructor (`new`), between calls (`idle`), in `get()`
(`waiting`), done with learning (`over`) and after its cleanup (`ended`). `queue`, `running` and
`worker` are the single-thread executor. `future` is that of the task submitted last, the one
the learner may wait for; a task whose caller was interrupted stays in the executor.
External: ProtocolState-Fuzzer runs the cleanup tasks when learning is over or a call has
thrown; the executor's thread is not a daemon, so the JVM stays while it lives.

### Fifo, FifoSpec and BoundedQueue

A fifo is a record with the fields of the struct. `FifoSpec` refines `BoundedQueue` with the
sequence of its bytes, oldest first, as the queue.

### SerialRx

The wire is the sequence of bytes written and not yet received. The bridge runs on Mynewt's
native port with cooperative tasks: the UART callback is atomic, and `recv_packet` lets
others run only at `os_time_delay`, which is why its loop is cut into `recv_packet` (from
its head to the delay) and `RecvDelayOver`. Nothing makes the latter happen: the body of the loop
sleeps for days at `ble_phy.c:210`, and its inner loop goes on while the host queues answers. `aborted` stands for a failed assert. The driver
may send while at most `MaxOutstanding` requests have not been popped; in the code the
mapper waits at least `recv_s_min` after each request. `ResetRestartsSut` says whether the
reset command really starts a new process.

### SerialTx

`Frame` and `ble_phy_tx` put an answer into the fifo in one step, since the link layer's task
is not interrupted; `ble_phy_uart_tx_char` moves a byte to `wire`, what the port holds for the
mapper. `raw_receive` is cut at each byte: `cmd` is the command it has read, `buf` what it has
read after it. A reset happens between two calls of `raw_receive`, because the mapper has one
thread, but anywhere in a frame the bridge has begun to send. `reset_device` restarts the bridge, and then its
fifo is empty; `reset_device_ci` restarts nothing (`scripts/reset_ci.sh`): the port loses what it
has and what comes before it is open again, the rest of the frames follows. `cut` records that
this came amid answers, from when on the reader may be out of step. Of such a reader the model
follows the bytes in the fifo, and the next restart; the bridge sends it nothing else. `Notice` stands for the other
messages a dongle's firmware sends, which `raw_receive` has to get past; it is external.

### PsfBridge

One request at a time, as abstract kinds of packets. The task is waiting for a packet, at the
head of its `for` loop, in one of its sleeps, or hung. A unit of time is 10 ms and passes only
in the sleeps (`os_time_delay`) and between packets (`Idle`). The link layer is external: what
the driver's comments say of it is that it answers each data packet, uses one-bit sequence
numbers (`sn`, `nesn`), is in standby (`ll_state == 0`) after packets (`standby`, then `next_chan`)
and rejects packets meanwhile, and may give up a connection (`LinkDropped`). A standby takes any
time and need not end: a failed restart of advertising (`main.c:93`) leaves the link layer there.
`warned` is the warning at `ble_phy.c:276-278`: the 200 ms of the sleep are over and the link layer is
still in standby. It is taken back when the link layer has answered the next exchange or
given up the connection. `rc` is any value where the code reads it uninitialised.
`PsfBridgeAssumption` asks of the constants only that the inner loop has more than one turn and
that the sleeps are positive. `lost`, `repeated` and `rejected` record what the link layer would do
with a packet that has the wrong bits or comes too early; the first and the last do not count a
packet behind a warning, since the code says itself what becomes of it.

### ReceiveLoop

One turn of the loop, one unit of time. A list of packets is kept as the summary that
`is_rsp_complete` computes from it (`Add` is one pass of its `for` loop; of the kinds of packets it
keeps those that a flavour looks for). `Mappers` are pairs of a `flavour`, which chooses between
the variants, and a `reset_cmd`: none (the default of `BLESUL`), one that restarts nothing
(`scripts/reset_ci.sh`), one that restarts the device. The peripheral is external: one packet per connection event, an answer,
an empty packet, a question (BlueZ only), a Raw packet, or none. It sends at most `GapFirst`
empty packets before an answer the mapper knows to be due and `GapNext` before one it does
not; the result is about peripherals that keep to this. One that waits for the answer to its
question cannot send answers and sends as many empty packets as it likes. Packets left in the
port from before a request are counted by the mapper, and so they are in `gap`: the empty ones
behind the last question, since a question ends the row (`LastCyclic`). The two requests of
`ll_adv_connect_ind` in the NimBLE flavours are two `Send` steps. A request may be sent while
`MaxLeft` answers to earlier ones are still to come.

Two things can make `receive()` stop too early, and `misled` records that one of them has happened.
A Raw packet costs a second (`BLESUL.py:195`), which is more than most time limits, while the answers go
on coming if the device is not reset; what comes in that second is taken to come between two
requests. A late or repeated scan response (`LateScanRsp`), which two flavours know of and hide
with an output filter, is counted as the answer if one is expected; if none is, it is harmless.
`misled` is taken back when a request is sent and nothing is left over from before, so the model
says as well how the mapper recovers.

`InTime` is the relation between the limits of `receive()` and the peripheral under which no
answer is left behind: gaps shorter than the counts of `is_rsp_complete`, `recv_s_min` long enough
for the first packet and what lies in the port, `recv_s_max` long enough for all answers with
their gaps, and for the questions where `ll_ctrl_enc_req` does not restart its timer. In units of
10 ms the code has the counts 5 and 10, and `recv_s_min`/`recv_s_max` of 15/30 (NimBLE), 15/40
(nRF52840 DK), 10/100 (BlueZ on a PC), 20/50 (CI, Arduino), 10/20 (Pico), 50/200 (Pi Zero); the
connection interval of its `CONNECT_IND` is 16, that is 20 ms or an `Interval` of 2. With 2 packets
in the port and gaps of 2, the four answers to `LL_START_ENC_RSP` need 4 * 3 * 2 + 3 = 27 of the
30; the Pico's limit leaves them gaps of 1 (4 * 2 * 2 + 3 = 19 of 20).

## Runs

| Run | Shows | Bounds |
|---|---|---|
| `query` | the query engine with the nRF52840 rule: history, suspicion, device check, port, the refinement of `QuerySpec`, and that every call ends | queries of 3 symbols, 2 scan attempts with reset from the second, the retry thresholds of the code, one Raw packet per `receive`, with and without a reset command, periodic reset on |
| `retry_state` | finding: a step can return with the SUL in another state than the learner believes (Arduino rule) | queries of 2 symbols |
| `fifo` | the ring buffer is a queue | 2 byte values, capacity 4 |
| `serial_rx` | framing, order, wake-ups, asserts; every request is popped as long as the bodies of the loop end | 2 packets (one whose bytes look like a header), 12-byte fifo that just holds two frames, 4 requests, 1 reset |
| `serial_rx_ci` | finding: a reset that restarts nothing ends in an assert | 2 requests |
| `serial_tx` | answers whole and in order also across resets, unless one that restarts nothing comes amid answers; the limit of the fifo; blocking reads end | 2 packets and 3 notices (bytes that look like commands), a 16-byte fifo that just holds two frames, a port of 10 bytes, 3 answers, 2 resets of either kind |
| `psf_bridge` | nothing lost, repeated or rejected between bridge and link layer without a warning; answers drained; the hang only after a dropped connection or a warning; the loop ends | the loop count and the sleeps of the code (20 to 200 ms), standby of any length, 2 queued answers, 1 dropped connection |
| `psf_bridge_hang` | finding: the deliberate hang after a dropped connection, without any warning | the same |
| `receive_loop` | no answer is left for the next request, unless the mapper was misled; `receive()` returns | 6 mappers (4 flavours, 3 reset commands), 5 requests with up to 4 answers, counts 3 and 4 instead of 5 and 10, gaps of 2 and 3, `recv_s_min` 4 and 7, `recv_s_max` 20 and 21, 2 packets in the port, 1 question, 1 Raw packet, 1 foreign packet or late scan response per request, 1 answer left over when a request is sent |
| `link_encryption` | both ends agree between requests; `reset()` gets through whatever they came to | 3 nonces, 2 pairings, 2 packets per key, 4 scans with device reset from the third failure, 2 troubles per query, 3 flavours |
| `link_encryption_connect` | finding: a new connection that starts encrypted | the same without troubles, advertisement not passed on |
| `sul` | the port is closed last and once, the process ends | 3 calls, 2 interrupts |

The types of `SerialRx` and `SerialTx` (`TypeOK`) are stated in the modules and not part of a run,
since `StreamIntact` and `LinkSpec` say more; that of `SulBLE` is proved as a part of its invariant.

Three symbols in a query are enough to put the suspicious pair behind an answer that can
diverge, which is the longest pattern the code looks at. A fifo of capacity 4 wraps at every
position. In `serial_tx` the fifo holds two of the longest frames and not a byte more, and the
port less than two, so that each of them is full at times. The instance of `receive_loop`
satisfies `InTime` (TLC evaluates it as an assumption of `MCReceiveLoop`), and the bounds are
nearly tight: with a `GapFirst` or `GapNext` larger by one, a `CyclicShort` of 2 (also with a
`GapNext` of 1), or a `RecvMax` of 17
instead of 20, `AnswersCollected` fails; with two foreign packets per request also for a
`RecvMin` of 3 or a `RecvMax` of 18. `InTime` counts every place in the port, so it asks for a
little more than one foreign packet needs.
Requests repeat without a limit in `psf_bridge` and `receive_loop`. A third
nonce is needed for an encryption that is restarted: the old one, the new one, and one that fits
neither end; two packets per key are enough for the counters to differ. Queries repeat without a
limit in `link_encryption`, and an encryption can be started, restarted and paused any number of
times in one. In `sul` one interrupt can meet a step and the other the cleanup. No run but `fifo`
checks for deadlock: the mapper stops for good after `close()` or an exception, the bridge when
nothing more is sent, the process of `sul` at its end or in a hang that `ProcessEnds` names, and
the environments of `PsfBridge` and `ReceiveLoop` need not act.

### Fairness

`ThreadFairness` says that the interpreter thread keeps running: `reset()`, the driver and
the exchange make progress, since `os.system()` returns and every receive ends at a time limit,
unless it blocks amid a message (`ReadBlocks`, after which nothing is assumed). `PortFairness`
(strong) says that a closed port that is opened again and again opens and takes the
configuration byte at some time; the comment at `NRF52_Driver.py:187` says that without it the loop is
endless. It says nothing of a port that is left open, for which no step of the loop is enabled that
ends it. `SerialRx` assumes that the
UART delivers what was written and that a task that can run does run, but not that a body of the
loop of `recv_packet` ends: `EveryPacketReceived` has that as a hypothesis (`BodiesEnd`), and
`psf_bridge_hang` shows a body for which it fails; `SerialTx` that the UART
transmits and the mapper, which calls `raw_receive` every 10 ms, goes on reading; `PsfBridge` that
the receive task runs; `ReceiveLoop` that the interpreter thread runs and connection events
come; `SulBLE` that both threads run and every Python call returns or raises, which for the
mapper is `CallsReturn` of the run `query`, with its exceptions. `LinkEncryption` states safety only. None of them assumes that a request is ever answered.

`ReceiveReturns` holds because the model lets BlueZ ask only `MaxAsks` times per request: every
question starts the timer of `receive()` again, and a peripheral that never stopped asking would
keep it from returning. `LoopEnds` holds for the same reason: the host queues `MaxQueued` packets,
and each one it sends sets the counter of `recv_packet` back.

## Findings

* `BLESUL.py:501` promises that after `retry_sequence()` the SUL is in the state it was in
  before. After seven diverging replays (line 529) it is not (`retry_state`).
* `ble_phy.c:382-384` relies on packets only after the config command, but
  `NRF52.reset_device` sends it again after each reset. With a reset command that restarts
  nothing, as `scripts/reset_ci.sh`, the bridge fails the assert at line 147 (`serial_rx_ci`).
* The comment at `ble_phy.c:203-205` calls it a bug to be on an advertising channel after a valid
  CONNECT_IND. It also happens when the link layer drops the connection by itself before the
  next packet, which the comment at lines 71-76 describes as wanted (`psf_bridge_hang`). The
  other way into the hang, which `BLESUL_NimBLE.py:10-15` describes (no data channel after a connection
  was established), is a standby that outlasts the sleep, behind a warning; the counterexample
  excludes it, and `HangsOnlyAfterDropOrWarning` says that there is no third way.
* The comment at `BLESUL.py:215` says that a connect indication always switches to a new
  unencrypted connection. `BLESUL_nRF52840DKNimBLE` replaces `ll_adv_connect_ind` and thereby
  drops `ll_adv_connect_ind_pre`; what then ends the encryption is only an advertisement that
  happens to be received (`link_encryption_connect`).

Two cases that no comment of the code excludes, and that the properties except by name: a
learner's thread that is interrupted in a step enters the cleanup with its interrupt flag set, so
`get()` throws at once, `shutdown()` is skipped and the process stays (`ProcessEnds`); and a
constructor that throws before line 49 has submitted no cleanup task (`PortCloses`).

## Proofs

`BLESULProofs` proves, for every alphabet, filter, suspicion rule and loop bound that
satisfies `BLESULAssumption`:

* `TypeCorrect`: `Spec => []TypeOK`. The counters are the point: `attempt <= RetryMax` holds
  although two different thresholds end the loop, and needs that `retry` is only entered with
  `attempt < RetryMax`.
* `HistoryCorrect`: `Spec => []HistoryConsistent`.
* `ReplayKeepsSequenceCorrect`: the action property.
* `SuspiciousCorrect`, `CheckedDeviceCorrect`, `PortOpenCorrect`: three more invariants. The last
  two have inductive invariants of their own (`CheckInv`, `PortInv`), which say of `ret`
  where `reset_device()` was called.
* `QueryImplemented`: `Spec => ImplementsQuery`, by cases over the actions; it rests on the
  same invariant.

The invariant is not inductive by itself. `IInv` strengthens it with what holds at each
place of the program: during a replay the live sequences are a prefix run of the kept ones,
the kept inputs are what the learner asked, the kept answers agree with what it was told up
to the last one; outside a replay the live sequences are the query so far. Each group of
actions has its own lemma and each named part of the invariant its own step. TLC has checked
`IInv` as an invariant of the instance of `query`.

`SerialLemmas` also proves the theorems about `FifoSpec`, which it extends: the indices of the
ring buffer stay inside it (`FifoTypeCorrect`), it implements `BoundedQueue` (`FifoIsQueue`), and
`fifo_add_buf` and `fifo_get_buf` append and take off whole buffers wherever they wrap (`BuffersQueue`, the invariant `BufferOperations`), for
every capacity and set of bytes. The second needs the first, since the modulo arithmetic is only
right for `tail < capacity`. `fifo.h` writes the last two as loops; `Fifo` defines `fifo_add_buf`
and the remainder after `fifo_get_buf` in closed form. `AddBufIsLoop` and `GetBufIsLoop`
show that one more byte in the closed form is one more turn of the loop.

`SerialRxProofs` and `SerialTxProofs` are about the two directions of the link, for any packets,
fifo capacities and bounds. Both rest on an invariant about one sequence of bytes, from the end
where they are written to the place where the reader is:

* Requests (`RxInv`): once the first config command is through, fifo and wire are the frames of
  the packets sent and not popped, in order and without a byte between them; before, the rest of
  that command is in front. `RequestsArrive` is the refinement of `PacketLink`, `NothingLost` the
  invariant `StreamIntact`. `AssertsHold` (`OnlyBlePacketsFollow`): the fifo is never full when a
  byte comes, and the byte at its front is always the command of a packet. `NoPacketForgotten`
  (`NoLostWakeup`) has an inductive argument of its own and needs none of the hypotheses below.
* Answers (`TxInv`): what `raw_receive` has read of a message, the port and the fifo are together
  a sequence of whole messages. `Marked` says which of them are answers and which
  are notices, and that the answers are those sent and not returned, in order. So `raw_receive`
  knows a message complete at its last byte and not before (`CompleteAtEnd`), whatever bytes the
  packets contain. `TxInv` holds unless a reset that restarts nothing came amid answers (`cut`), and
  again from the next restart on; for that `IInv` only adds that the reader holds no bytes between
  two messages. `AnswersArrive` is the refinement of `PacketLink`. `Marked` also says that no
  notice is inside the fifo: what it holds is part of the answers not read, from which
  `OverflowOnlyUnread` follows.

Hypotheses of these theorems, none of them on the order of steps:

* `LengthsFit`: a packet is shorter than 65536 bytes; `raw_send` packs its length with `"<H"` and
  raises otherwise, and `ble_phy_tx` has a length of two bytes. A packet of BLE has less than 300.
* `ResetRestartsSut`, for the requests only: the reset command starts a new process. The run `serial_rx_ci` shows what
  happens without it.
* `MaxOutstanding * MaxFrame <= RxCapacity`, for `AssertsHold` only: the requests not yet popped fit
  the fifo of 1024 bytes. The mapper waits after each request; the run takes the least
  capacity for which this holds.
* `NoticesWhole`: the other messages of a dongle's firmware have the format that `raw_receive`
  reads, and one with the command of a packet has a wrong checksum. It is about an external part
  and holds of the notices of the run.

The invariants say "there is a sequence of messages", and a step shows the next one from it, so
no induction over frames is needed in a step. Where the value of `FlattenSeq` matters, which is defined by
recursion, `LeastNatural` (a set of naturals that is not empty has a least element)
takes the place of the library's induction theorems: it follows from `NatLessThanWellFounded`, which
needs no operator as a parameter, and a lemma that would go by induction looks at the least
counterexample.

`LinkEncryptionProofs` proves that every variable keeps its type (`TypeCorrect`), that mapper and peripheral
agree between requests (`EndsAgree`), that neither meets a packet it cannot open
(`NoneBroken`), and two facts about `reset()` (`ResetNeedsNoDevice`, `ResetExhaustsTroubles`), for
all flavours, any nonces and pairings, any number of packets with one key, scans and
troubles. `Inv` (theorem `LinkInvariant`) has these parts besides the types:

* `SyncInv`: agreement is not inductive when stated for the times at which nothing is on its way, since key, IV
  and counters change while an answer is read. It is stated with the packets on their way: once
  the mapper has read them it agrees, and each is sealed with the key, IV and counter the mapper
  will have by then. `InSync` has a case for no packet, one packet, the two that answer an
  `LL_ENC_REQ`, and an advertisement, which ends the encryption. `Doomed` is the link after a
  refused restart of the encryption, where the ends do not agree until the peripheral gives up.
* `ReadableInv`: what a connection that has ended left on its way can still be opened, since only
  the mapper's own steps change what it opens with.
* `OnTheirWayInv`, `ConnectingInv`, `QuietInv`: data packets come before advertisements, answers are
  read before the next request, and where the peripheral is at each place of the mapper.
* `PaidInv`: in `reset()`, every failure from the first device reset on was paid with a trouble.
  So a `reset()` that raises has met all of them, and one without troubles needs no device reset.

The parts on agreement claim nothing once an answer came late or was lost (`Quiet`), as the
properties do. `Seen` leaves out the flavour whose dongle may keep the advertisement to itself: for it the
run `link_encryption_connect` has a counterexample. `EndsAgreeIfSeen` and `NoneBrokenIfSeen` state
the properties of the run for all three flavours, under `AdvSeen`.

`PsfBridgeProofs` proves every safety property of `PsfBridge` for all sleeps, numbers of turns,
packets and dropped connections that satisfy `PsfBridgeAssumption`, and for standbys of any length.
`IInv` has these parts besides the types:

* `Acknowledges`: while a packet of the link layer is not acknowledged, `rx_nesn` differs from
  its number. Gives `NoAnswerRepeatedCorrect`.
* `StandbySlept`: a standby that a packet caused is slept through, or the code has warned. Gives
  `AcceptedIsDeliveredCorrect`.
* `ChannelReached` (the channel is the next one unless there is standby) and `HoldsAccepted`,
  `FirstTurn`, `FlagOfHeld`: what `rx_buf` holds. Give `RightChannelCorrect`.
* `Synced`: bits of an earlier connection only survive up to the second turn of the loop that
  handed over the `CONNECT_IND`, and that turn hands over an empty packet; or the code has warned.
  Gives `NoRequestLostCorrect`; with a single turn it would be false.
* `Drained`: a turn that sent no answer left none that was queued before. Gives
  `AnswersDrainedCorrect`.
* `ConnectLeads`: without a drop and a warning a `CONNECT_IND` leads to a data channel. Gives
  `HangCorrect`.

Each part has its own lemma with one case per action (`StepCases`); TLC has checked `IInv` on
the instance of `psf_bridge`.

`SulBLEProofs` proves `PortClosedAtExitCorrect` and `CloseIsLastCorrect` for any number of calls
and interrupts. `FutureInv` ties what the learner waits for to what is queued or running,
`CloseInv` says that once `b.close()` is submitted it is the last task, or has been executed,
`ShutdownInv` that `shutdown()` comes after it.

`ReceiveLoopProofs` proves that every variable of `ReceiveLoop` keeps its type (`TypeCorrect`,
without any hypothesis), and that no answer is left when the mapper stops receiving
(`AllAnswersCollected`), for all requests, limits, counts, gaps and bounds that satisfy `InTime`, in
all four flavours with each kind of reset command. `IInv` says that the mapper is misled or
`Sound`; `SendSound` shows that it is sound again when a request is sent with nothing left over,
and `StaysMisled` that no other step takes `misled` back. A late scan response that comes while no answer is due
leaves it sound (`LateLookAhead`). The difficulty is that packets lie in the port while the mapper decides, and
that it decides on what it has read. So the invariant looks ahead, and `Sound` has these parts
besides the property:

* `LookAhead`, the core: as long as an answer is in the port or still to be sent, there is a run
  of views, one for each packet of the port, of what `is_rsp_complete` will be asked when that
  packet has been read; and in each of them that lies before an answer the mapper goes on
  (`GoesOn`). Then either the run reaches all answers (`ReachesAll`), or before it stops it meets
  a Raw packet, which empties the port and resets the device (`RawFirst`). `ll_ctrl_enc_req` is
  asked about other data than `receive()`, and `Now` says which.
* `Ahead`: what the mapper will know when the port is read, while answers are to come: as many
  expected answers as the peripheral owes, no more empty packets than it has sent.
* `TimeLeft`: the time for the answers not sent, with their gaps, the rest of the port and the
  questions, fits what is left of `recv_s_max`. A question that restarts the timer gives the time
  back; in `ll_ctrl_enc_req` it does not, and is paid for by the term with `MaxAsks`.
* `OneQuestion`: a peripheral that waits has its question in the port, without an answer or
  another question behind it. `Backlog`, `GapInv`, `AnswersFit`, `ScanLast` and `MinOfRequest` bound
  the port, the gaps, the answers and the minimum time.
* For a new request, `LeftoverRun` shows that what an earlier one left in the port does not end it
  before its first answer; it looks at the first packet at which it would
  (`LeastNatural`), in place of an induction.

Each part has lemmas by groups of actions. TLC has checked `IInv` on the instance of
`receive_loop`, with the only run of views there is in place of the quantifier over runs.

Only model-checked: liveness (`CallsReturn`, `PortCloses`, `ProcessEnds`, `EveryPacketReceived`, `ReadReturns`,
`EveryAnswerReturned`, `LoopEnds`, `ReceiveReturns`), which is out of the prover's reach. Every safety property
that a passing run checks is stated by a theorem as well.

## Plan

Done: the query engine with its abstract specification, both directions of the serial
link, the loop of the bridge, the receive loop, encryption with pairing and reset, the adapter,
and theorems about each. What would come next:

1. A composition of `ReceiveLoop` with `BLESUL` in which late answers reach a step.
2. The tightest form of `InTime` in the number of foreign packets (`MaxOthers`), which the proof does
   not use.

## Not modelled

Builders, configuration and symbol classes of the Java part, the alphabets, `ble_hw.c` and
`xcvr.h` are data or stubs. The other targets (`experiments/targets/`, among them the Python
services of `LinuxBlueZ` and `LinuxBlueZ_2`) are vendor samples: D-Bus objects or callbacks whose
state is that of the vendor's stack, which is not in the repository. The SMP server, Scapy, AES,
NimBLE, Mynewt, jep and ProtocolState-Fuzzer are libraries. Packet contents, logging and pcap
files play no role in the properties; `fix_packet()` and `output_symbol()` are pure conversions of
contents, and the keys that a peripheral distributes after a pairing are stored and never read.
