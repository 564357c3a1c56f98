# Verification of the readout software and firmware of ITS/MVTX (felix-mvtx)

TLA+ models of the parts of this repository in which several actors share something, or in which a
call can stop half way: a readout card that processes and threads lock, a slow control link with one
selected channel, a transport with one command buffer, a queue served by threads that come and go, a
CAN bus, a USB interface with one bus for its ports, a power unit with two masters, programs that
have to switch off what they switched on. The models are checked with TLC on small instances; what
matters most of eight of them is proved with TLAPS for every value of the constants.

All definitions are translated from the source. `PROJECT.json` maps each of them to its lines, and
lists the components, runs, hazards and theorems.

## 1. The system

An operator's program (`src/software/py/testbench.py` and the scripts beside it) controls *readout
units* (RU): FPGA boards with a Wishbone bus, each with the power unit, the sensor chips and the
auxiliary FPGA of a part of the detector. A transport carries 32-bit commands (address, data, write
flag) to the bus and the answers back. There are four ways to a unit:

    program -> ReadoutBoard -> Communication -+- CruSwtCommunication -> CruBoard -+
              (registers)     (buffer)        +- FlxSwtCommunication -> FlxCard  -+-> GBT link -> RU
                                              |    (Sca_flx uses the same link)   +-- LLA lock
                                              +- CanHlpComm -> CanHlp -> SocketCAN -> CAN bus -> can_hlp_fsm
                                              +- USB (usb_comm server, FX3) -> usb_if

| component | state it keeps | operations | hard behaviour | what makes it correct |
|---|---|---|---|---|
| Card lock (`cru_board.py`, `flx_card.py`) | the LLA session (one owner in the system); `_lla_is_locked`, `_lla_lock_count` per card object | `_lock_comm`, `_unlock_comm`, forced unlock | processes race for the session; threads share the unprotected count; `@timeout` alarms interrupt calls | one process at a time, given back by the last unlock and not before, calls return |
| Slow control link (`flx_swt_communication.py`, `flx_card.py`, `sca_flx.py`) | the card's link register, one answer FIFO per channel, a 4-bit word counter; in each process the channel and the counter seen last | select channel, send, poll, read, reset of the core; SCA commands | remembered values go stale when another process or object uses the card; answers can be late | every word goes over the caller's channel; answers belong to the call that returns them |
| Transport base class (`communication.py`) | `_buffer`, `_read_bytes` | register, flush, read results, single access, raw sequence | single accesses borrow the buffer; exceptions half way; late answers | no registered command lost, doubled or overtaken; a call returns its own answers |
| Prefetching transport (`communication.py`, second class) | recorded sequence, expected commands and stored results per address | record, prefetch, serve | a mismatch in the middle of a write | exchanges get their own answers, writes arrive |
| CAN transport (`can_hlp_comm.py`) | request queue, response queue, one worker thread at a time | flush, read, clear | a thread that ends while it is needed; exceptions in the thread | one transaction at a time; every read gets its response |
| CAN protocol, host (`can_hlp.py`) | a socket (queue of frames) | read, write, broadcast read and write, flush | lost frames, error frames, unsolicited messages, other objects on the interface | a call returns its own answer or raises |
| CAN protocol, unit (`can_hlp_fsm.vhd`, `can_hlp_top.vhd`) | state machine, one received message, one message to send, two FIFOs, counters | command, response, status, alert and test messages | messages arrive while it waits; two FIFOs and one controller to wait for | carries out what names it, once; counts what it drops |
| CAN controller (`canola_*.vhd`) | transmit and receive machines, error counters | send with arbitration and retransmission, receive, error flags, bus-off | several controllers at once | a sent frame is received by all or sent again |
| Power unit controller (`i2c_pu_controller.vhd`) and its software (`pu_controller.py`, `power_unit.py`) | two bus machines, queues of requests, masks, thresholds | monitor, turn off, requests of software | two masters of one power unit; software and monitoring share each bus | what tripped goes off and stays off; a clean power-on is not taken for a trip |
| USB interface (`usb_if/source/rtl`) | arbiter, one machine per port, FIFOs, registers before the pins | arbitrate, read, write | words arrive, FIFOs fill up and hosts read at any cycle | no FIFO misused, packets whole, no port starved |
| Sensor chip drivers (`alpide_control.py`, `pALPIDE.py`, `alpide.py`) | control lines remembered, registers of the chips | field setters and getters, matrix, test patterns | commands buffered, flushes that raise half way, chips that answer badly | fields not given are kept, the chip is as asked |
| Auxiliary FPGA (`proasic3*.py`, `ru_scrubbing.py`, `ru_flashing.py`) | images in flash, block lists, status file, scrub mode | scrub, check, reprogram, flash | accesses that fail at every step, upsets, restarts of the console | the status tells the truth; a loop does no harm; what was flashed is used |
| Register accessors (`ws_*.py`, `cru_*.py`, `roc.py`), GTH attributes and eye scan, GBTx, optical modules | the hardware's registers; a file | setters and getters, scans, reports | read-modify-write without a lock, pages that stay, programs that die | a getter returns what was set; what is reported is so |
| Test programs (`daq_test.py`, `threshold_scan.py`, `ib_tools`) | which staves are powered, triggered, read out | power on, configure, take data, tear down | any call can raise, the user can interrupt | at the end everything is off and stopped |
| Decoders (`events.py`, `decode.py`) | position in the data, counts | decode a file, check a readout | pages lost, bytes changed | errors are reported, whole data decodes |

Every register access is a call chain from the program down to one `flush` and one `_read_all_bytes`
of its transport; `single_*` and `flush_and_read_results` hold the card lock around both. Units never
start an exchange, except for the CAN status, alert and test messages. The power unit controller works
without software; software leaves requests in its queues.

## 2. Modules

| module | models | relation |
|---|---|---|
| `CardMutex` | what the lock promises: the set of its users is empty or one process | abstract specification |
| `CardLock` | `_lock_comm`, `_unlock_comm`, `force_unlock_lla` and their callers | implements `CardMutex` (`ImplementsMutex`) |
| `SwtLink` | `FlxSwtCommunication`, `FlxCard`, `Sca_flx` over the card | takes the lock as the atomic mutex `CardLock` implements |
| `CommBuffer` | `Communication` | abstracts the transport to "sends, answers, or raises" |
| `Prefetch` | `PrefetchCommunication` | the transport below carries out in order; composed with `CommBuffer` in `MCCommunication` |
| `CanHlpComm` | the queues and worker threads of `CanHlpComm` | takes a CAN transaction as one step |
| `CanHlp` | the unit's machine `can_hlp_fsm`, the bus, and the calls of `CanHlp` | composes both ends |
| `Canola` | transmit, receive and error machines of the controllers on one bus | one field of a frame per step |
| `UsbIf` | `fx3_ctrl`, `dp_arbtr`, `dpi_fsm`, `dpo_fsm` | one clock cycle per step |
| `PowerUnit` | `i2c_pu_controller.vhd` and the programs of `pu_controller.py` and `power_unit.py` over it | composes both bus machines and software |
| `RegisterLayout`, `AlpideRegisters`, `Alpide3Registers`, `Alpide` | registers of the sensor chips; `Chip`, `Alpide` and `AlpideControl` | each extends the one before; `MCAlpide` instantiates the pALPIDE-3 |
| `Scrubbing`, `AuxiliaryFpga` | the driver of the auxiliary FPGA and the scrubbing status; the calls over both | the latter extends the first |
| `RegisterBank`, `BoardRegisters` | setters and getters over buffered and immediate registers; the registers of units and cards | the latter extends the first |
| `GthDrp`, `EyeScan` | attributes of a transceiver; the eye scans over them | in `MCRegisters` |
| `Gbtx` | configuration, check and resets of a GBTx by two masters | in `MCRegisters` |
| `Minipod`, `MinipodPrograms` | the optical modules, and what the monitoring programs read | in `MCRegisters` |
| `TestProgram`, `DaqRun` | programs as lists of what is still to do; data taking, scans and inner barrel tests | the latter extends the first |
| `ChipData`, `EventDecoder`, `GbtEvents`, `Decode`, `MCRunData` | what chips send; the decoders of a lane, of a readout and of files; data whole and damaged | composed with `DaqRun` in `MCDaqRun` |
| `CardLockProofs`, `SwtLinkProofs`, `CommBufferProofs`, `CanHlpCommProofs`, `CanHlpProofs`, `UsbIfProofs`, `CanolaProofs`, `PowerUnitProofs` | theorems (section 5) | each extends its component |
| `MC*` | values and compositions for model checking | |

Mutated definitions stand before the definition they change, under a comment that begins with
*Mutant*. They show that a property can fail; no specification uses them.

### CardLock

State: `session` (owner of the LLA session), `lla_is_locked` and `lla_lock_count` per process,
`lock_attempt_counter` and the place in the methods per thread; `depth` and `unwinding` describe the
caller (how many `_lock_comm` it has not matched, and whether an exception runs its `finally` blocks).
A step is one access of the shared fields or one call of the session, so threads interleave between
`session.start()` and the assignment of the flag, and between `session.stop()`, the break of 500 ms and
the clearing of the flag. `LoseLock` and `ForceUnlock` are the operator's use of `force_unlock_lla`;
`Alarm` is the SIGALRM of `@timeout(5)` in `initialize()`; both are counted by `upsets`. The session
library is external: `start` succeeds unless another process owns the session, `stop` releases it.

### SwtLink

The card: `sc_link` (selected channel), `fifo` per channel, `popping` (a read-enable pulse the
firmware has not acted on), `rx`, `swt_cntr`. The unit: `ru`, read commands it has not answered. A
process: `selected_gbt_channel`, `prev_swt_cntr`, and the class attribute `sca_selected` of `Sca_flx`.
A call goes through `Begin` (lock), `Select`, `Send` (a word a step), `Select` again, and for each answer
`PollAvail`, `ReadPrev`, `FifoReadEnable`, `PollCounter`, `ReadLow`; the last one releases the lock.
`Sca_flx` selects before it locks (`ScaCheckChannel`, `ScaLock`), polls until the SCA takes a command
(`ScaTxBusy`), sends it (`ScaSend`), polls until it is done (`ScaWaitBusy`), and with a lock of its own reads
the reply until there is one (`ScaRd`); `sca` is what these polls see, and `ScaProceeds` changes it at will.
The first two polls raise after `MaxScaPoll` times, the third counts nothing. A call that raised leaves
`_read_bytes` as it was; that is the subject of `CommBuffer` and left out here. `AnswersMatch` is claimed
until an answer was late; with several processes the remembered counter and channel are stale.

### CommBuffer and Prefetch

`buffer` and `readBytes` are the fields of the object; `pending` and `dp1` are the commands the device
has still to execute and the answers not fetched. `call` is a reading call in progress with what it put
aside. Exceptions can come where the lock is taken, where the words are sent and where the answers are
read (`*Raises`), and leave the fields as the code leaves them: there is no `finally` around the line
that puts the buffer back. A sending that raises may have sent any number of its commands first
(`MayHaveSent`): `PyUsbComm` looks at what was written only after it wrote it. `RawSequence` does what the code does, which is not what it means to do
(section 4). In `Prefetch` a program is any sequence of exchanges; it is recorded, its sequence sent
ahead, and then followed or left anywhere.

### CanHlpComm and CanHlp

`dp0_wb_trx_request_queue` and `dp1_wb_trx_response_queue` as in the code; `flush_dp0_thread` is the
thread started last, `tpc` and `msg` are the threads. A thread that has found the queue empty is
`"ending"`, still alive for `is_alive()`, until it is `"dead"`. `missed` records that `flush_dp0` left
requests to a thread that was ending.

In `CanHlp` a unit has `hlp_state`, the received message, the request being pushed, the message to
send, counters, the frame its controller is sending, the FIFOs and the registers behind the Wishbone
bus. A step of the machine runs from one state it can wait in to the next: a few cycles of 6.25 ns,
while the shortest frame takes 44 us; so the host, the bus and the sockets move only while every
machine waits. On the host a call sends one request and takes the first frame of its socket for the
response; `ReadVerdict`, `WriteVerdict` and `BroadcastVerdict` are the tests in the order of the code.
`Fault` loses a frame or reports an error frame; a timeout (`TimesOut`) may come while frames are still
on their way. The history `inStep` says of an object that since it was created, or since a timeout with
nothing left under way to it, no call of it has ended by an exception or an early timeout. Callers need
not flush: those that go on after an exception, as most do, make calls out of step.

### Canola, UsbIf, PowerUnit

All nodes of `Canola` move through a frame together, one field per step; a disturbance makes one node
see a wrong level in one field. The nodes in `OneShot` have `TX_RETRANSMIT_EN` low and give a message up at
its first failure. `UsbIf` is synchronous: `Clock` computes the next state of the arbiter,
the input machine and the output machines from the present one; between two edges words arrive, FIFOs
drain and the FX3 changes its flags. In `PowerUnit` a START state and the transaction it starts are two
steps, because the byte written is sampled at START; the power unit (`TRIPPED_LTCH`, register 0x35, is
`Latch`) is external.

### Programs, drivers and registers

A program of `TestProgram` is a sequence of things to do; a call that raises drops what is left of the
innermost `try` that catches it. `LeftAtEnd` is `CutAtEnd /\ StoppedAtEnd /\ SwitchedAtEnd`. In `Alpide`,
`AuxiliaryFpga` and `Minipod` one thread calls; a call is one action inside which any access fails, at
any point and with either effect. In `RegisterBank`, `Gbtx` and `EyeScan` accesses are steps of two
consoles, or of a scan that may die.

## 3. Runs

| run | question | instance | size |
|---|---|---|---|
| `card_lock` | Does the lock exclude, count, return and implement the mutex until it is lost, forced or cut short? | 3 single-threaded processes, nesting 2, 1 retry, 1 upset | 16 s |
| `swt_link` | Does one process get the right answers from two units, and does every call end? | 3 transactions of up to 2 commands, 2 channels, counter modulo 2, late answers, an SCA that stays busy or never replies | 700,424 states |
| `communication` | Is every registered command sent once, in order, and its result given to the right call? Do prefetched exchanges get their answers? | 4 commands, exceptions, sendings cut short, 1 raw sequence, 2 retries; 2 rounds of prefetching | 5,977,446 states |
| `can_hlp_comm` | Are responses in order, reads after writes, and do reads return? | 4 requests, flushes of up to 2, 4 threads, 1 clear, exceptions | 10 s |
| `can_hlp` | Does a call return its own answer only, do acknowledgements tell the truth, is nothing dropped silently? | 2 units, 1 or 2 objects, 2 requests, 1 alert, 1 fault, early timeouts, with and without flushes, FIFOs of depth 1 | 2,327,367 states |
| `canola` | Is what is reported done received, the bus clean, every message reported? | 3 controllers, 4 messages, one node that does not retransmit, 2 disturbances, 3 retransmissions (16) | 975,248 states |
| `power_unit` | Does what tripped stay off, is a power-on clean, does an overheated stave go off, do calls end? | 2 modules, 1 fault, 1 call, monitoring without end | 82 s |
| `daq_run` | Is everything off and stopped at the end, do programs end, do decoders tell the truth? | 2 failures, interrupts or trips at any point; files and readouts with one damage | 315,463 states |
| `usb_if` | Are FIFOs respected, packets whole, ports served? | 2 sending ports, packets of 6, time-out 4, FIFOs of 3 | 30 s |
| `alpide` | Are fields kept, is the chip as asked, are reads what was asked? | 2 chips, 2 regions (32), 2-bit lines (16), a failing access at every place | 58,190 states |
| `auxiliary_fpga` | Is the status true, the loop harmless, what was flashed used? | 6 slots, 2 versions, 2 to 4 calls, 1 or 2 upsets, a failing access | 25,793 states |
| `registers` | Does a getter return what was set; are eye scans, reports and GBTx calls true? | 2 consoles, 2 or 3 calls, 1 upset; grids of up to 3 by 13 points; 2 modules; 9 GBTx registers | 54 s |

What the properties say:

- **`CardExclusion`, `CountMatchesNesting`**: between `_lock_comm` and `_unlock_comm` a process is alone;
  the count is the number of open calls and the session is owned exactly meanwhile. **`CallReturns`** is
  the liveness of the same code, **`ImplementsMutex`** the refinement.
- **`AnswersMatch`**: answers are those of this transaction, from this unit. **`LinkSelected`**: words go
  over the caller's channel. **`CallEnds`**: every call ends, by a bound on each of its polls; the one poll
without a bound is `_rd`, and a call may stay in it for as long as an SCA does not reply (section 4).
- **`SentOnce`**: registered commands go out once and in order, through single accesses and exceptions;
  without exceptions none is lost. **`ResultsMatch`**: a call returns the answers of its own reads.
  **`Prefetched`**: the same for prefetched exchanges, and no write is swallowed unless the sequence made it.
- **`ResponsesInOrder`, `ReadsSeeEarlierWrites`**: asynchronous writes are invisible to later reads.
  **`ReadReturns`**: a read returns, unless a flush met an ending thread (section 4).
- **`AnswerIsMine`, `ReadSeesAckedWrites`**: a call in step that returns normally was given the answer of its
  own request, and sees what was acknowledged in step; of calls out of step nothing is claimed (section 5). **`NoSilentDrop`**: a request the unit overwrites is counted.
- **`DoneMeansReceived`, `CleanBus`, `Reported`**: a message reported done was received by every node that
  stayed error active; on an undisturbed bus no counter moves, every message arrives once, and a node that
  retransmits gives none up for lost arbitrations; every message is reported done or failed.
- **`OffStaysOff`, `CleanPowerOn`, `OverheatedGoesOff`, `CallsEnd`**: after `power_off_all` no turn-off of the
  interlock still under way brings a module back; a power-on that begins with everything off, no interlock
  and no turn-off under way raises only after a fault; monitoring switches off what overheats; calls of
  software are served.
- **`LeftAtEnd`, `TriggersMeetMode`, `Ends`**: after the last step staves are cut, triggers and readout
  stopped, power off; triggers go only to chips in triggered mode; a program ends. **`DecodedTrue`**: whole
  data decodes without an error, damage the decoders look for is reported.
- **`PacketComplete`, `NoFifoMisuse`, `PortServed`**: see section 5.
- **`FieldsKept`, `ChipAsAsked`, `ReadsAsAsked`**: a setter changes its fields only; after a call that
  returned normally the chips are as it asked; a getter returns what the chip holds.
- **`RecordTrue`, `LoopHarmless`, `FlashedIsUsed`**: the status file agrees with flash and configuration;
  neither the scrub loop nor a check spoils a configuration; after a flashing call that returned the unit
  uses the blocks that were written.
- **`SetIsRead`, `EyeScanned`, `ReportTrue`, `GbtxTrue`**: what was set is read; rows are true and the scan is
  complete; reports are so; what checks and return values of GBTx functions tell is so.

### Bounds

Three processes are the fewest with an owner and two that contend, nesting 2 the first with an inner
level, one retry the first at which the loop both repeats and gives up. For `SwtLink` the counter
(modulo 16 in the code) needs to wrap within a behaviour: modulo 2 with up to 6 words does; three
transactions are a stale memory, its cause and its victim; one poll (200) is enough to give up, and two
(100,000) let the polls of an SCA repeat and give up.
In `CommBuffer` four commands are two registered ones around a single one and one more to show the loss;
what a sending that raises leaves with the device is bounded by one command (`MaxBacklog`).
In `CanHlpComm` two flushes of two let requests pile up behind a thread, and no behaviour needs more
threads than flushes. In `CanHlp` two requests are a call and the one it could disturb; FIFOs of
depth 1 are full at once; an alert that waits for the controller while it sends an answer holds up the
machine, which is when a received message can be overwritten. In `Canola` a sender must be able to lose
to every other message: three retransmissions for four messages. In `UsbIf` packets of 6 words and FIFOs of 3 reach every way a
burst can end; time-outs and packets are proved for every size. In `Alpide` two regions and 2-bit
lines are the fewest that can be confused, the longest call has 6 places to fail. `AuxiliaryFpga` fails
one of up to 80 accesses of a call, one retry stands for 50. Registers are bounded to links 0, 1 and
13, of which two are selected. Eye scans: one column, up to six rows, five shapes of the eye, counters
of 8 instead of 65,535, one crash. `Minipod`: two modules, four situations of their settings, five of
alarms, one death. `Gbtx`: nine registers, a configuration of three, two calls, up to two unanswered
transfers. `MaxOps`, `MaxCmds`, `MaxReqs`, `MaxCount`, `MaxFaults`, `MaxUnsolicited`, `MaxClear`, `MaxThreads`,
`MaxRaw`, `MaxBacklog`, `MaxUpsets`, `MaxCalls`, `MaxRounds` and `MaxDepth` only end behaviours, so deadlock is not
checked in those runs. `CanHlp` and `MCCommunication` declare symmetry sets; no definition tells their
members apart, and those runs have no liveness property.

### Fairness

- `CardLock`: a thread inside one of the two methods runs on (WF: the loop never blocks); a caller that
  reaches its `_unlock_comm` again and again gets to execute it (SF per level of nesting: the code
  between a lock and its unlock is finite, and `finally` runs in any case). Nothing is assumed of
  `_lock_comm` being called, of granting the session to a particular process, or of upsets.
- `SwtLink`: the card acts on a pulse and units answer (WF); a process in a call runs on (SF, since the
  lock of an SCA command is only free now and then). Nothing is assumed of the SCA.
- `CanHlpComm`: threads that can run do run (WF); no caller has to make another call.
- `Canola`, `UsbIf`: time goes on (WF of a field, of a clock cycle).
- `PowerUnit`: each bus machine and software go on (WF); faults need not happen.
- `DaqRun`: the program runs on, `fdaq` and a pulse injection end while somebody waits for them (WF).
- The other modules state safety only.

## 4. Disagreements between the code and what it says

No run is kept for these; the models contain them, and constants or the mutants show them.

- Threads that share a card object (`testbench.py:4040`, `test_cru_parallel_sc`): one clears
  `_lla_is_locked` half a second after it gave the session back (`cru_board.py:196`), under another that
  entered on it meanwhile; that one exits with "not locked!" (`cru_swt_communication.py:111`).
- With `always_set_gbt_channel` off, a process trusts the channel it selected last although another
  process has selected one since; the 4-bit counter it remembers has the same fate. `Sca_flx` and `FlxCard`
  remember the channel separately (`sca_flx.py:57`), and `Sca_flx` moves it before it takes the lock.
- `raw_sequence` assigns `self.buffer`, not `self._buffer` (`communication.py:169`): registered commands are
  sent along, registered again, and no results are expected for them (`communication.py:368` says one
  result per registered read). `single_read` that raises does not restore `_buffer` and `_read_bytes`.
  `PyUsbComm` asserts the length after it wrote (`usb_communication.py:87`): what a flush that raised has sent
  stays in the buffer, and the next flush sends it again.
- `Sca_flx._rd` reads for as long as the error code is 0x40, with the lock held (`sca_flx.py:134`); `waitBusy`
  raises at its last poll even if the SCA is free by then (120); the poll before a command compares
  `RD_CTR_MON >> 30` with 1 and so passes while bit 31 is set (82).
- `flush_dp0` finds the worker alive just after it found the queue empty: nobody serves the request, and
  `_do_read_dp1` never ends since its timeout does not count while the queue is empty.
- `readHlp` looks for the error flag in bit 7 instead of bit 15 of the address (`can_hlp.py:134`). It is to raise
  `CanHlpWrongResponse` "if something else than a read response was received for this request" (94), but
  looks at command, address and node only: after a timeout it takes the late answer to an earlier read of
  the same register, and `writeHlp` that to an earlier write.
- `canola_bsp.vhd:40` says that wrong stuff bits are reported with `BSP_TX_RX_STUFF_MISMATCH`, and the sender would
  go to its error flag (`canola_frame_tx_fsm.vhd:182`). But `s_tx_stuff_bit` is cleared (465) before the state
  that looks at it (490), so that a wrong stuff bit counts as any other one: as a lost arbitration in the
  identifier, which costs no error count.
- `power_on_ob_stave` leaves other staves on after a failure and switches off the default one
  (`testbench.py:3393`, 4912, 5008); it powers off with the interlock on (5019).
- Inner barrel tests: `test.launch(irun)` raises TypeError with `--runs`; `assert f'...'` is always true; `stop_fdaq` sets
  `test_pass`, which nobody reads; the emergency stop waits for `_readout_process` only; `launch` catches
  `WishboneReadError` without stopping anything (`ibtest.py:696`); `FakeHitRateWithPulsing` cannot configure
  its stave; `utils.power_on` leaves earlier staves on, unclocked, when a later one fails (`utils.py:219`).
- Decoders: a continued TDH is counted again; the FATAL flag is unreachable; a flag of 8 alone is reported
  as none; only the first RDH of a DMA block is taken; after a chip header with more than seven words of
  padding the loop does not end; a lost last page or single-page event leaves no trace without counters;
  `nr_tries` is never incremented; `error_event` is never reset, so later incomplete events go unregistered.
- `Gbtx`: `gbtx_config` over the SCA always raises TypeError; the check over the SCA is always False;
  `_initialize_gbtx_swt` raises UnboundLocalError; `minimal=True` reports success whatever happens; a failed
  pulse leaves the reset bits set. `set_gpio` of the SCA reads and writes without a lock (`gbt_sca.py:592`).
- `Minipod`: the page stays after a program that died, and the next constructor reads the part number of
  page 1; a nibble of 8 raises IndexError; the amplitude check is never OK.
- Auxiliary FPGA: ECC errors are cleared when a scrub starts; `None % 0x100` raises for the default golden
  image; an exception in flash access leaves the port selected; `update_status` overrides FATAL;
  `run_scrub_loop` never looks at `terminate_scrub` after `continue`.
- Registers: `set_fbct` accepts only values above 2 (`cru_ttc.py:143`); `get_heartbeat_period`
  returns one less than was set (225); `rxpatternmask` sets the last link only (`cru_gbt.py:595`); `get_gbt_tx_mux` indexes differently from
  its setter (`cru_board.py:437`, 425); `ws_can_hlp.get_bitrate` passes two arguments in
  the wrong order (345, 286).
- Sensor chips: `pALPIDE.py:288` passes `log` and `readback` to `propagate_data` (848) in the wrong order;
  `unmask_dcol` (575) and `_address_dcol` (727) speak
  of a double column, but take the number of one of 1024 columns (728) and set one column-select bit, where
  `mask_dcol` (592) counts 512 double columns: half of a double column is unmasked. The model follows the
  code, and `ChipAsAsked` takes a call for the column its assertion admits; `mask_dcol` (586) clears the masks of all other double columns; the row region of a pixel is read back
  with four bits (787); resetting one chip resets all of the control line.
- Power unit: the request count is reset only by a temperature measurement or with all monitors off
  (`i2c_pu_controller.vhd:704`); a failed address write latches FFFF until the bus is free (942).

## 5. Proofs

Each module of theorems extends the component it is about; nothing is assumed but the component's
named assumptions on its constants and what a theorem states itself.

| module | theorem | statement |
|---|---|---|
| `CardLockProofs` | `TypeCorrect` | `[]TypeOK`, however card objects are shared, forced or interrupted |
| | `Exclusion`, `CountCorrect`, `WriteSeesLock` | `SingleThreaded` implies `[]CardExclusion`, `[]CountMatchesNesting`, `[]InsideSeesLock` |
| | `Implementation` | `SingleThreaded` implies `ImplementsMutex`, the refinement of `CardMutex` |
| `SwtLinkProofs` | `TypeCorrect` | `[]TypeOK` |
| | `TransactionsExclusive` | any number of processes: at most one is in a transaction |
| | `ChannelKept` | `SoundMemory` implies `[]LinkSelected` |
| | `CallsAnswered`, `NothingGivenUp` | `OneProcess` implies `[]AnswersMatch`; with answers in time, every call returns its answers |
| `CommBufferProofs` | `TypeCorrect` | `[]TypeOK` |
| | `SentOnceAndInOrder` | `[]SentOnce` |
| | `ResultsAreOnesOwn` | `~Late` and `Orderly` imply `[]ResultsMatch` |
| `CanHlpCommProofs` | `TypeCorrect`, `WorkersExclusive` | `[]TypeOK`; at most one thread works on the queue |
| | `OrderKept`, `ReadsFresh` | `[]ResponsesInOrder`, `[]ReadsSeeEarlierWrites` |
| `CanHlpProofs` | `TypeCorrect` | `[]TypeOK` |
| | `DropsCounted` | `[]NoSilentDrop`, whatever callers do and however late answers are |
| | `AnswersMine` | `AnswerIsMine`, whatever callers do and however early a timeout is |
| | `ReadsSeeWrites` | `ReadSeesAckedWrites`, likewise |
| `UsbIfProofs` | `TypeCorrect` | `[]TypeOK` |
| | `FifosRespected`, `PacketsComplete` | `[]NoFifoMisuse`, `[]PacketComplete` |
| `CanolaProofs` | `TypeCorrect` | `[]TypeOK`; a message is pending, in the hands of its node, or reported |
| | `DoneIsReceived` | `DistinctIds` implies `[]DoneMeansReceived`, whatever is disturbed |
| | `ArbitrationIsNoError` | `Company`, `DistinctIds` and `Unmixed` imply `[]CleanBus` |
| `PowerUnitProofs` | `TypeCorrect` | `[]TypeOK`; at most one read of software is under way |
| | `SwitchedOff` | `[]OffStaysOff`, with any number of modules, calls and faults |
| | `CleanStart` | `[]CleanPowerOn`, for any module list, bias and monitoring |

### The hypotheses

`SingleThreaded`: no two threads share a card object. Without it `InsideSeesLock` is false (section 4).
`CardExclusion` and `CountMatchesNesting` are claimed until a lock is lost, forced or cut short.
`OneProcess`: one process uses the card; `SoundMemory` allows several if every transaction sets its
channel again and nobody uses the SCA. With two processes that remember, `LinkSelected` and `AnswersMatch`
are false. `Late` and `Orderly` of `CommBuffer`: an answer after the last retry, or a `single_read` while
flushed reads are outstanding, gives a call another's answer; TLC finds `ResultsMatch` violated with
either. The program's retries outlast the units unless a link is down, and its callers collect at once;
nothing in the code enforces it. The theorems of `CanHlp` have no hypothesis, but claim something of calls
in step only: nothing in a response tells a second read of a register from the first, so what an
interrupted call leaves on its way is taken for the answer of the next. TLC finds either property violated as
soon as calls out of step are included (`ReadSeesAckedWrites` with three calls), and the code has such calls: the worker of `CanHlpComm` and the
node scan never flush, and the test loop goes through the nodes that are left before it does
(`can_hlp_test_loop.py:44`). An object is in step again after a timeout that finds bus, units and socket
empty; that of a `flushHLP` is one if frames (fractions of a millisecond) are faster than the time it
waits for a quiet socket (`can_hlp.py:358`), which the proof does not assume. `Company` of `Canola`: a sender that is alone gets no acknowledgment, which
is an error. `DistinctIds`: no two nodes send with the same identifier, which CAN asks of its users.
`Unmixed`: no standard frame begins with the identifier an extended one begins with; losing the SRR bit to
such a frame is a bit error in the code, and the CAN high level protocol sends standard frames only
(`can_hlp.py:106`). `CleanBus` claims that nothing is given up only of nodes outside `OneShot` and for at most
`RetransmitMax + 1` messages: one lost arbitration is enough for the others.

### The arguments

None of the properties is inductive; each proof has an invariant that is, and TLC checks each of these
on the instance of its run.

*Card lock.* `ThreadInv(t)` says what the flag, the count and the session are at each place of the two
methods: outside them count = depth, and flag and session are set iff depth > 0; inside, depth and
count are 0, the flag is set while stopping and in the break, the session is owned from a successful
start until the stop. A step of `t` can touch another thread's facts only through `session`, which it takes
only when it is free and releases only when it is its own (`OthersUntouched`). For the refinement, a step
that takes a depth from 0 finds the session owned, so no other process has a depth.

*Slow control link.* `LockHeld` (who holds the lock is who is in a transaction) and `LinkInv` (the channel
is the transaction's from its selection on; what is remembered is what the card has) give `LinkSelected`.
`CounterInv` says that the counter remembered is the card's except between the pulse and the poll that
sees it, so the poll ends exactly when the card has moved on, for any modulus of 2 or more. `PipeInv`
numbers the answers: those taken, the one the card shows, those in the FIFO and those the unit owes are
the answers to the commands sent so far, in this order, and nothing is in any other FIFO.

*Transport.* For `SentOnce`: `Good(sent, Held, ncmds)` says that no number comes twice among the commands
of the sendings that returned and those held, that registered ones are in order, and that the numbers are at most `ncmds`; `Accounted`
that without exceptions every registered one is there. While `single_read` reads, what is held is what it
put aside and the buffer is empty. The lemmas about `Those`, `Ordered` and `Apart` (what a concatenation, a
head, a cut does to them) carry it through each call. For `ResultsMatch`: `Flow` says that reads are in
order along the answers fetched, those waiting, the commands of the device and those held; `Owed` that the
answers on their way are those somebody still has to collect; `AtRest` and `Fetching` that `_read_bytes`
counts them. A call that has as many answers as reads then has exactly its own (`FlowDone`), by
counting.

*CAN transport.* `OneWorker`: a thread that is not dead is the one started last, since `flush_dp0` starts
one only when the last is dead. So requests leave the queue one after the other: `Numbering` says where
each number is (still to put, queued, in the thread, served), `Answered` that the responses collected and
queued are those of the reads served, in order, and `AllFresh` that each shows the last write before it.

*CAN protocol.* `NoSilentDrop` needs no hypothesis: `LossInv` says that the request of a call is in the
queue of the interface, or in the registers of a unit it is for, or was pushed there, or a drop was
counted, or a frame was lost; at rest only the last three are left. The other two theorems rest on
three invariants. `OrderInv` and `QueueInv`: requests reach the registers of a unit in the order of their
numbers, from the interface over the received message, the one being pushed and the first FIFO, and none
there is older than what has been written. `CallInv`: of a call that nothing has disturbed there is one thing
under way, in one of eight places (`Alone`): its request or its answer, and it is its own (`Mine`); between
calls in step there is nothing (`Clear`). An early timeout or a frame that raises gives up the claim, and a
later timeout with nothing under way to the object, as that of `flushHLP` should be, restores it. `AckInv`: a
write whose response is anywhere, or was taken, is in its register or in the first FIFO (`Landed`). A read
that comes after it is behind it in that FIFO by `OrderInv`, so the result it takes is at least as new
(`Fresh`), and stays so on its way back. What another object does disturbs none of this: no unit has two objects (`Serves`),
frames of other units do not pass a filter.

*USB interface.* `CountInv` says per state of `dpo_fsm` by how many words the reads of a visit are ahead of
its writes and how many it may still write, `Pipe` where those words are (FIFO output, first and second
register of the bus), `BusInv` that the strobe belongs to the arbiter's port and to the word on the bus.
`DpiInv` bounds the input machine by the flag it looked at four cycles earlier. Together they are
inductive for any number of ports, packets of 5 words or more, time-outs of 4 cycles or more.

*CAN controller.* `AgreeInv`: the senders still left agree on the fields that are over, so that after the
identifiers one is left, the frame on the bus is its message, and only it may have won. `HearInv`: while
somebody sends, a node that has been error active throughout is receiving that frame, or has objected
with an error flag, or has the message. `TxOutcome` reports a message done only at the end of a frame that
nobody objected to, which gives `DoneMeansReceived`. On an undisturbed bus `Calm` and `FrameInv` say that nobody
objects and that all but the sender receive; the fields are compared in the order of the arbitration, and
the least identifier of those that started wins, so somebody does. `TryInv` bounds the attempts of a
node that retransmits by the messages done: each attempt lost is lost to another message, which is then done.

*Power unit.* `OffProg`: the program left of `power_off_all` writes nothing but empty masks, and until the masks
of the interlock are written no write to a bus has left the program. So as soon as one has, nothing is
expected, and a turn-off that starts from then on writes nothing. `GoesOff` follows the writes of each
expander, and those of the bias channels, which are on another bus: the last one queued is empty; or it
is in work, and no queued one has more; or the half is off and whatever is queued or in work, a turn-off
included, keeps it off. The two expanders share no module, so a write to one leaves the other off.

For `CleanPowerOn` a program is read as a plan: what the buses are set to once the writes queued are
served, the masks, and whether each bus has been waited for, the interlock is armed and the `try` block
entered. `After` says what a step makes of a plan, and `Course` that the rest of the program can be followed
step by step, each step allowed where the plan is: a read expects what the plan has, the interlock is
enabled only with the masks equal to it, nothing is written once it is, and outside the `try` block a
step may raise only when no write is left to be served but a switching off. `Stands` and `Exact` tie the
plan to the machines (the last write queued or in work, or else the bus, is what the plan says), `Quiet`
to monitoring: with no fault no trip is latched, no turn-off is under way, and the enables it has latched
are the expected ones. A step of software moves along the plan; a step of a machine moves the bus
towards it. The proof showed two conditions that the first statement of the property
lacked: a turn-off of an earlier trip may still be under way when a power-on begins, and switches modules
off again after it, so "begins clean" includes that there is none; and an empty list does nothing
(`power_unit.py:683`), which `CallsKnown` now says.

### Only model-checked

- Liveness (`CallReturns`, `CallEnds`, `ReadReturns`, `Reported`, `OverheatedGoesOff`, `CallsEnd`, `Ends`,
  `PortServed`): TLAPS does not prove properties under fairness, nor `ENABLED`.
- What a recursive definition or a fold computes for every input (the register layouts, the decoders,
  the programs): induction over data is out of the provers' reach.
- `Prefetched` and `SetIsRead`: what a prefetch stores, and what is left of the writes that wait in a
  buffer, are folds over sequences of commands, which is induction over data as well. The other safety
  properties of `DaqRun`, `Alpide`, `AuxiliaryFpga` and `MCRegisters` range over programs and layouts that
  are given as data; they hold on the instances of section 3.

## 6. Not modelled

The I2C masters of the readout unit (byte sequences over one bus, a matter of clock cycles), the USB
server, the local trigger unit (command strings to a server that is not in the repository), and the
simulation interface. Of the modelled parts: implicit locking switched off; the 76-bit variants of SWT
words, payloads of SCA commands, `HDLC_reset` and `HDLC_connect`, the TX multiplexer; reads of data ports 2 and 3, `discardall`; the counters
of `CanHlp`, CAN frames of a wrong length; bit timing, stuffing and CRC of Canola, and bit errors inside its error flags; the clock crossing
inside the USB FIFOs; ADC values and limits of the power unit, voltages and cable drops; chips of an outer
barrel stave, pulse gating and the loops of calibrations; the transfer of bit files page by page; PLLs,
counters and monitors; the C++ decoder and plots; the single-purpose tests and the regression tests of the
test bench; the triplication of the firmware.

## 7. What could be proved next

`LoopHarmless` of `AuxiliaryFpga`, which a step of a loop can only break in a few places; `UsbIf` with the
FIFOs' clock crossing; a set of registers with atomic reads and writes as what `CanHlp` implements for
calls that return.
