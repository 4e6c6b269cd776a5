# Verification of the BMSNode firmware

TLA+ models of the firmware in `src/` (an AVR ATtiny1614, one node per battery
cell, all nodes on one half-duplex serial bus). TLC checks every model on small
instances; TLAPS proves their safety for every value of the constants.

## 1. Inventory

| Component | State it keeps | Operations | Used by |
|---|---|---|---|
| packet processor `pkt.c` | parser `state`, `idx`, `crc`, `len`; `rxbuf_inuse`, `rxbuf[16]`, `ready_packet` | `pkt_parser` (in the receive interrupt); `pkt_ready`, `pkt_rx_free`, `pkt_reset`, `pkt_is_active`, `pkt_send` (main loop) | ser, cmd, main |
| serial driver `ser.c` | ring `txbuf[32]`, `headp`, `tailp`; USART registers | `ser_write`, `ser_flush`, `ser_is_active`; interrupts RXC, DRE, TXC | pkt, main |
| command processor `cmd.c` | `pkt_timeout`, `pkt_waiting` | `cmd_process` and one function per command | main |
| timer `tmr.c`, `list.c` | `systick`, list of timers | `tmr_set`, `tmr_expired`, `tmr_schedule`, `tmr_unschedule`, `tmr_process`; tick interrupt | all |
| configuration `cfg.c` | `g_cfg_parms`, EEPROM block with CRC | `cfg_load`, `cfg_set`, `cfg_get`, `cfg_store`, `cfg_reset` | cmd, shunt, adc |
| shunt `shunt.c` | `shunt_status`, `pwm`, two timeouts, `vrange`, `trange`; timer TCA0 | `shunt_start`, `shunt_stop`, `shunt_set`, `shunt_get_status`, `shunt_run` | cmd, testmode, main |
| test modes `testmode.c` | `test_state`, `test_seconds`, `test_timeout`, blink sequence | `testmode_on`, `testmode_off`, `testmode_run` | cmd, main |
| state machine processor `kissm.c` | present state | `kissm_run` | main |
| main loop `main.c` | `state_tmr`, states powerup, idle, dfu, shunt, testmode, sleep | event generator and six handlers | - |
| LED `led.c`, ADC `adc.c`, thermistor table | blink modes; filtered readings | `led_run`, `adc_run` and getters | main, cmd, shunt |

How they interact. The receive interrupt calls the parser byte by byte. A good
packet waits in the single receive buffer until `cmd_process()`, called by the
main loop, takes it out by pointer, executes the command and sends the reply
through the ring and the transmit interrupts. If it answered, it returns the
packet to the main loop, which shows it to the present state as `EVT_CMD` and
then frees it. The state timer gives `EVT_TIMEOUT` and has priority over
packets. The states start and stop the shunt and run the test modes, but the
`TESTMODE`, `STATUS` and `SETPARM` commands act on shunt and test modes directly.

What is hard here: interrupts against the main loop on shared variables and
registers (buffer ownership, the serial control registers); recovery from noise
and truncated packets, with and without the timeout; 16-bit times that wrap; one
state timer shared by all states; going to sleep while a packet arrives; a
watchdog that only some branches feed; a load that must not stay on unattended
although commands, timeouts, test functions and sleep all act on it; power that fails
while the EEPROM is being written; nodes that take each other's replies for requests;
integers of 8 and 16 bits in the control loop and the conversions. The places are
listed, each at its line, under `hazards` in `PROJECT.json`.

What makes each component correct:

* packet processor: the buffer has one owner, is never overrun, leaked or
  overwritten; exactly the good frames are delivered; it always resynchronises;
* serial driver: packets go out whole, once and in order; the line is turned only
  after the last bit; it always returns to listening;
* command processor: the packet contract (take, use, free once), one reply at a
  time, exact timeouts, no packet keeps the buffer for ever;
* shunt: off means off; the power follows the documented curves; it ends when
  nobody asks for its status; a hot board cools down;
* application: the watchdog is fed; no packet is slept over; sleep only after
  quiet; states and test functions end; the load is on only for a reason;
* configuration: a reboot finds the old values, the new ones or the defaults, never
  a mixture; nothing is stored that was not sent; a reply means it is stored;
* the bus: one node talks at a time, no two have the same address, and the
  controller is never wrong about a node, whatever is lost;
* timers, LEDs, converters: no timer is lost or early, lateness does not add up;
  readings and conversions do not wrap, overshoot or get stuck.

## 2. Modules

| Module | Models | Builds on |
|---|---|---|
| `RxBuf` | abstract: a buffer that changes hands | - |
| `Pkt` | `pkt.c`, one disjunct per parser state, one action per operation | implements `RxBuf` |
| `PktFrames` | what a good frame is, with the CRC of its bytes as a recursive function | `Pkt` |
| `Duplex` | abstract: a line that sends whole messages and listens between them | - |
| `Ser` | `ser.c` transmit side | implements `Duplex` |
| `Tmr` | `tmr_set`, `tmr_expired` in wrapping arithmetic | - |
| `Cmd` | `cmd_process()` as the main loop calls it | `RxBuf`, `Tmr`, the mode of `Duplex` |
| `NvParms` | abstract: parameters that survive power failures | - |
| `Cfg` | `cfg.c`, with the EEPROM written byte by byte | - |
| `Commands` | the commands of `cmd.c` that store or read parameters, with their payloads in the one receive buffer | `Cfg`; implements `NvParms` |
| `Bus` | several nodes that hear each other, and a controller | - |
| `Shunt` | `shunt.c` | - |
| `App` | `main.c`, `kissm.c`, `testmode.c` | `Shunt` |
| `TmrSet` | abstract: a set of running timers | - |
| `TmrList` | the timer list of `tmr.c` and the linked list of `list.c` | `Tmr`; implements `TmrSet` |
| `Led`, `Adc` | `led.c`; `adc.c` and `thermistor_table.c` | - |
| `Periph` | the background part of the main loop's pass | `Led`, `Adc` |
| `PktProofs` (about `Pkt` and `PktFrames`), `SerProofs`, `CmdProofs`, `CommandsProofs` (with lemmas about `Cfg`), `BusProofs`, `AppProofs` (about `Shunt` and `App`), `TmrListProofs`, `PeriphProofs` | theorems | the module of that name |
| `MCPkt`, `MCSer`, `MCCmd`, `MCCommands`, `MCBus`, `MCShunt`, `MCApp`, `MCTmrList`, `MCPeriph` | instances for TLC | |

Definitions carry the names of the functions, variables and states of the code
where they can; `map` in `PROJECT.json` gives the lines of each. Definitions marked
"(a mutant)" are plausible mistakes used to show that a property can fail; they
are not part of a specification.

**Granularity.** `pkt_parser()` runs inside an interrupt and the other operations
of `pkt.c` are `ATOMIC_BLOCK`s, so each is one step of `Pkt`. `ser_write()` runs
with interrupts on and is split at each register it writes; its last statement,
`CTRLA |= RXCIE`, is even split between the read and the write. `cmd_process()` is
split between taking the packet, executing it, looking at the timeout, and resetting
or arming it; bytes, ticks and the end of a transmission come in between. A pass
of the main loop in `App` is an event step and a handler step; exit and entry
handlers belong to the handler step, as in `kissm_run()`. In `Cfg` every byte that
`eeprom_update_block()` writes is a step, in any order; what happens to RAM between
two of them is seen by nobody and belongs to the step. In `Periph` the three calls
of a pass are steps, with ticks in between. In `TmrList` a call is a step: the
tick interrupt touches only the clock.

**How the layers fit.** `Pkt` assumes that the main loop frees only what it holds, and
takes or resets only while it holds nothing; `Cmd` uses the abstract buffer, and
`MainContract` is that assumption. `Ser` assumes that nobody calls `ser_write()` while
a reply is going out; `NoReplyWhileSending` of `Cmd` is that assumption. `Cmd` says
"`owner # "free"`" for `pkt_is_active()`; theorem `ActiveIffOwned` justifies it.
`Commands` executes a packet while the buffer stands still, which is `RxBuf`'s promise.
`Bus` takes a packet heard for one step of `Pkt` and `Cmd`, an address for stored
when it is set (`AcknowledgedIsStored`), and at most one reply per request, queued
whole, from `Ser`. `Cmd` and `App` use the state timer as `TmrSet` promises it.

**Time.** `Cmd` and `TmrList` keep `systick` and the times as they are, on a clock of
`TICKS` values. `Shunt`, `App`, `Led` and `Adc` keep a timer as the ticks left of it,
which is the distance of the two 16-bit times; in `Shunt` and `App` it wraps like it
(`Half`): a timer not looked at for half a turn lies ahead again. `Led` and `Adc`
look at theirs in every pass, and `PhasesLast` and `SamplesSpaced` show how near to
zero they stay. The tick timer stands still in standby sleep.

`TmrList` has any number of timers, once and periodic, because `tmr.c` and `list.c` are
written for them. The firmware schedules only one, the state timer, once at a time
(`main.c`); a list of several and a period are behaviour of the library.

### Assumptions

* One pass of the main loop takes at most `MaxLoop` ticks, much less than the
  watchdog period (`2 * MaxLoop < WDT_TIME`), than a control period of the shunt
  (`2 * MaxLoop <= SHUNT_LOOP_TIME`), than an LED's phase or a sample period, and less
  than a packet takes on the bus (`PKT_MIN`; at 9600 baud a packet is 5 ms or more, a
  pass well below 1 ms). The exception are passes that store parameters: an EEPROM byte
  takes some milliseconds, so `SETPARM` and `FACTORY` delay what the main loop does by
  up to some tens of milliseconds. `MaxLoop` may be chosen with them; then `PKT_MIN` is the
  bound that they break, and bytes received meanwhile wait in the parser.
* A timer of the list is scheduled for longer than it takes all timers to have had
  a pass each, and for less than half a turn of the clock.
* `Ser`: the few instructions of `ser_write()` after it has enabled the interrupts
  take less than a byte on the wire, and an interrupt handler is one step.
* `Ser`, `App`: the hardware behaves as its data sheet says: TXCIF is cleared by its
  vector; the waveform output follows the override bit while the timer is off; a
  start bit wakes the processor from standby. In standby TCA0 stops where it is and
  keeps the pin, so a load that was on at some duty cycle may stay on for good:
  `LoadOn` counts it as on.
* `Cfg`: a byte of EEPROM is written or not; two blocks that differ in one byte have
  different CRCs (true of CRC-8, and all that is assumed of it).
* `Bus`: the controller keeps to `doc/packet.md`: it waits for the reply, or long
  enough, before it sends again, gives each node an address of its own and has no
  more than one node without an address. Any receiver may miss any packet; any node
  may restart at any time. Two senders at once are not modelled, and `OneTalker` shows
  that there never are.
* Conversions (theorem `ConversionsExact` only): the calibration fits the readings
  (`CalibrationFits`): negative calibration values are no larger than what they are
  added to, and a cell voltage fits in 16 bits. The code checks neither; `MCPeriph` has
  TLC evaluate the condition on its instance.
* Undefined results are all results: a division by zero yields any 16-bit value, the
  CRC of a block whose length byte leads beyond it any byte.

## 3. Runs

Every run lists its properties in its `.cfg`; every property of a passing run has a
mutant of the code that breaks it.

| Run | Shows | Instance |
|---|---|---|
| `mcpkt` | bytes in any order against take, free, reset | 2-byte header, 0-2 payload bytes, 5 byte values with preamble and sync among them, which also occur inside packets and as lengths that are too big; a CRC that depends on order. 31 525 states |
| `mcser` | `ser_write()` against DRE and TXC, and the line as `Duplex` | ring of 4, all packets of 1-3 bytes over 2 values: full ring, wrap, packets that end before `ser_write()` returns. 3 151 states |
| `mccmd` | command processor, bus, clock and replies | timeout 3 on a clock of 16, so it wraps; 8 packets, one for each way through the dispatch. 410 496 states |
| `mccommands` | payloads over stale buffers, power failure at each byte of each store, and the configuration as `NvParms` | block of 6 bytes with an address and a 2-byte parameter, 8 byte values; a CRC in which changes of two bytes can cancel; first contents of another type, with lengths 0 and too big, and good. 280 464 states |
| `mcbus` | requests, replies and restarts, any of them lost, on one bus | 3 nodes, 4 addresses; from every assignment in which at most one node has none. 16 710 states |
| `mcshunt` | control loop | 8 duty steps, 3 parameter sets that differ in both ranges or only one, voltages and temperatures below, at, between and above their limits, and below zero; distances wrap at 6. 10 074 states |
| `mcapp` | application, safety and liveness | 2 duty steps, each timeout a few ticks, two voltages and temperatures, all test functions, packets at any time. 295 575 states |
| `mctmrlist` | the linked list as `TmrSet`; nobody starves | 3 timers, once and periodic, due together and in any order, removed from the middle, a clock of 14 that wraps. 134 680 states |
| `mcperiph` | timing of LEDs and samples; the filter and the conversions | one LED with all modes, real readings and the real table across its cold end and beyond its warm end, three calibrations; all readings pass through the filter from 0. 285 200 states |

The bounds are enough because what the code compares is preserved: in each
instance every limit can be reached, passed and missed, every counter wraps or
saturates, and two packets, timeouts or commands can follow each other in
every order. Two nodes can be confused, and a third can hear them. The histories
(`age`, `armed`, `quiet`, `calm`, `tested`, `preambles`, `left`, `answers`) stop counting above
the largest value a property asks about. No run turns off the deadlock check: none
of the models can stop.

Each module has one type invariant, `TypeOK` (`AppTypeOK`). The proofs establish it
for the modules that have them, the widths of the code's types included. It is in no
run: where it could fail it is implied by a property that is.

Fairness. The main loop never stops (while the processor is awake), time goes on,
pending interrupts are served and the USART shifts out what it has: weak
fairness of those actions. Nobody is obliged to send a byte or a command. In `Cmd`
a timer event takes at most one pass of two from the packets, because the state
timer is removed when it expires and set again at least a second ahead. In `Bus` a
node deals with what it has received and ends what it sends; the controller need
never send. In `Periph` passes begin and end and the clock ticks; handlers need not
switch anything.

### Where the code and its description part

Each of these is a `violation` run with a counterexample, and an entry of `findings`.

* `mccmd_fulltime` - `pkt_waiting` outlives the packet it was set for if that packet
  ends with a bad length or CRC; the next packet is thrown away when the old
  timeout is up, without having had its 5 seconds (`cmd.c:349`).
* `mcshunt_cold` - below zero degrees the unsigned temperature counts as too hot
  (`shunt.c:176`).
* `mcapp_safe` - a test function turned on in powerup, dfu or shunt is monitored by
  nobody; the load may stay on even while the node sleeps (`cmd.c:217`, `main.c:378`).

Others are seen in the models, and have no run of their own:

* `SETPARM` while shunting mixes new limits with the ranges of the old ones
  (`shunt.c:108`), a division by 0 among them: between limits whose distance has changed
  the load follows neither the old curve nor the new (`command.md:288`).
  `CurvesFollowed` shows how far that goes: a reading at or beyond its new limits
  counts as documented, and where one range is out of date the load stays below
  the other curve.
* Status IDLE is reported while the load still ramps down, for up to 255 passes
  (`shunt.c:183`, `command.md:240`).
* A second test function does not turn off the first (`testmode.c:84`, `testmode.h:64`);
  one turned on outside idle is not timed out (`cmd.c:217`, `command.md:673`).
* `cfg_set()` stores the block, although `cfg.h:155` says that it does not; `ADDR` so
  stores it twice.
* The reply to `FACTORY` carries the address of the request, not 0 (`cmd.c:63`,
  `command.md:733`), which `Bus` needs: it is how the controller knows whose it is.
* `SHUNTMIN` is 4000 by default (`cfg.c:154`), 3900 in `command.md:392`.
* `TESTMODE` and `ADDR` do not look at the length of the packet and read what an
  earlier one left in the buffer (`cmd.c:213`); `SETPARM` does (`SetsOnlyWhatWasSent`,
  which takes the places of the parameters from the table at `cfg.c:249` as they are).
* Nodes take replies for requests (`cmd.c:256`). With two nodes without an address, or
  with the same one, a reply makes the other answer, and so on for ever; the
  controller's discipline in `doc/packet.md` is what keeps the bus quiet (`FallsQuiet`).
* A store that starts from an invalid EEPROM and is interrupted may leave a
  mixture that passes the 8-bit CRC: the limit of `NeverHalf`, stated in `NvParms`.
* The filter starts at 0 at boot and keeps its readings during sleep: it takes some
  twenty samples, 2 s, until a reading is right; until the first sample a negative
  `VOFFSET` makes the cell voltage wrap to some 65 V (`adc.c:207`).
* Below 0 C the table's rounding goes towards zero, up to 1.5 degrees off
  (`thermistor_table.c:121`).
* `device_init()` enables the transmitter at boot, which stays on until the first reply
  has been sent (`main.c:98`, against its comment at `main.c:92`); it is the initial
  state of `Ser`.

## 4. Proofs

All are safety theorems of the form `Spec => []P` (or `[][A]_vars`, or a refinement),
by an inductive invariant `IInv`. They hold for every value of the constants allowed
by the named assumptions of the modules. Every invariant that a run checks, and every
action property, is also a theorem.

* **`PktProofs`**. `OneOwner` is inductive only together with what the parser knows about
  its buffer: in the header state `idx` is below the header length, in the data state
  `idx + len` is the length of the packet; what was stored equals what was heard; and
  a bound on the run of preambles in each state. `Resync` needs the last one: a
  preamble is not an acceptable length, so a run of preambles can lengthen a packet by
  at most the payload and CRC that were already announced. From `IInv` follow `TypeOK`,
  `OneOwner`, `NoOverrun`, `Resync`, `Framed`, and, step by step, the refinement of `RxBuf`.
  For `PktFrames` there is a second invariant, `Checked`: while a packet is received, `crc`
  is the CRC of what was heard, and what waits or is held is a good frame. It needs
  that the recursive function behind `CrcOf` exists and has its recursion as an
  equation (`CrcsExist`, `CrcOfNext`); both `OnlyGoodFrames` and `GoodFrameDelivered`
  follow, for any CRC function.
* **`SerProofs`**. The invariant says what the main loop has done at each point of
  `ser_write()`, that the transmit interrupts are the only ones to have moved since,
  and that TXCIE stays set until ring and registers are empty. The value of CTRLA
  that `rxint_enable()` read is the crux: it may be written back stale only in
  DREIE, which then costs one empty interrupt, never in TXCIE. Cited for `NoEcho`,
  `NeverTruncated`, `IdleMeansListening` and the action property `LastByteOut`. `Refinement`
  proves the safety part of `ImplementsDuplex` (`DuplexSafety`): what is still to be sent is
  the two registers and then the ring from `tailp` to `headp` (`Queued`); copying a byte
  into the ring appends to it (`CopyQueues`), the handler takes its first
  (`HandlerTakesOldest`), also around the end of the ring.
* **`CmdProofs`**. Besides types and the packet contract: `Quiet`, no packet is
  received or waits while a reply is going out; `ClockInv`, the distance of `systick`
  from `pkt_timeout` on the circle is `armed - PKT_TIMEOUT`; `ArmedBound` and
  `AgeBound`, how long a timeout and a packet can have been running at each point of
  the loop. `TimeoutExact` follows because the loop looks before half a turn is over
  (`CmdAssumption`), `StuckPacketBounded` from the last.
* **`CommandsProofs`**. When nothing is being stored,
  what is in use is what a reboot would find. While something is stored over a
  valid block, the old and the new block differ in one parameter, at most two bytes,
  and the CRC; a proper mixture of their data differs from each of them in exactly
  one byte, so its CRC is neither's, and neither of the two CRC bytes that the EEPROM can
  hold fits it: `NeverHalf`. The refinement of `NvParms`, the two
  payload properties and the agreement of `GETPARM` with `SETPARM` follow. No property of
  the CRC is used but that it tells blocks apart that differ in one byte.
* **`BusProofs`**, for any number of nodes. No address may, as far as the controller
  knows, belong to two nodes (`Disjoint`); the one answer to a request is still to come,
  on its way or over (`OneAnswer`); what a request will do is reckoned with (`Expected`), and
  a reply on its way tells the truth (`Truthful`). The crux is `RepliesIgnored`: the
  address in a reply is one that only its sender may have, so nobody else takes it for a
  request of his own.
* **`AppProofs`**, about the shunt first. `UnattendedEnds` is not inductive: the idle timeout
  is only looked at in a control pass. `quiet + loop_timeout <= SHUNT_IDLE_TIME +
  SHUNT_LOOP_TIME` is: a pass that goes on has found the idle time not over and sets the
  next one a period after it was due. `CurvesAlwaysFollowed` is arithmetic: for all
  parameters and readings of their C types the products fit, the quotients meet the
  curves at the limits, and neither is lost by the conversions; a range that is out of
  date, even 0, cannot lift the load above the other curve. Its premises (`Sane`, not
  below zero, `VoltageSettled` and `TempSettled`) are the exceptions listed above.
  Then the application, with an invariant (`AppIInv`) that goes from state to state of
  the program: which of them may find the load on and by whose doing, where the state
  timer was set and how far it can be behind, how long ago the watchdog was petted at
  each point of a pass, and that a packet cannot wait where the node goes to sleep.
  Hence `LoadExplained`, `WatchdogFed`, `NoPacketAsleep`, `SleepsOnlyWhenQuiet` and `LoadsEnd`.
  `WatchdogFed` needs that no state lets two passes go by without petting it: two passes
  have to be shorter than the watchdog's time, and no less will do.
* **`TmrListProofs`**, for any number of timers. A list is sound if its links form a chain,
  the sequence of its timers from the head to NULL (`Chain`); the walk along the links is
  that chain (`WalkIsChain`), adding puts a timer in front of it, and removing takes one out
  wherever it is (`Added`, `Removed`). Times: `Distance`, a timer's 16-bit time is as far
  from the clock as its ticks left say, less than half a turn. That nobody is late is
  not inductive: `Punctual` counts back to the last pass after which no timer was
  overdue. If that was `p` passes ago, at most `p * MaxLoop + lag` ticks have gone since,
  and of the timers that come due within `MaxLate` of it at most `N - p` are left: each
  pass since then has served one, and a timer that was served, or scheduled anew, does not
  come due again so soon. After `N` passes none is left. `LatenessBounded` and the
  refinement of `TmrSet` follow.
* **`PeriphProofs`**, for any number of LEDs. How far a timer can be behind at each point
  of a pass, given when this pass or the one before looked at it (`Ahead`); hence
  `PhasesLast` and `SamplesSpaced`. `FilterBetween` shows that the filter's 16-bit products
  do not wrap and that rounding does not overshoot (`NeverOvershoots`). `ConversionsExact`
  is `ReadingsExact`, for every calibration that fits the readings: no reading is
  smaller than a first one can be (`Sampled`), the search always finds its segment of the
  table (`SegmentFound`), and C's division is off by half a digit (`Rounded`).

The prover knows no induction over numbers that can be used directly: the library's theorems take an
operator. `PktProofs` and `TmrListProofs` derive what they need (`LeastNumber`, `Induction`) from the
theorem that the strict subset order of finite sets is well-founded, with a set in the
operator's place.

Only model-checked: liveness, which is beyond the prover (`AlwaysReceivesAgain`, `HotCoolsDown`,
`TimedStatesEnd`, `PacketsTaken`, `FallsQuiet`, `FollowsInput`, and the fairness of `ImplementsDuplex`).
That they need the fairness is said above.

## 5. Not modelled

* `pkt_send()` assembles a reply in its own buffer before it is queued; that it is
  queued whole is modelled (`Ser`), and what it says (`Commands`, `Bus`), but not its bytes.
* The contents of `STATUS`, `ADCRAW` and the other replies that only read.
* The DRE handler's window between clearing TXCIF and writing the data register: by
  the data sheet a byte that is still being shifted out keeps TXCIF from being set.
* Collisions on the bus, and a controller that does not keep to the protocol.
* The registers of the converters and timers: a conversion is one step.
* Version and pin map (`version.h`, `iomap.h`): constants. The bootloader, build scripts and
  host tools; the unit tests, which replace the hardware by fakes.

## 6. Plan

Done, in this order: `RxBuf`/`Pkt`, `Duplex`/`Ser`, `Tmr`/`Cmd`, each with its proofs; `Shunt`;
`App`; `NvParms`/`Cfg`/`Commands` and their proofs; `Bus` and its proofs; `TmrSet`/`TmrList`; `Led`,
`Adc` and `Periph` and their proofs; the proofs about `Shunt`, `App`, `PktFrames`, `TmrList`, the
conversions, and the refinements of `Duplex` and `TmrSet`.

Next, most important first:

1. A DRE handler of two steps in `Ser`, and its proofs with it.
2. The contents of `STATUS` and `ADCRAW`, and the blink pattern of the test modes.
