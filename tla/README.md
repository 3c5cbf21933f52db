# Verification of the Samduino core

Samduino is an Arduino core for the SAM4S: a C++ library (`arduino_core/`, about
7000 lines) over the drivers of the Atmel Software Framework (`ASF/`, vendored).
The program is a main loop and a set of interrupt service routines that share
byte rings, an event table and a double buffer. It has no tests and almost no
documentation. What is hard in it is what a test hardly reaches: an interrupt
between two statements that update two fields of one structure.

Paths below are relative to `src/arduino_template/src/`; `core/` stands for
`arduino_core/`.

## 1. Inventory

| part | state | operations | interacts with |
|---|---|---|---|
| USART ports Serial1, Serial2 (`core/HardwareSerialUsart.cpp`) | two rings of 512 cells: head, tail, 16 bit counter | begin, end, write, read, peek, flush, available; callbacks for RXRDY and TXRDY | its interrupt (`core/interrupts.cpp:95-121`), the peripheral |
| UART ports Serial3, Serial4 (`core/HardwareSerialUart.cpp`) | two rings of 255 cells, 8 bit counters | the same; callbacks for RXRDY and TXEMPTY | its interrupt (`interrupts.cpp:67-93`) |
| scheduler (`core/SchedulerModule.cpp`), two instances | 10 event slots for each of two levels, a count per level, enabled | schedule, enable, disable, reset, handleEvents | main loop (LOW), timer interrupts (HIGH), callbacks that call back |
| timer (`core/internal_timer.cpp`) | ms counter, two timer channels | millis, micros, delay, delayMicroseconds, two interrupts | scheduler |
| main loop (`core/main.cpp`) | none | setup, then for ever loop and handleEvents(LOW) twice | sketch, scheduler |
| USB port Serial (`core/usb_serial.cpp`) | two rings of 512 cells | read, peek, write, available; notifications | CDC interface |
| CDC interface (`ASF/.../udi_cdc.c`) | two receive and two transmit buffers of 64 bytes, which one is current, position, transfer under way | getc, putc, is_rx_ready; transfer complete, start of frame | endpoint, usb_serial |
| interrupt dispatch (`core/interrupts.cpp`) | table of user functions, last DTR | attachInterrupt, detachInterrupt, pin and serial handlers | ports, sketch |
| Wire (`core/Wire.cpp`) | two rings of 128 cells, address | begin, beginTransmission, write, endTransmission, requestFrom, read | TWI driver (`ASF/.../twi.c`), polled; the slaves on the bus |
| SPI, Flash, RTC, SD card, pins | at most one flag or handle each | blocking calls | drivers |
| Stream, Print, String, math | none of interest | formatting, parsing, timed reads | ports |

What makes each correct:

- *ports*: every byte `write` takes leaves, once and in order; every byte read
  came in, once and in order, and one is lost only when there was no room;
  counter and pointers agree; no call waits for ever.
- *scheduler*: an accepted event runs as often as asked, never early, never too
  often; a schedule is refused only when the level is full; the count that
  guards both never hides an event.
- *timer*: delays end, and not early.
- *USB*: two sides share two buffers and never the same one; nothing the host
  sends is lost, repeated or stranded.
- *interrupt dispatch*: after detach the function is not called, after attach
  the one for this pin is.
- *Wire*: what a slave accepts was meant for it; what is read was sent for this
  request; a slave that is late or refuses does not hang the program.

The behaviours that are hard: an interrupt between any two statements of the
foreground; updates of a counter that the interrupt also updates; an interrupt
that masks itself; limits compared with the wrong constant and counters that
wrap; calls from callbacks, in the interrupt and outside of it; a poll that
looks at two places in turn. There is nothing persistent and nothing
distributed, hence no crash recovery and no lost or duplicated messages.
`PROJECT.json` lists every hazard at its line with the properties that watch
it.

## 2. Plan

Modules in their order; those marked * exist.

1. `ByteRing`*, `SerialPeripheral`*, `HardwareSerialUsart`*, with `SerialPort`*
   as the abstract specification of a port; `ByteRing_proofs`* (lemmas about
   rings and sequences), `HardwareSerialUsart_proofs`*.
2. `HardwareSerialUart`*: the same design with the differences that matter;
   `HardwareSerialUart_proofs`*.
3. `Scheduler`* with `MCScheduler`*: both contexts and both clocks;
   `Scheduler_proofs`*.
4. `UsbSerialRx`* and `UsbSerialRx_proofs`*: the receive path of the USB port
   over both layers.
5. `UsbSerialTx`* and `UsbSerialTx_proofs`*: `write`, `putc`, `tx_send`, the
   start of frame interrupt, the host that opens and goes away.
6. `ExternalInterrupts`* and `ExternalInterrupts_proofs`*: attach, detach and
   dispatch with the pin tables.
7. `TwiPeripheral`*, `Wire`* and `Wire_proofs`*: the polled master against slaves that refuse,
   stretch the clock and answer late.
8. The delays: `delay`, `delayMicroseconds` with the width of the clocks.
9. Compositions: a port used from a HIGH event (two callers of one ring), a
   second instance of the scheduler on the same interrupt priority.

Theorems: type, wakeup, transmit and receive correctness of the USART port, its
order across a second `begin` and its refinement of `SerialPort`*; both sides of
the UART port*; both directions of the USB port*; the external interrupts*; the
safety properties of Wire*; `TypeOK` of the scheduler, `CountCovers` for main
against the interrupt and `CountExact` for a level with one context*; its `Kept`
and `NeverTooOften`*.

## 3. Modules and their correspondence to the code

**How concurrency is modelled.** `config/` and the core leave all peripheral
interrupts at priority 0 and USB at its own lower one; no interrupt of a port is
interrupted by another that touches the same data. So a service routine is *one
step*, and the foreground is *one step per access to something the routine also
touches*: a test of a counter, the store of a cell, the move of a pointer, the
update of a counter (which the code does with interrupts off). `pc` says which
statement is next; step names begin with the letter of their call (`w_`, `r_`,
`f_`, ...). The scheduler's routine can run sketch code, so there the interrupt
is a second context with steps of its own, and main does not move while it
runs. The shared fields of the scheduler are not `volatile`; the model keeps the
order of the source and does not reorder its writes as a compiler may.

**ByteRing** – the ring of all ports: `buf`, `head`, `tail`, `size`, with one
operator for each statement (`Store`, `AdvanceTail`, `CountUp`, ...) and their
composition for an interrupt (`Appended`, `Removed`). `Slots`, `Limit` and
`CountMod` separate what the ports mix up: the cells, the limit the code
compares with, and the width of the counter.

**SerialPeripheral** – the registers of a USART or UART: holding and shift
register outwards, one register inwards, two masks; the driver calls and the
peripheral's own moves. Bytes are numbered in the order they are handed over or
come in: no code looks at their value, and numbers make loss, repetition and
overtaking visible.

**HardwareSerialUsart** – one action per statement of `write`,
`tx_buffer_append`, `read`, `rx_buffer_remove`, `peek`, `flush` (which is all
`end` does) and `begin`; `Handler` is the whole service routine including that
it looks at the status and not at the mask. `accepted` counts what `write` took,
`got`, `peeked` and `dropped` remember results for the properties.

**SerialPort** – what a port promises: a lossless ordered pipe outwards and a
bounded queue inwards that loses a byte only when the queue is full or the
register is overrun. `HardwareSerialUsart` implements it under the mapping
`Port`: capacity is the ring plus two registers outwards, plus one inwards.

**HardwareSerialUart** – the same port with 255 cells, 8 bit counters, a limit
of 512 that is never reached, the interrupt unmasked before the append, and
begin that enables the interrupt before it sets up the ring (pointers are `Null`
until then). Two history variables, `spoiled` and `missed`, mark exactly the
steps where these choices hurt; the properties say that nothing else does.

**Scheduler** – one instance, `Units` selecting millis or micros. `event` is
`eventArray`, `num` is `numEvents`; `num++` and `num--` are a load and a store.
`reset` clears one `isActive` after another (`ResetSlot`) and then the count of the
level (`ResetCount`), and an interrupt may come between any two of them. `asking`
and `handling` are the local variables of `schedule` or `reset` and of
`handleEvents` in each context; a callback is the program point `callback`, from which
`schedule` and `reset` may be called and return to. `Callers` says which
contexts schedule at which level: the code does not restrict it, and what it
guarantees depends on it. `log` remembers each call for the properties.
**MCScheduler** defines the two divisions used.

**UsbSerialRx** – `read` and `getc` in steps, the transfer-complete interrupt
(`Received`) as one step, `Notify` for the chain
`UDI_CDC_RX_NOTIFY` → `rx_callback` → `getc` → `rx_buffer_enqueue`, which always
runs with `ongoing` set, so that the nested `rx_start` returns at once. Sections
under `cpu_irq_save` are one step. `armed` is the endpoint: it is set by
`udd_ep_run` one step after `ongoing`.

**UsbSerialTx** – `write` with `putc` for each of its bytes: the look for room
(`CheckRoom`, `CheckOther`, `CheckFull` are `udi_cdc_multi_get_free_tx_buffer`),
the retry while the host has the interface open, and the store, which happens
one step after the look. `TxSend` is `udi_cdc_tx_send` as its three callers use
it: `Sof` (start of frame), `DataSent` (end of a transfer) and `Enable` (the host
opens the interface). `Disable` is a bus reset: the driver frees the endpoint
before it, so that the buffers stay as they are until the next `Enable`. `sof`
is 0 for "may send in this frame" as in the code, where 0 is a frame number too.
`waited` counts the starts of frame since one found bytes in a buffer, the
endpoint idle, and sent nothing. `tx_send` sends nothing while the selected
buffer is empty, and so passes over a full buffer from the moment `putc` has
selected the other one until it has stored there (`Choosing`, `udi_cdc.c:730`):
`SentPromptly` allows for it and the count starts anew with the store.
The tx ring of `usb_serial.cpp` is left out because `write` appends to it only
when it is not empty.

**ExternalInterrupts** – the registers of the two pin controllers as sets of
lines, the levels of the pins, the table of functions, and `attachInterrupt` one
register access at a time (`CallAttach`, `AttachRead`, `AttachEnable`,
`ConfigureAim`, `ConfigureEdge`, `ConfigureSelect`).
A handler reads the status (`HandlerRead`) and calls the functions in the order
of the lines (`CallFunction`, `HandlerSkip`); a function may detach its own pin.
`PinTable` is the board's, so that what the mixing of numbers and indexes does
to particular pins is in the model: `Line(p)`, the line that is enabled, differs
from `PINS(p)`, the index the function is stored at, for every pin of port B and
for pins 32 to 34. `interrupt_attributes` is the chain of tests of the mode, in
which CHANGE, the same number as HIGH, never reaches its own branch. A line that
detects a level detects it again as soon as the register was read, for as long
as the level lasts (`Levels`, `Clears`). `promised`, `owed` and `seen` remember
what a function must and may be called for. Between two calls of a handler the
model lets the foreground run, which the processor does not do while a level
lasts: the safety properties cover more behaviours than there are, and
`EdgesServed` asks nothing of the foreground.

**TwiPeripheral** – the bus as the master sees it: a transfer under way, the
holding and the shift register, NACK, and slaves that answer, refuse, accept a
byte or send one at any time. **Wire** – the calls of `Wire.cpp`. In the polling
loops of `twi_master_write` and `twi_master_read` the reading of the status
(`PollSend`, `PollLast`, `PollRead`) and what the program does on it (`PutByte`,
`SendStop`, `ReadStop`, `TakeByte`) are steps of their own, and the bus moves as it
likes in between. A time-out is the number of turns without progress. `late`
marks a call that gave up with the bus still occupied, that asked for STOP
after the last byte had come, so that the slave sends one more, or that wrote a
byte when its slave had just refused the one before, which starts a transfer
that nobody ends: what is promised after that is promised only from the next
`begin` on. `written` and `meant` number the bytes of the sketch, `heard` those of
the slaves.

## 4. Runs

| run | what it asks | result |
|---|---|---|
| usart_tx | writes, flushes and further calls of `begin` against the interrupt, ring of 2, 5 bytes: `NothingLost` until the port is opened again, `WireInOrder` also after, `NoLostWakeup`, `AllSent`, `CallsReturn` | holds |
| usart_rx | reads and peeks, ring of 3, 8 arrivals: `RxCountMatches`, `ReadsInOrder`, `PeekThenRead`, refinement `ImplementsPort` | holds |
| usart_flush | a byte comes in during `flush`: `FlushDropsAll` | **violated** |
| uart_tx | more bytes than the ring, flush and begin: `NothingLostUnlessOverrun`, `SentUnlessMissed` | holds |
| uart_rx | more arrivals than the ring, flush and begin: `RxCountUnlessSpoiled`, `ReadsInOrderUnlessSpoiled` | holds |
| sched_own | each level scheduled from its own context, callbacks too: `CountExact`, `Kept`, `NeverTooOften`, `Punctual` | holds |
| sched_main | both levels from main, with disable and reset: `CountCovers`, `NeverEarly`, `AllRun` | holds |
| usb_rx | reading at will against the USB interrupt: `NothingLost`, `ReadsInOrderUnlessOvertaken`, `GetcNeverWaits`, `AllRead` | holds |
| usb_stuck | reading only when `available()` says so: `AllRead` | **violated** |
| usb_tx | writing while the host opens the interface, goes away and comes back, frame numbers wrapping: `NothingLost`, `SentPromptly`, `AllSent`, `CallsReturn` | holds |
| wire | two slaves that refuse, delay and answer after the time-out: `OwnBytes`, `ReadsInOrder`, `OnlyToItsSlave`, `AcceptedButLast`, `StuckOnlyAtStop`, `CallsReturn` | holds |
| extint | attaching and detaching pins 2, 6, 24 and 34 with CHANGE (that is, at a high level) and FALLING, while pins rise and fall and functions detach themselves: `EdgesKept`, `CalledForCause`, `PromiseKept`, `EdgesServed` | holds |

Every property of a passing run also has a mutant in `PROJECT.json`: a
`Faulty...` operator beside the definition it replaces, with which the same run
fails. `TypeOK` is proved for every module that has one; the runs check it where a
mistake in an index would show nowhere else.

### Findings

1. `HardwareSerialUsart.cpp:259-267`. `flush` resets the receive pointers, then
   the counter, with the interrupt on. A byte appended in between moves the tail
   but is counted away: from then on every read returns the byte before the one
   it should, starting with a flushed one.
2. `usb_serial.cpp:277`. When a transfer does not fit into the ring the rest
   stays in the CDC buffer. `available()` counts the ring only, and nothing
   moves the rest later: a sketch that polls `available()` hangs with data from
   the host pending and the endpoint not armed. (A sketch that calls `read`
   without asking gets all of it: `usb_rx`.)

Also seen, as exceptions the properties of the passing runs name, or in the same
models with other constants:

- `HardwareSerialUart.cpp:281`. `write` unmasks before it appends. If the
  interrupt comes first it sees an empty ring and masks itself; the byte waits
  until the next write, and `flush` and `end` wait for ever. `SentUnlessMissed`
  needs its exception `missed` for exactly this.
- `SchedulerModule.cpp:89`. The increment of the count in main loses a decrement
  of the interrupt, and `schedule` refuses for good although slots are free.
  `CountExact`, which holds in `sched_own`, fails with `Callers <- MainOnly`; the
  count errs only upwards (`CountCovers`), so that no event is skipped.
- `SchedulerModule.cpp:23-30`. `reset` clears the flags of a level and then its
  count with the interrupts enabled. An event that an interrupt schedules behind
  the loop is active and not counted (`CountCovers` fails with reset in `Calls` and
  `OwnLevel`): when it is the only one `handleEvents` passes over it, and later
  a call of `schedule` may find no slot and write through NULL.
- `SchedulerModule.cpp:82` stores a 64 bit clock in 32 bits: with `MaxTime`
  beyond `TimeMod` the model runs events early (`NeverEarly`). A callback that
  calls `reset` during its last run drives the count to -1.
- `interrupts.cpp:154`. `get_pio_ptr` is given the number of the pin and not its
  index. No pin of port B is ever called through its own `attachInterrupt`; 2
  and 34 enable each other's lines and, once both are attached, work with each
  other's modes.
- `interrupts.cpp:165`. `detachInterrupt` clears the entry of the number: the
  detached function goes on being called, and 2 silences pin 6, 18 pin 19.
- `interrupts.cpp:142`. HIGH is 1 (`ASF/sam/utils/compiler.h:441`) and so is CHANGE
  (`core/Arduino.h:62`). HIGH is tested first: CHANGE detects a high level, no
  edge, and `PIO_IT_EDGE` at `:148` is never chosen. While the pin is high its
  function is called again and again.
- `pio.c:592`. Attaching a pin reads PIO_ISR and so loses edges of all other
  pins of the port that wait at that moment (while interrupts are masked).
- `twi.c:378`. A slave that refuses the last byte goes unnoticed; `:389` waits
  for TXCOMP without a time-out. After a time-out, bytes of one call may reach
  the slave of the next one.
- `twi.c:365`. A slave that refuses after the status was read (`:353`) and before
  the next byte is written has ended the transfer, and that byte starts another
  one. The call returns with TWI_RECEIVE_NACK and leaves it on the bus, where the
  bytes of the next call join it and go to the old slave. Without `late` for that
  case `OnlyToItsSlave` fails.
- `usb_serial.cpp:118`. `write` counts bytes as written that `putc` gave up
  because no host has the interface open.

### Bounds

- Ring sizes 2 and 3: the smallest at which full, empty, wrapped and
  half-filled differ; 3 where a byte must be dropped while others wait. The
  theorems hold for every size.
- `MaxWrites` and `MaxArrivals` exceed ring plus registers, so that the ring
  fills, wraps and refuses. `MaxSent` = 9 lets the USB ring (3 cells) fill while
  both CDC buffers (2 bytes each) hold data, with two more to come.
- `CountMod` 8 for the 16 bit counters, which never wrap (`UsartAssumption`);
  `Slots` + 1 = 4 for the UART, as 256 is to 255.
- Scheduler: 2 slots, so that `reset` has a slot before and one behind it, 2 or 3
  calls of `schedule`; the clock stops at `MaxTime`
  unless an event still waits for it. `TimeMod` = 64 is not reached.
- `usb_tx`: buffers of 2 bytes and 6 bytes to write, so that both fill and a
  third packet follows; 3 frame numbers, so that they wrap while bytes wait;
  the interface is opened twice.
- `wire`: packets and requests of up to 2 bytes into rings of 2, so that they
  wrap and the rx ring overruns (the limit 8 is never reached by counters below
  4, as 512 by those below 256); time-outs of 1 and 3 turns, so that they run
  out before, between and after the bytes.
- `extint`: 4 pins, two of each port, and 2 calls besides those of functions that
  detach, which count as well: one attaches, the other disturbs. Pin 24 configures
  the line of pin 6 and detaching 2 clears its entry; 2 and 34 configure each
  other's. Edges are not bounded. For other pins, the modes LOW and RISING and
  more calls there are the theorems.
- The bounds on calls (`MaxWrites`, `MaxEvents`, `MaxSent`) are guards of the
  calls only. `uart_tx`, `usb_tx` and `usb_stuck` may really stop, so that deadlock
  is not checked there.

### Fairness

The processor executes the foreground (`WF` of its steps), takes an interrupt
that stays pending (`WF` of `Handler`), and the line clock moves bytes out of
the registers (`WF` of `LoadShift` and `ShiftOut`). Nobody is obliged to start a
call, or to send. In the scheduler the interrupt is enabled again and again
between steps of main, so that main needs `SF`: interrupts end, and main gets
the processor between two of them; `CallHandle` is `SF` because `main.cpp:54-60`
reaches it after every `loop()` whatever the sketch does there. In `usb_rx` the
sketch keeps reading (`WF` of `CallRead`): that is an assumption on the sketch.
In `usb_tx` frames follow one another and a host that has the interface open
reads it; whether it stays is its own choice. In `wire` only the program is
fair, and `StuckOnlyAtStop` holds whatever the slaves do; `CallsReturn` states
its premise, a bus that moves. In `extint` a handler that is due is taken and
runs; the controller of port A, with the lower interrupt number, goes first.

## 5. Proofs

`ByteRing_proofs` holds the lemmas the ports and Wire rest on: what the ring
operators keep, arithmetic on ring indexes, facts about concatenated sequences
and their elements, that bytes stay in order while the peripheral moves them
(`OutLoaded`, `OutShifted`, `OutTakes`), that a wire, registers and ring which
hold the right byte at each place are one sequence that counts (`OutCounted`),
and that `AppendedAll`, the loop of an append for every byte of a transfer, adds
the transfer to the ring when there is room (`AppendedAllGrown`). That loop is a
function defined by recursion; `UpTo` is the induction over its steps, taken from
the library's well-foundedness of the naturals.

`HardwareSerialUsart_proofs` holds for every `Slots`, `CountMod`, number of
bytes and, where not said otherwise, every set of calls. From `RingAssumption`,
`ArrivalsAssumption` and `UsartAssumption` (limit = cells < counter range):

- **TypeCorrect**: `Spec => []TypeOK`. No index leaves its array.
- **WakeupNeverLost**: `Spec => []NoLostWakeup`, inductive together with
  `TypeOK`: the handler masks itself only over an empty ring, and `write` counts
  one step before it unmasks.
- **TransmitCorrect**: `Spec => []NothingLost`. The
  property compares sequences and is not inductive: it says nothing of the byte
  that is stored and not yet counted, of the pointers, or of what `write` found
  out before the interrupt came. `TxInv` adds these, and states where each byte
  is *slot by slot* (`RingInOrder`: the i-th cell from the head holds byte
  `Out + 1 + i`), so that each step needs only arithmetic on ring indexes.
  `Known` keeps what the handler cannot undo: a ring with room still has room,
  an empty one stays empty, a free register stays free. At the end
  `TxInvNothingLost` puts the slots together to the sequence, by `CountedOut`.
  `NothingLost` speaks of a port that was not opened again, since `begin`
  discards bytes: the invariant holds until `reopened` is set, and nothing
  resets it (`ReopenedStays`).
- **SentInOrder**: `Spec => []WireInOrder`, with no condition: what remains after
  any number of calls of `begin`. Counting is of no use here, since discarded
  bytes leave gaps. `OrderInv` keeps instead that the ring holds the newest
  accepted bytes without a gap (`RingNewest`) and that what left it grows and is
  no newer than `Newest`, the byte before them (`Rising`); a `begin` that sets the
  counter to 0 only raises that bound. `Settled` keeps that between the reset of
  the counter and those of the pointers (`PointersMeet`) the interrupt finds an
  empty ring, so that it takes nothing from a cell the pointers do not agree on.

The second half of the module is about the receive side first, from the same
assumptions and `NoReset`: the sketch calls neither `flush` (which is `end`) nor
`begin` a second time, since these reset the rx ring statement by statement under
the interrupt, as `usart_flush` shows. **ReceiveCounted** (`RxCountMatches`),
**ReceiveInOrder** (`ReadsInOrder`) and **PeekIsNextRead** (`PeekThenRead`) follow
from one invariant, `RxInv`. `read` moves the head one statement before it
counts, so the invariant speaks of the bytes `Waiting` between the pointers, one
fewer than the counter says in that gap; slot by slot they grow, are newer than
what `read` returned or holds, and no newer than what the interrupt has fetched
(`RxOrder`), so that a byte it appends is the newest; and what `read` fetched and
`peek` showed is the first of them (`RxFront`).

Then it puts both sides together: **PortImplemented**,
`Spec => ImplementsPort` under `NoReset`. Initial state to initial state, and each
step to `Accept`, `Emit`, `Hear`, `Overrun`, `Drop`, `Take` or none (`WriteMaps`
... `PeripheralMaps`). The mapping counts the waiting bytes back from the tail,
which is what makes the two statements of `read` one step: moving the head is
invisible, counting is `Take`. For that the fetched byte must still be the oldest
that counts though the head has left it (`TakenCell`).

`HardwareSerialUart_proofs` holds for every width of array and counter
(`UartAssumption`: cells = counter range - 1, limit beyond it) and any calls, with
`flush` and further calls of `begin` anywhere. **UartType** (`TypeOK`): pointers are
`Null` until `begin` sets them one by one, with the interrupt on from the start,
so the invariant says where each is already set (`Placed`). **UartTransmit**
(`NothingLostUnlessOverrun`): `TxSafe` is the invariant of the USART port for
another order of statements (the byte counts last, `TxPointers` and `TxStored`
follow it into the ring) and holds until `spoiled` notes an append into a full
array or a `begin` over bytes under way; that the comparison with 512 never
refuses anything costs nothing before. **UartReceiveCounted**
(`RxCountUnlessSpoiled`) and **UartReceiveInOrder** (`ReadsInOrderUnlessSpoiled`)
come from `RxSafe`: the order of the waiting bytes as in the USART proof, and
through the statements of `flush` and `begin` between which the ring means
nothing (`RxOpen`) only which field is reset already (`RxReset`) and that what was
read is no newer than what is to come (`RxPast`), so that both sides agree again
at the end. A byte that comes in between is harmless before the field it moves is
reset; the other places are the ones `Resetting` names.

`UsbSerialTx_proofs` holds for every `BufSize`, `NumFrames`, `ZlpLimit` and any
number of bytes, from `UsbTxAssumption`: **UsbTxType** (`TypeOK`: no buffer
overflows), **UsbTxCorrect** (`NothingLost` and `RoomStays`) and **UsbTxPrompt**
(`SentPromptly`). `NothingLost` puts wire, older and newer buffer in a row, which
is preserved by an interrupt that swaps them only because the buffer that is not
selected is empty unless a transfer or a choice of `putc` left bytes in it
(`OtherEmpty`); `putc` stores into room it saw only because the interrupt can
give it an emptier buffer, never a fuller one (`RoomStays`); bytes of
either buffer are passed over only in the frame that a short packet went in, or
while the selected buffer is empty in front of the full one (`PassedOver`), which
it is only from the choice of `putc` to its store (`Chosen`).

`ExternalInterrupts_proofs` holds for any pins of the board, any modes and any
number of calls, from `PinAssumption` and `TableAssumption` (no two pins have one
index, which TLC evaluates): **PinsType**, **PinsConfigured** (`PromiseKept`),
**PinsServed** (`EdgesKept`) and **PinsCalledForCause** (`CalledForCause`). The
invariant adds that a function stands at the index of its pin (`Placed`), what
`attachInterrupt` has written so far and that no pin relies on the line it is
changing (`Attaching`), that a level that lasts is in the status register
(`LevelsLatched`), also right after it was read, and that every pin in the
register had an edge, or a level, since the last read (`WaitingSeen`), from which
the action property follows at the step that reads it.

`UsbSerialRx_proofs` holds for rings and transfers of every size, from
`RingAssumption` and `UsbSerialAssumption`. **TypeCorrect** (`TypeOK`: positions and indexes
stay in their arrays), **NothingIsLost** (`NothingLost`), **OrderUnlessOvertaken**
(`ReadsInOrderUnlessOvertaken`) and **GetcFindsItsByte** (`GetcNeverWaits`) follow
from one invariant, `IInv`. Its core puts all bytes in one row, `InLine`: what
`read` returned, what it has in its hand, the ring, the rest of the buffer that is
read and the buffer that waits. The row has as many places as the host sent
bytes and each of these occurs in it (`Conserved`), whatever the order, so none
occurs twice; and until a transfer overtakes, the row counts (`InOrder`). That an
interrupt may move bytes within the row between any two statements rests on
three facts about the steps of `getc`: the buffers are swapped only when the one
that is read is used up (`Transfer`), the byte `getc` has looked at is still there
(`Getting`), and `read` takes a byte past the ring only while the ring is empty
(`RingFirst`).

`Wire_proofs` holds for any slaves, rings of every size, time-outs of any length
and any sequence of calls, from `RingAssumption` and `WireAssumption`: **TypeCorrect** (`TypeOK`), **RequestsOwnBytes** (`OwnBytes`),
**RequestsReadInOrder** (`ReadsInOrder`), **DeliveredToItsSlave** (`OnlyToItsSlave`)
and **AllButLastAccepted** (`AcceptedButLast`). The bus moves between any two
accesses of the program to the peripheral, so the invariant accounts for a call by where each byte of its
packet is: accepted, in the shift register, in the holding register or still to
be written (`Sending`, `OutAsMeant`), with at most one byte behind after the loop
(`Stopping`); a call that reads has what its slave sent, but for the byte in the
register (`Receiving`). Each call starts over only because the one before left bus
and registers empty or set `late` (`Quiet`), and the driver's loops never write
beyond the packet (`Counter`). `Gathered` and `RxInOrder` are about the rings: the
first keeps that what `beginTransmission` finds was written for the slave it
names unless `abandoned` says otherwise, the second that the ring is the stored
bytes not yet taken until it overruns.

`Scheduler_proofs` holds for any number of slots, events and calls, on both
clocks, from `SchedulerAssumption` and a condition on the sketch the theorem
states. None is needed for **TypeCorrect** (`TypeOK`), with callbacks that reset
and both contexts scheduling at every level: `TInv` adds the types of the whole
records, which the next due time and the next count are computed from.
`OneCaller`: one context schedules at each level, LOW events not from
interrupts, no callback resets, and main resets only where interrupts schedule
nothing (the finding at `:23-30` is what happens otherwise). It gives **CountNeverHides** (`CountCovers`)
and **SlotAlwaysFound** (`NoFault`). The two updates of `numEvents` race when main
schedules HIGH events, and the count is then too high for good; that it is never
too low rests on the order of the source: `schedule` counts before it activates,
`handleEvents` deactivates before it counts. The invariant (`IInv`) adds to the
active events the one that is being added or taken away (`Counted`), and keeps
that the count `schedule` loaded covers the active events (`Asking`) and that the
event whose callback runs stays active (`Handling`). `reset` needs more: `Clearing`,
inductive together with `IInv`, keeps that what it has cleared stays clear, so that
it zeroes the count of an empty level. `OwnCaller`: each level is scheduled only
from the context that handles it, and nothing resets. Then **CountNeverWrong**
(`CountExact`): `EInv`, on top of `IInv`, makes the sum an equality, for which the
slot `schedule` fills must still be inactive and the count it loaded current
(`Vacant`). The runs `sched_main` and `sched_own` are instances of the two
conditions.

The next part of the module is about the events themselves, under `OneCaller` too:
**EventsKept** (`Kept`) and **RunsBounded** (`NeverTooOften`). Neither says what
the slots hold, so `KInv` adds, on top of `IInv`: an active slot belongs to a call
and its remaining runs and those made are what the call asked for, one more while
the callback runs, which is counted afterwards (`Entered`); no call has two slots
(`Single`); the slot `schedule` fills is inactive and its number in no other until
it is activated, and from then on the call is `Served`, by a slot or by its last
run, since an interrupt may run the event before `schedule` returns (`Calling`).
That two contexts fill different slots is `NotBoth`, which is where `OneCaller` is
needed.

The last part is about when events run, under `OneCaller` and `[]InRange`: the clock
plus the longest interval stays below `TimeMod`. `elapsedAt` is a `uint32_t` compared
with an absolute time, so beyond it (49.7 days for `SchedulerMillis`, 71 minutes for
`SchedulerMicros`) a due time wraps and the event runs at once: the condition is
where the code stops working, and the clocks of both runs stay within it.

- **NeverTooEarly** (`Spec /\ []InRange => NeverEarly`): `DInv` keeps that an active
  event is due no earlier than an interval after its last run was, or after
  `schedule` read the clock; once a run has begun, the date it was due is still in
  the slot and the clock `handleEvents` read is past it (`Dated`). `Dating` keeps the
  date through the statements of `schedule` that come before the activation, and
  `Clear` that the interrupt gives no new date to the slot main is filling.
- **DueEventsRun** (`Spec /\ []InRange => Punctual`): `PInv` adds that each HIGH slot
  the interrupt has passed holds no due event but one it has just run (`Prompt`,
  `Swept`). A callback may fill such a slot again; the event is then due later
  than the clock, which does not move before the interrupt returns (`Pending`).

Only model-checked: everything temporal under fairness (`AllSent`,
`CallsReturn`, `SentUnlessMissed`, `AllRun`, `AllRead`, `StuckOnlyAtStop`,
`EdgesServed`), since liveness and ENABLED are beyond the prover. `FlushDropsAll`
does not hold. No module uses a RECURSIVE operator.

## 6. Not modelled, and why

- `available`, `availableForWrite`, and `peek` of the UART and USB ports: one
  read of one field.
- `handleAllEvents`: no caller. The parameter check of `schedule`.
- A second caller of a port (a write from a HIGH event while main writes): in
  the plan.
- The delays, which only wait for a clock: in the plan.
- Functions that call `attachInterrupt`, and pin numbers from 35 on, for which
  the code reads beyond its table.
- `usb_dtr_changed`: it restarts the processor, and nothing outlives that.
- Wire: `end`, `setClock`, internal addresses, packets longer than the local
  buffer of `endTransmission` (a sketch that writes more is wrong), and the
  slave callbacks, which nothing installs.
- SPI, RTC, pins: register accesses without state. Flash: sequential arithmetic,
  a candidate for a checked algorithm. SD card: one flag over FatFs.
- Stream, Print, String and math: Arduino library code, sequential.
- The framework's drivers beyond what the ports call, the USB device stack,
  storage, clocks, start-up, CMSIS and FatFs: vendored.
- Control requests of the CDC class and the host closing the interface during a
  transfer; 9 bit characters of `getc`.
