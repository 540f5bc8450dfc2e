# Verification of Tail

Tail (unipartdigital/tail) locates battery-powered *tags* by ultra-wideband radio.
A tag blinks, listens for *anchors*, answers, and sleeps; anchors pass frames and
their timestamps to a *server*, which computes positions. This directory holds TLA+
modules that model the parts of the program whose control is hard to get right,
TLC configurations that check them on small instances, and theorems checked by TLAPS.

All paths below are relative to `src/`. "main.c:218" without a path is
`src/firmware/src/main.c`.

## 1. Inventory

### 1.1 Tag firmware (`firmware/src`, C, about 6000 lines without register headers)

One main loop (main.c:218-233) polls the time events, the command line, the
protocol, the accelerometer and the entropy source, and sleeps (EM2) when everybody
agrees. Interrupt handlers of equal priority run between any two of its
instructions: radio (`GPIO_ODD`), listening timer (`TIMER0`), RTC, serial port
(`LEUART0`), accelerometer (`GPIO_EVEN`). There are no threads and hardly a lock.

| Component | State | Operations | Interacts with | Hard | Correct when |
|---|---|---|---|---|---|
| Configuration store: config.c, flash.c | two flash pages; `config_area` | init, get, put, delete, compact, enumerate | cli.c, proto.c, crypto.c call it | power loss between any two words; an append-only log that fills up | it is a map that survives power loss; nothing but the key being written changes; no false success |
| Byte queue: buf.c | array, two indices | put, get | uart.c, one side in an interrupt | no lock | FIFO, nothing lost or overwritten |
| Serial port: uart.c | `tx_active`, two queues, LEUART | `uart_tx`, `uart_rx`, handler | cli.c, `write_string` everywhere | `tx_active` tested and set on both sides | bytes in order; no byte waits for ever; `write_string` returns |
| Time events: time.c | event times, one early wakeup, RTC compare | schedule, clear, poll, prepare sleep | proto.c, cli.c, main.c | wrapping 24-bit time; counter moves between computation and sleep | never early, never late, the radio woken before it is needed |
| Tag protocol: proto.c | `device`, `tag_data` | tag, stop, tag_start, supervisor, poll, radio and timer callbacks | radio.c callbacks, time.c events, timer.c, battery.c, accel.c | callbacks change what the main loop is testing; lost answers; stale wakeups | the radio is freed, the tag blinks for ever, stop stops |
| Radio driver: radio.c, radio_spi.c | DW1000 registers, callbacks | start/stop transmitter and receiver, sleep, wake, handler | proto.c | one status word, several callbacks; edge-triggered line | see the tag protocol |
| Listening timer: timer.c | `running`, TIMER0 | start, stop, overflow | proto.c | overflow races the last frame | see the tag protocol |
| Battery: battery.c, adc.c | last reading, its validity | read, flat | proto.c | a stale reading counts as flat | blinking resumes |
| Command line: cli.c | line buffer, periodic transmission | about 60 commands | all | commands in any order, at any time | see the tag protocol |
| Accelerometer: accel.c | flags set by the handler | poll, last activity | proto.c, main.c | flags tested, then cleared; movement just before a sleep | no movement missed |
| Entropy: entropy.c, drbg.c | one sample, health tests, generator | register (interrupt), poll | radio callback, crypto.c | the sample changes under the poll; window bookkeeping | tests and generator see the same samples |
| Cryptography: crypto.c, aes*.c | keys, cookie | cookie, key derivation | proto.c | - | arithmetic, out of scope |
| Event log: event.c | a word of flags | log, get, clear | all | - | diagnosis only |

### 1.2 Anchors and server

| Component | State | Operations | Hard | Correct when |
|---|---|---|---|---|
| Kernel driver: `kernel/ttytail/ttytail.c` | one line out, one line in, one packet each way | xmit, receive line, reset handshake, open/close | workqueue against line discipline; lost lines | each packet is completed once, with its own timestamp |
| Anchor daemon: `demo/anchord.py`, `calib/anchord.py` (identical) | tags to answer, clients, attributes | register, remove, blink, timestamps, remote calls | one thread; clients come and go; an exception leaves requests in a buffer | each registered tag gets one beacon; requests are answered in order |
| Location server: `demo/rtlsd.py` | timers, tags, anchors, clients | timer thread, ranging of tags and anchors | two threads without a common lock; timers keyed by their time | a ranging ends, and never mixes two rounds |
| Host library: `python/*.py` | remote calls by sequence number, blinks | call, return, timeout, blink, wait | two threads; late answers; lost reports | an answer goes to its own call, nothing is left behind, every wait ends |
| RTLS server: `rtls/*` | filters, sockets | numerical estimation | - | numerical, not modelled |
| Web display: `web/server.py` | set of queues | attach, detach, broadcast | cancellation | every attached client sees every later notice |
| Calibration, tester, measurement scripts | - | sequential scripts by hand | - | not modelled |
| Bootloader, emlib, CMSIS; circuit, case, jig, doc, releases | - | - | vendor code and assets | not modelled |

`PROJECT.json` lists every component with its status and every hazard with its line.

## 2. Modules

| Module | Models | Composition |
|---|---|---|
| `ConfigMap` | what config.h promises: a durable map | abstract |
| `ConfigStore` | config.c and flash.c | implements `ConfigMap` |
| `MCConfigStore` | keys, values and page sizes for TLC | extends `ConfigStore` |
| `ConfigStoreProofs` | theorems about `ConfigStore`, its refinement of `ConfigMap` among them | extends `ConfigStore` |
| `BoundedFifo` | what buf.h offers | abstract |
| `RingBuffer` | buf.c | implements `BoundedFifo` |
| `RingBufferProofs` | the theorems about `RingBuffer` | extends `RingBuffer` |
| `Uart` | uart.c and the LEUART | uses the queue as `RingBuffer` implements it |
| `UartProofs` | the theorems about `Uart` | extends `Uart` |
| `TimeEvents` | time.c and the sleep of main.c | - |
| `TimeEventsProofs` | the theorems about `TimeEvents` | extends `TimeEvents` |
| `Tag` | proto.c, the interrupt side of radio.c, timer.c | takes time as `TimeEvents` shows it to be |
| `TagProofs` | three theorems about `Tag` | extends `Tag` |
| `Entropy` | entropy.c, the sample counter of drbg.c | operators used by `MainLoop` |
| `MainLoop` | main.c:218-233, the flags of accel.c, what keeps the processor awake or wakes it | extends `Entropy`; stands for `Tag`, `TimeEvents` and `Uart` by what the loop sees of them |
| `MainLoopProofs` | five theorems about both | extends `MainLoop` |
| `PacketLink` | what a driver owes the network stack | abstract |
| `TtyTail` | ttytail.c, and cli.c as an anchor uses it | implements `PacketLink` |
| `TtyTailProofs` | four theorems about `TtyTail` | extends `TtyTail` |
| `RtlsTimer` | Timer and Timeout of rtlsd.py | actions used by the next two |
| `TagRanging` | Tag and Server of rtlsd.py with anchord.py and a tag | extends `RtlsTimer` |
| `AnchorRanging` | Anchor of rtlsd.py with anchord.py | extends `RtlsTimer` |
| `Rtls` | the server as one tag or one anchor meets it, all others as takers of timeouts | extends both |
| `Anchord` | anchord.py as a program on the host sees it | actions used by the next |
| `HostLibrary` | RPC, DW1000 and Blinks of blinks.py, the loop of calibrate.py | extends `Anchord` |
| `HostLibraryProofs` | three theorems about both | extends `HostLibrary` |

Mutated forms of a definition (named after it, with what is wrong as a suffix) stand
before it in its module. No specification uses them; each is a plausible mistake that
breaks one of the properties, and shows that the property says something.

Each module states its type invariant `TypeOK`; the runs spend their properties on the
others, and the proofs carry the types they need in their inductive invariants.

### 2.1 ConfigStore

A page is a magic word and a function from word offsets to words; a word is the set
of its bits that read 1, so that programming, which only clears bits, is
intersection, and a leftover value programmed over reads as neither value. The scans
(`ScanEnd`, `Headers`) are those of the code, with their two different limits
(config.c:58 and 156, 169, 178). `queue` holds the words the `flash_write` in
progress has still to program; every action does one flash command at most, and
`PowerLoss` may come after any. `phase` says where in config.c the firmware is:
`place` is config_put before its space check, `replace` the same after config_compact,
`after` is where config_compact returns to. The `return false` at config.c:249 is no
action: it is never reached (`ConfigStoreReplaceHasRoom`), and config_full_page would report
a deadlock in phase `replace` if it were. `before`, `result` and `torn` are history. `torn` is set when power fails over a value half programmed; from there
on the store may misbehave (finding 2), and the properties say until when they hold.

*Left out:* a power loss in the middle of one word or one erasure; the header's spare
byte; values longer than the caller's buffer; the enumeration, which changes nothing.

### 2.2 RingBuffer

`put` and `get` are the two callers: where each is in its function and its locals.
Reading both indices is one step (each function is the only one to write its own),
writing the slot another, publishing the index a third. That the stores stay in this
order is what the comment in buf.c:13-19 asks of the compiler.

### 2.3 Uart

Each access `uart_tx` makes to shared state is a step; the handler interrupts between
any two. How soon a handler is entered after the line has risen depends on clock
domains, so it is at any time while the line is up. A byte is the number of its
`uart_tx` call. `stranded` records that a byte was queued after the transmitter had
gone idle: the handler may clear `tx_active` between uart.c:166 and 167.
Fairness: the processor and the LEUART keep going, the main loop executes again and
again (received bytes are far apart), `uart_tx` is strongly fair because it is
interrupted; no fairness for callers and for reception.

### 2.4 TimeEvents

The counter wraps at `Modulus`. A tick may fall between any two steps of the main
loop, at most `MaxLag` between two polls. Callbacks and the rest of the main loop
schedule and clear events at any time in the poll or after it. `due` is history: the
true distance of an event, against which the wrapping arithmetic is judged. The
module assumes that callers arm less than half the range ahead and that the loop turns
faster than TIME_SLEEP_TRHESHOLD (100 ms); the code relies on both.
`stale` remembers that an early wakeup left behind has become exactly half the
counter's range (18 hours) old; what the early wakeup does is stated until then.

### 2.5 Tag

`dev` is what the handlers share with the main loop, one record, so that each
callback is an operator from a value of `dev` to the set of values it may leave. The
radio's handler reads the status once (`snapshot`) and then calls back bit by bit; the
line rises only with the first status bit (`Raise`). Each point of the main loop at
which an interrupt makes a difference is a value of `pc`. Times are ticks from now.
`Periods` stands for active and idle period with jitter; a received frame is a
ranging request for this tag or not; a delayed start of transmitter or receiver is in
time or late. `Console` says whether someone types commands (`tag`, `stop`, and those
that wake the radio for one operation). Remote configuration (proto.c:1168, 1192) is
unreachable: encrypted frames are refused at proto.c:1358-1360, so
`ranging_aborted` and `reset_requested` stay false.
Fairness: the main loop, its clock and the handlers go on; the main loop is not
interrupted for ever; the listening timer is strongly fair (every receive error
restarts it: again and again there is a listening without one).

### 2.6 Entropy and MainLoop

`MainLoop` has one step per call of the loop, more where a function reads and then
writes what a handler writes (`ReadFired` and `ClearFired`, the four parts of
entropy_poll, STANDBY and SNIFF). The SPI transactions of accel.c are atomic: they run
with its interrupt masked (accel_intoff). Handlers run between any two steps; in EM2
only the RTC, the radio, the accelerometer and the serial port wake the processor, and
TIMER0 stands still. A sample is one of two values; `RepetitionValues` stands for the
256 values of entropy_repetitions. The samples vary only on a tag without
accelerometer (`BoundedSample`), which keeps two independent parts apart.
What the module shows besides its properties: a sample that arrives between the two
tests is seen by one of them only, and one that arrives before `entropy_available` is
cleared is lost; the adaptive test compares with `==`, so after a failure it is blind
for the window that follows; TIMER0 started by the radio's
handler between timer_prepare_sleep and EMU_EnterEM2 stops with the processor
until the supervisor's event; without an event ahead the compare register keeps its old
value, so even a stopped tag wakes once per turn of the counter.
There is no fairness: the properties are safety, and `SleepHasAlarm` says of a sleep
with work left that the alarm that ends it is ahead.

### 2.7 TtyTail

Both ends of the cable between the host and an anchor. A command is written in two
pieces, so that partial writes, commands cut short and commands run together exist;
an answer is a whole line. The open worker, the transmit worker (write, then count what
was written) and the receiver interleave; schedule_work on a running item queues it
once more. A timestamp names its frame, which the driver does not see. `clobbered`:
ttytail_tx_start only warns (ttytail.c:65) when the last line is not written; from then
on the device may get anything, and the behaviour is not followed further. The
greeting of a device that starts as the port is opened is in the initial states.
Faults: a line lost on its way up, input lost while the device prints (its queue holds
128 bytes), a restart. `PacketLink` is the promise to the network stack. It is instantiated
twice: `Reception` has the received frames alone and allows any number of faults; `Link`
has both directions, and is `doubtful` about the timestamps of transmissions from the second
fault on. One fault cannot give a transmission an earlier one's timestamp: the driver only
gets another transmission past one that was not completed by opening the port again, and
then the reset of the handshake stands between the two. With a second fault that reset may
be lost, and the old transmission's timestamp completes the new one.
Observations: after a lost transmission timestamp `tx_skb` stays
set, and neither taking the interface down and up nor anything else but reopening
clears it; a lost packet line gives that frame's timestamp to the transmission.
A tty may take a part of a line only (ttytail.c:52). The worker then ends, and the rest is
written when `ttytail_write_wakeup` queues it again (ttytail.c:521). `tty_wakeup` calls
that only while `TTY_DO_WRITE_WAKEUP` is set in the tty's flags, and nothing in ttytail.c
sets it. So the wakeup may happen in the model (a driver of a tty may call it by itself),
but nothing promises it: `XmitCompletes` excepts a line left `Unfinished`, and
`AlwaysCompletes`, the same without the exception, is violated (section 4).
Fairness: until the first fault, the host or the device goes on (not even each of them);
nothing for `ttytail_write_wakeup`, for callers and for the open worker.

### 2.8 RtlsTimer, TagRanging, AnchorRanging, Rtls

The timer thread runs callbacks with the lock held; the socket thread handles one
datagram at a time. Steps are what lies between two accesses to what they share:
`armed` is set before the lock is taken (`Claim`, `Post`), the flag `ranging` is raised
after the timers are armed and lowered after they are unarmed. Time is in units of
10 ms; each entry of the list has what remains of it, and may share its expiry with
another (`Collisions`). The server has one `Timer` (rtlsd.py:819), whose list all tags and
all anchors share. A behaviour follows one tag or one anchor; the others appear by what they can
do to it: take the threads' time, which `MaxLate` and `MaxDelay` cover, and take an entry of
the list. `OthersTook` is the moment at which such an entry should be due and is not there:
another's timeout with the same expiry has overwritten it, or was overwritten by it, was
unarmed and popped it. Nothing but `Timeout.unarm` reads the entry
before, and it pops either, so that it makes no difference when it was taken. `taken` is history.
`MaxLate` is how late the timer thread may run, `MaxDelay`
how long a report may take. Time passes between handlers only. Reports
carry the number of their blink or round for the properties alone.
These properties depend on times, and fail beyond them (found by varying the
constants): `OneBlink` needs blinks 80 ms apart, 70 ms are too few; `OwnTimerEnds`
and `OneRound` need wake-ups of an anchor 60 ms apart; with
`MaxLate = 2` `OwnTimerEnds` fails at 70 ms as well; `RangingWatched` needs `MaxDelay = 1`:
a ranging report that is later arms `ranging_timer` after finish_ranging has unarmed it,
and the next round has a timer that is not its own.
Once others have taken the entry of `timeout_timer`, a round lasts until a ranging report
comes and `ranging_timer` ends it, for ever if none does; blinks start no new round meanwhile,
and the reports of several blinks may meet in one position. `RangingWatched`, `RangingEnds`
and `OneBlink` except that (`"timeout" \in taken`), and `AlwaysEnds`, without the
exception, is violated (section 4). If it is `beacon_timer` or `ranging_timer` that is
taken, or if two timeouts of one tag collide, the properties hold.
The beacon is forced, drawn from the reference anchors, or the best of those that heard the
blink (`choice`).
Observations: select_beacon raises ValueError when no reference anchor heard the blink
(rtlsd.py:587), finish_ranging is not reached and the tag stays in its round, answering
no later blink with a new one, unless a ranging report comes; an entry of anchor's
wakeup_timer that is overwritten or popped means that anchor never wakes again; REMOVE is never
sent, so two anchors may hold the same tag.
Fairness: both threads run, time passes.

### 2.9 Anchord and HostLibrary

One program on the host, its two threads, and one daemon per anchor. `main` and `rx`
say where the threads are; a step is what lies between two points at which the other
thread can tell the difference. A dictionary is a function whose domain changes; a
KeyError of the receiving thread is caught by recvmsg (`AfterError`). The stream each way
is a sequence, datagrams and radio frames are sets. A daemon handles what it has read
message by message; the exception of an attribute that refuses its value leaves the
rest in the buffer until more data comes. A daemon may die at any time, and the host
does not connect again. `synced` is history. The program is that of
calibrate.py: connect, read and write attributes, blink, wait, use, purge. The anchors
outside `Tuned` are connected already.
Observations: a GETEUI given up leaves `eui` None, and every wait of the session runs
to its end; sendargs that raises leaves a call and its handler behind; the first blink after
connect may be dropped; a missing report that the program needs raises KeyError before
the blinks are purged, and they stay for good.
Fairness: the two threads and the daemons run; the program need not call anything.

## 3. Runs

| Run | Shows | Bounds, and why they are enough |
|---|---|---|
| config_power_loss | `ConfigMapSpec`, `RunningIsDurable`, `OneEntryPerKey`, `KeepsAFormattedPage` | 2 keys, values of 1 and 3 words, pages of 6: a page holds two or three entries, so compaction with live, dead and no entries, and replacement, all happen. Entries of even length never fill an even page exactly (finding 1 covers that). `TornBound`: a torn store is followed to its next operation |
| config_full_page | `FitsIsExact`, `StoredMeansStored` | the steady-supply specification, values of 0, 1 and 2 words: every fill level including exactly full |
| config_full_loss | violation of `CompactionKeepsStore` (finding 1) | pages of 7 words, three 2-word entries and the terminator: exactly full |
| ring_buffer | `FifoSpec`, `NoOverwrite` | 4 slots: wraps, full and empty; two items tell order apart. Proved for every size |
| uart | `OrderKept`, `AtMostOneStranded`, `WriteStringReturns` | 6 calls against a queue of 2, a shift register and a buffer: it fills and drains several times |
| time_events | `NeverLate`, `NeverEarly`, `PreparedFirst`, `PreparedInTime` | 2 events, a counter of 22 values, an advance longer than the sleep threshold: the counter wraps many times; two events suffice for every comparison, which is pairwise |
| tag | `ActiveIsWatched`, `RadioFreed`, `KeepsBlinking` | two periods, below and above the supervisor's, one anchor, readings valid for 2 blinks: every counter reaches its limit |
| tag_console | `StopStops`, `SleepKeepsBlinks` | with commands and two responses due per blink |
| main_loop | `ChipWatched`, `MotionNotLost`, `SleepHasAlarm`, `NoSampleTwice`, `StuckNeverReady` | limits of 2, a window of 3, 4 samples to be ready, a counter of repetitions that wraps at 4: a stuck source wraps it several times; any number of turns of the loop |
| ttytail | `LinkSpec`, `ReceptionSpec`, `NoneReplaced`, `RegisteredMeansListening`, `XmitCompletes` (unless a line is left unfinished) | 2 frames each way, the port opened (or the interface taken down) once more: any two lines in flight can meet; 2 faults: one to lose a transmission and one to lose the reset behind it |
| rtls | `RangingWatched`, `OneBlink`, `OwnTimerEnds`, `OneRound`, `RangingEnds` | 2 anchors and a tag that blinks twice, or an anchor and its peers for 2 rounds: the properties compare a round with the one before; one collision of two timeouts, of its own or with others', one unit of lateness and of delay. With the tag's `timeout` taken by others, or after a ValueError of select_beacon, nothing is asked of the tag's rounds |
| host_library | `AnswerIsCurrent`, `NothingLeft`, `BlinksAccepted`, `MainReturns`, `ReceiverLives` | 2 anchors, 3 calls, a blink, one loss, one death: late answers of one call meet the next and the one after |

Deadlock is checked in every run but host_library, where the program may stop (an
exception ends it).

## 4. Findings

1. *A full page loses to an incomplete one* (config.c:130). `config_findfree` returns
   -1 for a page filled to its last header, and `config_init` compares that as if it
   were little used: after a power loss during the compaction of such a page it keeps
   the new page and erases the complete one. The comment at config.c:116-121 says the
   contrary.

The following are reproduced by hand, with configurations kept here:
`tlc -config ConfigStoreTorn.cfg MCConfigStore`, `tlc -config TagSupervisor.cfg Tag`,
`tlc -config TagStopped.cfg Tag`, `tlc -config TtyTailUnfinished.cfg TtyTail`,
`tlc -config RtlsShared.cfg Rtls`; TLC reports each property violated.

- *A write over leftovers* (config.c:107, `StoredMeansStored`). With one valid page
  `config_init` does not check the free space. After a power loss between value and header
  the next `config_put` programs over the leftover words and returns true for a value
  that is not there.
- *An active radio without supervisor* (proto.c:885, `SupervisorArmed`). A stale status bit
  restarts the receiver after the ranging has ended, around `proto_poll`'s test of
  `radio_active`: the supervisor is gone while the radio is active. The listening timer or
  the next blink ends it, not SUPERVISORY_TIMEOUT (proto.c:55).
- *stop leaves the radio on* (proto.c:861, `RadioFreed`). tag, tag again, stop: an event
  armed again for later and then cleared leaves its first early wakeup behind (time.c:118-129,
  although the comment at time.c:206 says there is none without an event); it makes
  `proto_prepare` wake the radio and mark it active, and nothing ever shuts it down.
- *A partial write ends the anchor's transmissions* (ttytail.c:52-56, `AlwaysCompletes`). The
  worker stops after a write that takes a part of the line and waits for a wakeup for which
  nothing sets `TTY_DO_WRITE_WAKEUP`. `tx_skb` stays set, every later transmission is
  refused (ttytail.c:365), until the port is opened again. Lines are short and the tty's
  buffer is long, so that it takes a tty that is held up.
- *A round without a timeout* (rtlsd.py:153-158, 819, `AlwaysEnds`). Two timeouts with the same expiry, of
  any two tags or anchors, share one entry of `Timer.list`. If it is the `timeout_timer` of
  a tag that loses it, the tag stays `ranging`, and if no ranging report comes that is for ever.

Also worth knowing: a byte stranded by the race at uart.c:166
stays in the queue while `uart_prepare_sleep` lets the processor sleep (at most one,
as `AtMostOneStranded` shows); PERIOD_BATTERY_FLAT is 600000 "in nominal ms"
(proto.c:50-53) but used as ticks at proto.c:626, 78 minutes instead of 10; with
periods so short that the radio never sleeps, no battery reading is taken, the last
one expires and the tag pauses for PERIOD_BATTERY_FLAT.

## 5. Theorems

`RingBufferProofs`, for every size and every set of items:

- `RingBufferTypeOK`: `Spec => []TypeOK`.
- `RingBufferNoOverwrite`: `Spec => []NoOverwrite`. The inductive invariant adds what
  each function knows between its steps: buf_put's local is still the write index and
  the queue is not full, buf_get's is still the read index and the queue not empty, and
  the item it has loaded is the oldest one. `NoOverwrite` alone is not inductive, it says nothing
  of how the state before the store was reached.
- `RingBufferIsFifo`: `Spec => FifoSpec`. From the same invariant: publishing the write
  index is `Put`, publishing the read index is `Get`, the refusals map to `PutFull` and
  `GetEmpty`, everything else stutters. Lemmas give the effect of moving each index on
  the number of items and on their slots, without the remainder operator's help in the
  main proof.

`UartProofs`, for queues of any size and any number of calls:

- `InOrder`: `Spec => []OrderKept`, and `FewStranded`: `Spec => []AtMostOneStranded`. That
  the bytes sent are in order says nothing of those on their way. `UartInv` lines
  up the whole pipeline, the shift register, the transmit buffer, the handler's byte and the
  queue: it is in order and older than the byte in hand (`OlderInv`), until a byte is stranded.
  `PathInv` is what makes it one pipeline: when the transmitter is idle, or `uart_tx` has
  found it idle and writes to the LEUART itself, the queue is empty, so that the two ways to the
  transmit buffer are never open at once. `StrandInv` bounds what the race at uart.c:166
  leaves behind: a byte `uart_tx` is about to queue behind a handler that has just gone
  idle will be alone.

`TimeEventsProofs`, for any number of events, any even range of the counter and every
advance and delay that fit into half of it:

- `Punctual`: `Spec => []NeverLate`, `OnTime`: `Spec => NeverEarly`, `Prepared`:
  `Spec => []PreparedInTime` and `PreparedBefore`: `Spec => PreparedFirst`. `TimeInv` ties
  the wrapping times to true distances: an armed event's time is what the counter shows in
  `due` ticks and `due` stays in a window less than half the range wide (`DueInv`); the
  early wakeup is no later than any event that waits for it needs and not old enough to seem
  ahead (`EarlyInv`, unless `stale`); a processor going to sleep has its compare
  match ahead, not later than either and not so near that it passes before the sleep
  (`SleepInv`, where MaxLag < TIME_SLEEP_THRESHOLD is needed). None of the four properties is
  inductive: they are about distances, the code is about residues. The
  lemmas on residues (`Residue`, `AtProps`, `AtGe`, `AtUnique`, `Located`) carry the code's comparison
  by a wrapping difference over to distances, so that no other step uses `%`. The proof found
  that `PreparedInTime` holds with one turn of the main loop to spare, not the two stated before.

`ConfigStoreProofs`, for every page size, every width of the key and length fields and every
set of keys and values:

- `ConfigStoreKeepsAFormattedPage`: `Spec => KeepsAFormattedPage`. The inductive
  invariant `PageInv` says which pages must have their magic word in which phase: the
  page in use unless the firmware is starting up, and the other one as well while
  entries are copied. `FlashWriteKeepsMagic` shows that programming a word never touches
  a magic word, wherever the queued write points.
- `ConfigStoreOneEntryPerKey`: `Spec => []OneEntryPerKey`, `ConfigStoreRunningIsDurable`:
  `Spec => []RunningIsDurable`, `ConfigStoreFitsIsExact`: `Spec => []FitsIsExact` and
  `ConfigStoreStoredMeansStored`: `PoweredSpec => StoredMeansStored`, from one invariant. A
  formatted page is a log (`IsLog`): entries one behind the other up to an unprogrammed word, one
  for a key (`Tidy`), erased flash behind it (`Logs`). `StoreInv` adds what of each write has been
  programmed: the one word of a deletion (`Deleting`), the first n words of an entry whose
  header comes last (`Writing`), the first c words of the entry that is being copied, and that
  the entries before it have been and no others (`Copying`); and that a copy has room left
  because a deleted entry was left out (`Copied`). None of the four is inductive:
  a power loss between any two words must find pages that the next start-up reads as logs.
  A store that is `torn` keeps only `PageInv`. Without a power loss none is, hence
  `PoweredSpec`; `StoredStep` shows that a write of a store that is not torn is stored under `Spec` too.
- `ConfigStoreReplaceHasRoom`: `Spec => [](phase = "replace" /\ ~torn => Room)`, config.c:249 is
  unreachable. What `Fits` found at the beginning stays true of `before` (`RoomInv`), and
  the compacted page holds `before` without the key and nothing deleted.
- `ConfigStoreImplementsMap`: `Spec /\ []RoomWhileCopying => ConfigMapSpec`, the refinement, and
  `ConfigStoreCompactionKeepsStore`: `Spec /\ []RoomWhileCopying => CompactionKeepsStore`. `MapInv` says
  which map the page in use holds: the old one until the deletion is programmed, then the
  old one without the key, then, from the header on, the new one. `DurableIs` shows that `config_init`
  would choose that page. It fails in one case, finding 1: `RoomWhileCopying` says that no
  page is copied that is full to its last word. The hypothesis is a condition
  on the state because it depends on how the sizes of entries add up; it holds in the instance of
  config_power_loss, where entries and page are even, and fails in that of config_full_loss. That
  the comment at config.c:116-121 holds under it shows that finding 1 is its only exception.

The scans of config.c go on by the length they have just read, and totals are sums over
sets: both are recursive functions. The library's induction theorems, which take a predicate, cannot be used,
but its theorems on well-founded relations are about sets: `LeastNat`, `NatInd` and
`SubsetInd` are induction for a set. From it follow that the recursive functions exist
(`Walk`, `SumExists`), hence that the scans and `Total` satisfy their equations (`ScanRec`, `HeadersRec`, `TotalTake`),
and with those `LogScan`: what the scans find in a log.

`TagProofs`, for all periods, timeouts and counts of anchors and responses, with and
without a console:

- `TagSleepKeepsBlinks`: `Spec => SleepKeepsBlinks`. The property alone is not
  inductive: `BlinkInv` adds that a blink on its way keeps `radio_active` set, that the
  radio's handler is at rest for as long (it runs on an edge, and the first edge is the
  one that ends the blink), and that the main loop is not between its look at
  `radio_active` and the sleep. `Callbacks` shows that no handler begins a blink.
- `TagStopStops`: `Spec => []StopStops`. `StopInv` says what each step of the shutdown
  has made quiet; an interrupt between two steps finds no callback and leaves it so.

- `TagWatched`: `Spec => [](~Console => ActiveIsWatched)`, under `TagAssumption`. The
  property looks at one state; `WatchInv` follows what is under way: the bits that a pass
  of the handler has still to look at (`PassInv`: a transmission and a reception are reported
  together only when the transmission is an answer, so that it begins no listening with
  answers to come); that after `radio_active` is cleared, or where proto_poll has seen it so
  and takes the supervisor away, nothing that comes begins such a listening (`InactiveInv`,
  `LooseInv`: if the handlers make the radio active again it listens with nothing to answer
  and its timer ends it); and that a tag left to itself has its next start armed (`EventInv`).

`MainLoopProofs`, for every limit of the health tests, window, need of samples and width
of the repetition counter that `EntropyAssumption` admits:

- `MainLoopChipWatched`: `Spec => []ChipWatched`, inductive as it stands.
- `MainLoopMotionNotLost`: `Spec => []MotionNotLost`. `MotionInv` adds that a movement is
  remembered only while the tag is active; a stopped tag takes no notice of the flag.
- `MainLoopSleepHasAlarm`: `Spec => []SleepHasAlarm`. `AlarmInv` follows the alarm from
  `time_prepare_sleep`, which sets it or keeps the processor awake, to the sleep: it
  rings too late to be lost in between.
- `MainLoopNoSampleTwice`: `Spec => NoSampleTwice`. `SampleInv` says that a sample that is
  offered, or that is between the tests and the generator, has not been mixed in; the
  handler may replace it at any step.
- `MainLoopStuckNeverReady`: `Spec => []StuckNeverReady`. `StuckInv` relates the counter of
  repetitions and its wrapping to the samples mixed in since the last failed test:
  the limit is met again before enough of them pass.

`HostLibraryProofs`, for any number of anchors, values, calls, blinks, lost datagrams and
dead daemons, from `HostAssumption` (the anchors tuned are anchors):

- `HostLibraryAnswerIsCurrent` and `HostLibraryNothingLeft`: `Spec => []AnswerIsCurrent`,
  `Spec => []NothingLeft`. The inductive invariant `StreamInv` follows one anchor's
  requests as one queue, what the daemon has read and what it has not: every request in it
  is older than the current call, or is it and the last of the queue (`QueueInv`); the
  attribute has the last good value asked for, or that value is in the queue with no other
  good one behind it (`ValueInv`, for daemons that live); an answer to the current call,
  on its way, in the receiving thread, in the call's entry or returned, has left the queue
  empty (`AnswerInv`), so that nothing can change the attribute any more. The property
  itself says nothing of requests given up that are still on their way, and is not
  inductive without this. `Popped` and `Pushed` are the lemmas about sequences.
- `HostLibraryBlinksAccepted`: `Spec => []BlinksAccepted`. `UdpInv`: an anchor that has not
  registered the host has the UDP message of a connected host in its queue before any
  request but GETEUI, and has answered nothing but GETEUI.

`TtyTailProofs`, for any number of frames, openings and faults:

- `Receptions`: `Spec => ReceptionSpec`, the refinement of `PacketLink` for received frames: until
  a line about one of them is lost (`mixed`), each that is handed up is handed up once, in order
  and with its own timestamp, whatever else is lost; afterwards it promises nothing.
  `RxInv`, until a line about a reception is lost: a packet line and its timestamp are
  neighbours on the cable, or the timestamp is what is being printed, or the packet is in
  `rx_skb` and its timestamp is at the head (`TogetherInv`); the frames handed up,
  the one in `rx_skb`, those on the cable and the one not printed yet are in the order in
  which they were received (`OrderInv`). So each timestamp line that finds `rx_skb`
  set is that frame's own and is `Deliver`; every other step stutters.
- `ReceivedFrameWaits`: `Spec => NoneReplaced`, about the receive buffer itself, which
  `PacketLink` does not mention. From `TogetherInv`: while `rx_skb` is set, what
  the cable brings next is its timestamp, or nothing is on the cable and its timestamp is being
  printed; so no packet line is at the head.
- `Handshake`: `Spec => []RegisteredMeansListening`. `OpenInv`, as long as no line is
  overwritten and either nothing has gone wrong but lines about receptions or there was no fault yet
  (an interface given up while its answer is due breaks nothing that lies ahead), is about everything the device has still to read, in one sequence: its line buffer, the cable and
  the unwritten rest of the driver's line. `PairedInv` says that it is whole commands but for one cut
  by a reset. `HandshakeInv` has a stage for each answer the open worker waits for: an
  old handshake's echo comes before the greeting that begins this one (`EchoFirst`), after that
  greeting there is none (`NoEcho`), the new one is asked for last and answered once
  (`EchoLast`), and then nothing ahead resets the device or makes it echo (`Clean`), so that
  its receiver, once told to listen, listens (`Listening`). The property alone
  is about the end of this, and an old answer could fake any stage.
- `TransmissionsAndReceptions`: `Spec => LinkSpec`, the refinement of the whole of
  `PacketLink`. The link promises its transmissions until a second fault or a lost line about a
  received frame, so the invariant has to say what one fault leaves behind; `Trusted` is that
  condition. Of a transmission only the frame number travels to the device and none comes back,
  so that its timestamp is its own only by the order of things:
  - `OneInv`: there is at most one transmission from the driver's line buffer through the
    cable and the device to its answer, and on a registered interface it is the one in `tx_skb`;
  - `StaleInv`: of a transmission whose interface is gone, whatever is left is answered before
    the new handshake's echo is, or is dropped by its reset, so that a registered
    interface never meets it. `EchoInv` and `CutInv` are what this stands on: no answer
    of an old handshake is left over, and commands are cut short by a reset only;
  - `LiveInv`: until the first fault a device that listens, transmits or prints a timestamp is
    not about to be reset. Input is lost only while a timestamp is printed, so
    that the one loss the link allows never hits a handshake's reset;
  - `StampInv`: a timestamp line that finds `rx_skb` empty is not a received frame's, so
    it is the transmission's (ttytail.c tells them apart by `rx_skb` alone);
  - `HistInv`: frames are numbered as the stack hands them over, so none completes twice.

  `Trusted` also asks that no line was overwritten, after which `TtyTail` takes no step (the
  step itself is covered). TLC checked the parts as invariants of this run's instance before they
  were proved.

Assumptions on constants, evaluated by TLC in the runs of the modules that declare them:
`SizeAssumption` (at least one slot), `UartAssumption` (queues of two slots or more, of which
one stays free), `TimeAssumption` (callers arm less than half the counter's range ahead, the
main loop turns faster than TIME_SLEEP_THRESHOLD, proto_prepare is some time before its
event), `TagAssumption` (needed by `TagWatched`: periods are finitely many and below
`Never`, the supervisor's and the preparation's time are not zero), `WordAssumption` (keys are
neither of the two reserved values, values are words), `AreaAssumption`, `NoValueAssumption` (the absence of a
value is no sequence of words), `LengthAssumption` (config.c:231 refuses a value whose
length does not fit the field), `EntropyAssumption`, `HostAssumption`, `TtyTailAssumption` (the bounds are
natural numbers).

*Model-checked only:*

- `RangingWatched`, `OneBlink`, `OwnTimerEnds`, `OneRound` of `Rtls`: they rest on how the
  times of a round add up, and fail for others (section 2.8). Their invariant has to follow
  messages through queues that are filtered at every step.
- All liveness: `WriteStringReturns`, `RadioFreed`, `KeepsBlinking`, `XmitCompletes`,
  `RangingEnds`, `MainReturns`, `ReceiverLives` (fairness and ENABLED are out of its reach).

## 6. Not modelled

- Arithmetic: position estimation and filters (`rtls/`, the laterate functions and woodoo
  of rtlsd.py, tdoa.py), the random number generator, AES, conversion of attributes. The
  models have what is fed into it and when.
- Device access: register maps, SPI, ADC, clocks and GPIO; initialisation in main.c.
- cli.c's line editing and its commands that read or set one register or key.
- The web clients of rtlsd.py and `web/server.py`: one thread that forwards messages.
- Scripts run by hand (calibration beyond its measuring loop, measurement, the
  production tester), the boot loader (a vendor's application note), emlib and CMSIS.

Vendor libraries are most of the repository's lines of C (emlib alone about 22000 of
38000), so that the share of lines mapped stays small although most of the program's
own concurrent code is modelled.

## 7. Plan

Done: configuration store, byte queue, serial port, time events, tag protocol, main
loop, entropy, kernel driver, location server, host library and daemons.

Proved: the safety of the byte queue, the serial port, the time events, the tag protocol, the
main loop and entropy source, the host library and the configuration store, with its
refinement; of the anchor's driver the whole link and the handshake.

Next, proofs: `OneBlink` of `TagRanging`, with its times as assumptions and its inductive
invariant checked by TLC first. Next, models: two
programs on one set of daemons; REMOVE and NOUDP if a client comes to send them.
