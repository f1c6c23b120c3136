# A TLA+ verification of the GW_F411 gateway

GW_F411 is the firmware of a gateway (STM32F411, RT-Thread) between 433 MHz water-valve
equipment and the Tuya cloud. *Controllers* ("mains", ids 10000000-19999999) drive valves and
own *terminals*: leak sensors ("slaves", 2xxxxxxx) and door units (3xxxxxxx). A Tuya WiFi
module on a serial line is the way to the cloud and to the app. This directory holds TLA+
models of the firmware's own logic (`src/applications`, `src/radio`, `src/wifi`, `src/ota`), TLC
configurations that check them on small instances, and TLAPS proofs.

## 1. The system

### Threads

RT-Thread runs the ready thread with the smallest priority number and preempts at any
instruction; threads of equal priority share the processor in slices of 10 ticks. Nothing but
the EasyFlash lock is locked.

| thread | priority | runs |
|---|---|---|
| soft timers | 4 | `rf_433_send_timer`, `Sync_Timeout`, `Reset_WiFi_Timer` |
| `button_task` | 5 | key scanning (`device.c`) |
| `rf_433_task` | 8 | radio interrupts, then the message handlers of `Radio_Decoder.c` |
| `wifi-service` | 8 | `wifi_uart_service`, then `data_handle` |
| `Radio_Queue433` | 9 | `RadioDequeue` |
| `heart`, `sync`, `key_response_t` | 10 | heartbeat, synchronisation, key actions |
| `serial` | 25 | moves received bytes into the ring |

### Inventory

| component | state | operations | what is hard | what makes it correct |
|---|---|---|---|---|
| device registry (`flashwork.c`) | `Global_Device` in RAM, one flash key per counter, slot, binding, mark | add, delete, delete all of a controller, set heart/upload flag, load at start | several flash writes per operation, power loss between any two, several threads, no lock | a reset loses only what was under way; no id twice; counters never refuse a controller for which there is room; nothing outside the range the searches visit |
| radio handlers (`Radio_Decoder.c`) | none of their own | learning, sync, warning, control messages | each is a series of registry operations | the registry's properties |
| transmit queue (`Radio_Encoder.c`) | `Queue_433`: two indices, arrays of 50 | enqueue (4 threads), dequeue | unlocked read-modify-write of the indices, reset by the consumer | messages whole, once, in order; no overflow; the radio never falls silent |
| radio driver (`Radio_433.c`, `Radio_Common.c`) | `ubRFState`, `IRQ1_Sem`, 1 s timer, the chip's registers | interrupts, transmit, restart, start-up | edges that come once, timer thread against task and senders | a transmission ends or is restarted; the receiver is on again afterwards |
| heartbeat (`heart.c`) | per slot: `HeartRecv`, `HeartRetry`, `HeartCount`, `Heart` | poll, retry, visit, give up; the cloud's requests for a device's state | late answers, deletions and new controllers during the waits, the mark that is set after the reports and a flash write | offline only after all polls of all visits, dead ones noticed, the cloud shows a terminal as offline with its controller |
| cloud interface (`wifi-api.c`) | `Remote_Device`, `Sync_Counter`, `SyncRetry`, timer, semaphore | add/delete/report devices, synchronise all controllers | timer, thread and radio handler share the counter | every controller is synchronised and known to the cloud, retries are charged to the right one, the list is taken over once |
| receive ring (`mcu_api.c`, `system.c`) | `queue_in`, `queue_out`, buffer | store, read | preemption between two stores, full against empty | nothing lost, nothing out of order |
| frame parser (`mcu_api.c`) | buffer, `rx_in` | fill, scan, hand on, keep the rest | portions, damaged frames, full buffer, 16-bit length | independent of portions, resynchronises, never stuck |
| command dispatch (`system.c`, `protocol.c`) | update flag, reset flags | one per command | - | see the components behind the commands |
| firmware update (`wifi_ota.c`) | `update_file_cur_size`, partition | begin, receive, end | lost and repeated frames, abandoned transfers, flash errors, power loss | restart only with a complete image; no transfer hangs |
| WiFi supervision (`wifi-service.c`, `wifi-uart.c`) | retry counter, status | reset with retries, status change | late answer against retry timer | reset ends, list asked for once per connection |
| keys (`device.c`, `key.c`) | press counters, five semaphores | long presses, factory reset, learn | two keys that read each other's counters, presses that come together | nothing happens that the hand did not mean |
| frames to the module (`system.c`) | `wifi_uart_tx_buf` | build and send a frame (every thread) | one buffer without a lock | what gets spoilt is repeated |
| LEDs, factory test, watchdog, Ymodem, storage port | - | - | I/O | not modelled |

Components interact by calls in the caller's thread (radio handler -> registry, queue, cloud
interface; `data_handle` -> registry, update), by shared variables (`Global_Device`, `Queue_433`,
the ring) and by timers and semaphores (driver, synchronisation, keys). `PROJECT.json` lists the
hazards that follow from this, each at its line.

## 2. The modules

| module | models | state and actions |
|---|---|---|
| `DeviceRegistry` | registry and the handlers that call it | RAM table and key-value store as separate variables; `pc[t]` is the key thread `t` writes next, `script[t]` the operations its handler has still to start. One action per key written, one per handler, `Reset` |
| `Registry` | what the registry promises | abstract: the entries of each device and what a reset would make of them; both change together but for the device being added. `DeviceRegistry!IsRegistry` says that one thread's registry implements it |
| `RadioQueue` | transmit queue | one action per access to `TargetNum`/`NowNum` or to half a slot; `MayRun` is the scheduler |
| `Fifo` | what a receive buffer promises | abstract: a sequence; bytes go in, come out once and in order, until a reader that was misled breaks it |
| `UartRing` | receive ring | byte and pointer stores as two actions in either order, the rewinding of the pointer as a store or not; `IsQueue` says that it implements `Fifo` |
| `FrameParser` | `wifi_uart_service` | one action per way round its loop; the byte layout and the 16-bit length are kept |
| `Ota` | update commands and `wifi_ota.c` | the module and the line as environment, flash cells as erased, written or garbage |
| `RadioDriver` | `rf_433_task_callback`, `transmit_packet_task`, the send timer, `rf_restart`, `rf_startup` | the chip with its masks and requests as a record; one action per interrupt and state, and one per stretch of register accesses between which another thread matters |
| `CloudList` | `Remote_Device`: connection, the cloud's list in packages, entries added and removed | how often a controller is entered, what the cloud really knows, packages on their way |
| `Sync` | extends `CloudList` by `Sync_Request`, `Sync_t_Callback`, `Sync_Timeout_Callback`, `Sync_Refresh` | the walk through the slots, the semaphore as the baton, discrete time; answers, foreign messages, connections and changes of the registry as environment |
| `Heartbeat` | `heart_callback`, `Flash_Set_Heart`, `Heart_Upload`, `Heart_Request` | one action per branch of the loop; `Flash_Set_Heart` in either thread, and `MainAdd_Flash`, as one step before and one after the flash is written (`rpc` and `pc` say who is between them); messages, deletions, learning, death, requests of the cloud, restarts |
| `Keys` | the callbacks of both keys in `device.c` | the hand (keys down, long events so far) and the counters that should follow it |
| `WifiReset` | `wifi_uart_write_frame`, `mcu_reset_wifi`, `Reset_WiFi` and its timer | the shared buffer as head and following byte, a frame as four steps of its writer |
| `Panel` | composes `Keys` and `WifiReset` by the key thread (`key.c`) | the five semaphores, factory reset, WiFi reset, the restart that the module's report causes |
| `DeviceRegistryProofs`, `OtaProofs`, `PanelProofs`, `HeartbeatProofs`, `RadioQueueProofs`, `SyncProofs`, `RadioDriverProofs` | - | theorems about the module of that name |
| `SerialProofs` | - | theorems about `UartRing` and `FrameParser`, whose definitions carry the name of the parser so that both can be extended |

Modules whose name begins with `MC` give constants their values for TLC.

### Granularity and abstractions

* **Registry.** A step runs from one flash write to the next. `ef_set_env` takes the EasyFlash
  semaphore, so this is where threads change in practice; preemption between two writes is
  covered for `rf_433_task` and `wifi-service` only as far as they swap at these points. Ids are
  model values of two classes; the texts of keys are keys. `Remote_Device` decides whether an
  upload flag is cleared after an addition; that choice is left open.
* **Queue.** A slot has a head (whom) and a body (what), so that a torn message can be seen.
  `Sleep` notes which producers are in the middle of an enqueueing; the consumer's sleeps
  (50 ms and more) outlast them.
* **Ring.** `*queue_in ++ = value` is two stores to non-atomic objects; C leaves their order
  open, so `Orders` says which may come first. At the end of the buffer `queue_in = wifi_uart_rx_buf` (`mcu_api.c:463`)
  comes before them. `queue_in` is not volatile and the statement is followed by another store to it, so whether it is a
  store of its own depends on the build: gcc keeps it at -O0, -O1 and -Os and drops it at -O2, the level in the project
  files. `Rewinds` says which builds there are, and the run has both. Where it is kept, a reader that preempts there with `queue_out` at
  the end of an empty ring takes it for a full one and reads old bytes (`Mirage`); `misled` records that, `NoneLost` holds
  until then and `Fifo` has a step `Break` for it.
* **Parser.** Real layout, small buffer. A length field of 0xFFF9 makes `rx_value_len` 0 and the checksum read behind
  the buffer, so its test may go either way (`Fits`, `Differs`). If it fits, `offset` grows by 0: this touches progress, since the
  loop may then hand on the same header for as long as it does. Safety is stated with such lines, progress without them.
* **Update.** A block is the content of one frame. `MayGiveUp` and `FlashMayFail` switch the
  environment's faults on. The module keeps to the size of packet the gateway has asked for: the branch for larger frames
  (`system.c:647-650`, which ends the update without an answer) is left out. The test `dp_len_up == firm_length` of the
  frame that ends a transfer is left out too: a frame without data restarts the gateway whether or not it holds.
* **Driver.** The chip is external: it raises its line while a request that is enabled is pending,
  and every rising edge releases `IRQ1_Sem` once (`Through`, `Rises`); that four are outstanding at most is proved. The timer is `new` until
  the chip and the threads have come to rest - a second is longer than the start of the crystal, a
  transmission and any stretch of code - and may expire at any moment once it is `old`. Packets
  have no contents. The branches for states the driver never enters are left out. The message handlers that `OnReceive` ends
  with take no time: that senders run while a handler waits for the flash, with interrupts pending, is not in the model
  (the priorities let the task go on first as soon as the flash is written).
* **Sync.** One unit of time is 2.5 s; what is due happens before time goes on, in any order.
  `Answer` is a message of the controller that was asked, during the wait or within the timeout of
  its last one; `Disturb` (bounded) is any other one, a deletion or a new controller, and a list
  that arrives during a synchronisation counts as a disturbance too. In `CloudList` a controller
  is named by its slot, and `Remote_Device` counts entries instead of ordering them. A report of a new device
  (`ReportNew`) reaches the cloud at once, also without a connection: the module's buffering is idealised.
* **Heartbeat.** A slot is a controller, and one terminal is followed; its own mark is left open, as any message may change
  it. A flash write takes the EasyFlash lock and waits for the flash chip, so other threads run during it: `Flash_Set_Heart` is a step
  up to its write (`Answered`, `GiveUp`, `Heard`) and one behind it (`MarkOnline`, `MarkOffline`, `MarkUp`), `MainAdd_Flash`
  likewise (`Learn`, `Learned`). What a message does after `Heart_Upload` are further steps. A restart loads what is in the
  flash: of a mark, a controller or a binding that was being written either value, and `loose` keeps the slots where two
  writes may have overtaken each other. The mark is in memory before the flash in `MainAdd_Flash` and after it in
  `Flash_Set_Heart`. One assumption on real time is left: a handler is done with a message within the 2 s for which
  the heart thread waits for an answer (`Silent`).
* **Panel.** `Press`, `StillHeld` (a long event) and `LetGo` are the events of the button library
  (`packages/button-v1.0.1/button.c`) without its times. Of a frame the six bytes of the head and the byte behind them are told apart, because a short
  frame's checksum overwrites the first data byte of another's. The timer thread has the highest priority, so its callback is one
  step; its period is 2 s, so at most one callback falls into one call of `Reset_WiFi`, which
  takes milliseconds (`Timer`, `fired`). That is an assumption on real time, and `ResetAsked` needs it.

## 3. Runs

| run | bounds | shows |
|---|---|---|
| `registry_sequential` | 2 controllers, 1 terminal, 3 slots, 2 places for controllers, one thread, any number of resets | `NoPhantomMain`, `ResetKeepsOthers`, `WithinNum` at every flash write; the registry implements `Registry` (`IsRegistry`) |
| `queue` | producers of priorities 8, 8, 10, limit 2, 5 messages | `NoStall`, `Drains`, indices in range; `SentInOrder` while one producer above the queue thread is alone |
| `ring_backlog` | 5 bytes, both store orders, with and without the store of the rewound pointer, at most 4 unread, 12 bytes in all | `NoneLost`; the ring implements `Fifo` (`IsQueue`) |
| `ring_overrun` (violation) | 4 bytes, no store of the rewound pointer | a full ring becomes an empty one |
| `parser` | 2197 lines of three pieces, buffer of 10 | `PortionsDontMatter`, `OneErrorOneFrame`, `EverythingParsed` |
| `parser_long` (violation) | length fields 0xFFFA-0xFFFF | a header passes for a frame |
| `ota` | images of 2 to 4 blocks, partition of 3, 3 attempts, 2 power failures, flash may fail, transfers may be abandoned | `RebootComplete` and `NeverAhead` unless a fault came since power did; `InPlace`, `TransferEnds`, `UpdateEnds` |
| `ota_again` (violation) | 2 attempts | blocks of a second transfer are answered and not written |
| `heart` | 2 slots, 1 retry, 1 further visit, a terminal, slots reused, any number of restarts | `OfflineOnlyWhenSilent`, `ShownWithController`, `DeadIsNoticed` |
| `radio_driver` | queue and key thread, 6 transmissions, packets at any time | `RxListens`, `Guarded`, `ReceivesAgain` |
| `sync` | all registries of 3 slots, 2 retries, 2 messages per answer, 2 connections, lists of 1 or 2 packages, 1 disturbance | `AllAsked`, `ChargesAsked`, `SyncEnds`; no entry twice in an undisturbed list (`TypeOK`) |
| `panel` | 3 presses, 7 long events each, 1 frame of another thread, 1 answer under way | `GesturesMeant`, `ResetAsked`, `FailMeansSilent`, `ResetEnds`, `FactoryEnds` |

The bounds are the smallest in which the cases that matter occur: a registry with one slot to
spare and one place too few, a queue whose limit is reached and passed by concurrent producers,
a ring whose pointers go round several times with every fill level at every position, a parser
buffer that is full in the middle of a frame, an image shorter and one longer than the other, one
that does not fit, and more attempts than power failures; polls repeated and visits repeated, a
second controller to take the place of the first; enough transmissions for a timer to outlive the
one it was started for; two controllers below a third, a pause longer than the timeout so that the
timer fires within it, and a second connection while the first list is under way; both keys held
to the seventh long event, which is the one that acts, and a third press after it. Deadlock is not
checked for `sync`, `radio_driver` and `panel`, which come to rest when the bounded requests are used up.

What does **not** hold, and is therefore not claimed:

* *Registry, two threads:* `NoPhantomMain`, `UniqueIDs`, `ResetKeepsOthers` and so `IsRegistry` fail (two additions into one
  slot, lost updates of `MainNum`).
* *Queue:* with several producers, or one of lower priority than the queue thread, `SentInOrder` fails. With three
  producers of one priority, or one of the queue thread's, `TargetNum` can pass the limit by more than the number of
  producers: each stores what it loaded before the others went on. The firmware has two of priority 8, two of
  priority 10 and the queue thread at 9 (`PairAssumption`); a fifth thread that enqueues would have to keep to that.
* *Update:* after an abandoned transfer or a flash failure `RebootComplete` fails.
* *Heartbeat:* a controller that is learned into a freed slot inherits the missed polls of its predecessor
  (`OfflineOnlyWhenSilent` counts the polls of the slot). When the polled controller is deleted during the wait its id
  reads 0 and `Flash_Set_Heart` marks the first empty slot. A terminal stays shown
  as online with its controller offline (`stray`) when it is reported between the report and the mark of `GiveUp`, when any
  controller sends a message of type 3 or 6 about it, which is reported without a look at the mark, or when a restart comes between the report and
  the flash write of `Flash_Set_Heart(ID, 1)`. A controller whose learning is cut off by a restart may come back as unknown or as offline.
* *Ring:* in a build that stores the rewound pointer, old bytes are read (`misled`).
* *Parser:* a length of 0xFFF9 whose checksum fits by accident holds the parser where it is.
* *Driver:* when the key thread starts a transmission while the queue thread's start is half done, and an old timer
  restarts the chip in between, the radio can stay in `trxstate_tx_waitdone` until the next
  transmission; `Guarded` and `ReceivesAgain` therefore speak of starts that do not overlap.
* *Synchronisation:* it passes over the controller in the highest slot if there is another one, and one
  whose retries were used up before (both exceptions are spelt out in `AllAsked`); late answers and
  overlapping lists charge the wrong controller (`ChargesAsked` is stated for undisturbed ones). Overlapping lists
  enter a device twice into `Remote_Device`, an array without a check of its bound; a deletion then removes one
  entry, and the device is not reported when it is learned again.
* *Panel:* an answer to the third retry is reported as a failure (`inTime` excludes it). `Poll` takes every semaphore and serves
  one, so a long press that is taken together with a click is lost. The frame of a factory reset is sent once: if it is
  spoilt, the gateway goes on with an empty flash and a full RAM (`spoilt`). A key still held when the gateway restarts
  begins a new press.

Most of these are listed as hazards.

### Fairness

* `RadioQueue`: a ready thread runs once those of higher priority are done (weak fairness of the
  queue thread and of an enqueueing that has begun); nobody is obliged to begin one.
* `FrameParser`: `service_callback` calls the parser every 10 ms and its loops are plain code;
  bytes that have been sent arrive. At a header with the length 0xFFF9 nothing is promised, because the step that adds 0 is a step.
* `Ota`: the module repeats an unanswered frame (weak fairness), and a frame or an answer that is
  sent again and again arrives in the end (strong fairness, because the line may lose each one).
  A module whose gateway has restarted gives up and offers the image anew.
* `RadioDriver`: ready threads run (strong fairness for the senders, which higher ones preempt),
  the timer expires, the crystal starts, the PLL is ranged and a packet in the FIFO is transmitted.
  Nothing is assumed about received packets.
* `Sync`: time passes, the timer fires, the thread runs; controllers and the cloud owe nothing.
* `Heartbeat`: `heart_callback` only sleeps for set times, `rf_433_task` gets done with a message it has begun, and
  restarts come to an end (`<>[][~Restart]_vars`: each one clears the counts); controllers owe nothing.
* `Panel`: the key thread runs (it only sleeps 10 ms, and those above it sleep most of the time), the timer
  fires while it is started, and a report of the module that has arrived is handled. Nothing is assumed about answers to a reset or
  other threads' frames.

## 4. Proofs

| theorem | statement | argument |
|---|---|---|
| `TypeCorrect` | `Spec => []TypeOK` of the registry, for any threads, devices and sizes | inductive as it stands |
| `ConcurrentWithinNum` | `Spec => []WithinNum`, any threads | strengthened by "a thread about to write a slot's number or id has a slot at or below `Num`" |
| `SequentialReset`, `SequentialSlots` | `ResetKeepsOthers`, `UniqueIDs` and `WithinNum` for one thread | `ScriptInv`, `SlotInv`, `KeyInv`: slot by slot and key by key, RAM and store agree except at the key being written |
| `SequentialTable` | `IsRegistry`: for one thread the registry implements `Registry` (hypothesis `Threads = {Radio}`), any devices, slots and restarts | the invariants of `SequentialReset`, read device by device: a device is known when some slot holds it and kept when some key of the store does, and since ids are unique a step on one slot or one key moves one device. Every flash write maps to a step of the table or leaves it alone |
| `SequentialCount` | `NoPhantomMain` for one thread | `CountInv`: while a controller is being added or deleted the counters are below the number of filled slots by one; rests on the previous invariants and on cardinality lemmas for one slot filled or emptied |
| `RingTypeCorrect`, `RingNoneLost` | `TypeOK` and `NoneLost` of the ring for every size, if the backlog stays below the size | where the pointers may stand relative to each other; `RingInv` |
| `RingNoneLostWithoutRewind` | `NoneLost` and `~misled` in builds without the store of the rewound pointer (`TRUE \notin Rewinds`) | `RingInv`: `Mirage` needs a pointer that was rewound and not yet moved on |
| `RingIsQueue` | the ring implements `Fifo`, every size and store order | `ContentInv`: the cells from `queue_out` on hold the bytes not yet read, in order, but for the one whose byte is stored after its pointer. Needed because `RingInv` only counts; the mapping reads the queue's contents out of the cells. Every step of the ring maps to a step of the queue or leaves it alone; a read from `Mirage` maps to `Break` |
| `ParserTypeCorrect` | `ParserTypeOK`, every line and buffer size | `WindowInv`: the buffer is the part of the line read last, and the parser's place is within it |
| `ParserPortions` | `PortionsDontMatter`, every buffer size and every line without a length field above 0xFFF8 (`ShortLengths`) | `FoundInv`: what was handed on, and what the reference finds from the parser's place on, are all frames of the line; `RestInv`: what is kept between two calls is less than a head, or the beginning of a frame that fits. The reference is a recursive function, so `ScanExists` first shows that its recursion ends: were there a line position from which it did not, there would be a last one |
| `ParserWholeFrames` | `WholeFrames` under the same condition | the violation of `parser_long` needs the lengths that are excluded here |
| `ParserResync` | `OneErrorOneFrame`, every buffer size, for lines that satisfy `ShortLengths` and `ClearLines` | `ClearLines` says of each intact frame that it is in sight (`InSight`): nothing before it that passes for a frame reaches into it, no beginning of one waits for more than the line has, and the two bytes before it are no head. Then each round leaves the frame ahead or begins at it (`StaysBefore`), so the reference finds it, and `ParserPortions` carries that to every division into portions. The promise is not unconditional: bytes `55 AA` right before a frame, or a damaged frame whose checksum happens to fit and that reaches into the next, hide that one. All 2197 lines of the run satisfy the hypothesis |
| `ParserRoom`, `ParserAdvances` | the safety half of `EverythingParsed`: every call finds room for bytes of the line; every step reads some or brings the call nearer its end, or is the one for the length 0xFFF9 (`ZeroLength`) | `RestInv`: what is kept is less than a head, or the beginning of a frame that fits and so shorter than the buffer; the distance to the end of the buffer is a natural number that every other round makes smaller |
| `OtaInPlace` | `InPlace` for all images, sizes and faults | a frame under way carries the block of its offset |
| `OtaComplete`, `OtaNeverAhead` | `RebootComplete` and `NeverAhead` for all images, sizes and losses, unless the module abandoned a transfer or the flash failed since power came on | `LinkInv`, which holds while there was no fault: the gateway is level with the module or one block ahead |
| `OtaAdvances` | the safety half of `TransferEnds`: the answers a transfer still needs are bounded by its image, no step adds to them, every answer that arrives takes one away | `FlowInv`, the invariant of `OtaTypeCorrect`: the frame that ends a transfer is not answered, so the module is never past its image |
| `PanelTypeCorrect` | `TypeOK` of the panel, any number of presses, frames and answers | inductive as it stands |
| `PanelGestures` | `GesturesMeant` | `HandInv`: the counter of a key is the number of its long events, capped at 7, and its latch is set only at the cap. The property relates a release of a semaphore to the hand; the code decides by the counters |
| `PanelResetAsked`, `PanelFailMeansSilent` | `ResetAsked`, `FailMeansSilent` | `AskInv`: a timer that has fired since the counter was cleared has sent the request or has seen an answer, an answer in time keeps `reset_wifi_flag` at 1 until the timer reads it. The two properties only speak of the end of a reset; the invariant follows the counter through the call of `Reset_WiFi`, which an old timer may interrupt |
| `HeartTypeCorrect`, `HeartOffline` | `TypeOK` and the action property `OfflineOnlyWhenSilent` of the heartbeat, any number of slots, repetitions, visits and restarts | `MissedInv`: `HeartRetry + HeartCount * (RetryLimit + 1)` polls in a row of the slot were missed since the last mark or restart, or all of them. The code counts in two counters that are cleared at different places; the property counts polls |
| `HeartDeadCounted` | the safety half of `DeadIsNoticed`: until a dead controller is given up each poll of it counts once, and nothing else does, but for a restart | when the polled controller is deleted during the wait `Flash_Set_Heart` finds an empty slot, never that of the dead one (`HolderOther`) |
| `HeartShown` | `ShownWithController`, any number of slots and restarts | `ShownInv`: also while the thread is between the report and the mark of a controller it gives up, a terminal that is shown has been reported since. A mark that is lost in a restart was being written, so `stray` is set |
| `QueueNoStall` | `NoStall` for any producers | `LoadInv`: the index a producer has loaded is not below `NowNum`, or is below it by one if the queue thread went on while it was interrupted; `DueInv` ties that to the sleep of the queue thread |
| `QueueTypeCorrect` | `TypeOK` for any limit and producers that satisfy `PairAssumption` | `CapInv`: by priority, how far `TargetNum` can have come while a producer enqueues; `FullInv` and `BehindInv` say what two producers of one priority that have loaded the same index can still do |
| `QueueInOrder` | `SentInOrder` | `OrderInv`: for the one producer, the slots between the indices hold whole messages in order, newer than what was sent, and the slot being written comes next. Needed because the indices are rewound, so a slot is used again |
| `SyncTypeCorrect` | `TypeOK` of the synchronisation, any slots, retries and sleeps | `TokenInv`: the semaphore, the thread at work, the timer, and an answer that will start it again are one baton, and a disturbance adds two; `RetryInv`: only a walk with more than one charges too much; `EntryInv`: entries of a device plus packages under way that name it |
| `SyncAllAsked`, `SyncChargesAsked` | `AllAsked` and the action property `ChargesAsked` | `CalmInv`, for synchronisations that are not disturbed: where thread, timer and counter are relative to the controller that was asked (`PlaceInv`), who has answered, been charged, become known to the cloud, and that everyone above the counter is done (`WalkInv`) |
| `DriverRxListens` | `RxListens` for any senders and transmissions | `RxInv`: while the driver takes the radio for receiving an interrupt is outstanding, or the task rests and the receiver is on, a sender is about to change the state, or the crystal will interrupt |
| `DriverTypeCorrect` | `TypeOK`, in particular `sem <= 4` | `SemInv`: the semaphore plus the edges that can still come before the task takes it; the sum, not the semaphore, is what the steps keep below the bound |
| `DriverGuarded` | `Guarded` | `LoneInv`: where a start that no other falls into is, what it has enabled (`BeginInv`, `WaitInv`) and what the timer started for it can still be (`TimerInv`); `ChipInv` about the masks |
| `OtaTypeCorrect` | `TypeOK` of the update | `FlowInv`: the offset the module sends and the length the gateway was told are within an image; a longest image exists because `Images` is finite |

The strengthened invariants are state predicates of the proof modules; TLC checked those of the queue, the
heartbeat, the synchronisation and the driver (with up to three senders of equal and of different priorities) before
they were proved. The theorems about the
driver, the queue, the heartbeat and the synchronisation speak of any number of threads, slots and messages; the bounds
of the runs (`MaxSends`, `MaxMsgs`, `MaxDisturb`, ...) are arbitrary there.

Assumptions are the named `ASSUME`s of the modules. The ones that say more than "a natural number" are `PairAssumption`
(the priorities in the calls of `rt_thread_create`), the sizes of the queue's arrays (50 against a limit of 30 and 4
producers) and a finite set of images.
`ShortLengths` is a hypothesis of the theorems about the parser that need it and no assumption of the module, because
the run `parser_long` is about the lines that it excludes; `ClearLines` is one of `ParserResync` only.

Only model-checked: everything under fairness (`Drains`, `EverythingParsed`, `UpdateEnds`, `TransferEnds`,
`DeadIsNoticed`, `ReceivesAgain`, `SyncEnds`, `ResetEnds`, `FactoryEnds`), which is out of the prover's reach. Of three of
them the part that needs no fairness is proved (`ParserAdvances`, `OtaAdvances`, `HeartDeadCounted`). Every invariant,
action property and refinement of a passing run is a theorem.

## 5. Plan

1. *Done:* registry, queue, ring and its refinement, parser, update, heartbeat with the terminals,
   radio driver, synchronisation with the cloud's list, keys, WiFi reset, transmit buffer.
2. *Done:* theorems for every safety property and refinement that a passing run checks; the safety half of three of
   the liveness properties.
3. Worth doing next: an abstract driver (receiving or transmitting) that `RadioDriver` implements; for the queue and the
   synchronisation, measures like those of the update.

### Not modelled

* LEDs and beeper (output only, nothing reads their state), the factory test (pins and an echo, exclusive with normal
  operation), the watchdog (not started by `main.c`), Ymodem (a shell command around a vendored library), the storage
  port (I/O; its lock is what separates the steps of the registry).
* The remote factory reset, and reports of single values (alarms, valve, door, signal strength), which pass a value from a message to
  the cloud and keep no state.
* Everything that is not the gateway's own: RT-Thread, the HAL and CMSIS libraries (twice, in `libraries` and `cubemx`), EasyFlash, FAL, cJSON, the
  button library and the other packages. It is by far the larger part of the repository, hence the small share of
  lines that the models cover; it appears where the firmware uses it: semaphores, timers, priorities, key-value store.
