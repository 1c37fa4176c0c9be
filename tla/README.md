# A formal model of deluge-sdk

TLA+ modules, TLC runs and TLAPS proofs about the firmware of the Synthstrom
Deluge in this repository: the boot loader that launches apps (`app-loader`), the
board support it stands on (`deluge-bsp`, `rza1-hal`: flash protection, display bus,
time driver, audio rings), the block-device layer under its filesystem, and the USB
mass-storage mode. The modules are translated from the Rust source; `PROJECT.json` maps
every definition to its lines.

The Deluge is a music instrument on a single-core Cortex-A9 with a SPI NOR flash, an
SD card, a PIC that scans the panel, and USB. A flash that is written wrongly makes it
a brick, and there is no way to open a debugger on a unit in the field. That is why
the first modules are about the flash.

## The system

One Embassy executor runs all tasks, cooperatively: a task gives way only at an
`await`, so code between two awaits is one step. Interrupt handlers preempt it, and
talk to it through atomics, wakers and DMA ring buffers. Flash transfers and
status-register accesses mask interrupts. The only other actors are outside: the
user's fingers, the USB host, the flash chip, the power switch.

| Part | Source | State it keeps | Interacts with | Status |
|---|---|---|---|---|
| Flash write protection | `deluge-bsp/src/flash/protect.rs` | the chip's status registers, active and non-volatile; `FAULTED` | loader (`lockdown` at hand-off, `unprotect` in the SSB pass), SPIBSC transfers | modelled, proved |
| Loader boot flow | `app-loader/src/main.rs`, `flashboot.rs`, `settings.rs`, `deluge_settings.rs` | app slot, settings record, migrated app settings, recovery gesture, `auto_boot_allowed` | flash, protection, menu, SD, launcher | modelled, proved |
| Settings record | `deluge-image/src/settings.rs` | 8 bytes on flash, two versions | loader | modelled, proved |
| Image format | `deluge-image/src/elf.rs`, `app-loader/src/elf.rs` | metadata in the image | store and boot side | the bounds; program headers not |
| Menu | `app-loader/src/ui.rs` | cursor, hold timer, countdown, `SELECT_DOWN`, `UPLOAD_ACTIVE` | loader, listener, PIC task | selector modelled, proved |
| USB upload listener | `app-loader/src/devupload.rs` | frame being received, RAM it streams to | selector (raced by `select`), host | modelled, proved |
| Block stream | `block-device-adapters/src/buf_stream.rs` | one buffered block, dirty flag, position | slice above, SD below | modelled, refinement proved |
| Stream slice | `block-device-adapters/src/stream_slice.rs` | offset in the slice; shares the stream's position | FAT above, block stream below | modelled on top of the block stream, proved |
| Time driver | `rza1-hal/src/time_driver.rs`, `time_math.rs` | `LAST_RAW`, the timer queue, OSTM1's alarm | every task that waits, every handler that reads the clock | modelled, proved |
| OLED/CV bus, PIC link | `deluge-bsp/src/bus.rs`, `oled.rs`, `cv_gate.rs`, `pic.rs` | guard and frame width of RSPI0, echo flags, redraw flag | panel, CV DAC, PIC, pump task | frames, CV words and echoes, proved; start-up and LEDs not |
| Audio rings | `rza1-hal/src/dmac/ring.rs`, `ring_buffer.rs`, `dmac.rs` | block count, cursor, lead; the DMAC's address | SSI, SCUX, block interrupt | copy API, proved; positional window and UART not |
| USB mass storage | `usb-classes/src/bot.rs`, `msc.rs`, `app-loader/src/usbmsc.rs`, pipes of `rza1-hal/src/usb/driver.rs` | command, sense, eject latch, double buffer; FIFO; reset flag | host, SD card, BACK button | bulk-only transport modelled, proved |
| Stage0 and slots | `firmwares/stage0`, `deluge-image/src/slot.rs` | slot descriptors, CRC | boot | planned |
| FAT | `embedded-fatfs` | clusters, directory | block stream | candidate |
| Other USB classes, USB host mode, SD host driver, clock, audio engine, other firmwares, toolkits, simulator, tools | see `PROJECT.json` | | | not modelled |

What makes each of the modelled parts hard, and what correctness means there:

* **Protection.** Some register bits can never be unset. A chip may lose, swap or
  time out a transfer; the bus may read stuck; the CPU may restart half way. Correct:
  nothing permanent is ever set, the lock is not armed over an open flash, and what
  is reported is so.
* **Boot flow.** Several erases and programs of several sectors, each of which the
  power may cut and the chip may ignore without a word; a gesture sampled once and
  used later; a loop that must auto-boot only in its first pass. Correct: it boots what
  was stored, when the settings and the user allow, behind the lock-down.
* **Menu and listener.** Two futures of one task sharing the display and the USB, the
  first to finish cancelling the other wherever it stands. Correct: only a whole,
  checked image starts, one USB session at a time, and the menu is there when no
  upload is.
* **Block stream and slice.** Calls of any length, alignment and position over one
  block of buffer, half of them bypassing it; a slice above that keeps an offset of its
  own; device calls that fail half-way. Correct: it is a byte stream, and a slice of it
  leaves the bytes outside alone.
* **Time driver.** A 32-bit counter extended in software by readers that preempt each
  other, with no lock; an alarm that can only be armed for a short while, under a
  critical section that time does not stop for. Correct: time never runs back, no
  epoch is lost, and no wake-up is.
* **Bus.** The chip select is moved by another processor at the end of a slow, lossy
  serial link; whoever has the bus must know that the panel listens, or that it does
  not. Nothing ever re-anchors the panel. Correct: the panel gets whole frames and
  nothing else, the bus is given back, and the last change is shown.
* **Rings.** A DMA channel that never waits, and a block count that may be late, short
  or one too high. Correct: the position is exact all the same, words are delivered
  once and in order or an error says that they were not, and a waiter is woken.
* **Mass storage.** Two machines in step over two pipes, either of which may be reset
  under the other's feet; card and pipe working on two banks at once; commands refused
  half-way. Correct: no data lands in a wrong place, a status the host accepts is true,
  a refusal leaves the pipes in step, and BACK ends the mode.

The full list of what is hard to test, each at its line and with the properties aimed
at it, is `hazards` in `PROJECT.json`.

## Modules

```
StatusRegs ── FlashProtect ──┬─ MCFlashProtect        the protection
                             └─ FlashProtectProofs
AppImage ─┐
          ├─ LoaderBoot ─────┬─ MCLoaderBoot          power-on to launch
LoaderSettings ─┘            └─ LoaderBootProofs
DevUpload ─────────┬───────── MCDevUpload             the menu and the listener
                   └───────── DevUploadProofs
ByteStream <== BufStream ── StreamSlice ─┬─ MCStreamSlice   the block stream and its slice
                                         └─ BufStreamProofs
TimeMath ── TimeDriver ───┬─ MCTimeDriver             the clock and the alarm
                          └─ TimeDriverProofs
PanelBus ── PanelBusProofs                            the bus, the PIC link, the panel
RingDma ── RingBuffer ── RingBufferProofs             the audio rings
BotTransport ─┬─ MCBotTransport                       USB mass storage
              └─ BotTransportProofs
```

**StatusRegs** is the pure part of `protect.rs`: register values as sets of bit
numbers, `protected_range` (which blocks the region bits cover, on each part), the
recipes, the goals, and the decision `plan`, which refuses or names the write.

**FlashProtect** is `apply` with its `preflight`, one action per transfer: `Begin`
(latch, RDID), `PlanWrite` (stable read, decision), `Rehearse`/`ReadRehearsal`/
`ResetChip`/`CheckRestored` (the volatile rehearsal of parts with a combined write),
`WriteBoth` or `WriteSr1`/`WriteSr2`, `Verify`. `op` is the call's stack frame,
`chip` the active and non-volatile registers, `faulted` the latch; `failed` is history:
a call of this boot sent something and returned without a verified write. `LeaveStatus`
is other code that leaves WEL or a suspend bit set between two calls. `SoftwareReset`
loads the non-volatile registers and leaves those bits; on the S25FL132K it also clears
the lock, as protect.rs:16-18 and spibsc.rs:695-697 have it. `PowerCycle` may
happen between any two transfers; `fault` is the one way the unit misbehaves, chosen
once. The chip's answers to a write follow the `Chip` of the unit tests.

**AppImage** has the two sides that must agree on an image: `Storable`
(`flatten_to_flash_staging`, `validate_fsb_metadata`, `store_image_to_slot`) and
`Bootable` (`probe`), and the copy of `desc`. **LoaderSettings** is the record:
`encode`, `decode` with its version-1 rule, and the dial.

**LoaderBoot** is `boot_task` with what it calls, over the flash: the recovery
sample, the migration, the SSB pass, then menu passes of `BeginPass` (settings),
`Probe` (through the CPU cache), `Decide` (boot mode), the menu, and the ways out of
it: store to flash (`CheckImage`, `EraseChunk`, `ProgramChunk`, `VerifyImage`),
settings (`EraseSettings`, `ProgramSettings`), SD load, USB upload (one step here),
`LockAndLaunch`. `PowerCut` may interrupt any step and tears what was being erased
or programmed. On a unit that is not `sound` the chip ignores any erase, program or
status write it likes. The slot is two chunks, the first with the metadata, which is
enough to tell a whole image from a torn one. Each unit has a legacy app-settings
record. What an erased or half-programmed sector holds is `Erased` or `Garbage`,
neither of which carries a signature.

**DevUpload** zooms in on one action of LoaderBoot: the selector's turns (`Draw`,
`Poll`, `Confirm`), `receive` piece by piece (`SyncToMagic` to `Handoff`), the host
(`Open`, `Send`, `GiveUp`), and `DropListener`, the cancellation by `select`. A frame
is cut where `receive` awaits: magic, header, front matter, the rest in pieces. The
CRC is ideal: it matches the bytes it was computed from and no others. That a cut
frame's reader is misaligned by bytes is represented by it taking the wrong piece.

**BufStream** is `read`, `write`, `flush` and `seek`, a step for each device call;
**ByteStream** is what it promises. Its refinement mapping reads the content as the
buffered block over the device. A device call about a block of
`Failing` may fail, with any part of its effect on its blocks; `doubtful` remembers the blocks
of which nobody knows what they hold, and both the abstract stream and the concrete one
promise nothing about those, and everything about all the others.

**StreamSlice** adds `new`, `into_inner`, and the slice's own bound to each call. A call
goes on until the stream below has finished it, so a call that fails half-way has moved
the stream and not the slice: `behind` says so, until a seek. The FAT layer seeks before
its next call; the client of the model may go on without, with a wrong bound.

**TimeMath** is `TickRatio` and `extend`, with 2^32 a constant. **TimeDriver** has three
kinds of reader: the task's read, cut at each access of `LAST_RAW` and of the counter
(`Load`, `Count`, `Publish`, whose weak exchange may fail for no reason), the handlers'
reads inside it, and other handlers'. `ScheduleWake`, `Expire`, `TrySetAlarm` and
`StartAlarm` are `schedule_wake` and the loop it shares with `on_alarm`; `Tick` is P0's
clock, with what OSTM0, OSTM1 and the GIC do at it. Time goes on in critical sections.
The timer queue (embassy-time-queue-utils) is external: one deadline for each task.

**PanelBus** is `send_frame` from await to await, with the select and deselect handshake
and its resends, DMA and shift register, `cv_set`, the PIC (it obeys and echoes), the
link with its losses, and the parser, which takes the byte after a version byte for
data. `DropFrame` is a caller that drops the frame's future.

**RingDma** is the channel (`MoveWord`), the block interrupt and `absolute`; a block end
that comes on top of a pending one is lost, and a stale one of the channel's former ring
may be pending at the start. **RingBuffer** is `write`, `read` and their immediate forms,
preempted between the three loads of `absolute` and at each word of the copy. A word is
its index in the stream, so a slot knows which lap it was written for.

**BotTransport** is `run_until` with `handle_command`, `read_blocks` and `write_blocks`,
cut where the code awaits: `ReceiveBlock` and `TakeIn` move one packet of the call in
flight (`ep`), `CardReads` and `CardWrites` are the card's half of a `join`, and
`ReadJoined`/`WriteJoined` what follows when both are done. A packet is a whole block, a
command or a status. A bus reset fails the call in flight; resetting a pipe (at
`SET_CONFIGURATION` and when a halt is cleared) empties its FIFO under a call that goes
on, and the controller may or may not report the lost packet as sent. The host sends a
command, its data, and then takes the status, as the bulk-only specification has it; when
neither side can go on it resets the bus (`HostTimeout`), and it may reset for no reason
(`UntimelyReset`, `ClassReset`). `EmptyBlock` and `ShortBlock` are the commands that are
refused before anything is looked at, and `CardHangs` a card call that draws no
interrupt and never ends. `hurt` is history: the host's command met a fault, or was
refused with its data left in the pipe.

## Runs

| Run | Bounds | Shows |
|---|---|---|
| `flash_protect` | all six faults, all supported parts and an unknown one, 20 pairs of initial registers, status bits left behind, any number of calls, cuts and restarts: 2.86 M states | see below |
| `loader_boot` | five images, one for each way the two checks may disagree; one dial value besides the default, never and instant; any number of boots: 1.6 M states | see below |
| `dev_upload` | two good frames of different lengths and one for each rejection; 641 k states | see below |
| `buf_stream` | three blocks of two bytes, a slice of the bytes 1 to 4, calls about the middle block may fail, seeks of 0, 1 and past the end: 1.28 M states | `Refines`, `CleanMeansStored`, `SliceInStep`, `OutsideIsKept` |
| `time_driver` | the counter wraps at 7, three ticks to two microseconds, alarms of at most 4 ticks, two tasks with three deadlines, 15 ticks in all, held off for one: 5.07 M states | `ClockNeverRunsBack`, `ClockIsExact`, `NoWakeIsLost`, `AlarmKeepsTheClock`, `AlarmIsNeverEarly` |
| `panel_bus` | frames of three bytes, a FIFO of one, three bytes in flight each way, two changes of content, one dropped frame: 185 k states | `FreeBusIsDeselected`, `FrameReachesThePanel`, `PanelStaysAnchored`, `BusIsReleased`, `LatestIsShown` |
| `ring_buffer` | four blocks of one two-word frame, 12 words moved (one lap and a half), one lost and one stale interrupt, calls of 1, 2 and 5 words, leads of half the ring and of none, one word moving during a call: 1.5 M states | `AbsoluteIsExact`, `WordsAreInTheirPlace`, `ErrorsAreTrue`, `WaiterIsWoken` |
| `bot_transport` | five blocks in banks of two, two packets in the pipe, 21 commands, two commands in a row, one needless reset: 806 k states | `BlocksStayInPlace`, `InSync`, `StatusIsTrue`, `BackEndsTheSession` |
| `provision_persists`, `rejected_images`, `stale_upload_flag`, `buf_stream_overlap` | small | one finding each |

In the first four no counter is capped: the models are finite because a unit's
registers, sectors and program counters are. So "any number of boots" is meant
literally. `MaxTime`, `MaxMoved`, `MaxContent` and `MaxTag` bound how long the clock, the
ring, the user and the USB host go on, and `MaxResets` the resets nothing made necessary;
each is a guard of the actions it counts and of no other.

*Why the bounds are enough.* The protection has no parameter left: all bits of both
registers are there, and the initial values include everything a shipped or
half-provisioned unit holds. In the boot flow two chunks separate "metadata present"
from "image complete"; a third would behave like the second. The SRAM of seven units
and slot of four admit an image that fits, one too long for the slot, one below the
origin and one past the end. In the stream, three blocks let a direct call lie before,
on and after the buffered one. In the upload, one piece after the front matter lets a
frame be cut in front matter and body, and the next frame's magic be swallowed.
The clock passes two wraps, so an epoch can be missed once and counted twice; a wait of
one or two microseconds is armed whole, and a longer one is cut short and armed again. On the bus, three bytes in flight hold a late
echo, its command sent again and the other command; a frame of three bytes drifts in two
ways. Five blocks in banks of two are three chunks, the last one short, so each bank is
used twice; of two commands the second meets what a reset left of the first. The ring has the least number of blocks for which `absolute` is exact (see the
facts below), and moves more than a lap, so a slot is written for two.

*What is checked.* In `flash_protect`: `NothingPermanent` (no one-time bit, no SRP0, no
permanent lock, under any single fault), `LockedOverARegion`, `RehearsalIsUndone`,
`ReportsAreTrue` (success means that the goal is met, now and after a power cycle, but
for an unlocked goal found after a CPU restart: Finding 1),
`OnlyFaultsStopWrites` (after a call that sent something and did not verify it, nothing
is sent until the next boot, and a sound chip is never condemned). In `loader_boot`:
`LaunchesAreLicensed` (auto-boot as settings, gesture and user allow; uploads only where
dev mode was asked for), `ProtectionFitsThePlace` (locked under an app, open and spent
when parked), `LaunchIsTheStoredImage` (what is offered was stored and verified, what is
copied stays inside), `NewerSettingsStay`, and that a held LOAD reaches a waiting menu
(`RecoveryReachesTheMenu`). In `dev_upload`: `LaunchedImageIsWhole`, `OneUsbSession`,
`SelectionIsAFreshPress`, and two liveness properties, `RejectedGivesTheMenuBack` and
`GoodUploadLaunches`. Those of the other runs are in the table. Every one is stated in
words above its definition, and every one is broken by at least one of the seeded bugs
the modules carry (marked "Seeded bug", listed under `mutants`). Every state machine's
`TypeOK` is proved; the slice's types are part of `SliceInStep`.

*Fairness.* `LoaderBoot` assumes weak fairness of `Loader`, the steps `boot_task` takes
by itself: it is a task of the only executor, its awaits are timers, bus transfers and
the SD initialisation, which ends because the controller reports a card that does not
answer, and no other task of the loader keeps the processor. (A transfer of the SD load
may never end, like those of the mass storage; `RecoveryReachesTheMenu` is about the way
to the menu, before it.) Nothing is assumed of the user, the host, the caches or the power.
`DevUpload` assumes it of `Receive` for the same reason, and of `Send`: a host that has
not given up sends on. `GoodUploadLaunches` excepts a frame given up and a user who
leaves, so neither is assumed away. `PanelBus` assumes it of the OLED task, the DMA, the
shift register, the PIC and the pump, and, strongly, that while a command waits for its
echo the PIC and the parser act now and then: the link does not lose every byte for ever
(a dead link does hold the bus for ever; the resends are unbounded). `RingBuffer` assumes
it of the owner's steps and of the block interrupt, not of the channel: audio may stop.
`BotTransport` assumes it of the transport task, of a host that sends, takes and configures what it began, and of
`HostTimeout`: a host's command timeout is finite and longer than anything the device
does by itself, so it comes only when neither side can go on. A card call ends or, by `CardHangs`, never does: the
waits for it have no deadline (sd.rs:348-350). Then nobody looks at BACK, and
`BackEndsTheSession` excepts it. A host that is asleep, or a
cable pulled in mid-command, holds the mode for ever; that is outside the assumption.
The stream, the slice and the time driver state safety only; `NoWakeIsLost` is a bound on
the delay and therefore stronger than an eventuality.

## Proofs

TLAPS proves every safety and action property that a passing run checks, for every value
of the constants that meets the assumptions named here:

* **FlashProtectProofs**: `TypeOK` and all properties of `flash_protect`, for every set
  of faults and of initial registers (`InitAssumption`: no reserved bit and no lock is
  set when a unit is first powered). There are three invariants.
  `NothingPermanent` is not inductive: whether the
  real write is harmless depends on what the rehearsal saw. `IInv` adds `SwapIsSeen`
  (what each stage of the rehearsal has established about a unit whose bytes arrive
  swapped: by the time it would write for real it is clear that it wanted no region, so
  that the swapped bytes set nothing), `LockWithoutSRP0` (the lock bit is not sent
  while SRP0 is set unless the chip ignores it), `InStep` (a part that does not
  rehearse obeys what it would come up with) and `ByMethod`. One lemma per phase of
  the call preserves it.
  `LInv`, over that, is for `LockedOverARegion` and `RehearsalIsUndone`: a lock that is
  in force in one copy of the registers is so in both and freezes both at the same value
  (`LockFreezesBoth`), and SR2 goes out with the lock only once the region is in place
  (`RegionFirst`); and outside a rehearsal, but for a CPU restart, the active registers
  are the non-volatile ones (`Settled`), so that what a call finds it also finds after a
  power cycle, which is `SuccessPersists`. `OnlyFaultsStopWrites` rests on
  `FailureIsLatched` (a failed call has set `FAULTED`, which every later call looks at
  first), and, for a chip without a fault, on `SoundUnit`: each write behind the call
  took (`OnCourse`).
* **LoaderBootProofs**: `TypeOK` and all safety properties of `loader_boot`, for
  every set of images, every dial and every memory layout (`LayoutAssumption`,
  `ElfsAssumption`, `CountdownAssumption`). `Inv` relates what `boot_task` remembers to
  what is on the flash: a pass's settings are the record's (`CfgIsCurrent`), a launch by
  the loader has its licence and `auto_boot_allowed` is spent (`DecidedOnce`), dev mode
  in the record, in RAM or in a pending write implies that a user asked for it
  (`DevModeWasAsked`), and similar for the offered image and the parking. The step lemmas each
  preserve one conjunct; `SettingsRoundTrip` (decode after encode is the identity, for
  every dial) carries the settings across the flash.
* **DevUploadProofs**: `TypeOK`, `LaunchedImageIsWhole`, `OneUsbSession` and
  `SelectionIsAFreshPress`, for every set of frames. `UInv` ties the USB session and the
  listener to the screen (`SessionsByScreen`: that is what a cancellation by `select` must
  restore), says that the RAM holds the pieces that the checksum was computed from, each
  where the header routes it (`RoutedAsSummed`), so that a cut frame's
  leftovers are overwritten before they count, and that a press that counts began while
  this menu was up (`PressIsFresh`).
* **BufStreamProofs**: `TypeOK`, `CleanMeansStored` and `Refines`, the implementation of
  `ByteStream`, for every block size, device size, set of byte values and whatever calls
  fail; on condition of `~Overlap`, that no direct call touches the buffered block, which
  `buf_stream_overlap` shows to be needed. The inductive invariant `Inv` adds to the type
  that a call in progress lies inside its request (`CallOK`), that a direct call is
  disjoint from the buffer (`DirectIsDisjoint`), and that a dirty buffer has a block
  (`DirtyIsABlock`); with it each device call maps to a step of `ByteStream`, or, when a
  block is only loaded or written back, to none.
  The same module proves `SliceInStep` and `OutsideIsKept` for every slice of every
  device, and `Refines` for the stream a slice drives. `SliceInv` says that inside a call
  the stream's position and what is left of the call make up the slice's offset and what
  was asked (`CallInSlice`), and that the stream never leaves the region
  (`StreamInSlice`), but from a call that failed half-way to the next seek.
  `OutsideIsKept` is drawn from the refinement: what the stream
  promises changes only where it stands, and it stands inside.
* **TimeDriverProofs**: `TypeOK` and all properties of `time_driver`, for every width of
  the counter, every tick ratio of at least one
  tick to a microsecond (`TimeMathAssumption`), any tasks but at least one (the minimum
  of no deadlines has no value), any deadlines and any preemption. `Inv` says that nothing published is ahead of
  the counter, that what the task loaded was published, and that what it is about to
  publish is at least what had been returned when it called (`ReadInOrder`); it rests on
  `ExtendIsNext`: `extend` gives the least time from the last one on that the counter
  may stand for. `AlarmKeepsTheClock` needs an assumption, `max_arm_ticks + 2 * MaxHold
  < Wrap`, which the hardware meets by far (100 ms against 128 s); `Fed`
  says that while no epoch was missed the clock was read at most an alarm and a hold ago.
  `NoWakeIsLost` and `AlarmIsNeverEarly` stand on that.
  `ArmedInTime` is the arithmetic: what `delta_ostm` arms at a tick for a time expires
  when `ticks_to_us` shows that time, and at most `num ÷ den + 1` ticks after its
  `us_to_ticks`, for every ratio. `WakeInv` adds that the queue's answer is its earliest
  time until it is armed (`AnswerInOrder`), that the alarm is armed within what arming
  takes (`InTime`), and that somebody is due at its expiry unless it was cut (`NotEarly`).
* **PanelBusProofs**: `TypeOK`, `FreeBusIsDeselected`, `FrameReachesThePanel` and
  `PanelStaysAnchored`, for every frame size, FIFO, link length and number of resends, CV
  words and changes. `PInv` relates the task's place to what the link may still hold
  (`FrameInStep`, while no frame was dropped): a task that asks for a command has only older ones before
  it on the link (`Heading`), and once an echo of it is in, all that is still in flight
  either way is that command again (`Settled`), so that no late byte can turn the chip
  select under a frame.
* **RingBufferProofs**: `TypeOK`, `AbsoluteIsExact`, `WordsAreInTheirPlace` and
  `ErrorsAreTrue`, for every ring of whole blocks of whole frames, any calls and leads and
  any preemption, on condition of `NearEnough`: twice what may be lost or pending is no more
  than the blocks there are, and there are more than two. This is the code's "off by at
  most half the ring" corrected as the facts below explain.
  `WordsAreInTheirPlace` also needs `Hold <= 1`, that no second word moves between the
  position and the copy: it is the frame that the reader keeps for a margin, no more.
  Interrupts counted, pending and lost are the block ends there were, but for a stale one
  (`Counted`). So a count that stood still while the address was read was near the truth
  when it was read (`Taken`), and `absolute` puts it right (`AbsoluteOf`, modular
  arithmetic with no bound on the position). From there `held` counts the
  words since (`Seen`), and the cursor stays within a ring of that (`CursorInOrder`,
  `ReadsInOrder`, `WritesInOrder`: what a slot holds, and that a word that was played
  unwritten is known). Two indexes of one slot are a ring apart (`SlotsOfARing`), which is
  why a write cannot reach a word that has yet to be played.
* **BotTransportProofs**: `TypeOK` and all safety properties of `bot_transport`, for every
  card, bank size, FIFO
  size and set of commands that stay on the card (`BotAssumption`), in three invariants.
  For `BlocksStayInPlace`, `Inv` follows
  the data down the pipe: each packet of data carries on where the one before it ended,
  and so does what the host sends next (`PipeInOrder`); what comes next for the read of a
  WRITE is what belongs there, or a command, which ends that read (`ReadInOrder`); so the
  bank that is committed holds what belongs at `at` (`BankInPlace`), and a transfer stays
  on the card and in its bank (`XferFits`, `SendFits`). A reset empties the pipe, after
  which a command comes first. The actions fall into a few kinds, each with a lemma.
  For `StatusIsTrue`, `SInv` adds which command each packet and status stems from: the
  host's commands are numbered and in order (`TagsInOrder`, `CommandOfPlace`), an old one
  that was broken off is told apart (`BrokenOff`, `NothingStale`), and what it wrote, read and
  received so far is known (`WriteSoFar`, `ReadSoFar`, `GotSoFar`), until a status is
  made of it (`CswIsTrue`).
  For `InSync`, `LInv` says that while the host's command met no fault the two machines
  are in lock step (`LockStep`): between two commands both are at their start and the pipes empty,
  or the command is yet to be taken (`Asked`), or it is served (`Served`), with
  what the host waits for being what the transport is about to give. A fault ends only
  with a new session, or with a command that meets a quiet pipe; a card that hangs has
  no such end (`DeadHolds`).

Model-checked only: the liveness properties (`RecoveryReachesTheMenu`,
`RejectedGivesTheMenuBack`, `GoodUploadLaunches`, `BusIsReleased`, `LatestIsShown`,
`WaiterIsWoken`, `BackEndsTheSession`), as the prover does not reason about fairness; and
the four findings, which are counterexamples. The proofs cover the models, and so share
the limits below; that the model is the code is a matter of reading.

## Findings

1. *A region that does not persist* (`provision_persists`). A CPU restart between the
   volatile rehearsal and its undoing leaves the rehearsed registers active; the next
   call finds them and answers `AlreadySet`. The lock-down is not affected
   (`SuccessPersists`), as that goal demands the lock bit, which a volatile write
   cannot set.
2. *Stored and never offered* (`rejected_images`). The store does not check `code_end`
   against the top of SRAM, the boot does.
3. *A menu that never comes back* (`stale_upload_flag`). A press in the selector turn in
   which an upload's header is taken drops the listener with `UPLOAD_ACTIVE` set.
4. *Direct calls over the buffered block* (`buf_stream_overlap`). They read old bytes, or
   are overwritten by a later flush. `buf_stream` shows, and `BufStreamProofs` proves, that
   this is the only way the stream, sliced or not, fails its promise.

Facts met on the way, which the properties allow for:

* `probe` reads through the CPU caches and the store verifies behind them: the pass after a
  store may still see the old image's metadata (flashboot.rs:125-126 promises the new one,
  flashboot.rs:180-182 explains why a stale line may be left). `LaunchIsTheStoredImage`
  excepts a stale view.
* A Bulk-Only Reset is thrown away between two commands (bot.rs:205) and races no data or
  status phase, though msc.rs:52-54 says that the loop abandons the phase in flight.
  What is left of the phase meets the next command; tags and short reads keep
  `StatusIsTrue` all the same.
* WRITE(10) does not look at `ejected` (bot.rs:396-413), so an ejected medium, which
  bot.rs:198-199 says reports as absent, is written and answers GOOD.
* A card error in the middle of a READ or WRITE, and a READ or WRITE of no blocks, leave
  host and device waiting for each other until the host resets. `InSync` excepts these
  (`hurt`), and `BackEndsTheSession` rests on that reset.
* A WRITE(10) whose command block is too short (bot.rs:397-400), and an empty command
  block (bot.rs:269-272), are refused without taking the data that follow, unlike the
  other refusals (bot.rs:402 and 417): the same wait, with the same exception.
* The waits for the SD card have no deadline (sd.rs:348-350 says so of a card that was
  swapped). In the mass-storage mode such a call holds the session, and BACK with it,
  for good.
* LOAD is sampled before the migration, the SSB pass and the SD initialisation; the
  comment at `LOAD_SEEN` (main.rs:49-52) says that a press any time before the decision
  counts. `RecoveryReachesTheMenu` speaks of the sample.
* `absolute` claims to be right while the count is off by at most half the ring's blocks
  (ring.rs:165-168). A count that is *ahead* is put right only below half: with two
  blocks, one stale interrupt puts the position a whole lap ahead. The boards use 8 and
  16 blocks. Also, lost interrupts add up, as nobody corrects the count: the bound is on
  all that were ever lost, not on those of a moment.
* A writer is told of an underrun when the cursor is before the frame that plays now, not
  before the word: up to a frame may play unwritten without an error, though
  ring_buffer.rs:39 and 216 do not say so. `ErrorsAreTrue` bounds it, from the writer's
  first cursor on: a call made before there is one, or after `set_lead`, has nothing to
  be late for.
* Neither copy looks at the position again after it: a copy held off for longer than the
  margin (a frame on the reading side) delivers torn words. `Hold` bounds that.
* A dropped `send_frame` leaves the DMA running and the panel selected with the bus free,
  although bus.rs:123-124 says that a frame's DMA cannot run while a CV write drives the
  bus. Its users await it to the end, all but usbmsc.rs:64, which races it with the USB.
* After a call of the slice that failed half-way, the slice's offset is behind the
  stream's, and its bound no longer keeps what is outside ("Limited segment",
  stream_slice.rs:30), until a seek. embedded-fatfs seeks before it reads or writes.

## Not modelled, and limits

* Two faults at once on one unit; a chip fault of a kind not among the six.
* Timing: the countdown may expire, a hold become long, whenever it is running.
* Drawing, wording, logging, the cursor; a choice is one of the kinds of entry.
* The byte level of the upload: packets, and a body that contains the magic. An image
  whose program headers point past its own end is outside `LaunchedImageIsWhole`.
* What a block holds whose device call failed: `ByteStream` promises nothing of it.
* `oled::init` (commands and DC line), blocking drawing, pads, LEDs and the baud switch of
  `pic::init`; two dropped frames.
* The rings' positional window, their halt on drop, the UART, and the first ring's
  descriptors; the ring's content is an index, so nothing is said of samples.
* Time before `start` and the tick ratio's set-up. 2^32 is 7 in the run; the 64-bit
  results do not overflow and are integers here.
* Mass storage: residues and counters; a data length that does not fit the command, or
  blocks past the end of the card, which a host that read the capacity does not ask for;
  data that look like a command; the USB controller below the two pipes.
* ELF parsing, the SD loader's copies, FAT; see `PROJECT.json` for the parts left out.

## Plan

Done: the protection, the boot flow, the settings and image checks, the menu race, the
block stream with its slice, the time driver, the display bus, the audio rings, USB mass
storage; and a proof of every safety property and action property that a passing run
checks.

Next, in this order:

1. Slot validation of stage0 as a pure operator against a reference, with the loader's
   choice between slots and XIP.
2. The rings' positional window and `ring_follow`, on top of `RingDma`: the lemmas about
   `absolute` in `RingBufferProofs` carry over.
3. FAT allocation under power cuts on top of `ByteStream`.
4. Two dropped frames on the bus, and a proof of what the panel shows after one.
