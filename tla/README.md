# U:Kit ESP8266 firmware: specifications and proofs

This directory holds TLA+ specifications of the firmware of the U:Kit sensor kit
(the repository beside it, paths below are relative to `src/`), the configurations
that TLC checks on small instances, and proofs that TLAPS checks for every value of
the constants.

- [1. The system](#1-the-system)
- [2. The modules](#2-the-modules)
- [3. The runs](#3-the-runs)
- [4. The proofs](#4-the-proofs)
- [5. Disagreements between the code and what is said of it](#5-disagreements-between-the-code-and-what-is-said-of-it)
- [6. What is not modelled](#6-what-is-not-modelled)
- [7. Plan](#7-plan)

## 1. The system

The kit has two processors. **CPU1**, an AVR, runs the sensors on a battery. It
switches the **ESP8266** on when it has something to say, sends it a command over
the UART, waits for one byte of answer and switches it off again. So every run of
the firmware is short, a loss of power is the normal end of it, and what has to
survive is in flash. The firmware is event driven: timers, network callbacks and
the UART callback run one at a time on the task loop of Sming; only the interrupt
of the UART comes in between.

`FW1` is the firmware of CPU1 and `FW2` that of the ESP8266. The ESP8266 fetches
both, boots FW2 through rBoot from one of two ROM slots, and writes FW1 to CPU1
through CPU1's bootloader TSB.

    CPU1 --UART--> Cli --calls--> core commands --> MQTT client --> respondAndHalt
      ^             ^             SmartConfig  --> AppData (flash)
      |             |             ota command  --> FwUpdater --> server
      |             | setFlag                      |      |
      |             WIFI events                    |      +--> ROM slots, rBoot
      +--TSB--- FwUpdater::postUpdate <--next boot-+ mark, region (flash)

| Component | Code | State | Operations | Hard part |
|---|---|---|---|---|
| Command line | `lib/core/cli.{h,cpp}` | `currentCommand`, `flag`, `pendingCommands`, the receive buffer | `commandProcessor` per byte, `setFlag`, `unsetFlag` | bytes arriving between callbacks and during a replay; one shared `currentCommand`; queueing while the network is down |
| Command table, boot | `app/application.cpp` | the table | `init`, `ready`, `connectOk`, `connectFail` | order of postUpdate, the mount and the command line |
| Updater | `lib/core/updater.{h,cpp}`, `app/commands/ota.h` | `fw`, the ROM configuration, `otaUpdater`; in flash the ROM slots, region and mark | `check`, `doUpdate`, `updateCallBack`, `postUpdate` | loss of power between two flash writes; a second check; temporary ROMs |
| Update mark | `updater.cpp` 350-417 | three flash words | `storeMark`, `readMark`, `clearMark` | a torn write must not be valid |
| TSB | `lib/core/tsb.{h,cpp}` | device info, CPU1's flash | `connect`, `writeFlash`, `run` | lost and late bytes, retries at a later boot |
| SmartConfig | `app/commands/core.h` 93-273 | `mode`, `wifiConnectionTimer`, station configuration | the SDK callback, `checkSmartConfigConnection`, `cmdModeSmartConfig` | callback, timer and WIFI events in any order; one timer for two checks |
| Application data | `lib/core/app-data.{h,cpp}` | owner, host, flags in flash | `load`, `save` | torn writes |
| MQTT and halt | `application.cpp` 101-141, `core.h` 63-89 | `mqtt`, `globalResponse` | `getMqttClient`, `sendAndHalt`, `respondAndHalt` | the first acknowledgement halts the device |
| SmartConfig messages | `lib/core/scproto.{h,cpp}` | none | `hashCode`, `compareChecksum`, `parse` | lengths at the boundary |
| Crash record | `lib/core/crash.{h,cpp}` | crash counts per ROM in flash | load, save, the crash callback | byte counter, temporary ROMs |
| JavaScript | `app/commands/jsvm.h`, `lib/jsvm` | the machine, its timer and queue | start, stop, tick | ticks still queued at a stop; failed starts |
| Web server | `app/commands/webserver.h` | the server | start, stop | stopping twice |
| Test commands | `app/commands/testmode.h` | flags, ROM | save, restart, switch of the ROM | two tests in place of one |

What makes the modelled components correct:

- **Command line.** Each command is executed once, in order, with its own parameters;
  nothing received is left behind; a queued command is replayed before a later one;
  `setFlag` returns.
- **Updater.** rBoot's slot can be booted at every instant; CPU1 runs an image or can be
  given one; a stored image is delivered; CPU1 is told not to reset only when nothing
  awaits the next boot.
- **Mark.** However a write is cut short, the mark reads as none or as what was stored.
- **TSB.** A success reported with the right page size means that CPU1's flash holds the
  image; the call returns.
- **SmartConfig, application data, MQTT.** A phone's message is read as it was sent or not at
  all; CPU1 gets at most one answer for it, and only when the password is in flash; the
  WIFI flag is never stored without a configuration behind it; a check of a connection
  concludes; the device is registered with its new owner.
- **Crash record.** A ROM is blamed for its own crashes only.
- **JavaScript.** The timer runs only while there is a queue for its ticks.
- **Test commands.** A temporary switch of the ROM ends.

`PROJECT.json` lists the hazards of the code one by one, each at its line, with the
properties that cover it.

## 2. The modules

| Module | What it is |
|---|---|
| `CommandBus` | abstract: what CPU1 may expect of the command line |
| `CommandTable` | the commands of `init()` and the rule of `addCommand` |
| `Cli` | the command line interpreter, the UART and the network flag |
| `FwDelivery` | abstract: what the updater promises about FW1 |
| `Updater` | update command, check, downloads, callback, boot, postUpdate |
| `FwMark` | the words of the mark, erased and programmed bit by bit |
| `Tsb` | postUpdate's conversation with CPU1's bootloader, byte by byte |
| `ScProto` | the messages of SmartConfig: checksum, decoding, elements |
| `SmartConfig` (extends `ScProto`) | configuration by a phone, application data, MQTT client, halt |
| `JsVm` | start, stop and tick of the JavaScript machine |
| `TestMode` (extends `JsVm`) | ROM switch, restart, crash record, rBoot's choice of the ROM |
| `MCCli`, `MCUpdater`, `MCTsb`, `MCSmartConfig` | small instances for TLC |
| `CliProofs`, `UpdaterProofs`, `FwMarkProofs`, `TsbProofs`, `ScProtoProofs`, `SmartConfigProofs`, `TestModeProofs` | theorems and proofs |
| `SeqLemmas` | lemmas about sequences that `CliProofs`, `TsbProofs` and `ScProtoProofs` share: what is left of a line after a byte is taken, lost or added |

Operators marked `Mutant:` in a module are changes a bug could make of the definition
after them. No specification uses them; each shows that some property depends on the
definition.

### Cli

`rx` is the receive buffer and `events` the number of receive callbacks the interrupt
has posted and the task loop has not run. `DataReceived` is one such callback,
`commandProcessor` on the UART. `CommandProcessor(s, streams)` is that function on any
stream `s`; its four disjuncts are its four ways out: `Skip` (no such command),
`Await` (too few bytes), `Enqueue` (the type is not enabled; an early return, which
leaves `currentCommand` set) and `Execute`. `SetFlag`/`UnsetFlag` are the calls of
`connectOk` and `connectFail`; each turn of `setFlag`'s loop is a `Replay` step because
bytes arrive during the loop, and while `replaying` is not empty no other task runs.
The two histories `sent` and `executed` are for the properties only.

Abstractions: a byte is a model value or a code of the table. CPU1 sends a whole frame
before it starts the next. The overflow of the UART's buffer is left out.

The framework's serial driver is not in the repository. It is taken to call
`commandProcessor` once for each received byte and to pass, as the code does at line 63, the
number of bytes that are available at the time of the call. A driver that counts in
the interrupt would pass an older number (noted in `PROJECT.json` at `cli.cpp:92`).

### Updater

Each flash write is a step of its own: `FetchBegin` and `FetchDone` around the contents
of an item, `SwitchRom`, `StoreMark`, `ClearMark`, and `TsbBegin` and `TsbProgrammed`
around the pages of CPU1. `PowerCycle` may come between any two. `intact` is the set of
slots with a complete image. The mark is represented by the image whose size it holds,
so two images have two sizes; `Garbage` is any other valid size. `phase` is where the
firmware is in its code: `connecting`, `programming` and `programmed` in postUpdate,
`switching` and `marking` inside updateCallBack. `StoreMark` includes the byte sent to
CPU1 and the request of the final restart.

`fw` is reset only at a boot, as in the code, where `doUpdate` or-s to it.
`ItemExists` says whether `getItem(1)` is within the items; otherwise `ItemSizes` is
arbitrary and `Crash` is possible, as reading beyond a vector is undefined.

`System.restart()` (lines 186, 230 and 250) is external. It only asks for the restart and
returns, as Sming's does; `Restart` may come at any later moment, or power may be lost
first. So after `UpdateCallBack` with FW2 alone the firmware may run on to line 189, to
`SwitchRom` and `StoreMark`, or be restarted before either.

`Offers` is the set of the server's possible answers to a check, and `EmptyAnswers` the
firmware whose request it may answer with nothing, which writes nothing and counts as a
success (`FetchEmpty`). With FW1 in it `item.size < 1` at line 199 is reached. With FW2 in
it the ROM is switched to a slot that was never written, since the code looks at the size
of item 1 only; so the properties that need it say that FW2 is not in it, and section 5
shows what happens when it is.

Assumptions: `ENABLE_OTA` and `ENABLE_OTA_TSB` on, `ENABLE_OTA_DEFAULT_ROM` and
`TSB_CHECK_HEX` off, as in the makefile; the mode in which a GPIO pin boots the factory
ROM is left out; a booted slot without a complete image stays off.

`Updater` treats the mark as one write and the programming of CPU1 as a begin and an
end. `FwMark` and `Tsb` open those two up: `ReadsGoalOrNone` is why a cut write of the
mark is "not written" in `Updater`, and `WrittenIsFlashed` is why `ClearMark` follows
`TsbProgrammed` only with the image in CPU1. Both `Updater`, in whole steps, and `Tsb`,
byte by byte, are shown to implement `FwDelivery`, `Tsb` with the exception below.

### FwMark

A word is a set of bits. Erasing sets bits in any order, programming clears bits of one
word after another. A power cut during the *erasure* is excluded from the property
(`torn`): the bits it leaves are the flash's choice, and already with three bits a valid
mark of a size nobody stored is among them.

### Tsb

`toBoot` and `toHost` are the bytes on the line. Every `readBytes` of the code is one of
the states in `Waiting`, and its timeout of a second is `Timeout`, possible whenever
nothing has arrived. Any byte on the line may be lost (`Lose`), either side may be reset
at any step, and bytes the firmware sent before it lost its power still reach the
bootloader. A boot empties the buffer of the UART, so answers to an earlier boot that
have arrived are gone and those still to come are not.

The bootloader is not in the repository. It is modelled from `tools/tsb_sim.py` and from
the calls of the firmware, as a machine that waits for a whole page. CPU1's real
bootloader may leave a page it waits for too long; that corresponds to `Reset`.

`Uninitialised` is the set of values the page size may have when the device info was
read short: `tsb.cpp:232` takes any length but 0, and `page_size` is then what the heap
held. The run has the right one and a wrong one, `{2, 4}`. With a wrong one `writeFlash` may
report a success that is none, so `WrittenIsFlashed` claims something only of boots that
are `Sized`: `page_size` is CPU1's. That is not a weakness of the model but of the code, see
section 5. What a boot with a wrong page size leaves behind, on the line, in the
bootloader and in the flash, is met by the boots after it, and they are covered.

`Drops` and `Restarts` say whether bytes on the way to CPU1 may be lost and whether CPU1
may be reset; the run has both. Which images can be relied on depends on them, because
the bytes of a page are sent as they are, without a length or a checksum, and may be any
of the protocol's own. `PlainImages` says so page by page:

- if CPU1 may be reset, no `F` follows three `@` in a page (`Calm`): a bootloader that
  has lost its place would be woken by the one and told by the other to start over;
- if bytes may be lost, no `F` follows a `?` in a page (`Ended`): without the `!` before
  it, the page would end the writing and start it over;
- if CPU1 may be reset, the same of the `@`s and `F`s of the whole image, padded for a wrong
  page size (`Whole`): with pages of another size CPU1 may be several pages behind, and
  what a reset leaves it to take for commands is more than one page.

If neither can happen every image is plain. The first two conditions are needed, see section 5;
the third is what the proof uses, and TLC has found no image that needs it. An
image that violates one is not always written wrongly: it takes two faults in the right
places.

`DeliversUnlessMisread` refines `FwDelivery`'s safety part: `pending` is
the image from the first boot that tries to install it until `writeFlash` reports it as
written, and `cpu1` is what the flash holds: the image, what was there before, or a mix
(`Program`). So a page is only overwritten while an image is pending that will complete
it, and bytes that are still on the line after a reported success change nothing. Every step is
one of `FwDelivery` or a stutter, except those into, within and out of a state where a
success was reported with a wrong page size (`Misreported`); the next boot ends that state. A
delivery in the end is not claimed here: this run bounds the boots, and `Updater` has it.

### ScProto

`Parse` is `ScProto::parse` on the bytes that base64 decoding leaves: the checksum as
a hash in a word of four bytes, the exclusive or with the device's key, the loop over
type, length and value, and the `HashMap` that keeps one value for each type. `Encode` is
what a phone has to do for that and is not in the repository. A byte has `Radix` values; of
256 the model uses that 31, with which the hash multiplies, has an inverse modulo it
(`RadixAssumption`), and of the exclusive or that it undoes itself (`KeyAssumption`). The
numbers are the code's otherwise: a hash has four bytes, and the first difference between
two hashes may be in any of them.
Messages shorter than the header of five bytes are left out (a hazard): the length of
the data is then negative and the outcome depends on what the buffer held.

### SmartConfig

`Link` is the SDK's callback with `SC_STATUS_LINK`: `Unreadable` or `Obey`, which is the
loop over the elements and what follows it. `LinkOver` is the callback with
`SC_STATUS_LINK_OVER`. `CheckConnected` and `CheckNotConnected` are the two branches of
the timer's `checkSmartConfigConnection` that do something; while the station is
connecting the timer goes on. `CheckOta` is its other check, which starts the update of
`Updater`. `timer` says which of the two it runs, since both use one timer and the later
element of a message replaces the check of the earlier one.

A handler that writes flash is cut at each write. `Persist` writes the station's configuration
(one write of the SDK), and `AppData::save` is `EraseSector`, `WriteMagic`, `WriteOwner`
and `WriteFlags`: the words of one `spi_flash_write` in their order, as power may be lost
between any two. `Respond` or `Return` ends the handler, and no other callback runs before.
`Respond` is `respondAndHalt`: the release build sleeps, the test build goes on; `release`
is a variable, so that one run has both.

`mqtt` is the client with the owner it was made for. Deleting it leaves the state
`"deleted"`, because the pointer stays; what publishing with it does is undefined, and the
model lets it go on or crash. Events are `EventSent`, `EventRefused` and
`PublishCompleted`, whose acknowledgement halts the device.

Abstractions: of the station's configuration only the password is kept (`{}` for none);
of a mode only whether its first character is an `X` (`ModeOf`, `core.h:157`; `XByte` is the byte
that is one), since `X` is also the answer to a message that cannot be read; the blinking LED and the texts are left out. The
element `TYPE_CONTINUATION` is an unknown one to the code. Calls of the SDK succeed.
The histories `message`, `chosen`, `links`, `answered` and `forced` are for the properties;
`chosen` says that the mode was set by a phone since the last unreadable message.
`forced` becomes true when the WIFI flag is set by the test command `w1`, or power is
lost while the record is written: its magic number is written first, so a torn record
is loaded, with the flags of erased flash.

### JsVm and TestMode

`JsVm` has the steps of `cmdPlayJS`, of its timer and of its task. `corrupt` records that
something undefined was done: a function run while the engine is down, a queue used or
freed after it was freed. It is reached by ordinary use (section 5), so no property says
that it is not; after it the firmware may crash at any time. What a script does is whether
its functions succeed. The case of a failed `setup` is `JsSetupFails`: the code goes on to run
`loop` on the deleted machine, and what comes of that is open. A missing file changes
nothing and has no step.

`TestMode` has the commands that change something, the crash callback and rBoot. Commands
stay possible in phase `"restart"`, since `System.restart()` only asks for the restart.
`Crash` is possible at any time, by the command `k1` or otherwise. The record is written as
in SmartConfig, magic number first, then the count of each ROM; `torn` is the history that
this was cut short. A count has `CountRange` values and wraps. The RTC memory survives
a restart and not a loss of power; the temporary ROM in it is booted once.

## 3. The runs

| Run | Instance | Shows |
|---|---|---|
| `cli_release` | release table, codes `0` and `3`, 3 frames, network up and down | `TypeOK`, `NoStrandedInput`, `PendingFramed`, `NoOvertaking`, `ReplayTerminates` |
| `cli_simple` | test table, codes `l` (0 parameters) and `t` (3), 2 frames | `ImplementsBus`: the refinement of `CommandBus`, with its fairness |
| `cli_queued` | 2 frames | a violation, see section 5 |
| `updater_single` | 2 images, one update command a boot, none while a mark is set, every offer but FW2 alone, FW1 possibly empty, restarts at any moment after they are asked for | `TypeOK`, `Cpu1Recoverable`, `NoResetMeansNoChange`, `ImplementsDelivery` |
| `updater_any` | 2 images, one update command a boot, also while a mark is set, every offer, FW1 possibly empty, restarts as above | `Bootable`, `RunningIntact`, `MarkKept` |
| `updater_stale` | as `updater_single`, with two update commands a boot, every offer and no empty answers | a violation, see section 5 |
| `fwmark` | words of 3 bits, every size | `ReadsGoalOrNone` |
| `tsb` | pages of 2 bytes, a short device info read as 2 or 4, 12 plain images of 2 and 3 bytes with the protocol's own bytes, losses and resets, 3 boots | `TypeOK`, `WrittenIsFlashed`, `WriteReturns`, `DeliversUnlessMisread` |
| `smartconfig` | bytes of 3 bits, a key of two bytes, 6 lists of elements, clear, encoded and damaged, 2 messages and 2 events a boot, both builds | `TypeOK`, `CommandsAreSent`, `FlagMeansConfig`, `AnsweredOnce`, `ReportedIsStored`, `UnreadableMeansX`, `CheckConcludes` |
| `smartconfig_owner` | the same | a violation, see section 5 |
| `testmode` | 3 ROMs, crash counts of 3 values, a queue of 3 | `TypeOK`, `BlamedHasCrashed`, `TimerHasQueue` |
| `rom_switch` | the same | a violation, see section 5 |

Why the bounds are enough:

- *Frames.* Parameters range over every byte of the instance, registered codes
  included, so two frames already give every confusion of a parameter with a command,
  and three give a queued, a replayed and a later one. The network may change at every
  step, without a bound. `?` stands for all bytes that are no command: the code does
  not tell them apart.
- *Images.* The updater compares images only for equality; two are enough for a region
  that does not match its mark. `MaxOtas` counts update commands between two boots, and
  the number of boots is unbounded, so updates of several boots do meet. A second update
  command in one boot is where `fw` lies, and is in `updater_stale`.
- *Bits.* Each bit is programmed independently; the theorem covers all widths.
- *Pages.* An image of three bytes has two pages, the last padded; one of two bytes fills
  its page and gets a page of padding after it. With a page size of 4 either is sent as one
  page that the bootloader takes for two. The images are those with `?`, `!` and `F` on
  both sides of the end of a page, an `@` before each, and a `?` or `!` that begins the
  second page, as far as they are plain. Three boots allow an installation
  that is interrupted, one that meets what is left of it on the line, and a last one.
- *Messages of a phone.* The lists have an element of each type, a type twice, the two checks
  in both orders, values of one and two bytes, and the empty list. A damaged message is
  every one that differs from a whole one in a byte after the first. (A changed first byte
  names another encoding; the checksum does not cover it, so the elements are then
  garbage that passes. The firmware cannot know, and the property leaves it out.) Two
  messages between two boots let an answer, a check or a client of the first meet the
  second; the number of boots is unbounded.
- *Crash counts, ticks.* A count of three values wraps at the third crash; the queue has
  its real length. The theorems cover every width and length.

Fairness:

- `Cli`: the UART delivers what is on the wire (`Arrive`) and the task loop runs
  (`DataReceived`, `Replay`, `ReplayDone`). CPU1 need not send and the network need not
  come up.
- `Updater`: CPU1 keeps switching the ESP8266 off and on (`PowerCycle`, `Boot`, weak),
  and of infinitely many attempts to install not all are cut short (`TsbBegin`,
  `TsbProgrammed`, `ClearMark`, strong). This is an assumption on the environment, not on
  the code; without it no retry can promise anything. Only `Updater`'s `ImplementsDelivery` uses it.
- `Tsb`: the firmware's own steps only (`Host`), which the task loop and the clock
  of `readBytes` justify. Nothing is assumed of the bootloader or the line.

- `SmartConfig`: a handler that has begun runs to its end unless power is lost (weak). An
  attempt of the station to connect ends (`AttemptEnds`, strong), which is the SDK's
  promise. The timer's check fires every five seconds; it is not useful while the station
  is in the middle of an attempt, and strong fairness says that it is not so at every
  firing. Nothing is assumed of the phone, the broker or CPU1. Only `CheckConcludes` uses it.

The specifications have no deadlock: a device without power can be powered again, and a
command line with nothing to do may still see the network change. TLC checks that.

## 4. The proofs

Every obligation of the modules with theorems is proved, with no assumption but those on
the constants in the modules (`TableAssumption`, `Updater`'s and `Tsb`'s `ImageAssumption`,
`MarkerAssumption`, `SizeAssumption`, `FaultAssumption`, `RadixAssumption`,
`KeyAssumption`, `MessagesAssumption`, `XAssumption`, `BoundAssumption`, `QueueAssumption`, `TestModeAssumption`) and the hypotheses named in
each theorem.

**CliProofs.**

- `TypeCorrect`: `Spec => []TypeOK` for every table.
- `QueueInFront`: `NoOvertaking` for every table. `NoOvertaking` is about steps; the
  invariant behind it is `QueueDisabled`, that the queue of an enabled type is empty
  unless a replay is running. A command that is executed has an enabled type.
- `InputRead`: `NoStrandedInput`, assuming `OneByteTable` (the shape of the release table:
  at most one parameter byte, exactly one for a command that may be queued). The
  property is not inductive. `InputInv` says that at least one callback is to come for
  each unread byte, `Len(rx) <= events`, and that a command in hand waits for one byte. Every
  callback then reads a byte if there is one.
- `QueueFramed`: `PendingFramed` under the same assumption; the frames are appended
  whole and the queue is empty when its replay ends.

- `DeliversCommands`: every step is a step of `CommandBus` or a stutter, assuming
  `SimpleTable` (every command is enabled without the network and CPU1 sends as many
  parameters as the table says; any number of parameters). The invariant `BusInv` says
  that the bytes not handled yet, `Unhandled`, carry the frames sent and not executed,
  one behind the other. `Carries` states that by the places where each frame ends, so
  that no recursive definition has to be reasoned about. One call of `commandProcessor`
  takes the head of what is carried (`CarriesHead`, `CarriesRest`): a code, or a whole
  first frame, or nothing because the parameters are not there yet.

`OneByteTable` is needed: with a command of three bytes a call may find bytes and read
none of them. So is `SimpleTable`: section 5 shows what a queued command's parameters become,
and what happens when CPU1 sends more parameters than the table says.

**UpdaterProofs.**

Each theorem names the conditions it needs; without any one of them TLC finds the property
violated (section 5, and for one update command a boot `MaxOtas = 2`):
`OneOta` is one update command between two boots and none while a mark is set;
`Fw2Answered`, that FW2's request is never answered with nothing; `Fw2NotAlone`, that FW2
is never offered alone. None assumes anything of `System.restart()` but that the restart, if
it comes, comes after the call.

- `TypeCorrect`, `RunningSlotKept` (the running slot is never overwritten unless it was
  booted as a temporary ROM) and `MarkIsKept` (`MarkKept`) hold without conditions.
- `AlwaysBootable` holds with one update command between two boots (`MaxOtas = 1`), also
  while a mark is set, and `Fw2Answered`.
- `NoResetSound` holds under `OneOta`, whatever is offered and answered.
- `AlwaysRecoverable` and `DeliversFirmware` (every step is a step of `FwDelivery` or a
  stutter, with the mark as the pending image) hold under `OneOta` and `Fw2NotAlone`.

The invariant has six parts. `OneUpdate` says how far the one update of this boot has come:
the bits of `fw` are then exactly the types offered, which is what makes `getItem(1)` and the tests
of `fw` right. `RomInv` says that the configured ROM is the one read at the boot until FW2 has been
fetched, and that nothing is fetched after that. `SlotInv` says that the
configured slot is complete, and that the other one is once it has been fetched.
`MarkFree` says that nothing is marked while an update is under way, `AnswerInv` that after an `X` no
mark is set and the restart has been asked for if the ROM was changed, and `MarkInv`
relates mark, region and CPU1: while CPU1 is incomplete the mark is an image and the region
holds it. None of the properties is inductive without them: `Bootable` survives `SwitchRom`
only because the fetched slot is complete, which holds only because `fw` tells the truth.

**FwMarkProofs.** `TornMarkHarmless` proves `ReadsGoalOrNone` for words of every width. The
invariant `Progress` says which words are still erased: with the first word cut short
the checksum is all ones and matches no size; with the checksum cut short it has more
bits than the size and does not match.

**TsbProofs.**

- `TypeCorrect` holds without conditions: no page beyond the last is sent and no partial
  page is written, whatever is on the line.
- `WrittenCorrect` (`WrittenIsFlashed`) holds for every page size, flash and number of boots,
  and for every set of wrong page sizes, under `PlainImages` alone. Without losses towards
  CPU1 and without resets of it that is a statement about every image.
- `DeliversByBytes` (`DeliversUnlessMisread`) needs `TwoPages` as well: images of at least a
  page, and two pages of flash. A program of one page would be replaced in one step,
  which `FwDelivery` does not have.

`WrittenIsFlashed` is far from inductive. No byte says which question it answers, which page
it belongs to or which boot it is from, so the invariant has to say why an answer is
nevertheless the answer to the last question. The reason is that after each `Connect`
the bootloader is woken at most once, and that from then on each side waits for the other:

- `InfoInv`: a device info on the line is an answer to this boot's wake-up, and nothing
  older is behind it or before the bootloader, since it left no `F` there.
- `AskedInv`: a request on the line is the last byte there is, the bootloader waits, and
  the pages before it are in CPU1. `UnaskedInv`: without one, either the page is on its way
  whole, or there are too few bytes left for the bootloader ever to ask again in this boot.
- `ConfirmInv` and `DoneInv`: the end is confirmed only with all pages in CPU1, and
  nothing that is still on the line then makes the bootloader write.
- `ListenInv` and `WakeInv`: a bootloader that listens is not woken and told to write by
  the bytes of a page, in the one case because the page is calm, in the other because
  CPU1 listens only until it is woken first.

A lost byte turns the first alternative of `UnaskedInv` into the second. That is where
the plain images are needed: the bytes left, shifted by one, must not contain the end
of the writing and a new `F`.

All this is said of boots with the right page size (`SizedInv`). With a wrong one less holds,
and `AnyInv` is enough for the boots after it: the wake-up and the device info are as with
the right one, and while CPU1 listens and the pages are being sent, the bytes before it that
could wake it or tell it to write (`Steers`) stand in the order of the image (`SentInv`,
`Placed`), so that they do not do both when the image is calm as a whole.

**ScProtoProofs.** What `Parse` computes, for every key, every number of byte values and
messages of any length. `Parse` and `Encode` are recursive functions and folds, and the
rule of induction of the library takes a predicate, which the provers cannot instantiate.
The proofs use a set instead: `SetInduction` says that a set of numbers with 0 in it, and
with each n the number after it, has all of them, and follows from the library's fact
that a set of numbers that is not empty has a least element. What a proof by induction
would call P(n) is the set of the n for which it holds. With it a fold is the last of a
sequence of values, each made from the one before (`Folds`, `Steps`), a recursive function
is the one with its equation (`LoopExists`), and the rest is about such sequences:

- `TextParsed`: the loop over the text of a list gives that list. `RestOfList` says that
  from the end of the text of the first n elements it gives the others, from the last
  to the first.
- `EncodedParsed`: with the encoding and the frame. The exclusive or with the key is undone
  byte by byte (`ClearTwice`), and the table that `Put` builds has the last element of each
  type among those it has seen (`Agrees`).
- `DamageFound`: nothing is made of a message in which one byte after the first was
  changed. In the checksum that is seen at once. In the data, the hash differs from the
  changed byte on and stays different (`HashTellsByte`), since multiplying by 31 loses
  nothing in a word (`Cancel`, `HashStepInjective`); and two words that differ do so in one
  of their four bytes (`HashBytesTell`). Two wrong bytes may cancel, and nothing is said of them.

**SmartConfigProofs.** All for every set of messages, owners and bounds. `MessagesAssumption`
says that the values of a message fit in their length and in the buffer of the loop, and
that the owners in it are in `Owner`; TLC evaluates it for the instance.

- `CommandsCorrect`: `CommandsAreSent`, for the last message of a phone at any time, from the
  theorems of `ScProtoProofs` and `MessageInv`: the message remembered is one that was
  received, or none.

- `AnswersBounded`: `AnsweredOnce` is not inductive, as it says nothing of answers under
  way. `AnswerInv` counts them: one is owed while the timer checks a connection or while
  the SDK may still report one, and one by a handler that is about to answer. That these
  never add up to more than the messages is what keeps callback and timer from both
  answering: `LinkOver` stops the timer, and `CheckConnected` stops SmartConfig.
- `FlagBacked`: `ConfigInv` carries the flag from flash to RAM and back, and says that a
  station with a connection has a configuration, so that `Persist` never writes an empty
  one.
- `PasswordStored`: `ReportInv` says that the station has the password of the last
  message from then on, and that flash agrees with it in every handler that will answer.
- `UnreadableAnswered`: `ReadInv` says that in the release build `mode` is an `X` that no phone
  chose only inside the handler of an unreadable message, because the device sleeps at
  its end.

**TestModeProofs.** `TimerIsSafe` (`TimerHasQueue`) is inductive with the types. `BlameIsFair`
needs `BlameInv`: the counts in the callback's frame are fair before they are in flash,
and a record being written agrees with the frame as far as it has come.

**Only model-checked:** liveness (`ReplayTerminates`, `WriteReturns`, `CheckConcludes`, and the
fairness in `ImplementsBus` and in `Updater`'s `ImplementsDelivery`), which is out of the
prover's reach. Every other property of the passing runs, and so every invariant, is
stated by a theorem.

## 5. Disagreements between the code and what is said of it

Each is a run in which TLC finds the property violated.

| Run | What happens |
|---|---|
| `cli_queued` | A command that is queued is replayed with its own code as its parameter: the early return at `cli.cpp:105` leaves `currentCommand` set. |
| `updater_stale` | `fw` is never reset: after an update of FW2 that failed, or was replaced by the next, one of FW1 alone switches to the broken slot. |
| `smartconfig_owner` | The check of a new password deletes the MQTT client without resetting the pointer (`core.h:247`), so the client that registers the device is the deleted one, of the old owner. |
| `rom_switch` | The command `r0` sets the temporary ROM and falls into the branch that switches the configured one (`testmode.h:124`). |

Others were met whose instances are not among the runs. Most go against what the program is
for and against no text of the repository. Each can be seen by changing a constant or a
formula:

- In the test build the three-parameter command `t` makes `setFlag` spin for ever on a
  queue that ends in the middle of a command (`cli.cpp:62`): `ReplayTerminates` with `Chosen` and
  `Command` as `{"3", "t"}` and `TestMode = TRUE` in `MCCli_release.cfg`.
- `smoke` is registered with one parameter (`application.cpp:213`) while
  `tools/mcu2-serial.py:30` sends two and the handler prints two. The second is taken for a
  command: `ExecutedWasSent` with a `PeerSize` of 2 for `"1"`.
- An update of FW1 while a mark is set downloads over the region the mark is about
  (`updater.cpp:153`): `Cpu1Recoverable` with `OtaWhilePending = TRUE` in `MCUpdater_single.cfg`.
- An image with an `F` behind a `?` in one page is reported as written although CPU1 does
  not hold it, when two bytes are lost (`tsb.cpp:105`): `WrittenIsFlashed` with `MCImages` as
  `{<<"?", "F", "a">>}`. With `PageSize = 4`, `Uninitialised = {4}`, `Drops =
  FALSE` and the image `<<"@", "@", "@", "F", "a">>` a reset does the same.
- When FW2's request is answered with nothing the ROM is switched to a slot that was never
  written (`updater.cpp:189`), as only FW1's size is looked at (lines 192-204): `Bootable` with
  `EmptyAnswers = {"FW1", "FW2"}` in `MCUpdater_any.cfg`.
- `System.restart()` returns, so that after an update of FW2 alone the code goes on: the ROM is
  switched for good without the trial (`updater.cpp:186-189`), and `getItem(1)` reads an
  item that does not exist, whose size may become the mark: `Cpu1Recoverable` with `{"FW2"}` added to
  `Offers` in `MCUpdater_single.cfg`.
- Booted as a temporary ROM the firmware takes the slot it runs from for the free one
  (`updater.cpp:139`): `RunningIntact` without its premise `running = bootConfig`.
- With a device info cut short the page size is arbitrary (`tsb.cpp:232`), and `writeFlash` may
  report a success with only the first page of the image in CPU1: `WrittenIsFlashed` without its
  premise `Sized`, with the image `<<"a", "a", "?">>`.
- Starting, stopping and starting a script (`application.cpp:231`) frees its queue twice
  (`jsvm.h:80`, `123`), and a failed start leaves the machine deleted under a running timer
  or runs `loop` without one (`jsvm.h:106`): `INVARIANT ~corrupt` on `TestMode`.

## 6. What is not modelled

Outside the first-party code: JerryScript (nearly all of the lines under `src/`), Sming, the
SDK, rBoot and the web tools. They appear as external actions where the firmware uses
them. Of the firmware:

- the **web server command**: two calls of a server that is not in the repository, left out
  of the build by default; what stopping or starting it twice does is that server's affair;
- **`info.cpp`, `misc.cpp`, the printing commands, `ShowInfo`**: they keep no state;
- **mounting the file system** and the **ready byte** of the boot: no state of the models
  depends on them;
- `migrate`, `removeCommand`, `readUserData`, `writeUserData`, `setPassword`, `setTimeout`:
  never called, or without effect;
- failures of the SDK's flash calls, and the overflow of the UART's buffer;
- the base64 decoder, and messages shorter than their header.

## 7. Plan

The command line and the updater came first: the one is the only way in, and the other
can make a kit useless. SmartConfig with the application data, its messages and the MQTT
client, and the test build with the crash record and the JavaScript command, followed.
Every first-party component that keeps state is now modelled, except the web server
command. What is left:

1. **Composition**: the command line against the handlers, with a reset that clears
   everything but flash and RTC memory.
2. **Proofs**: the refinement of `CommandBus` for tables with queued commands, once the code
   resets `currentCommand` when it queues one.
