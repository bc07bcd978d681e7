# A verification development for chan_svistok

This directory holds TLA+ models of the dongle driver of this repository
(`asterisk-chan-svistok/asterisk-chan-dongle`), the TLC configurations that
check them and proofs that TLAPS checks. File names without a directory are
names in `asterisk-chan-dongle`; `sdk/` stands for the top-level `src/`, the
Simbox SDK that runs the driver without Asterisk.

Contents: [the system](#the-system) ·
[what is hard](#what-is-hard-and-the-properties-it-calls-for) ·
[AtQueue](#the-command-queue-atqueue) · [Calls](#calls-calls) ·
[DeviceLife](#the-life-of-a-device-devicelife) ·
[Service](#initialization-registration-and-messages-service) ·
[MixBuffer](#audio-mixbuffer) ·
[AtRead](#reading-the-port-atread) · [Discovery](#looking-for-modems-ports-and-discovery) ·
[Sdk](#the-sdk-sdkcommand-sdkcalls-sdk) ·
[FindDevice](#choosing-a-device-finddevice) ·
[proofs](#what-is-proved) · [runs](#the-runs) ·
[disagreements](#where-the-code-and-its-words-disagree) ·
[limits](#what-is-not-modelled-and-why) · [plan](#plan).

## The system

A GSM dongle offers a data port that speaks AT commands and an audio port. The
driver gives each configured dongle a `struct pvt` with its own lock and, while
the dongle is connected, a monitor thread. One discovery thread connects and
disconnects all of them.

| Part | State it keeps | Operations | Talks to |
|---|---|---|---|
| AT command queue, `at_queue.c` | `pvt->at_queue`: tasks, each a list of commands with the answer expected, a timeout and "failure may be ignored"; counters `at_tasks`, `at_cmds` | insert at the tail or behind the head, write the head command, take a result, time left, flush | every command builder calls it; it writes the data port |
| Monitor thread, `chan_dongle.c: do_monitor_phone`, `at_read.c` | ring buffer of unread input | wait with a timeout, read, cut into results, hand each to `at_response`, ping, disconnect | queue, response handlers, modem |
| Command builders, `at_command.c` | flags of the call they act for | one function per task: initialize, dial, answer, hold, hang up, SMS, USSD ... | queue |
| Response handlers, `at_response.c` | `pvt` flags (`ring`, `cwaiting`, `dialing`, `incoming_sms`, `initialized`, registration ...) | one per result or unsolicited code | queue, calls, Asterisk |
| Calls and channels, `cpvt.c`, `channel.c` | list of `struct cpvt` (index, direction, state, flags, channel), `chansno`, `chan_count`, `last_dialed_cpvt`, who reads the audio port | Asterisk callbacks (request, call, answer, hangup, hold, conference), `change_channel_state` | queue, Asterisk, modem events |
| Device life, `chan_dongle.c`, `helpers.c`, `dc_config.c` | `desired_state`, `current_state`, `restart_time`, `connected`, `must_remove`, `monitor_thread`, `terminate_monitor`; device list, `discovery_lock`, `unloading_flag` | discovery pass, start, stop, restart, remove, reload, unload | monitor, CLI, configuration |
| Port discovery, `pdiscovery.c` | cache of probed ports | find ports by IMEI, IMSI or serial number | sysfs, ports |
| Device selection, `chan_dongle.c` | last device used per group or provider | choose a device for a dial string | calls |
| SMS and USSD, `at_command.c`, `at_response.c`, `app.c` | `incoming_sms`, `outgoing_sms`, message index | send (command, prompt, text), read and delete a received message | queue, manager |
| Text conversion, `pdu.c`, `char_conv.c`, `at_parse.c` | none | build and parse PDUs and results | |
| Audio, `ringbuffer.c`, `mixbuffer.c` | read and write positions, one stream per call | write, mix, read | channels |
| Front ends, `cli.c`, `manager.c`, `app.c` | none | format and forward | all of the above |
| SDK, `sdk/simbox_api.c`, `simbox_modem.c` | registry of devices, one borrowed call and one pending AT command per device, call state cache | register, call, SMS, synchronous AT command, events | driver functions, shims in `adapters/` |
| SDK tools, `sdk/simbox_reader.c`, `simbox_programmator.c`, `simbox_discovery.c` | a file descriptor | blocking serial exchange | |

The threads that meet: Asterisk's channel threads, the CLI and manager threads,
a monitor per device, the discovery thread and the thread that unloads the
module. They meet in `pvt->lock`, the read/write lock of the device list and
`discovery_lock`. The modem and the network are a further actor: what they do
reaches the driver only later and in the order of the port.

## What is hard, and the properties it calls for

* **One wire, many clients.** Results carry no name. A result belongs to the
  head command only because nothing else is on the wire; a hangup inserted with
  priority must not take the head's place, a failed command must end its task
  or not as its flag says, and a failed `write` must not leave the queue with
  work that nobody will write (`SerialInv`, `AdvanceNeedsResult`,
  `NeverIdleWithWork`, `OrderKept`, `CountersMatch`, `SerialPromise`).
* **A call ends on two sides.** Asterisk hangs a channel up while `^CEND` of
  its call is on the way; the structure is freed by one of them, and the queue,
  `last_dialed_cpvt` and the channel all point to it (`NoDangling`,
  `OrphanTold`, `EndAnnounced`, `HangupKept`). The modem numbers calls only
  after it was told to dial; before that the driver makes a number up.
* **Cached state decides.** `ring`, `dialing`, `chansno`, `chan_count` decide
  what may be dialled and which hangup command is sent (`CountsMatch`).
* **One audio port, several channels.** Who reads and writes it changes with
  every hold and hangup (`AudioOnlyInCall`). What the calls write is mixed in one
  circular buffer with a write position per call, which must stay right when the
  buffer wraps, is emptied or overflows (`PositionsAgree`, `Mixed`).
* **A long setup with optional steps.** The initialization is a list of 23
  commands; some may fail, some failures end the connection, one continues in
  another task. `initialized`, `has_sms` and `has_voice` must end up true of the
  modem (`ReadyMeansTold`, `BecomesReady`, `MessageNeedsFormat`), and settings
  must survive lost registrations (`CcwaAgrees`).
* **Messages in several commands.** Sending takes two commands, receiving two;
  a failure between them must neither lose a message nor report it wrongly
  (`DeletesOnlyRead`, `ReportsHonest`).
* **Requests for later.** A stop, restart or removal may wait for a call to
  end, while the connection is lost, the file is read again, or a change is
  being carried out with the lock given up in the middle (`StopHonoured`,
  `ComesBack`, `GracefulSparesCalls`).
* **Threads that join threads.** The monitor is joined by the discovery thread
  or by unloading, holding locks the monitor may want (`ServedAsShown`,
  `FreedUnused`, `UnloadEnds`).
* **Whose turn it is.** Searches for a device to dial with take off and set marks in
  devices they lock one after the other (`Rotation`, `NoStarvation`).
* **Bytes have no frames.** A read of the port may end anywhere, some answers
  have their own form, the ring buffer wraps, and what an earlier session left
  unread shifts the parser (`Framed`, `Resynchronised`, `AllIsRead`).
* **Ports are shared with everybody.** Lock files, descriptors and a cache of
  answers are used by the discovery thread, the CLI, monitors and other programs,
  and every step may fail (`GivenBack`, `Answered`, `RoundEnds`).
* **A second set of threads.** A user of the SDK waits for answers that the
  monitor captures, with a buffer on its own stack, follows a pointer to a
  call the monitor may free, registers devices from several threads and shuts the
  instance down (`BufferSafe`, `OwnAnswer`, `CallReturns`,
  `NoLastingDangle`, `ConnectedOnce`).

The `hazards` of `PROJECT.json` give the line of each and what covers it.

## The command queue: AtQueue

`AtQueue.tla` models `at_queue.c` with the loop of `do_monitor_phone` around it.

| Model | Code |
|---|---|
| `at.queue`, `at.at_tasks`, `at.at_cmds` | `pvt->at_queue` and `PVT_STATE(pvt, at_tasks / at_cmds)` |
| a task `[id, cmds, cindex, sent]` | `at_queue_task_t`; `sent` is "length of the current command is 0" |
| `at.line`, `inbox` | the data port in its two directions |
| `monitor` | where the loop is: top, in `at_wait` with the time of a command (`cmd`) or the idle time (`idle`), or handling what it read (`read`) |
| `fetched` | how many results the last `at_read` put in the ring buffer |
| `at_queue_add`, `at_queue_remove`, `at_queue_remove_cmd`, `at_queue_run`, `at_queue_timeout` | the functions of these names, on the driver's record |
| `Connect`, `Disconnected`, `MonitorWaits`, `MonitorReads`, `MonitorTimesOut`, `MonitorPings`, `MonitorReadDone` ... | the exits and branches of the loop |
| `Insert` | any `at_enque_*` of another thread that holds `pvt->lock` |
| `HandleFinal`, `HandleErrorRequeue`, `HandleUnsolicited`, `HandleUnsolicitedInsert` | `at_response` with the handlers' effect on the queue, then `at_queue_run` |

A command is only the answer it expects (`OK`, the prompt, `+CMGR`) and its
ignore flag. `pvt->lock` is held during every insertion and every handled
result, so each is a step. `write` and allocation may fail at each call. The
monitor decides how long to wait in one step and waits in another, because it
gives the lock up in between. The modem answers a command with what is expected, a
bare `OK` or an error, and may send unsolicited codes at any time.
`at.werr` remembers that a `write` failed, and `refused` which insertion was
reported as failed; the code has no such variables, and no action tests them.

`AtSerial.tla` is the promise without the mechanism: a task that has begun owns
the modem until it ends, and nothing but an answer, a failed write or the loss
of the connection takes the modem from a command. `AtQueue` is checked to
implement it (`SerialPromise`) under the mapping at the end of `AtQueue.tla`:
the head is the running task, the rest wait.

Bounds: three task structures put a priority task between the head and a
waiting one (with two, the order of waiting tasks cannot be seen); the command
lists are those of dialling (ignorable, ignorable, mandatory), sending an SMS
(prompt, then `OK`; reading one has the same shape), the initialization and
the ping; two unread results let an unsolicited code stand before and behind an
answer. Tasks are interchangeable, but a symmetric state graph would be unsound
for the liveness property, so no symmetry is used.

Fairness (`FairSpec`): the monitor is a thread that is blocked only in `at_wait`
and in short critical sections, so each of its steps is weakly fair, and the
time of a command runs out. Nothing is assumed of the modem, of clients or of
failures. `HeadResolvesWhenQuiet` needs the premise that unsolicited codes stop
at some time; without it the property fails (`HeadResolves` in `AtQueueDisputed.cfg`).

## Calls: Calls

`Calls.tla` models the voice calls of one connected dongle: `cpvt.c`, the
callbacks of `channel.c`, the call commands of `at_command.c`, the call handlers
of `at_response.c`, and a modem with up to `MaxIdx` calls and a network behind it.

| Model | Code |
|---|---|
| `d.chans`, `d.call` | `pvt->chans` in order, and each `struct cpvt` |
| `d.chan[id]` | the `ast_channel` made for that call: `up`, `link` (its `tech_pvt`), `hup` (a hangup frame was queued), `used` (Asterisk dialled or answered it), `fd0` |
| `d.chansno`, `d.chan_count`, `d.ring`, `d.cwaiting`, `d.dialing`, `d.last` | the fields of `pvt` (`last` is `last_dialed_cpvt`) |
| `d.queue`, `executed` | the commands still to do, each task with its `cpvt`; whether the modem has executed the one on the wire |
| `net` | the calls as the modem has them |

The queue is used as `AtQueue` shows it behaves: one command at a time, its
result handled while it is the head, priority tasks behind the head. Commands
that change no call (caller id restriction, `^DDSETEX`, volume) are left out of the
tasks. `start_pbx` may fail to make a channel or fail to start the PBX;
insertions may fail. Each handler is one step with every call it makes:
`at_response_clcc`, for example, takes the lines of the list one after the other
(`ClccLine`, `AllLines`), and each may change a state, free a structure, move the audio
port or make a channel.

Bounds: two structures and two calls in the modem are the fewest for hold,
conference, call waiting and the audio port to change hands; two tasks waiting
and one unread message when another actor moves (each actor's own step may add
more). `MaxIdx` is at most 31, the driver's `MAX_CALL_IDX`; the
theorems below hold for all of these. The dial options "none" and "conf" both occur; "hold" differs from
"conf" only in not asking for the conference.

No liveness is stated: whether a call ends is up to the network.

## The life of a device: DeviceLife

`DeviceLife.tla` models one device from four threads: discovery `D`, the
monitor `M`, a command `C` (start, stop, restart, remove, or a reload) and the unloading
`U`. A step is what a thread does between two points where it may wait for a
lock or for the end of another thread; `pc` says where each is.

| Model | Code |
|---|---|
| `pvt.desired`, `current`, `when`, `connected`, `terminate`, `must_remove`, `thread` | `desired_state`, `current_state`, `restart_time`, `connected`, `terminate_monitor`, `must_remove`, `monitor_thread` |
| `pvt.uses` | a call (`chansno`), a message being read (`incoming_sms`) or sent (for which `outgoing_sms` stands, see below) |
| `lock`, `readers`, `writer`, `dlock` | `pvt->lock`, the list's lock, `discovery_lock` |
| `DTop` ... `DWakes` | `do_discovery` with `pvt_stop`, `pvt_discovery`, `pvt_start`, where `pvt->lock` is given up and taken again |
| `MTerminates`, `MLoses`, `UseEnds`, `MKicks` | the ends of `do_monitor_phone`, `disconnect_dongle`, `pvt_try_restate`, `discovery_restart` |
| `CAsks`, `CSchedules`, `CKicks` | `schedule_restart_event` |
| `CReloads` ... `CRemoves` | `reload_config` and `pvt_reconfigure`, loop by loop |
| `UUnloads` ... `ULoads` | `public_state_fini`: `discovery_stop`, `devices_destroy`; loading again |

`asked` records the last request, for the properties only. After a device is
freed under a running monitor, or `at_response_busy` reads a NULL task, the
program has no defined behaviour; the models take no further step there of the thread concerned,
and `FreedUnused` says whether the first happens.

Bounds: one device. The discovery thread visits devices one after the other and
shares no state between them but the list and the locks, which are modelled.
Nothing else is bounded; the configurations choose which requests
occur (see the runs), because the code does not keep every promise for every
kind of request.

Fairness: a thread that can go on does. A thread that waits for a lock gets it
if the lock is free again and again (strong fairness): lock holders are short
and requests, calls and passes are far apart. Calls and messages end
(`UseEnds`). A port that is tried again and again opens at last (`DOpens`);
without that no device need ever come back, whatever the driver does.

## Initialization, registration and messages: Service

`Service.tla` models what a connected dongle does besides calls: the
initialization task and the handlers of its answers, the registration with the
call waiting setting that follows it, SMS, USSD, and received messages.

| Model | Code |
|---|---|
| `s.queue` | the queue, each task the commands it still has to do |
| `s.initialized`, `has_voice`, `has_sms`, `registered`, `incoming`, `up` | the fields of `pvt` (`incoming` is `incoming_sms`, `up` is `connected`) |
| `s.restart` | a change of state asked for "gracefully", when "convenient", or due "now" (`desired_state` with `restart_time`) |
| `conf` | the settings that change the command lists; `send_ccwa_set` stores one |
| `InitCmds`, `at_enque_initialization` | the list of `at_command.c:141`, without what the configuration does not want, from a given command on |
| `at_response_ok`, `_error`, `_sms_prompt`, `_cmgr`, `_cmti`, `_creg` | the handlers of these names with `at_queue_handle_result` at their end |
| `Send`, `send_ccwa_set`, `Request` | the requests of `helpers.c` |
| `Connect`, `Lost`, `Stop`, `Ping` | `pvt_start`, the ends of `do_monitor_phone` (a port error, a timeout, a result that cannot be parsed), `pvt_stop`, the idle monitor |
| `net`, `Modem...`, `MessageArrives`, `RegistrationChanges` | the modem, its SIM and the network, which are not in this repository |
| `report` | what `manager_event_sent_notify` told the sender |

The queue is used as `AtQueue` shows it behaves: the head command is the one on
the wire. `OkEffect` and `ErrorEffect` name only the answers that change state.

Bounds: one SMS, one USSD request, one place of the SIM, each used again and
again (a message once); two queued tasks when anybody but the monitor acts,
which puts a client's task between the two halves of the initialization of a
modem without voice; one unread message when the modem speaks unasked, beside
the answer. Two configurations cover every optional command and both values of
each setting but `disablesms`, which only ignores received messages and is
`FALSE`. The modem may refuse what the driver
means to live with and two commands that end the connection; the other fatal
refusals take the same branch.

Fairness: the discovery thread connects, the monitor stops and handles
(`Connect`, `Stop`, `Handle`), and a modem answers what it is asked; one
that does not is `Lost` after the timeout. `BecomesReady` has a premise:
`Disturbs` names the losses, requests and refusals it does not hold against,
`KeptDown` the state in which `DeviceLife` shows a device may wait for ever.

## Audio: MixBuffer

`MixBuffer.tla` models the buffer in which the samples of the calls of one
device are mixed: `ringbuffer.c`, `mixbuffer.c`, and `channel_write` and
`timing_write`, which use them. `pvt->lock` is held in all of them, so each is a step.

| Model | Code |
|---|---|
| `rb` | `mb->rb`: content, `used`, `read`, `write` |
| `stream` | for each attached call its own `used` and `write` (`struct mixstream`) |
| `timer` | whether the device has a timer; without it a call writes straight to the port |
| `frame`, `port` | what the last step gave to `iov_write`, and what the port received |
| `sent` | the number of the next sample of each call (not in the code) |
| `rb_*`, `mixb_*`, `iov_write`, `timing_write` | the functions of these names |
| `channel_write_mixed`, `channel_write_direct` | the two branches of `channel_write` |

A cell is a sample of two bytes, and its content the set of samples added up in
it: `saturated_sum` is union. Samples carry the name of their call and a number,
so that a lost, doubled, late or misplaced sample is a different set. A frame of an odd
number of bytes (the FIXME of `mixbuffer.c`) is left out. Any attached call may write at any
time; `AudioOnlyInCall` of `Calls` shows that an active call is attached.

`Mixer.tla` is the promise without positions: one queue of moments and, for each
call, how far into it the call has written. Writing lays samples over the queue
from there on; a call without room makes everybody forget the oldest moments; a frame
takes the oldest ones. `MixBuffer` implements it (`Mixed`) when the cells
from the read position on are the queue and the counts the distances. The
audio of a call that is held and resumed starts at the read position again,
in the code as in `Mixer`, and may be mixed with its own older samples
(channel.c:272 asks "reset possition?").

Bounds: three cells and frames of two make every frame wrap somewhere; frames
of one, two and four samples are shorter than a port frame, equal to it, and longer than the
whole buffer; two calls; samples numbered modulo two, which separates the
neighbours a wrong position would confuse. The theorems below need none of these.
No liveness is stated: whether calls speak is up to them.

## Reading the port: AtRead

`AtRead.tla` models how the monitor cuts the bytes of the data port into
results: `at_read.c`, the search functions of `ringbuffer.c` it uses, and the read loop of
`do_monitor_phone`. `AtQueue` takes a result as one message; this module says when that is right.

| Model | Code |
|---|---|
| `frames`, `rest` | what the modem says, and the bytes of it not read yet |
| `rb`, `rb_memcmp`, `rb_read_until_mem_iov`, `rb_read_upd`, `rb_write` | the ring buffer and its functions, with the three parts a wrapped search looks at |
| `read_result` | the variable of this name: before a line break or behind it |
| `Read`, `Overflow` | `at_read` with any number of bytes; a full buffer |
| `Opened` ... `Line` | the branches of `at_read_result_iov`, one turn each, with `at_read_result_classification` |
| `delivered` | the texts given to `at_response` |

A token is one byte where the code looks at bytes, and otherwise the rest of a
word. `Texts` are the words of the answers that the parser only passes on; they are none of those it
compares with. `Tails` says how many bytes of an answer of an earlier session are still in
front; `damage` and `cut` are history variables that say which answers those
bytes, or a read that ended within a doubled line break, may have spoiled. `Framed` is about streams
without damage, `Resynchronised` about the others.

Bounds: sixteen tokens let every answer but the overlong one fit and make
two answers wrap; seven forms of answers, which are all the forms the code distinguishes
but the empty one; two of them in a run; tails of nothing and of
nine tokens. The theorems below need no more than that the buffer holds every answer but
the overlong one. `AllIsRead` assumes that the monitor goes on (weak fairness of `ReadNext`).

## Looking for modems: Ports and Discovery

`Ports.tla` has the descriptors and lock files (`lock_try`, `opentty`,
`closetty`), in the steps between which others may act; `Discovery.tla` the search for the
modem of a device: `pdiscovery.c`, `pvt_discovery` and `pvt_start`. `DeviceLife` takes
the search as one step that succeeds or fails.

| Model | Code |
|---|---|
| `fds`, `lock` | open descriptors; the lock file of each port, with the descriptor it names |
| `usb` | which modem is plugged in where, by model and interfaces |
| `cache`, `cache_search`, `cache_lookup`, `cache_update`, `Expire` | the list of answers with its read/write lock; an item is used after the lock is given up |
| `th[t]` | where `do_discovery` and "dongle discovery" are in a request: the port, its result, the descriptor |
| `Device` ... `Release` | `pdiscovery_check_device`, `pdiscovery_read_info`, `pdiscovery_do_cmd`, `pdiscovery_check_req` in order |
| `Opentty`, `Lock`, `Open`, `OpenFails`, `Monitor` | `opentty` and `start_monitor`, for a probe and for a device |
| `conn`, `Disconnect`, `Disconnected` | connected devices, and `disconnect_dongle` |
| `Unplug`, `Plug`, `ForeignLock`, `ForeignUnlock` | modems and other programs |

The audio port is opened and closed as the data port is and is left out;
its failure is the failing branch of `Monitor`. Ports configured by name are not
looked for and left out. The discovery interval is `Expire`, at any moment; the
wait for an answer to a probe is the failing branch of `Command`. After the use of a
freed item the model stops (`fault`).

Bounds: two USB devices and two modems, one device that wants an IMSI and one
that wants both numbers, two descriptors (one that is freed is taken by another thread,
and when a device is connected and a port is asked there is none left: the lock file can then
be neither read nor made, and the open fails), and one disturbance in a run: a modem
plugged in or out, a port taken by another program, or a list for the CLI,
which meets one modem at most (`start` of the budget). Opens, commands and threads may fail always.

Fairness: the discovery thread, and a CLI thread that has begun, go on and get
a lock that is free again and again; a monitor finishes its disconnection.

## The SDK: SdkCommand, SdkCalls, Sdk

The SDK (`sdk/simbox_api.c`, `sdk/simbox_modem.c`) gives a program functions
for what Asterisk does otherwise. `SdkCommand.tla` is the synchronous AT
command, `SdkCalls.tla` the calls of a device, and `Sdk.tla` composes them with the registry,
the event bridge and the end of an instance. One monitor thread does what both
say of the driver; it sends one report at a time.

| Model | Code |
|---|---|
| `resp` | `at_response_pending`, `_complete`, `_result`, `_buf`, `_size`, `_used`; `lines` is what the text in the buffer came from |
| `caller`, `AtBegin` ... `AtTimeout` | the threads in `simbox_at_command`: refused, registered, enqueued, answered, timed out after three seconds |
| `queue`, `line`, `Line`, `Result`, `Flush` | the driver's side: commands without an answer, the line being reported |
| `simbox_device_capture_at_response`, `Filled` | the function of this name, with its arithmetic on the buffer |
| `dev`, `user`, `Originate`, `Alloc`, `AnswerOrHangup`, `Use` | `cpvt`, `cpvt_adapter_owned`, `call_state`, and the functions that read the pointer and follow it later |
| `calls`, `monitor`, `Incoming`, `Change`, `Release`, `Attach`, `Fire` | the driver's calls, and the reports that reach `simbox_event_bridge_fire_*` |
| `devices`, `registrar`, `RegCheck`, `RegInsert`, `RegTell` | the table of devices and `simbox_device_register` with its lock given up twice |
| `inst`, `bridge`, `Active`, `Close`, `Destroy`, `Enter`, `Deliver` | `simbox_init`, `simbox_shutdown`, and `g_active_linux_instance` read without a lock |

`given_up` and `told` are history. `misused` names what dead memory was used;
the threads concerned take no further step.

Bounds: three callers, one of which calls from an event callback and so keeps
the monitor busy (three are needed for a wrong answer to be taken for another's);
buffers from one byte to more than a line; two users on two call structures;
two registrars and a table of three. `Parts` uses one part of the SDK to its bound or
each a little, because the parts share only the monitor thread and the end of the
instance. Fairness: a caller that waits is woken by its answer or by the clock.

## Choosing a device: FindDevice

A call is placed over a device's name, over the first device of a group or with
an IMEI that can dial, or over the next one "in turn" of a group, a provider or an
IMSI prefix. `find_device_by_resource_ex` writes the search out six times; they differ in
what they compare, which is `attr` of a kind here, and in whether they take
the first (`Walk`) or go round (`List`, `Search`). A search in turn locks every
device twice, to list it and to look at it, and other searches come between: whose turn
it is, is a mark in the device (`last_used`) that the listing takes off and
a successful search sets. The device found stays locked until `channel_request` has
made the call, or until an application that only asks (`app_status_exec`), which takes
a turn as well, has unlocked it.

`Rotation` is two promises: a search comes back empty only if no device could be had
all the time it went on (`Complete`), and, as long as searches in turn do not overlap,
none is taken twice while another one waits (`InTurn`), whatever marks overlapping
searches, failed searches and devices that have moved have left behind. When searches
overlap, one may list the devices while the mark is off, and begins from the second device
again: others may then be passed over any number of times, but not for ever
(`NoStarvation`), because the search that took the mark off goes on from it. A device that
gets another group, provider or SIM takes its mark with it, so a search during which
one moves counts as one that overlaps; what it leaves is repaired by the next search, and
the promise starts again there.

Bounds: three devices, so that "the next one" and "the other one" differ and the list
wraps; two threads; each device is or is not able to dial at any moment; one move to
another group, the safety with two moves and with two groups as well (1.7 million states); `MAXDONGLEDEVICES` is the number of devices, so that the list fills with the
last one (with fewer places than devices the rest is never found in turn; the
code has 128). Fairness: a search that has begun goes on.
Left out: a requestor's own device (`channels_loop`) and what makes a device
able to dial, which `Calls` and `Service` model. The reader's lock on the list
is held throughout, so devices are not added or removed; `DeviceLife` has that.

## What is proved

`AtProofs.tla`, in the first of its three parts, proves, for every set of tasks, every set of non-empty
command lists and every bound on unread results (assumptions
`ScriptAssumption`, `IdsAssumption`, `InboxAssumption` of `AtQueue`):

| Theorem | Statement |
|---|---|
| `TypeCorrect` | `Spec => []TypeOK` |
| `SerialCorrect` | `Spec => []SerialInv`: only the head is on the wire, what is on its way back answers it, and the current command exists |
| `NeverIdle` | `Spec => []NeverIdleWithWork` |
| `CountersCorrect` | `Spec => []CountersMatch`: `at_tasks` and `at_cmds` are the numbers of tasks and of commands not yet done |

The properties are not inductive on their own. That an answer belongs to the
head needs that at most one command is unanswered, that it is the head's, and
that it is either on the line or read, never both; that needs in turn that no
task behind the head was written. `IInv` joins these with the types, the task count
and "an unwritten head means a failed write". The invariant is stated for an
arbitrary driver record and read buffer (`Serial1(s, inb)`), so that every
function of `at_queue.c` has a lemma about what it does to a record
(`AddShape`, `RemoveShape`, `RunShape`, `AddSerial`, `RunSerial`,
`HandleSerial`), and the proof of an action follows the calls its handler makes
(`FinishInv`, `InsertInv`, `ConnectInv`, `HandleInv`, `ModemInv`, `ReportInv`,
`TimerInv`). `at_cmds` is a sum over the queue, which `CmdsLeft` adds up recursively. The
proof carries a witness of the sum instead (`Tally`: there is a function that counts up to
each place), says what an insertion at either place, a step of the head and its removal
make of a witness (`TallyAppend`, `TallySecond`, `TallyHead`, `TallyTail`), and shows at the end
that the witness is `CmdsLeft` (`LeftCounted`).

The second part builds on these and proves, from the same assumptions:

| Theorem | Statement |
|---|---|
| `OrderCorrect` | `Spec => OrderKept` |
| `AdvanceCorrect` | `Spec => AdvanceNeedsResult` |
| `PromiseCorrect` | `Spec => SerialPromise`: the queue implements `AtSerial` |

Every handler puts a task in the queue, ends the head command and writes the head
command, in that order and some of these not at all. What each of the three does to a
queue is said by position (`Grown`, `Ended`, `Written`), their composition is
`Moves`, and each action has a lemma that says which `Moves` it makes and in which of
five ways it touches the answer that is due (`OneOfKinds`). `IInv` is strengthened by `RInv`:
tasks have different names, those behind the head have not begun, and a lost
connection leaves an empty queue. Order and advance then follow from the positions
alone. For the refinement each of the three parts is read through the mapping, as
what it does to the tasks that wait, to the one that runs and to its step.

The third part is about `AtRead`, for every buffer of sixteen tokens or more, every number and
list of answers, any texts that are none of the parser's own words, and any remainder of an earlier
answer (`SizeAssumption`, `BoundAssumption`, `KindsAssumption`, `TextsAssumption`,
`TailsAssumption`):

| Theorem | Statement |
|---|---|
| `ReadTypeCorrect` | `ReadSpec => []ReadTypeOK` |
| `FramedCorrect` | `ReadSpec => []Framed` |
| `ResynchronisedCorrect` | `ReadSpec => []Resynchronised` |

What the modem sends is one sequence, `All(frames)`, in which answer `k` begins at
`Base(frames, k)`. The buffer, wherever it wraps, shows the piece of it from `Here` to
the bytes not read (`Stream`); the three parts of the wrapped search find the first match in that
piece (`Searched`). So a branch of the parser can be told without the buffer, as a
`Turn` from a place of the sequence to another. `Flow` joins this with what a waiting thread has seen
(nothing a turn could take), with `damage` and `cut` knowing of every
torn or cut answer, and with a disconnected device having met a long one: a full
buffer holds sixteen tokens without a result, and only a long answer has so many.
For `Framed` the invariant is `InStep`: the parser stands at one of the places of an answer
where it is in step (`Place`, one list for each kind), and what is delivered, with what
is due from there on, makes the whole. Each kind has a lemma that takes a turn from each
place to the next (`OkSteps` ... `LongSteps`), whatever part of the answer has come.
For `Resynchronised` nothing is known of the parser before an answer `j`, except
that a turn from before it never goes past its first line break (`Crosses`): a search
that began before stops there at the latest. If the answer comes in one read, every turn
inside it comes nearer to its end (`NearTurn`), and from there on it is in step.
`Approach` joins the three stages for each answer that came whole.

`CallsProofs.tla` proves all the run checks of `Calls`, for every number of call
structures and of calls the modem can hold (assumptions `NamesAssumption`,
`BoundsAssumption`) and whatever is waiting in the queue or unread:

| Theorem | Statement |
|---|---|
| `TypeCorrect` | `Spec => []TypeOK` |
| `PointersLive` | `Spec => []NoDangling` |
| `CountsRight` | `Spec => []CountsMatch` |
| `AudioRight` | `Spec => []AudioOnlyInCall` |
| `OrphansTold` | `Spec => []OrphanTold` |
| `EndsAnnounced` | `Spec => []EndAnnounced` |
| `DutyKept` | `Spec => HangupKept` |

The invariant has three parts. `Good` is about the driver's record alone: besides the
properties, that no released call stays in the list (`Alive`), that only outgoing calls
are dialled (`Dials`), and that incoming calls have a number no other call has
(`Single`); without these a handler could find the wrong call by its number, or release
one twice. Each function of the driver has a lemma that says it keeps `Good`, and what else
it leaves alone, so the proof of a handler follows its calls; for `+CLCC`, whose handler
makes a chain of them as long as the list, the lines are taken by induction
(`BoundedInduction`, `Passes`). `Wire` is what
`AtQueue` shows: a result on its way belongs to the command at the head. `Story` is why
`EndAnnounced` holds. It is a statement about every moment between what the driver knows
(position 0) and what each unread message will tell it: an incoming call that is held at
some position is one the modem has, or its `^CEND` stands behind that position; and no
message behind it tells of the number as of a new call unless a `^CEND` stands in between.

`DeviceLifeProofs.tla` proves, for every choice of requests and times
(assumptions `NoneAssumption`, `RequestsAssumption`):

| Theorem | Statement | Needs |
|---|---|---|
| `TypeCorrect` | `Spec => []TypeOK` | |
| `ShownIsTrue` | `Spec => []ServedAsShown` | `NotBoth`: the module is not both reloaded and unloaded |
| `FreedSafely` | `Spec => []FreedUnused` | `Configs = {}`: it is not reloaded |
| `CallsSpared` | `Spec => GracefulSparesCalls` | `Configs = {}` |

The hypotheses say which requests occur, not what the driver does, and they are needed: a
discovery pass in the middle of a reload frees a device that its monitor still serves
(`FreedUnused` in `DeviceLifeDisputed.cfg`); if the module is then unloaded and
loaded again, the new device is shown as unserved while the old monitor runs, and a graceful
reload cuts calls. The invariant says who holds which lock at each place of
each thread (`Locks`), what unloading has done so far (`Unloading`), that the discovery
thread works on a device only while no monitor runs, and that `monitor_thread`, `connected`
and `current_state` tell whether one does (`Served`), and, without reloads, that the mark for
removal is set only between the end of the monitor and the sweep (`Unreloaded`).

`MixBufferProofs.tla` proves, for every number of calls, every size of the
buffer and of the port's frames, every length of written frames and every
period (assumptions `SizeAssumption`, `LengthAssumption`, `PeriodAssumption`,
`ShortAssumption` of `MixBuffer`):

| Theorem | Statement |
|---|---|
| `TypeCorrect` | `Spec => []TypeOK` |
| `PositionsCorrect` | `Spec => []PositionsAgree` |
| `MixingCorrect` | `Spec => Mixed`: the circular buffer implements `Mixer` |

The invariant `IInv` is `PositionsAgree` with the types. It is stated for any buffer and any
streams (`RbOK`, `StOK`, `Buffers`), so that each function has a lemma about
what it does to them: which cell an append reaches (`Advance`, `Distance`), what
`rb_write_core`, `mixb_mix_write` and `mixb_write` leave in every cell
(`CoreContent`, `MixWrite`, `MixbWrite`), what `rb_read_upd` and `mixb_read_upd` keep
(`ReadUpd`, `MixbReadUpd`), and which frame the vectors make up (`TimedFrame`,
`DirectFrame`). The refinement turns these into statements about the queue:
reading takes moments off its front (`ForgetIs`), writing lays samples over it
(`OverlayIs`); `InitRefines` and `StepRefines` put them together.

`SdkProofs.tla` proves, for every set of threads, calls and serial numbers,
every size of buffers, tables and lines and every bound (assumptions of
`SdkCommand`, `SdkCalls` and `Sdk`):

| Theorem | Statement |
|---|---|
| `BufferCorrect` | `Spec => []BufferSafe`: the registered buffer is that of the one caller inside the call, and what is written stays in it |
| `AnswerCorrect` | `Spec => []OwnAnswer` |
| `DangleCorrect` | `Spec => []NoLastingDangle` |
| `RegistryCorrect` | `Spec => []RegistryFits` |
| `ConnectedCorrect` | `Spec => []ConnectedOnce` |
| `DuplicatesRare` | `Spec => []DuplicateOnlyByRace` |

There is an invariant per part, because no step changes two parts but those of the
monitor. `OwnAnswer` needs that the driver has no command but that of the
waiting caller while nobody has given up (`OneCommand`), and that commands
have different numbers (`Numbered`); `ConnectedOnce` counts entries and events by
serial number, so that an insertion and an event each move one from one set to
the other; `DuplicateOnlyByRace` counts the entries with the threads that have decided to add one,
and they are together never more than the threads (`Spared`).

`ServiceProofs.tla` proves all safety of `Service`, for
every set of messages, every set of configurations and all bounds on queued tasks and
unread results (assumptions `MessagesAssumption`, `ConfigsAssumption`, `ServiceBounds`):

| Theorem | Statement |
|---|---|
| `TypeCorrect` | `Spec => []TypeOK` |
| `Readiness` | `Spec => []ReadyMeansTold` |
| `MessageFormat` | `Spec => []MessageNeedsFormat` |
| `Deletion` | `Spec => DeletesOnlyRead` |
| `Reports` | `Spec => ReportsHonest` |
| `CallWaiting` | `Spec => []CcwaAgrees` |

What makes these hard is that nothing records which commands of the initialization
the modem has accepted: the driver only goes on with the list. The invariant `IInv`
says it from the other end. All variants of the list agree when they are lined up at
their last command, so the commands still to do tell which were done; each
accepted command has left what it sets in the modem, and the flags of the driver are
those of the last command that sets one (`Progress`). This needs that an answer belongs
to the head command and is of a form that command can get (`Honest`), and that
only one initialization is in the queue. As in `AtProofs`, there is a lemma
for each function of the driver, and the proof of an action follows its calls.

Its second half builds on `IInv`. It first sorts every step of the specification in one
of eleven kinds (`Kinds`: nothing that matters, a lost connection, a task of one of three sorts
queued, one of four answers handled, a command accepted or refused by the modem).
The invariants behind the three theorems are proved kind by kind instead of action by
action: a command to delete that is next on the wire means that its place in the SIM was
read (`DInv`); a message that is still queued stands in one task only, and the modem has taken
it only if that task is at its last answer (`RInv`); the last call waiting command on
its way, or else the modem, has the value of the settings (`CInv`).

`DiscoveryProofs.tla` proves all safety the run checks of `Discovery`, for every number of
ports, devices, CLI threads and descriptors, every set of modems and all bounds on what
happens outside (the assumptions of `Ports` and `Discovery`, which only give the data
their form and say that no modem answers "ANY", the word by which the CLI asks for any):

| Theorem | Statement |
|---|---|
| `TypeCorrect` | `Spec => []TypeOK` |
| `AllGivenBack` | `Spec => []GivenBack` |
| `AnswersTrue` | `Spec => []Answered` |
| `ListWalked` | `Spec => ListStable`: no item is freed or moved while the CLI walks the list |

A lock file may name a descriptor that another thread has, or one of a port it does not lock,
so nothing can be said of a lock file by what is written in it. `LocksHeld` says it by
place instead: at which places (`Holding`) a thread will still remove the file of its port.
`FdsHeld` gives every open descriptor one owner, a thread or a connected device
(`~Shared`), on the owner's port: this is more than `NoFdLeft`, and `Answered` needs it, for
an answer is taken to be that of the port the thread works on. `Told` adds that the
item a thread has found is of its port even when it was freed meanwhile, because a new
item never gets the number of one that somebody has (`NewNumberIs`). Only the discovery thread
starts a device (`Placed`), since no answer matches what the CLI asks for
(`CliAsksForAny`). Each action has a lemma that says what it does to its thread, field by field
(`Continues`, `Leaves`), and the parts of the invariant are proved from these.

`FindDeviceProofs.tla` proves all safety of `FindDevice`, for every list of devices, every
set of threads, kinds and resources and any number of moves:

| Theorem | Statement | Needs |
|---|---|---|
| `TypeCorrect` | `Spec => []TypeOK` | |
| `SearchesComplete` | `Spec => []Complete` | `FewEnough`: the array of a search has room for all devices |
| `Rotates` | `Spec => []Rotation` | `FewEnough`, `TurnsApart`: resources in turn of one kind have the same values or none in common |

Both hypotheses are needed, and are about the installation: with more devices than
`MAXDONGLEDEVICES` the last ones are never in an array (chan_dongle.c:934), and IMSI prefixes of
which one extends another share the mark of a SIM but not the round (`FindDeviceNested.cfg`);
groups and providers are compared whole, so theirs are always apart. `Complete` needs where
each search still has to look (`Findable`). For `InTurn` the hard part is a mark that
does not belong to the round. The invariant says nothing of the marks while nobody has been
passed over, whatever is marked then: a search that is alone takes the marks off all it
lists (`AloneExact`), so once it has found a device that device has the only one. From then on
there is a place in the list (`InRound`) where the only mark is, or which the one search that
goes on has noted (`Noted`), and whoever was passed over for a device comes before it in
the round that begins behind that place (`Before`). It can dial all the time, so a search
that began since could have found it (`Held`), and by `Findable` it is tried before the others.

Two things look out of the prover's reach and are not. Induction over numbers, for which the
library's theorems take an operator as a parameter, is done with a set in its place: a set of
numbers that is not empty has a least member (`LeastNumber`), so a set that holds 0, and with
each number the next, holds all (`BoundedInduction`). A recursive
function is what its definition says it is once a function that satisfies the
definition is shown (`InOrderSays`, `LeftCounted`, `KeptSome`), and a chain of steps gives one
(`Iteration`). Each of the modules that need these lemmas has them at its beginning.

All invariants and action properties of the passing runs are proved. Only model-checked is
liveness (temporal proofs under fairness, and `ENABLED`, are beyond the prover):
`HeadResolvesWhenQuiet`, `StopHonoured`, `ComesBack`, `UnloadEnds`, `BecomesReady`, `AllIsRead`,
`RoundEnds`, `CallReturns`, `NoStarvation`.

## The runs

| Run | Shows |
|---|---|
| `at_queue` | all safety of the queue, that it implements `AtSerial`, and that no command stays in flight for ever, if unsolicited codes stop |
| `calls` | all safety of calls: about two million states |
| `life` | every request with every time, against calls, messages and lost connections |
| `life_now` | starts, stops, removals and reloads asked for now: they happen, and a device comes back |
| `life_unload` | unloading ends when no change is pending |
| `service` | initialization, registration and messages against refusals, losses and restarts: what the device says of itself is true, and it becomes ready |
| `mix` | two calls on one mixing buffer: the positions agree, and it is the queue of moments |
| `at_read` | answers of seven forms cut at any byte, behind remains of an earlier one: what is delivered, and that the parser comes back into step |
| `discovery` | two devices looked for on two ports, with failures, other programs and the CLI: nothing left locked or open, no answer of another port, every round ends |
| `find_device` | two threads that place calls over a group, first fit and in turn, on three devices that come, go and change: what can be found is found, in turn, and nobody waits for ever |
| `discovery_not_found` | (violated) a device configured by IMEI and IMSI is never found while another wants the IMSI alone |
| `sdk` | commands, calls and registration of the SDK against the monitor, until `simbox_shutdown` |

Deadlock is not checked in `at_read`, `discovery`, `sdk`, where the modem has said
all, or the bounds on events are used up, and everybody may be waiting; it is checked in
all others. Each module has a type invariant, `TypeOK` (`ReadTypeOK` in `AtRead`); those of `AtQueue`,
`AtRead`, `Calls`, `DeviceLife`, `Discovery`, `FindDevice`, `MixBuffer` and `Service` are proved, and the others hold under
the configurations of their runs, as do `ListStable` of `Discovery` and `RegistryFits` and
`DuplicateOnlyByRace` of `Sdk`, which are proved too. In each module a few definitions are
marked "Mutant": a plausible mistake in the definition that follows; replacing
the definition by it makes the property it belongs to fail, which shows that
the property looks at that code.

## Where the code and its words disagree

`PROJECT.json` lists one finding with a run. Further disagreements, and
promises nobody wrote down, are stated as properties too, each with a
configuration that is not one of the runs; use
`tlc -config <file> <module>` to see the counterexample. A file `*Disputed.cfg` has
one property switched on and the others commented out, with their constants where these differ,
to be tried one at a time.

| Configuration | Module | Property | What happens |
|---|---|---|---|
| `AtQueueDisputed.cfg` | MCAtQueue | `HeadResolves` | a modem that never stops sending unsolicited codes keeps the monitor from the time-out test, so an unanswered command stays. |
| `AtQueueDisputed.cfg` | MCAtQueue | `TimeoutIsOwn` | at_queue.h:27 starts the timeout when the command is written. A command written while the monitor waits with an empty queue is given only what is left of that wait (chan_dongle.c:421). |
| `AtQueueDisputed.cfg` | MCAtQueue | `RefusedNotWritten` | an insertion reported as failed because a `write` failed stays queued when the failed command was optional or another task's, and is executed later (at_queue.c:312). |
| `CallsDisputed.cfg` | MCCalls | `NoGhostDial` | at_command.c:594 sets `CALL_FLAG_NEED_HANGUP` early "because ATD may be still in queue while local hangup called"; the hangup is inserted in front of that ATD, hangs up nothing and clears the flag, and the number is dialled afterwards for nobody (at_command.c:597). |
| `CallsDisputed.cfg` | MCCalls | `DeadReleased` | "dead cpvt only here" (at_response.c:1016) is never reached: the loop over the lines returns before it (at_response.c:1000); a call the modem no longer lists stays and blocks dialling. |
| `CallsDisputed.cfg` | MCCalls | `AnsweredWasDialled` | the made-up index of an undialled call is the modem's index of another one, whose answer is credited to it (chan_dongle.c:769). |
| `CallsDisputed.cfg` | MCCalls | `MasterOwnsAudio` | `activate_call` tests `CALL_FLAG_ACTIVATED` of the wrong call (channel.c:256): two channels read the audio port. |
| `CallsDisputed.cfg` | MCCalls | `FlagsHonest` | a call that ends before `+CLCC` lists it leaves `ring` set (at_response.c:1102), which blocks dialling. |
| `CallsDisputed.cfg` | MCCalls | `RejectsOnlyIt` | a waiting call rejected for want of a channel takes the call in progress with it: the index is not used when `chansno` is 1 (at_command.c:841). |
| `DeviceLifeDisputed.cfg` | MCDeviceLife | `UnloadEnds` | unloading joins the discovery thread with `discovery_lock` held, a monitor waits for that lock in `discovery_restart` with `pvt->lock` held, and the discovery thread waits for `pvt->lock` (chan_dongle.c:726). |
| `DeviceLifeDisputed.cfg` | MCDeviceLife | `StopHonoured` | a stop asked for while a restart joins the monitor is overwritten (chan_dongle.c:648). |
| `DeviceLifeDisputed.cfg` | MCDeviceLife | `StopHonoured` | a graceful stop asked for while the device is being started, where `pvt_stop` and `pvt_discovery` give the lock up, is never carried out (chan_dongle.c:575). |
| `DeviceLifeDisputed.cfg` | MCDeviceLife | `FreedUnused` | a reload marks every device for removal before it reads the file; a discovery pass in between frees a listed one under its monitor (chan_dongle.c:670). |
| `DeviceLifeDisputed.cfg` | MCDeviceLife | `StopHonoured` | a changed setting of a stopped device makes it "restarted", which starts it (chan_dongle.c:1486). |
| `DeviceLifeDisputed.cfg` | MCDeviceLife | `ComesBack` | a graceful restart waits for a message, the connection is lost, and discovery skips the device for ever (chan_dongle.c:642). |
| `DeviceLifeDisputed.cfg` | MCDeviceLife | `ComesBack` | a graceful reload that undoes a pending stop leaves `restart_time` "gracefully" (chan_dongle.c:1463), with the same end. |
| `DeviceLifeDisputed.cfg` | MCDeviceLife | `GracefulSparesCalls` | a graceful reload that removes a device asks `pvt_time4restate` before it stores the new time (chan_dongle.c:1592) and cuts the call. |
| `DeviceLifeDisputed.cfg` | MCDeviceLife | `GracefulSparesSms` | no line sets `outgoing_sms`, so a restart does not wait for a message being sent (chan_dongle.c:1430). |
| `ServiceU2diag.cfg` | MCService | `BecomesReady` | a refused `^U2DIAG` is "not critical" to its handler (at_response.c:335), but the command lacks the ignore flag (at_command.c:145): the initialization is dropped, and the device stays connected and never ready. |
| `ServiceDisputed.cfg` | MCService | `RestartHappens` | a received message that is not where it was announced is answered `OK`, which does not clear `incoming_sms` (at_response.c:1197): a restart asked for later never happens. |
| `ServiceDisputed.cfg` | MCService | `RestartSparesReading` | the first of two received messages clears `incoming_sms` while the second is still to be read (at_response.c:1197). |
| `MixBufferShort.cfg` | MixBuffer | `PortGetsFrame` | after a short write `iov_write` cuts the length of the vector but does not move its beginning (channel.c:443): samples are written twice and the last ones never. |
| `AtReadShifted.cfg` | MCAtRead | `FindsItsWay` | when every read ends just before the last line break of an answer, a parser that was out of step takes that break for the first of the next answer, and never delivers one again. |
| `DiscoveryNotFound.cfg` | MCDiscovery | `ModemFound` | `cache_lookup` tests "`req->imei \|\| item->res.imei`" where it means "not wanted or known" (pdiscovery.c:213): an answer without the IMEI is taken for complete. |
| `DiscoveryDisputed.cfg` | MCDiscovery | `ExactMatch` | a modem exchanged within the discovery interval is taken for the one before it: the match is made with the cache (pdiscovery.c:603). |
| `DiscoveryDisputed.cfg` | MCDiscovery | `ItemsUsedAlive` | `cache_search` gives an item out after it has unlocked the list (pdiscovery.c:201); another thread frees it. |
| `DiscoveryDisputed.cfg` | MCDiscovery | `OpenOnce` | the lock file names the descriptor the port is expected to get (chan_dongle.c:121); if another thread takes it, the lock looks stale and the port is opened twice. |
| `DiscoveryDisputed.cfg` | MCDiscovery | `ForeignSpared` | another program that creates its lock file between the check and the creation loses it (chan_dongle.c:147). |
| `FindDeviceNested.cfg` | MCFindDevice | `Rotation` | two IMSI prefixes of which one extends the other share the mark of a SIM (chan_dongle.c:1086): a search for one moves the mark, and the next for the other takes a device again while one waits. |
| `FindDeviceDisputed.cfg` | MCFindDevice | `FoundMatches` | a device that gets another group, network or SIM between the two loops of a search is found for the one it had (chan_dongle.c:1005). |
| `SdkDisputed.cfg` | MCSdk | `OnlyOwnAnswer` | the late answer of a command that timed out is given to the next caller (simbox_modem.c:501), whose own is given to the one behind, and so on. |
| `SdkDisputed.cfg` | MCSdk | `OnePerSerial` | api.h:38 calls registration "Idempotent"; two threads that register one serial number at once make two devices (simbox_api.c:374). |
| `SdkDisputed.cfg` | MCSdk | `CallAlive` | the pointer to a call is read, the monitor frees the call, and the pointer is followed (simbox_modem.c:285). |
| `SdkDisputed.cfg` | MCSdk | `InstanceAlive` | a monitor that has read `g_active_linux_instance` uses it after `simbox_shutdown` has freed it (simbox_api.c:295). |
| `SdkDisputed.cfg` | MCSdk | `CallReachable` | a call that comes in during `simbox_init`, or beside another that ends, has no pointer and cannot be hung up (simbox_api.c:278, simbox_modem.c:208). |

## What is not modelled, and why

Within the modules: the contents of results (`at_parse`), audio frames and DTMF, text and formatting, statistics,
local channels, Asterisk's own locking order. Callbacks read `tech_pvt` before they take
`pvt->lock` (the FIXME at channel.c:924); `Calls` takes the lock to cover that
read. `C` is one command at a time, as the CLI serializes reloads but not the
other commands. Asterisk's use counts keep a module with channels from being
unloaded, so unloading begins without calls.

Whole parts: the front ends format text and forward; the stand-alone tools and the SDK's
serial tools are sequential programs over one descriptor of their own; conversion of
texts and PDUs (`pdu.c`, `char_conv.c`, `at_parse.c`) has no state, no order of events
and no step that can fail halfway, so what it computes is a question for unit tests;
the shims are modelled as far as the driver reaches the SDK through them.

## Plan

The parts of the driver that keep state are modelled. What would be added next, in order of
weight:

1. Splitting the channel callbacks of `Calls` in two steps (read of `tech_pvt`,
   then the lock).
2. The PIN and the reset of `+CFUN` in `Service`.
3. Several devices in `DeviceLife`, for reloads that rename a device.
