# A TLA+ model of the smart-building controller

The program is the firmware of a building controller: an STM32F4 board under
RT-Thread that samples temperature, humidity and light, switches a siren, an
escape door, an exhaust fan and a fill light, and talks MQTT to a server that
can set limits and switch every device itself. Paths below are relative to
`src/smart-building-mcu/`.

## 1. Inventory

| Part | State it keeps | Operations | Talks to |
|---|---|---|---|
| Control loop, `applications/src/my_auto_control.c` | none of its own | every 2000 ticks judge temperature, humidity, light; alarm, switch, report | reads and writes the device record, publishes |
| Device drivers, `my_multiThread.c` | pins | `beep_change`, `relay_change`, `emergency_light_change`, key interrupts | siren timer, device record |
| Siren timer, `my_hwtimer.c` over `hwtimer.c`, `device.c`, `drv_hwtimer.c` | handle, open flag, reference count, callback, mode, TIM3 | open, close, interrupt | lamp and buzzer pins |
| Escape door, `my_pwm_ctrl_door.c` | `uint8_t angle`, servo | `my_pwm_angle_change`, `my_pwm_set_angle` | device record |
| Device record, `my_data_upload.c` | `my_devices`, `my_environment`, `my_thresholds` | one setter per field, upload thread | everyone |
| Server commands, `mqtt_sample.c` | `is_started`, `UUID` | command, threshold and sync callbacks, start, stop, (un)subscribe, publish | drivers, MQTT client |
| MQTT client, `paho_mqtt_pipe.c` | socket, `isconnected`, subscription table | worker thread; publish, stop, subscribe | broker, publish pipe |
| Publish pipe, `pipe.c`, `ringbuffer.c`, `waitqueue.c`, `poll.c`, `select.c` | ring buffer with mirrored indices, mutex, wait queues with one wakeup flag each, poll table | write, read, select with wakeup and timeout, delete | publishers, worker |
| Sampling, `my_dht11.c`, `my_adc.c` | the sampling threads | store a sample; the DHT11 thread ends on a failed read | device record |
| TCP console, `my_TCP.c` over `at_socket.c` and the descriptor table | global descriptor `sock`, global buffer `recv_data`; packets, notices and state of the AT socket | connect, receive, lamp commands, log commands, quit, release on error | pins, sample log, descriptor table and heap it shares with the MQTT worker |
| Sample log, `my_file.c` | read positions, always 0: the flash is formatted at each boot and the calls that append are commented out | load (finds no file), reset | TCP console |

What is hard in this program:

* **No lock anywhere.** The loop (priority 16) and the MQTT worker (priority
  10) change the same devices and the same record. The worker preempts the
  loop between any two accesses; the timer interrupt preempts both.
* **Devices with memory.** The timer counts its users and refuses a second
  open, the door adds and subtracts 90 degrees in a `uint8_t`. A change cut in
  two does not repair itself; a reference count decremented by both goes from 0
  to 255.
* **Decisions from the record.** The loop reads back the recorded state to
  decide which limit to judge. A wrong record silences a branch for good.
* **A byte stream used as a queue.** Records written by several threads into
  one pipe are read as a whole by the worker, which also writes into it.
* **Wakeups without a lock.** `poll.c` looks at the ring before it sleeps and
  takes no lock; the writer wakes the reader after it has released the lock;
  a read wakes one writer of several.
* **Publish first, siren second.** The alarm is published before the siren and
  the door are switched, and the publish waits for room without limit.
* **Numbers and blocks that are released twice.** Every send function of the
  console closes `sock` and frees `recv_data` when it fails; the number may be
  the MQTT worker's socket by the next time.
* **Reconnects.** Sessions are clean: every subscription is lost with the
  connection and is made again from the table.
* **Shell commands** that start, stop and unsubscribe at any time.

What makes the parts correct: outputs agree with the record, the siren can
always be silenced, the door angle is always one of its positions, lasting heat
evacuates, alarms alternate, the fill light settles; a published message is
sent once and in order or there is a reason, the client comes back after
losses with all its topics, and a worker that ends leaves nothing behind; no
byte of the pipe is lost, doubled or overtaken, nobody sleeps on what he waits
for; a console session releases what it took, once, and ends when its server
does.

`PROJECT.json` lists the components, the hazards with their lines, the runs,
their mutants, the findings and the theorems.

## 2. Modules

| Module | Models |
|---|---|
| `HwTimer` | The siren timer as operators on one record: each maps the record to the record after one access of the code |
| `AutoControl` | The control loop, the drivers, the door, the device record, the callbacks, sampling, keys, interrupt and the console's lamp commands |
| `AutoControlClaims` | What the device layer asserts and loop and callbacks do not keep |
| `RingBuffer` | `ringbuffer.c` as operators on one record: put, get, the lengths |
| `PipeSync` | `pipe_fops_write` and `pipe_fops_read`, the wait queues, poll and select under strict priorities |
| `ByteQueue` | Abstract: a bounded queue of bytes. `PipeSync` implements it |
| `PipeClaims` | What `select` is said to do and does not |
| `MqttPipe` | The publish pipe and the records in it, as operators |
| `MqttClient` | The worker, the publishers, the shell commands, the network |
| `PublishService` | Abstract: what the client is to a thread that publishes. `MqttClient` implements it |
| `Building` | `AutoControl` and `PublishService` composed |
| `Console` | The TCP console, the receive side of its AT socket, descriptors and heap shared with the worker |
| `MCAutoControl`, `MCPipeSync`, `MCMqttClient`, `MCBuilding` | Sets of commands and limits for TLC; modules the runs start from |
| `AutoControlProofs`, `DoorProofs`, `SirenProofs` | Proofs about `AutoControl` |
| `RingBufferProofs`, `PipeProofs` | Proofs about `RingBuffer` and `PipeSync` |
| `MqttProofs` | Proofs about `MqttClient` |
| `ConsoleProofs` | Proofs about `Console` |
| `BuildingProofs` | Proofs about `Building` |

How they stack:

    AutoControl ----+
      (HwTimer)     +--> Building
    PublishService -+
         ^ implements (ServesPublishers, KeepsServing)
    MqttClient (MqttPipe)
         . its atomic writes and reads are those of
    PipeSync (RingBuffer) --implements (IsByteQueue)--> ByteQueue

### AutoControl

`pc` names the next access of the loop, `sec` the quantity being judged,
`state` the argument of the change under way, `reg` what it has loaded and will
store: the angle, the reference count, or whether TIM3 runs. There is one step
per access to what a callback or an interrupt also accesses; accesses share a
step only where nobody else can tell, and the module's comments say where. The
image is built with -O0, so every access in the C text is one. Where the steps
of the loop are in the code:

| pc | code |
|---|---|
| `delay`, `sensor`, `flags`..`flags4`, `compare` | `my_auto_control.c`: delay, sensor flag, the up to four loads of recorded state, comparison |
| `alarm`, `status` | `Publish_Alarm_Info`, `Publish_Device_Status` |
| `open1` | `my_hwtimer_openTimer`: `rt_device_find` |
| `open2`, `init1`..`init4` | `rt_device_open`: test of ACTIVATED (`device.c:217`); mode, load and store of TIM3's control register, ACTIVATED |
| `open3`, `busy`, `open4`..`open7` | test of OPEN, refusal; OPEN, load and store of `ref_count++`, the assertion (`device.c:234`..`260`) |
| `open8`, `ret1`, `rx`, `mode`, `ret`, `ret2`, `write1`, `write2` | the rest of `my_hwtimer_openTimer` with its stores to and tests of the global `ret`, and `rt_device_write` with its own test of `ref_count` |
| `close1`..`close7` | `my_hwtimer_closeTimer`: test, load and store of `ref_count--`, second test (`device.c:281`..`286`); ACTIVATED, callback, OPEN |
| `lamp`, `buzzer` | the two pins |
| `led0`, `beep` | the two records of `beep_change` |
| `door1`..`door6` | `my_pwm_angle_change`: test, load, store, record, load for the servo (`:78`), servo (`:62`) |
| `pin`, `recorded` | `relay_change`, `emergency_light_change` |
| `asserted`, `starved` | the loop, or the worker above it, spins in the assertion of `rt_device_open` |

A callback of the MQTT worker is one step: it has a higher priority than the
loop and its device section does not block. The timer interrupt may fall into
it, but ends with the same timer and pins as one before or after it. A callback
that runs into the assertion stops where it is (`Reached`), and with it
everything below its priority. The TCP console runs in the shell (priority 20):
only while the loop sleeps or is held up in a publish. A sensor value or limit
is any integer of a small set; a message is the set of fields it has and the
set of those that are true. `RefMax`, the largest reference count, is 255 in
the code.

`stray` is a history variable: the outputs a second writer changed while the
loop was inside a change of the same output (`Inside`), until a complete change
repairs them. Siren and door do not repair themselves; a servo left behind its
angle is repaired by the next turn. `alarmed` records the last alarm per
quantity.

### MqttClient

`wpc` is where the worker is in `paho_mqtt_thread`; each blocking point of it
(select, a read, a send, a delay, a publish) is the border of a step. `idx` is
its position in the resubscription loop and in `mqtt_sub_init`. Publishers and
the shell have `wstate` and `wrest`: the test of `isconnected` and the write
are separate steps, and a write that finds no room puts in what fits and waits,
as `pipe_fops_write` does.

The pipe holds cells. A message is two cells (the `MQTTMessage` structure and
the rest), the DISCONNECT command is one. So a full pipe can cut a record in
two, and bytes of two writers can stand next to each other, which is all that
matters to a reader that looks at the first record only. Bytes that are no
record are sent as whatever they look like, ignored, or fail to serialise.

Three waits of the worker may not end. Publishing into a full pipe it is
`stuck`: nobody else reads the pipe. `asleep` is a select whose timeout was
negative and so is none: it ends with a packet or with data in the pipe, but
not with a ping. `spinning` is a select that goes round without sleeping, which
the wakeup of a writer whose bytes were read already brings about (`late`,
`LateWakeup`; `PipeSync` has the details): only a packet ends it, and meanwhile
no publisher and no shell runs.

A writer still waiting when the pipe is deleted returns or is `lost`, which of
the two is not defined in C. `devices` counts pipe devices, `unopened` those
left behind because `open` failed on them. An unsubscribe is two steps: the
packet is sent, which blocks, then the slot is cleared (`clearing`).
Connection, broker and shell are external
(`Drop`, `Push`, `Order`). The model ends where a second worker is started on
the same client structure.

`accepted`, `sent`, `mixed`, `merged` and `junk` are history variables for the
properties.

`Service` maps this state to `PublishService`: `online` is `isconnected`, the
level is the length of the pipe, a publisher owes what is left of its record.
The refinement says that none of the worker's seventeen places, reconnects
and error paths moves data behind a publisher's back.

### PipeSync

One step per piece of code that another thread can see: the writer takes the
lock and puts (the two words of the write position are stored one after the
other, in either order: `FirstStore`), releases the lock, wakes the reader,
waits; the worker queues its poll node, looks at ring and socket without the
lock, sleeps with interrupts off, is woken or times out, reads. A publisher
runs only while the worker is blocked (`WorkerBlocked`), which is what strict
priorities mean; the network or the timer may make the worker ready anywhere.
`fifo` is the ring in memory, `ring` the ring once a put under way is complete;
they differ only between the two stores. The queue of `ByteQueue` is the
contents of `ring`.

### Console

`pc` is where the shell thread is in `my_tcp_control`: each call that may block
or fail is the border of a step, and so is each access to what the parser of
the module's lines also writes. `line` says that the module's connection to the
server exists; from then on packets and the end of the connection can reach the
AT socket. `at_connect` stores its state one step later (`store`), over a
CLOSED too; `at_recvfrom` looks at the packets (`recv`) and then at the state
(`look`). `table` says whom each entry of the descriptor table belongs to;
console and worker take the lowest free one. `recv_data` is the fate of the
receive buffer's block: held, freed, or freed and given to somebody else.
`peer`, `pkts` and `notice` are the AT socket as `at_recvfrom` uses it: a
receive takes every packet there is as one text, so that two commands received
together are none. `damage` collects what was released that belonged to
somebody else; `ignored` says that a failed send was not looked at by its
caller. While the MQTT worker is `spinning` the shell does not run. After an
assertion of `rt_free` or undefined behaviour the thread takes no further step.

`dfs_mount_init` formats the flash at each boot and nothing writes a log, so
loading one takes a descriptor, finds no file and puts the descriptor back
(`load`, `load_fails`). The loops behind that `fopen` are unreachable and not
modelled.

### PublishService and Building

In `AutoControl` a publish always returns. In `Building` the loop enters
`PublishService` at its two publishes (`LoopCalls`) and goes on when the call
is over (`LoopReturns`). A command of the server is executed by the worker of
the same service, which then publishes the response and may find no room.
`UploadPublishes` is the data upload thread, the competitor for the pipe.

The worker has the higher priority: while it spins, in `select` or in the
assertion, neither loop nor upload thread runs (`ThreadsRun`), only interrupts
do.

The loop publishes before and after a change and never within one. So whatever
the client does to it, held up in a publish it has left its outputs as recorded
(`HeldInStep`); what the server switches meanwhile is done whole.

## 3. Runs

Passing runs, all with the initial state of the program after start-up:

| Run | Shows | Bounds |
|---|---|---|
| `escape` | `SirenMatches`, `AssertOnlyAfterCut`, `LampDark`, `TypeOK`: timer, pins and record agree, and nobody runs into the assertion of `rt_device_open`, until a command cuts into a change of the siren. `DoorMatches`, `ServoFollows`: what holds of angle and servo until one cuts into a turn of the door | temperature below and above the limit, commands that switch siren and door together, a reference count that wraps after 3, angles that wrapped at most once |
| `comfort` | `FanAndLightMatch`, and `LightSettles` also with limits crossed | fan commands, light below, between and above the limits, changing limits, KEY1, LED1 on the console |
| `autonomous` | `Evacuates`, `CallsOff`, `AlarmsAlternate`, `LampDark` with no message that switches a device; samples, limits, KEY0 and sync answers on the sensor flag keep changing | three temperatures, two limits, LED0 on the console |
| `mqtt` | `LossNeedsCause`, `JunkNeedsMixing`, `SentInOrder`, `TypeOK`, and `ServesPublishers`: the client implements `PublishService` | 2 publishers with 2 messages each, pipe of 5 cells, 1 lost connection, 1 stop from the shell, a table of 1 slot |
| `session` | `Resubscribed`, `NoTopicTwice`, `ConnectedMeansSession`, `DeadMeansReleased` | 3 shell commands, failed allocations, pipes that cannot be opened, 1 loss, 1 push, pipe of 3 cells |
| `comesback` | `ComesBack`, `PipeDrains`, and `KeepsServing`: the fairness `Building` takes for granted. The client comes back, unless it is stuck in its own pipe, spins, or sleeps without a timeout on a dead connection | pipe of 3 cells, which a record and a half fills, 2 losses, 2 pushes |
| `pipe` | `NoLostWakeup`, `NoWriterForgotten`, `ReadDoesNotBlock`, `TypeOK`; `IsByteQueue`: the pipe implements `ByteQueue`; `WriteEnds`: a write comes back | ring of 2 bytes, 2 writers with 3 bytes each in writes of 1 to 3, 1 event on the socket |
| `console` | `NothingLeaks`, `ReleasedOnce`, `TypeOK`, `ClosedIsNoticed` | 3 descriptors, 3 sessions, 3 packets, 2 failing calls |
| `building` | `EvacuatesWhenServed`, `CallsOffWhenServed`: what is left of `Evacuates` and `CallsOff` when publishes wait | temperature below and above the limit, pipe for one record and a half, lamp commands, any number of losses, restarts, late wakeups and deleted pipes before the client is served for good |
| `held` | `HeldInStep`: a loop held up in a publish, even for ever, is not inside a change | commands as in `escape`, pipe of 1 record, a reference count that wraps after 2 |

The bounds are enough for the cases that matter: a pipe of 5 cells is full
after two messages and a half, as the 512-byte pipe is with the texts the
program sends, so that waiting, cut records, merged reads and a stuck worker
all occur in `mqtt`; three shell commands contain stop-start-stop and
unsubscribe around a restart. In `comesback` the loop's record, the answer to a
push and the request for a sync meet in a pipe for one and a half of them. In
`pipe` a write of 3 bytes into a ring of 2 waits in any case, two writers
compete for the one wakeup, and both mirrors change; the proofs hold for every
size. In `console` 3 descriptors are the console's, the worker's and one for
the file a load tries to open, so that the table is also found full; 2 faults
are a failed send and another failure after it. `RefMax` is 3 in
`escape` and 2 in `held`: the count still goes from 0 to its largest value and
back, in fewer rounds than with 255, and the proofs hold for every `RefMax`.
Two runs have a constraint, since the angle of a door that is out of step takes
128 values: `escape` follows the eight of them that wrapped around 256 at most
once (`WrapsOnce`), `held` stops where a command put the door out of step
(`DoorInStep`). Otherwise nothing is bounded in `AutoControl` and `Building`:
all sets are finite and the loop runs for ever. Sensor values lie on both sides
of a limit, in `autonomous` also on it, which is all the code can tell apart.
Commands of different devices touch disjoint state, except for the record
fields siren and door share in the judgement, so these two are switched
together and the fan alone in `comfort`; the proofs cover all commands, single
and together, the fill-light commands included.

Deadlock is checked in the runs of `AutoControl` without alarm commands. The
others switch it off: a worker spinning in the assertion of
`rt_device_open`, a stopped client, a worker stuck on its own pipe, writers that
have written their bytes and a console whose sessions are used up are ends the
code really has.

Fairness. `AutoControl!FairSpec` is weak fairness of the loop: it blocks only
in its delay and in publishes, and nothing of higher priority runs for ever,
provided the MQTT worker does not spin. That, and that a publish returns, are
assumptions there and parts of the model in `Building`. `MqttClient!FairSpec`
is weak fairness of the worker (priority 10), of a writer that has room, and of
the shell's return from `mqtt_start`, the last two only while the worker does
not spin. It says nothing of the worker's three waits without an end: `stuck`
and `spinning` enable no step of it, `asleep` only one on a packet or on data
in the pipe. Losses and pushes are finite in number: a network that fails for
ever keeps any client offline. `PipeSync!FairSpec` is weak fairness of the
worker and strong fairness of each writer: the worker blocks for seconds at a
time, again and again, and a ready thread of lower priority gets its turn then.
It does not rest on the timeout of `select`, which may be negative and then is
none. `FairBuilding` is weak fairness of the loop, strong fairness of its turn
in the pipe (the abstract form of `WriteEnds`) and `Serves` (which
`KeepsServing` shows of the client). All three are fairness of steps that exist
only while the worker does not spin, and `Served` asks for a worker that in the
end is up and does not. `Console!FairSpec` is weak fairness of the shell
thread, which likewise has no step while the worker spins: every other thread
above it blocks between its turns.

Runs that end in a violation state what the code or a document says; each has
its entry under "findings":

| Run | Claim | What happens |
|---|---|---|
| `claim_assert` | `RT_ASSERT(dev->ref_count != 0)` behind the increment (`device.c:260`) | an alarm-off command between the loop's increment and the assertion closes the timer under it, and the loop spins; or one between the test and the decrement of a close takes the count from 0 to 255, and the next open ends there |
| `claim_ping` | `select` returns when its time is over | a wakeup whose cause is gone leaves `triggered` set; `poll_do` goes round without sleeping |

Other behaviour the models show and no run states. Of the siren: an alarm-on
command between the test of ACTIVATED and the init of a new open leaves a
recorded alarm with a siren that stops after one period; a close command inside
`my_hwtimer_openTimer` leaves the buzzer on with the alarm recorded off; a
siren switched on by the server disables the branch that opens the door in the
heat, whose condition asks for both to be off. Of the door: one recorded open at
angle 0 and one recorded shut at angle 90; an open command that cuts into the
loop's `angle += angles` takes the angle from 180 to 14 (180 + 90 in a
`uint8_t`); a command between the load of the angle and `rt_pwm_set` leaves the
servo at the older angle until the next turn. Of the loop: a `warningLight`
command that changes the record and not the lamp; acting for ever on the last
sample of a DHT11 thread that has ended; an alarm whose value is within the
limit sent with it.

Of the client: a DISCONNECT command that is read together with a record and
lost, although `mqtt_stop` reported success; a second worker after a stop while
offline and a start; a client started from the shell that is online with an
empty subscription table, because `is_started` is set after the worker ran; a
pipe device left behind by every worker that could create it and not open it. A
worker that publishes into its own full pipe waits for itself, so that the
client does not come back although `docs/introduction.md` of the package
promises a reconnect; records merged in one read are dropped although the
publish was reported as successful. A record that is written while the worker
ends is lost without a lost connection: `LossNeedsCause` speaks of a worker
that was not stopped and started again.

Of the console: a failed send of a reset is ignored, and the next release stops
in the assertion of `rt_free` with the heap locked, or closes the worker's
socket, or frees a block that is somebody else's by now (`ReleasedOnce` says
that nothing else leads there); a server that closes the connection while the
console waits is never noticed (`recv_noticed`), nor one that closes it before
`at_connect` has stored its state; an unresolved server name is dereferenced
(`null_host`); a long text that is no command overruns the copy on the stack;
the two commands that set limits write variables nobody reads.
`my_send_DHT11data` would write past `send_data[15]`, but it needs a log and
there is none.

## 4. Proofs

The theorems about `AutoControl` hold for every set of sensor values, limits,
commands, sync answers, console lamps and keys and every largest reference
count, under the assumptions `SensorAssumption`, `MessageAssumption`,
`InputAssumption` (types only) and `RefAssumption` (`RefMax` is positive).
Those about `MqttClient` hold for every set of publishers, number of slots,
size of the pipe and every bound, under `ClientAssumption` (types only).

* `TypeCorrect` (`AutoControlProofs`): `Spec => []TypeOK`, with lemmas for the
  operators of `HwTimer` and for the steps of loop, callbacks and environment.
  The count wraps at both ends, as a `uint8_t` does, so no bound on it beyond
  its type is true. `TypeInv` adds what the loop carries in `reg` across a
  callback and stores late: a count at `open6` and `close3`, an angle at
  `door3` and `door6`.
* `FanAndLightCorrect` (`AutoControlProofs`): `FanAndLightMatch` needs the fact
  that a pin already carries `state` while the loop stands between pin and
  record.
* `DoorCorrect` (`DoorProofs`): `DoorInv` adds what the loop knows inside a
  turn that nobody cut into: its test still holds at `door2` and `door3`, the
  loaded angle is the angle at `door3`, an open door is not shut at `door4`.
  `ServoCorrect`: the servo may be behind the angle only from `door4` to
  `door6`, or once a command turned the door between the loop's load for the
  servo and `rt_pwm_set` ("servo" in `stray`, until the next turn); at `door6`
  the loaded angle is the angle unless that happened.
* `SirenCorrect`, `AssertCorrect`, `LampCorrect` (`SirenProofs`): `SirenInv`
  says for every `pc` inside `beep_change` how far the timer has come, given
  that no callback cut in: `OpenAt`, `CloseAt` and, behind the two, `RestAt`.
  So the test at `device.c:281` still holds when the count is loaded, the
  loaded count is the count when it is stored, the timer that is initialised is
  free, and the count is 1 at the assertion, which is `AssertOnlyAfterCut`. The
  interrupt preserves each of these states (`IsrKeeps`), an uninterrupted
  opening ends in a sounding siren (`OpenSounds`), a closing in a silent one
  (`CloseSilences`).

* `AlarmsAlternateCorrect` (`AutoControlProofs`): holds under the hypothesis
  `Autonomous`, that no command and no sync answer has a field of a device the
  loop judges by; the code promises nothing else, a command between two rounds
  makes the loop raise the same alarm again. `LastAlarm` ties the last alarm on
  a quantity to the devices recorded for it. They differ only between the alarm
  and the second record, and there `pc` and `state` tell which alarm it was.

* `ConnectedCorrect`, `DeadCorrect` (`MqttProofs`): `SessionInv` says for every
  place of the worker whether pipe and socket exist, that the table is empty
  while there is no pipe, and that the number of workers is 0 exactly when the
  worker has ended; a start from the shell needs the last fact. It also counts
  the pipe devices: those that could not be opened, and one more exactly while
  the pipe is open. `DeadMeansReleased` so says that starts and stops use up no
  device except where `open` fails on a new one.
* `ResubscribedCorrect`, `NoTopicTwiceCorrect` (`MqttProofs`): `TableInv` says
  how far the resubscription loop has come. The two properties need each other:
  an unsubscribe takes a topic from the broker and later from one slot, so the
  other slots stay subscribed only because no topic is in the table twice. The
  slot in between, `clearing`, is the exception `Resubscribed` names.
* `ClientTypeCorrect` (`MqttProofs`): `TypeOK`, of which the hard part is that
  the pipe never holds more than its room. `WriterInv` goes with it: what a
  writer still has to put is a whole record of its own or the end of one, and
  nothing when it is idle.
* `SentInOrderCorrect` (`MqttProofs`): `SentInv` says that a record in the pipe
  is newer than every sent one of its publisher and no newer than its count,
  and that a record not yet begun is newer than all of them. It holds whether
  records were cut, merged or dropped, since only the head of a record counts.
* `JunkNeedsMixingCorrect` (`MqttProofs`): `MixInv`, as long as nothing was
  mixed the pipe is empty or begins with a whole record and every publisher
  holds a whole one. That a put into an empty pipe may cut a record is a mixing
  by definition.
* `LossNeedsCauseCorrect` (`MqttProofs`): under the hypothesis that `start` is
  no command of the operator, because a new worker begins with an empty pipe
  and what was left in the old one is gone. `LinkInv` says that a session in
  which no connection was lost has one that works, so that a record taken out
  of the pipe is sent, and that commands in the pipe come from the shell.
* `ServesPublishersCorrect` (`MqttProofs`): `Spec => ServesPublishers`. Each
  step of the worker is a step of the service or a stutter: a read empties the
  pipe, a publish of its own appends or sticks, `MQTTConnect` puts it online,
  an end deletes the pipe under its writers
  (`ServiceStep`); a put of a publisher is one of the service (`ServiceWrite`).
  `SpinInv`, that a spinning worker has an empty pipe, makes `LateWakeup` the
  service's `Spin`.

The theorems about the pipe hold for every size of the ring, every set of
writers, every read size and every bound, under `SizeAssumption` and
`SyncAssumption` (types, and that "free" is no writer).

* `PutAppends`, `GetTakesPrefix` (`RingBufferProofs`): a put appends what fits
  to the contents, a get removes what it returns from their front. The
  arithmetic is that of the mirrored indices: `WriteArithmetic`,
  `ReadArithmetic` and `SlotArithmetic` say where index and mirror stand after
  a step that wraps and one that does not.
* `PipeInvariant` (`PipeProofs`): `IndInv`, from which `PipeTypeCorrect`,
  `PipeNoLostWakeup`, `PipeNoWriterForgotten` and `PipeReadDoesNotBlock`
  follow. It says who holds the lock, that `fifo` differs from `ring` only
  between the two stores, that a ring with bytes has been seen by the worker or
  has a writer on its way to wake it, and that the wakeup flag and the sleepers
  of the writer queue fit together. `ReadDoesNotBlock` rests on the order of
  the stores not mattering: either half of the new position is a non-empty
  ring.
* `PipeIsByteQueue` (`PipeProofs`): `Spec => IsByteQueue`, the refinement, from
  `IndInv` and the two theorems about the ring.

The theorems about `Console` hold for every number of descriptors, every set of
commands and every bound, under `ConsoleAssumption` (types only).

* `ConsoleTypeCorrect` (`ConsoleProofs`): `TypeOK` is inductive by itself, with
  `NewFdIsFree`: the lowest free descriptor is one; that there is a lowest
  comes from the well-foundedness of the naturals.
* `NothingLeaksCorrect` (`ConsoleProofs`): `HoldInv`, an entry of the table
  belongs to the console only inside a session and is then `sock`, one belongs
  to a file only while a load tries to open it, and the shell holds no buffer.
* `ReleasedOnceCorrect` (`ConsoleProofs`): `OwnInv`, as long as no failed send
  was ignored the console has the descriptor and the block it believes to have,
  and the worker has its own.

The theorems about `Building` hold under the assumptions of `AutoControl` and
`RoomAssumption` (pipe and record have a size).

* `BuildingIsControl`, `BuildingIsService` (`BuildingProofs`): the composition
  implements either of its parts. By the first every safety theorem about
  `AutoControl` holds with publishes that wait, fail or never return; by the
  second loop, upload thread and worker use the client as `PublishService` lets
  them, which `ServesPublishersCorrect` shows the client to implement.
* `HeldInStepCorrect` (`BuildingProofs`): `HeldInv`, the loop is in the client
  only from its call to its return and calls only where it publishes, which is
  never `Inside` a change nor at `door4`..`door6`; the rest follows from
  `SirenCorrect`, `DoorCorrect`, `ServoCorrect` and `FanAndLightCorrect` through
  `BuildingIsControl`.

Only model-checked: the liveness properties (`Evacuates`, `CallsOff`,
`LightSettles`, `ComesBack`, `PipeDrains`, `KeepsServing`, `WriteEnds`,
`ClosedIsNoticed`, `EvacuatesWhenServed`, `CallsOffWhenServed`), which are out
of the prover's reach: it has no rule for fairness and ENABLED. Every safety
property of the passing runs and both refinements are theorems as well.

## 5. Not modelled

Most of the repository is not the program: of about one million lines all but a
few thousand are RT-Thread, the STM32 HAL, CMSIS and packages as they were
delivered, two copies of the HAL among them. What the program's own behaviour
rests on is modelled where it is used: the device layer of TIM3, the pipe, ring
buffer, wait queues and poll, the receive side of the AT socket, the descriptor
table. The rest of kernel, drivers and network stack stays outside; so the
share of the lines that is modelled stays far below a third.

Of the program itself: text of messages, JSON and time stamps; packet formats;
TLS and the UDP client; the display; the PWM demonstration; frequency changes
of the siren (`my_hwtimer_addTime`, `subTime`) and the appending functions of
the log, which nothing calls; the loops that read and send a log, behind an
`fopen` that cannot succeed on a flash formatted at each boot; a late waker
that touches the wait queue of a pipe already freed; the MQ2 sensor, whose value
nothing acts upon; the identity of commands (`UUID`); what the server knows of
the devices; the arithmetic of the keep-alive ticks; failed allocations of poll
nodes; the semaphore of the heap.

## 6. Plan

1. *Server view.* Status, alarms and sync answers over lossy publishing: when
   the server's picture of the devices agrees with the record, and what a
   reconnect overwrites.
2. *Command protocol.* Command identities, their responses, the life of `UUID`.
3. *Keep-alive.* The ticks behind the timeout of `select`, which the client
   model only knows as `asleep` when it is negative, and the ping that is late.
