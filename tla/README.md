# A formal model of esphome-nut

esphome-nut is an ESPHome component for an ESP32-S3 that talks to a UPS over
USB HID and serves its state to NUT clients over TCP. It runs three FreeRTOS
tasks that share the members of one `Nut` object without a lock. This directory
holds TLA+ models of its logic, the TLC runs that check them on small instances
and proofs that TLAPS checks for every instance.

All line numbers are those of `src/components/nut/`; `nut.cpp` unless another
file is named.

## 1. The system

| Component | State it keeps | Operations | Interacts with |
|---|---|---|---|
| Start-up | `usb_host_started_`, `usb_events_ready_` | `setup` 76-90, `start_usb_host_` 102-110, `usb_daemon_task_` 112-134, start of `usb_client_task_` 136-165 | creates the three tasks; the client task polls a flag of the daemon |
| USB claim and capture | `ups_device_`, `discovered_device_address_`, `hid_desc_`, `raw_desc_` | event loop 166-172, `discover_usb_devices_` 185-201, `log_usb_device_` 203-309, `capture_hid_report_descriptor_` 415-498 | USB host library; calls the parser, path resolution and polling |
| USB control transfers | a transfer, a semaphore and a context on the stack each | `get_descriptor_` 320-383, `get_string_descriptor_` 385-413, `request_hid_report_` 823-885, `send_hid_report_` 887-936, callback 311-318 | completion callback of the USB host library |
| HID report descriptor parser | `HIDParser_t`: global and local items, path, offset table | `HIDParse` 154-462 and `Parse_ReportDesc` 674-768 of `nut_hidparser.c` | fills `HIDDesc_t`, read by everything below |
| HID object lookup | none | `FindObject_with_Path` (`nut_hidparser.c` 485-504), `string_to_path` and `nut_hid_find_object` (`nut_libhid.c`) | path resolution |
| HID values | none | `FormatValue`, `GetValue`, `SetValue` of `nut_hidparser.c`; `nut_hid_scale_value` of `nut_libhid.c` | polling, commands |
| Path resolution and polling | `vars_`, `bools_`, `commands_`, `report_requests_`, `outlet_count_` | `resolve_hid_paths_` 500-708, `poll_hid_reports_` 710-821 | writes what the server task reads |
| INSTCMD handshake | `pending_command_`, `command_result_` | `execute_instant_command_` 966-985 (server task), `run_pending_commands_` 938-964 (USB client task) | the only channel from the server task to the USB task |
| ups.status and FSD | `fsd_latched_` | `ups_status_` 1050-1087, FSD 1325-1333 | reads `bools_` while the USB task writes it |
| Variables and charger status | `charger_status_cache_` | `find_var_`, `charger_status_var_`, `get_var_value_` 987-1123 | reads `vars_` |
| NUT server | eight `ClientState` slots | `nut_server_task_` 1125-1229, `handle_nut_command_` 1292-1407 | sockets; calls everything a command needs |
| Configuration | none at run time | `__init__.py` | guarantees both primary credentials or none, and different user names |

What makes it hard is the sharing. The server task waits for the USB task only
by polling a `volatile int`; the USB task is away for seconds at a time; either
may act between any two reads of the other. The server multiplexes its clients
by hand, with sessions and unfinished lines kept in slots that are used again.
The parser keeps implicit state from one item to the next and counts in bytes.
And nearly every USB step can fail and is tried again by the next scan, or not
at all. `hazards` in `PROJECT.json` lists these at the lines where they bite.

What correctness means for each part:

- INSTCMD: a command is started at most once, never after its client was
  answered, and the answer is true; an outlet that is cycled always has its
  startup scheduled first; every request is answered in bounded time.
- Server: a connection has the privileges its own lines have earned and no
  others; lines are handled once, in order, uncut; sockets and slots match; no
  client that has sent something is forgotten.
- Status: an FSD latch is announced while it is up, dropped only for mains
  power and dropped in the end when power is back; no token is repeated.
- USB: the client goes to the host only when it is there; polls use the
  descriptor of the device they go to; of the descriptors that
  can be read the richest is kept; a claimed UPS that stays answers one poll
  after the other. A transfer ends, frees what it took and never
  while the host may use it, and "true" means that the UPS has acted.
- Variables: a path finds the object that has it; a value that is served is one
  the device gave for this object, for a number the last one; what is listed is
  found.
- Parser: an object has the path of the collections open around it, the usage
  declared for it and, in the first 256 bits of a report with an ID, the bit
  position of its field; the report buffer has room for it.
- Values: what a field reports within its limits is read exactly, and of what
  commands write exactly that is read back which is within the limits.

## 2. Modules

| Module | Models | How |
|---|---|---|
| `InstCmdService` | what the handshake promises | abstract: `exec` and `reply` per request, no threads |
| `InstCmd` | the handshake | one action per access to a shared variable, a program counter per task |
| `UsbRequest` | what a control transfer promises | abstract: the device acts at most once, and "true" means it has |
| `UsbTransfer` | one control transfer | one action per call of the host library or FreeRTOS, the host and the device as environment |
| `InstCmdTime` | the handshake with delays and transfers | extends `InstCmd`, `INSTANCE UsbTransfer`; a tick is 100 ms, all other steps take no time |
| `NutService` | what the server promises its clients | abstract: a conversation per connection and the FSD latch, no slots, buffers or flags |
| `NutServer` | the server task | extends `NutService`, whose variables it implements; one action per step of the select loop and per NUT command |
| `UpsStatus` | the status walk, the latch, the poll of the status bits | each read of a flag and each write of one is an action |
| `UsbClient` | scan, claim, capture, poll | one action per outcome of each USB request |
| `UsbTask` | `setup()`, the daemon, the wait of the client | extends `UsbClient`, whose steps run once the client has registered and the daemon serves |
| `HidPaths` | path strings and the lookup of an object | operators over sequences of objects |
| `PollReports` | tables, plan, poll of the variables, LIST VAR | extends `HidPaths`; each update of a variable and each line of a list is an action |
| `HidParser` | `HIDParse`, `GetReportOffset`, `Parse_ReportDesc` | an item of the descriptor is an action, a behaviour is a descriptor |
| `HidValue` | `FormatValue`, logical limits, `GetValue`, `SetValue` | buffers are sets of bits |
| `...Proofs` | | theorems about the module before the suffix; `UsbTaskProofs` also those about `UsbClient` |
| `MC...` | | constants for TLC |

How they fit: the client task of `UsbTask` scans (`UsbClient`), and every
request of a scan or poll is a transfer (`UsbTransfer`). A poll starts with the
posted command (`InstCmd`), goes on with the variables (`PollReports`), whose
items were found by `HidPaths` among the objects `HidParser` laid out and are
read as in `HidValue`, and ends with the status bits (`UpsStatus`). The server
task (`NutServer`) reaches these through INSTCMD, LIST VAR and ups.status.

Names are the source's where TLA+ allows. Variables marked *history* in a
module record what a property needs and the code does not keep; no guard of an
action of the code depends on one.

**InstCmd.** `spc` and `upc` are the positions of the server task in
`execute_instant_command_` and of the USB task in `run_pending_commands_`. A
request is an INSTCMD line; `cmd`, `exec`, `reports` and `reply` follow it. The
code itself knows only the posted index, which is why a completion can be taken
for another request's. The mapping to `InstCmdService` is the identity on
`exec` and `reply`. The abstract specification allows one untruth and says
when: a request that never started may be told a result if an earlier one was
abandoned while it ran.

**InstCmdTime and UsbTransfer.** `UsbTransfer` has the caller's position
(`xpc`), the transfer, its semaphore and what the device did. The callback runs
only inside `usb_host_client_handle_events`, which the waiting task itself
calls (`Deliver`), so a transfer the host has finished is over one take later.
`InstCmdTime` conjoins the steps of both modules: a report of `InstCmd` works
exactly if its transfer was acted upon, and the command goes on with what the
transfer returned. A transfer may fail after the UPS has acted. A take of the
semaphore costs a tick when the transfer has not come back; every other step is
immediate. `UsbRequest` is the abstract transfer: the mapping takes the caller
to be busy while it is in the function.

**NutServer.** A connection is its socket. One that is accepted while every slot
is taken is closed in the same step (`Drop`), since the server does nothing
between the two calls and the peer cannot tell them apart. A line travels as two
atoms, so that every way `recv()` can cut the stream, within a line or between
lines, is distinct; a line joined from pieces of different ones is `Garbage`.
The environment connects, sends and leaves, at any time and in the middle of a
line, and may stop reading its answers: `send()` then blocks the one server task
until it reads again or leaves. A line's effect comes before its answer. INSTCMD
and the status reads appear by their effect on this module's state; `InstCmd`
and `UpsStatus` look inside. The variables of `NutService` are among the
server's own (the lines sent and handled, what took effect, the latch), so the
refinement is the identity on them: to a client, a step of the server either
takes the next line of one connection, or nothing happened.

**UpsStatus.** `bools_` is the constant `Bools`, `valid` its flags. The USB task
receives a report and writes its flags one at a time; the server task reads
each flag twice, once for mains power (1054) and once for the token (1057).

**UsbClient.** Every device that is plugged in is a new *plug*; a handle names
the plug it was opened on, so the model can tell a replugged UPS from the one
the handle is for. Requests to a plug that has left fail. A scan visits the
addresses in any order. A descriptor is its index and the number of its items
(`Items0`, `Items1`), which is all that the capture compares; `readof` records
which of them the last capture that found one could read.

**UsbTask.** The three tasks are created one after the other and run at once.
`usb_host_started_` is the only link between the daemon and the client.
`rounds` is the client's loop counter. A task that was not created or has ended
stays so.

**HidPaths and PollReports.** The parser copies its whole array of nodes to an
object, so nodes that came before, of earlier objects or (`before`) of items
without a usage and of collections that hold nothing, are left behind the
object's own path, and `FindObject_with_Path` compares only as many nodes as the
path looked for has. `Parsed` keeps these left-over nodes. A field is a byte;
`Position` is its byte in the report. The device answers a request with any
values, cut anywhere, with or without the report ID in front, and with a report
of either type: the type that goes out in `wValue` (843) is the item's, 0xB0 or
0x80, and not the 3 or 1 of the HID class that 910 uses, so which report comes
back is the device's choice. `told` is what the device last said each object is:
fields it did not send, answers of the other type, and answers without an ID
whose first byte happens to be the ID, are *dubious*, and nothing is claimed of
them but that they stay within the variables of the request.

**HidParser.** Items are enumerated, not stored: from each state every item the
HID grammar allows may come next. Objects that are laid out are compared with
history variables that know the true bit position, the open collections and
the declared usages.

**HidValue.** The limits come from items of every encoding, then any field
content is reported or a constant of the command table is set (`Commanded`),
whatever the limits are, as `send_hid_report_` does (899). `Power[n]` is the
code's `1L << n`, and `Sums` what the loop of `GetValue` has added up before each
bit: both are recursive functions, which the proofs can reason about.

Operators whose comment begins with *Slip* are plausible mistakes in the
definition that follows them. No specification uses them; substituting one
shows that a property can fail (`mutants` in `PROJECT.json`).

## 3. Runs

| Run | Question | Bounds |
|---|---|---|
| `InstCmd` | safety of the handshake, an answer for everybody, refinement of `InstCmdService` | 3 requests, 3 commands (plain, cycle, cycle without a startup item), 2 rounds of waiting |
| `InstCmdTime` | how long the server is held up; when a command is given up on; transfers end, leak nothing, free nothing early, implement `UsbRequest` | 2 requests, waits of 8 ticks against 11, transfers of 2 |
| `NutSessions` | privileges, refinement of `NutService`, sockets and slots when the slots are full | 2 connections after each other in 1 slot, 4 lines of 7 kinds |
| `NutTraffic` | framing, no client forgotten | 2 connections in 2 slots, 3 lines, 2 lines under way, 1 client that may stop reading |
| `UpsStatus` | the status walk against the poll, the latch | 6 status bits in 2 reports, 3 states of the UPS |
| `UsbTask` | start-up; descriptor and handle agree, the richest is used; a claimed UPS goes on being polled | 2 rounds of waiting, 2 plugs, 2 addresses, 3 kinds of device, descriptors of 1 and 2 items |
| `PollReports` | lookup, values, plan, lists | all descriptors of 1 or 2 objects over 7 paths, 2 types and 2 reports, of 1 object also after an empty collection, 7 table entries, values 0 and 1, answers of both types |
| `HidParser` | paths, usages, offsets, report lengths | 2 usages, 2 collections, 2 counts, fields of 100 bits, 400 bits a report, with and without an ID |
| `HidValue` | exact reading and writing | bytes of 2 bits, fields of 3, 6 and 8 bits, the constants -1, 0, 1, 2, 3, 10, 20, 30 of the command table |
| `InstCmdOkExecuted` | violated: OK means executed | as `InstCmd` |
| `UpsFsdKept` | violated: FSD is kept until power *returns* | as `UpsStatus` |
| `UsbReplug` | violated: an attached UPS is polled | 2 plugs of a UPS at 1 address |

The larger runs have between 0.1 and 2.5 million states and take up to three
minutes each with two workers.

Why the bounds are enough. Three requests are one more than the two a late
completion can touch. Two rounds of waiting reach every combination of the two
program counters; the number of rounds matters only to time, and `InstCmdTime`
keeps the order of the source's delays (a transfer of 1 s is shorter than the
server's 4 s, these are shorter than the 5 s between two polls). One slot with
two connections is slot reuse and a full table, when the second comes while the
first is there; two slots are concurrent service; one client that stops reading
is enough to block the task, and the other shows what it does to it. The lines
of `NutSessions` raise the FSD latch but do not ask for the status: how the
latch falls is for `UpsStatus`, and the refinement is proved for every set of
lines. In `UpsStatus` the six bits include a token with two sources, one
contained in another and the UPS's own FSD. In `PollReports` two objects may
share a report, a report ID with different types, or a path, and one may be a
prefix of the other; with values 0 and 1 an answer may begin with the ID of
report 1 by accident; two objects are two requests through one buffer. In
reports of 400 bits fields start at 0, 100, 200 and 300, and the last of these
has passed the 256 that the offset byte can count. In `HidValue` only the
proportion of field, limits and long matters, and all of them occur: fields
shorter than, as long as and longer than their limits and as wide as a long; a
long is 8 bits there, so that of the command constants -1 is below every range
of a field without a sign and 30 above the smaller ones.

Deadlock is not checked in the runs whose system may stop: no more INSTCMD
lines, connections or lines (`InstCmd...`, `Nut...`), a listener that cannot be
opened (`Nut...`), all tasks ended (`UsbTask`), a table of which nothing
resolves (`PollReports`).

Fairness. `InstCmd`: the server task only; it waits for nothing but its own
delays, and the USB task may be away for ever. `NutServer`: the server task,
which blocks only in `select()` and in `send()`, both waits for a client; a
client that reads makes room for the answer (strong fairness of `send_line_`).
That clients read is not fairness but a premise of the two liveness properties
(`AllRead`): without it both are false, since one silent reader stops all.
`UpsStatus`: both tasks run on, clients go on asking, and no report fails for
ever (strong fairness of each report's success). `UsbTask`: `setup()` and each
task that was created run on, because every transfer has a timeout and every
delay ends, and a request to a device that stays attached does not fail for
ever. That a task is created, the host installed or the client registered is
not assumed. No bus or client action is fair anywhere. `UsbTransfer` needs no
fairness: its bound is one of time (`TransferEnds`), under the one assumption
that the host ends a transfer at its `timeout_ms`, which the source states at
359.

## 4. Proofs

The theorems hold for every value of the constants that the ASSUMEs of the
modules allow: `ValueAssumption` (an item's data fits its bytes,
a field its long), `ConstantsAssumption` (there are commands, cycles are among
them, bounds are positive), `TimeAssumption` and `RoundsAssumption` (delays
and rounds are positive), `StatusAssumption` and `TablesAssumption` (tables are
sequences of well-formed entries), `DepthAssumption`, `ParserAssumption`
(sizes and counts are bytes, as `HIDParse` stores them), `UsbAssumption`
(addresses are not 0), `ServerAssumption` (what `setup()` and `__init__.py`
check of names and passwords) and `ConnsAssumption`. TLC evaluates them in the
runs. Few of the properties are inductive by themselves; the invariants that
carry them are named here.

**InstCmdProofs**, for any number of commands, rounds and requests:

1. `TypeCorrect`: one step per action. It includes that the index the USB task
   uses is in range.
2. `HandshakeInvariant`: `HandshakeInv` is inductive. The properties are not
   inductive by themselves: that an answer is true needs to know, at the
   server's last read, that either the current request has finished and its
   result is still in `command_result_`, or an abandoned one took the index
   away (`ClearedMeansDone`). That needs what the USB task may hold
   (`WorkIsPosted`), what may be posted (`PostedIsCurrent`), and that requests
   are answered in order (`RequestsInOrder`).
3. `StartedAnswersTrue`, `UnstartedAnswersCause`, `CycleSchedulesStartup`,
   `PostedIsWithdrawn` (no older index is posted when a request begins) and
   `StartsAtMostOnce` follow from the invariant.
4. `ImplementsService`: under the invariant each action is one action of
   `InstCmdService` or a stutter.

**UsbTransferProofs**, for any timeout: a transfer leaks nothing
(`NothingIsLeaked`), gives nothing up that the host may still use
(`FreedAfterCallback`), implements `UsbRequest` (`ImplementsRequest`) and ends
(`TransferIsBounded`). `TransferInv` says what the caller holds at each point of
the function; the point of the argument is the wait: there the semaphore is
given exactly when the callback has run. `AgeInv` adds that a transfer the next
take will still find undelivered is not older than its timeout.

The second half of **InstCmdProofs** is about `InstCmdTime`, for any delays and
timeouts. `TimedIsHandshake` and `TimedIsTransfer` show that every behaviour of
the composition is one of `InstCmd` and one of `UsbTransfer`, so all theorems of
both hold of it; the run checks these of the composition (`CommandsLeakNothing`,
`CommandTransfersEnd`, `CommandsFreeAfterCallback`, `CommandsMakeRequests`). The
clocks have an invariant of their own, `TimeInv`: at every point of the wait the
ticks waited are the rounds done (`ServerClock`), a request that waits for a
resting USB task is posted until the rest is over (`AwayInv`), and a request
that was started has waited no longer than the ticks its transfers have spent
since (`LeftInv`). `ServerIsNotBlockedLonger`, `GivenUpOnlyIfAway` and
`TimelyStartIsTold` are its consequences; the last needs of the transfers that
each ends within its timeout and one take.

**UpsStatusProofs**, for any table of status bits, plan of reports and behaviour
of the UPS: `StatusTypeCorrect`, `TokensAreDistinct`, `LatchNeedsMains` and
`LatchIsAnnounced`. `StatusInv` says that the walk is inside the table, that its
status repeats no token, and that mains power which the flags show now or the
walk has seen is on record since the FSD request; the last part needs that a
walk starts with `on_line` false and that FSD comes only between walks, both of
them true because one task does both.

**NutServerProofs**, for any number of slots and connections, any lines, names
and passwords, in four layers:

1. `ServerInv`: the select loop. A slot the loop is about to serve is in use
   (`LoopInv`), the listen queue holds each waiting connection once
   (`QueueInv`), and sockets and slots match (`OneSlotPerSocket`, by
   `SocketsMatchSlots`).
2. `GrantInv`: the flags of a slot are those that the lines handled for the
   connection in it have earned, and a connection in no slot yet has had no
   line handled. A slot that is used again keeps it because its new
   connection starts with the flags and the name reset (1188-1190).
   `FlagsFollowLines` follows.
3. `FramingInv`: the stream of a connection, that is the unfinished bytes of its
   slot followed by those under way, is a beginning of the lines sent after the
   first *n*, and all of it while the peer is there (`Flows`); what was handled
   are those first *n* without the blank ones (`Got`). `send` adds at the end of
   the stream, `recv()` moves its cut, handling a line takes its first one, and
   a peer that leaves shortens it. `LinesAreInOrder` follows.
4. `ImplementsNutService`: the three invariants together make every step one of
   `NutService` or a stutter. The line that is handled is the next one its
   connection sent, since after the step `LinesInOrder` still holds with one more
   line handled (`TheNextLineIsTaken`), and it is obeyed exactly if entitled,
   since the flags are what the lines have earned (`FlagsEntitle`).

What `NutService` promises can be read off it without the server: by
`ServiceObeysAsEntitled` a privileged line takes effect exactly if the earlier
lines of the same connection entitle it (`ObeyedIffEntitled`), and by
`ObeyedAsEntitled` the server, which implements it, obeys so too.

**UsbTaskProofs**, for any addresses, plugs and rounds. `ClientInv` holds of
`UsbClient` by itself: `Phase` says which handle and address each step of a
visit was left by the steps before it, `Richer` which descriptor a capture has
in hand. `TaskRunsClient` shows that the client as `setup()` starts it behaves
so; hence `DescriptorIsOfHandle` and `RicherIsKept` of the composition. The
latter is about the descriptors that the capture in use could read, for any
numbers of items: a read that failed is not tried again, and nothing is claimed
of what it would have brought.
`ScanningNeedsHost` needs the order in which the tasks come up (`StartInv`).

**PollReportsProofs**, for any descriptors and tables. `LookupFindsTheObject`
compares the fold that resolves a path over left-over nodes with the object that
has it. `PollTypes` has the fact that the plan of requests covers the report of
every variable (`PlanInv`). `PollInv` relates the one report buffer to the
device: during the updates an object of the report just read has what was told
of it at its byte (`AnswerInBuffer`), and in a poll in which nothing has failed
everything up to the current request is served (`ServedSoFar`).
`ServedIsTheDevices` and `CleanPollIsComplete` follow. The former says of a
number, and of an entry that is in its lookup table, that the last one is
served; a lookup whose last answer is out of its table (746, 782) goes on
serving an older entry, and a string that cannot be fetched an older one, so
that of these the theorem says what they change to. Dubious answers are left
out. `ListInv` says that a variable chosen by LIST VAR stays valid, whatever the
poll does until its line is written: `ListFindsItsVariables`.

**HidParserProofs**, for any items of the grammar, any depth and any number of
usages. `ParserInv` has a part for the main item under way (`CountInv`), the
usages not yet given out (`UsageInv`: they are those declared after the objects
made so far), the path (`PathInv`: cutting the path at a collection's end gives
the path outside it), the offsets and the lengths. From it
`PathsAreOpenCollections`, `OffsetsAreTrue`, `BuffersHoldReports` and the action
property `ObjectsTakeUsagesInOrder`. `OffsetsAreTrue` says which
offsets are true and that all others are not: beyond 256 bits a byte wraps, and
without a Report ID each field but the first gets the offset 0.
`BuffersHoldReports` has the restriction of the code, a report whose bits a byte
can count.

**HidValueProofs**, for bytes of any number of bits, any items and any sizes of
fields. Three facts about numbers carry it: a power of two divides the larger
ones (`PowerDivides`), a number is that of its low bits and a multiple of their
power (`SumsSplit`), and the bits that `SetValue` tests add up to the value but
for such a multiple (`BitsMakeNumber`). `hibit` gives the power next above the
larger limit (`SignBitIsEnough`), so a field with room for its limits has all
the bits of the mask (`RoomForMask`), and two numbers within the limits that
agree in those bits are equal: `GetValue` finds that one number
(`ReadsTheOneInRange`). A reading is never outside the limits
(`ReadingIsInRange`). `InRangeValueIsKept` and `WrittenIsReadBack` apply this to
what the UPS reports and to what was written, where the second fact shows that a
constant outside the limits is never read back; the latter needs that nothing
has changed the field or its limits since (`FieldWritten` in `ValueInv`).
`MistakenMaximumIsRepaired` needs that the maximum is that of its item
(`MaxFromItem`) and that less than four bytes fit a long without its sign. With
a negative minimum it says no more than that the range is not empty: after -10
the byte 255 is read as -1, whatever was meant.

How induction over data was avoided. The models count lines with `Cardinality`,
use recursive functions and folds, and no proof needs an induction theorem with
an operator parameter: facts about all lengths are stated as a set of naturals
in which a least element, if there were one (`LeastNatural`, from the
well-foundedness of `<`), would contradict the step; folds of the community
modules are unrolled into functions on sets of indices, whose existence is
proved the same way (`FoldExists`).

Model-checked only: everything under fairness (`EveryRequestAnswered`,
`EveryLineAnswered`, `GonePeersAreClosed`, `MainsDropLatch`,
`ClaimedUpsIsPolled`, `ReadyHostIsUsed`), which is beyond TLAPS. Every invariant
and every action property of the passing runs is proved, and so are the
refinements of the three abstract specifications.

## 5. What the violated runs show

- `OkMeansExecuted`: the server gives up on request 1 while the USB task runs
  it, posts request 2, and the USB task's late `pending_command_ = -1` (963)
  ends request 2. Its client is told `OK`, because `command_result_` was
  written by request 1.
- `FsdKeptUntilMains`: `on_line` drops the latch (1073) also when mains power
  was there at the request. The repository's README says "until [...] mains
  power has returned".
- `AttachedUpsIsPolled`: nothing ever closes or forgets `ups_device_`.

More consequences of the code are in the models without a run of their own.
The server waits 4 s (972) for a task that sleeps up to 5 s (167), so a command
posted in the first second of that sleep is refused although all is well:
`UnstartedOnlyIfAway` says that this is the only way. And a second device
address on the bus makes `discovered_device_address_` (212-213, 300-304) change
at each visit, so that the descriptor of the held device is captured anew at
every scan: `DescriptorOfHandle` holds nevertheless.

Two places of the code disagree with themselves. `nut_hidparser.c` says twice,
at 195 and 247, "Unstack UPage/Usage from UsageTab (never remove the last)", as
HID has it: the last usage names all objects beyond it. The code that follows
removes the last usage too, and the objects beyond it are continuations without
a name; `UsagesInOrder` states and `HidParser` checks what the code does. And
`request_hid_report_` gets the type of the descriptor item (0xB0 or 0x80,
`nut_hidtypes.h` 67-68) from the poll and puts it in `wValue` (843), where 483 and
910 put the 3 of `HID_REPORT_TYPE_FEATURE` (45): the answer to the first is the
device's choice, and `ValuesAreTheDevices` is checked for either.

## 6. Not modelled

- The vectors being cleared or grown under a reader (a recapture while the
  server task walks them): undefined behaviour, listed as a hazard.
- `charger_status_var_`, the fixed `device.*` answers (LIST VAR has an `ERR` line
  for an empty serial number or an unpublished charger status), the text of
  answers.
- The content of setup packets, and fields of a report other than a command's.
- Report descriptors outside the HID grammar, and a Report Count of 0 or 256,
  which `HIDParse` counts down through 255 (280): 256 objects from one item.
- `send()` of the answer to an INSTCMD inside `InstCmd`, where answering is one
  immediate step; `NutServer` has the `send()` that blocks.
- A field of `PollReports` is a byte and its conversion to a number exact;
  `HidParser` and `HidValue` have the bits.
- Floating-point scaling, the vendored tables, code generation in
  `__init__.py`, logging.

## 7. Plan

Done: `InstCmd` (with service, time, transfers, proofs), `NutServer` (with
service), `UpsStatus`, `UsbClient` and `UsbTask`, `HidParser`, `HidValue`,
`HidPaths` and `PollReports`, in that order: the handshake first, since it
switches loads; then who may use it, what is announced, and how the data gets
there.

Next modules: the charger status over three variables that change between its
reads; descriptors outside the grammar, with the tables' bounds as properties.

Theorems: the safety properties of the runs are all proved. What is left is
liveness, which stays with TLC, and whatever the next modules state.
