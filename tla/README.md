# UniRail in TLA+

A model railway carries three trains on three loops that cross, merge and, on
some cantons, run in opposite directions. Each train is driven by an on-board
program (EVC); a radio block centre (RBC) collects their positions, shares out
the track, sets the switches and hands out movement authorities (EOA, the point
a train may drive to). The repository also holds the libraries the students were
given (`doc/subject/Annexes`): an indoor positioning system, CAN, radio frames and
ERTMS messages. This directory holds TLA+ specifications of all of these, their
TLC runs and their TLAPS proofs. Paths below are relative to `src/`.

## 1. The system

| Part | Source | State | Operations | What makes it correct |
|---|---|---|---|---|
| Track resources | `app/RBC/src/ressources.c`, tables in `app/utility/src/const_chemins.c` | `resources`, one byte, a bit per resource; next request and release index per train | `ask_resources`, `lock_ressources`, `free_resources` | one owner per resource; a train is only where it has the resource; all come back |
| EOA calculator | `app/RBC/src/eoa_calculator.c` | none (reads `pos_trains`) | `next_eoa` | an authority stops at the next request and at the other trains |
| Request handlers | `app/RBC/src/requests_handler.c` | one thread per request | codes 100, 101, 102 | reports applied in order, authority after the resources and switches |
| RBC main loop | `app/RBC/src/main.c` | one pending request | receive, hand over to a thread | no request is lost |
| Switches | `app/utility/src/can_infra.c` | switch positions, on the CAN bus | `set_all_switch` | never move under a train |
| Awaited answers | `app/utility/src/comm_message_listener.c` | list of waiting responses, condition variables | `wait_for_response`, `message_listener` | the right answer to the right thread, no use after free, no lost wake-up |
| UDP messages | `app/utility/src/comm.c` | `next_req_id` | `send_data`, `receive_data` | unique ids |
| Position reporting | `app/EVC/src/position.c` | `pos_initialized` | a 101 every second, 5 s timeout | keeps reporting whatever is lost |
| EOA thread | `app/EVC/src/eoa_handler.c` | `eoa`, thresholds | a 102 at 5000, 2500 and below 1000 | asks early enough, gets its answers |
| Automatic driving | `app/EVC/src/automatique.c` | position, speed, laps left | `boucle_automatique` | stops before the EOA, respects speed limits |
| Mission requests | `app/EVC/src/requests_handler.c`, `app/MissionSupervisor` | `mission` | 103 | a mission reaches the train |

The libraries of the subject, under `doc/subject/Annexes/` (`CAN`, `XBEE` and `ERTMS`
are in `Code_exemple_avance_train_UniRAIL/Libs_Unirail/`):

| Part | Source | State | Operations | What makes it correct |
|---|---|---|---|---|
| Positioning | `Marvelmind/src/marvelmind.c`, `example.c` | a ring of positions, a table of beacons, samples, `lock_` | the reader thread, `getPosition..`, `printPosition..`, start, stop | each position printed once, in one piece; ends on Ctrl-C; finds datagrams again |
| CAN send queue | `CAN/canLinux.c`, `CAN/MESCAN1_Utilitaire.c` | four arrays of frames, a mutex | `canLinux_transmit`, `task_send`, `canLinux_close` | in order, nothing lost, close ends |
| Messages over CAN | `CAN/MESCAN1_Utilitaire.c`, `ERTMS/APIUniRail.c`, `XBEE/xbee.c` | statics of the slicing and of the reassembly | `SendThroughCAN`, `MESCAN_reconstructMessage` | all bytes once; a message announced complete adds up to its checksum |
| CAN variables | `CAN/MESCAN1_Var*.c` | the eight bytes of a frame | set and get | a variable changes nothing else and reaches the receiver |
| Radio frames | `XBEE/xbee.c` | the state of a byte-wise parser | `PortXbee_envoyer`, `PortXbee_receptionOctet` | a whole frame after a silence is accepted |
| ERTMS messages | `ERTMS/ertms.c` | a structure, a buffer | init, serialize, deserialize | what is read is what was written |

How they interact. The EVC threads `report_position` and `eoa_handler` send
datagrams to the RBC and wait in `wait_for_response`; the EVC's
`message_listener` thread receives everything that comes back and matches it to
a waiting response by its id. In the RBC the same `message_listener`, finding
nobody waiting, stores every datagram in the single `pending_request`, from
which the main loop starts one `handle_and_respond` thread each. These threads
share `pos_trains` (a mutex per train), `resources` (a mutex), the two index
tables and the CAN bus.

What is hard here: handlers of three trains interleave inside
`ask_resources`, which gives up its lock to wait for a resource; the authority
is computed from positions that go on changing; releases depend on which
positions happen to be reported; datagrams are lost, reordered, late or
overwritten; timeouts race answers that are being delivered; the tables,
written by hand, must agree with one another; and the speed is computed in whole
numbers, from a position that is one frame old, with a speed kept from the frame
before. In the libraries, two threads share a ring or a queue with a lock that is
not always held, and three parsers must recover from bytes or frames that never
came. `PROJECT.json` lists these hazards at their lines, with the properties that
cover each, or why none does.

## 2. The modules

| Module | Models |
|---|---|
| `UnirailMap` | the tables of `map.c`, `const_chemins.c`, `can_infra.c`, `trains.c` |
| `TrackSharing` | abstract: what the RBC promises of the shared parts of the track |
| `Interlocking` | the RBC (resources, switches, authorities) and the trains inside their authorities; its properties; the mapping to `TrackSharing` |
| `MCInterlocking` | `Interlocking` with the tables of `UnirailMap`, for TLC |
| `TrainAlone` | one train as it can behave alone, what two trains must satisfy, and the inductive invariants `IInv` and `SwitchesStand` |
| `MCTrainAlone` | the states of each train alone, computed by TLC from the real tables |
| `EoaReads` | `next_eoa` read by read, and reports stored field by field; the rest is `Interlocking`, whose steps these are shown to be; authorities and other trains; progress |
| `MCEoaReads` | `EoaReads` on the real tables, for TLC |
| `InterlockingProofs`, `TrackSharingProofs` | the theorems about them |
| `RequestReply` | the two client threads of an EVC, its listener, the network, the RBC main loop and handler threads; its properties |
| `RequestReplyProofs` | the theorems about its safety |
| `MCRequestReply` | symmetry of the request ids, for TLC |
| `SpeedControl` | the speed of a train, frame by frame, on two cantons |
| `SpeedControlProofs` | the theorems about its braking, its slopes and where it stops |
| `OnBoard` | the threads of one EVC, its laps, its objective and its requests, cell by cell on a loop |
| `OnBoardProofs` | the theorems about its turns and its authority |
| `MCDriving` | `SpeedControl` and `OnBoard`, each in behaviours of its own, for TLC |
| `Marvelmind`, `MarvelmindParser` | the positioning library under its two threads; its parser |
| `MarvelmindProofs` | the theorems about the two threads |
| `CanQueue` | the CAN send queue and the program `avance_train` |
| `CanQueueProofs` | the theorems about the queue |
| `CanMessages` | messages cut into CAN frames, relayed and put together |
| `CanMessagesProofs` | the theorems about the sender and the reassembly |
| `CanVariables` | the variables of 46 CAN frames |
| `XbeeFrames` | radio frames on a serial line |
| `Ertms` | ERTMS messages, written and read |
| `MCAnnexes` | the libraries, each in behaviours of its own, for TLC |

`Interlocking` and `RequestReply` meet in the 101 and 102 requests: the first
says what they do at the RBC, the second how they get there and back. `OnBoard`
has the train's side of the same requests. Two assumptions join them, and neither is
without exception:

- `OnBoard` and `SpeedControl` take the RBC for an environment that never takes an
  authority back. `ProlongsUnlessTorn` says so of `EoaReads`, but after an answer computed
  from a half-stored report of another train (`torn`), or when two trains report the very
  same position, the next authority may be behind. What the train then does is not modelled.
- `Interlocking`, `EoaReads` and `OnBoard` take a train to stop where its authority ends.
  `StopsInTime` says so of `SpeedControl` up to 50 mm, but a train whose authority ends in the last
  millimetres of a canton may stand past the next balise, and from there it drives on
  (`Overruns`). What that does at the RBC is not modelled.

The libraries run in other programs and share nothing with these.

### Interlocking

An action is what a handler does while it holds one of its mutexes.

| Action | Code |
|---|---|
| `Report(t, p)` | 101: store the position and `free_resources`, all under `pos_trains_locks[t]` (`requests_handler.c:70-78`) |
| `Ask(t)` | 102: `ask_resources` up to the unlock of line 80, which decides whether a resource is needed |
| `LockRessources(t)` | the poll of `lock_ressources` that finds the mask free; from then on the handler can take `pos_trains_locks[t]` again |
| `SetSwitch(t)` | one CAN command of `set_all_switch` |
| `EndSwitches(t)` | its return, the next request index, the final unlock (`ressources.c:94-109`) |
| `NextEoa(t)` | `next_eoa`, the 202 answer and its reception by the train: any of the `Answers` its unlocked reads may come to |

Between the unlock of line 80 and the lock of line 82, and until the first
command, reports of the same train are possible; after it they wait for the
lock. `held` is a history variable: who obtained each bit of `resources`, which
the code does not record.

Abstractions, each chosen for what the properties tell apart:

- A mask is the set of its bits. A train is its index 0..2.
- `pos_r` is one of the slots `0..PosMax`, slot 0 being on the balise. Slots stand
  for places at least 50 units apart (the tolerance of `get_distance`), so the
  rounding of the EOA (`%2.f`) and that tolerance are below the grain. `pos_r` is
  never negative: it is read from an unsigned wheel counter.
- A train starts where `init_trains` believes it is: it is put down before the
  first balise of its loop, finds that balise (`init_train`) and stops there. Slot
  0 includes the few centimetres it takes to stop.
- The real position of a train is not a variable. What the RBC may rely on is
  that the train is somewhere from its last report to its EOA (`MayBeAt`), and
  the next report is any such place. That a train does stop at its EOA is an
  assumption, which `StopsInTime` of `SpeedControl` and `StopsAtAuthority` of
  `OnBoard` discharge up to the 50 units `get_distance` tolerates (and but for the last millimetres
  of a canton, see above).
- An authority behind the train in its own canton is a whole lap ahead, as in
  `get_distance` (`map.c:38`).
- A train has at most one 102 in the RBC, because `eoa_handler` waits for the
  answer. It may ask at any time: the thresholds only make it ask less often.
- `next_eoa` is one step here, although it reads the positions of the other trains field
  by field while their threads store them, without a lock in common: a data race. So the
  step does not compute an answer from `pos_trains`; it takes any of `Answers`: a position with an
  objective on it, be it the balise of the next request or any place another train
  could be found at (`FoundAt`: any balise of its loop with any `pos_r`, those of two different
  reports included), in `EoaRange`: in front in the own canton or further on, but never past the
  balise of the next request. `EoaReads` goes through the reads, and `ReadsAreAnswers` shows that
  all it comes to is in there, with the one exception of `left`.
- `CanMayFail` is the failure of `send_can_data`: `set_all_switch` stops at the
  failed command, and its result is ignored.

### EoaReads

The same RBC at the grain of its memory accesses. `StoreBal` and `StorePosR` are the two
stores of a 101, the second with `free_resources`, under the lock of the train; what
another thread reads in between is `InMemory`. `BeginEoa` takes the lock and looks at the
own position, `ReadBal` and `ReadPosR` look at one field of another train, `LookNext` is
what comes after one train (the other one, the answer, or the next balise), `CopyBal` and
`CopyPosR` are `next_train_position = pos_trains[...]` (lines 30 and 35), a structure of two
words. The local variables are the record `reader[t]`. `Unlocked` is
the lock of one train; nothing else excludes a reader from the reports of the others.

`Reported` is where a train says it is: a report that takes it to another canton counts from its
first store, another one from its last.

`torn` is a history variable: a train has changed canton while `next_eoa` of another one was between two reads of
it, or was half through storing a new canton when its balise was found. The answer may then be
made of two reports. What holds in spite of it is checked and proved without `torn`
(resources, exclusion, steps); what does not is that authorities stop at the trains
and only grow.

`left` is the case of `torn` that is worse: a train has left its canton after `next_eoa` found it in
front there and before its position was copied. The authority is then in another canton,
perhaps of another loop (`OnLoop` fails). A train that has such an authority computes no more, for
`get_distance` does not return, so that it neither reports nor asks (`OnLoop`).

### RequestReply

A waiting response is named by its thread, which has at most one. The listener
holds `message_list_mutex` during a whole scan, which takes one step per node;
`Register` and `Return` need that mutex; the other critical sections are one
step. `Copy` reads the response without a mutex, as line 52 does. Ids are model
values, a new one being any that nothing refers to: the counter only grows, so
ids are never reused in one life of an EVC. The timeout may fire at any time
when `Slow`; otherwise (every answer comes within 5 s) only when the answer was
lost. `older` and `stored` are
histories: which reports were sent before each one, and what the RBC has stored.

An answer that is received before its request is registered is stored as a request
of the EVC (`StoreRequest`), as `message_listener` does.

A duplicated request shows as a duplicated answer, so only answers are
duplicated. Allocation failures are not modelled. The EVC's own
`requests_handler` never acts: it waits on the copy of `pending_request` that
`main` makes (`EVC/src/main.c:94`), condition and mutex included.

### SpeedControl

`Frame` is one pass of `boucle_automatique` for a frame 0x02F: `compute_new_speed`,
`get_limit_speed`, the cut to the limit and the speed sent. Until the next frame, 100
ms later, the train covers as many mm as its speed in cm/s, which is somewhere
from the speed it had to the one it was sent; the model takes both ends. `get_distance` is the
distance along the loop: past the objective by less than `Margin` in its canton it is
negative, further on or past the next balise (`Overruns`) it is what is left of the lap (`LapLength`), and
the train accelerates. `overran` is a history of that: from there on only `KeepsBraking` (which has
the same exception) and `EntersSlowEnough` say something. `gain` is
what `max_acceleration * elapsed_time` adds, in mm/s: `elapsed_time` comes from
`clock()`, processor time, so it is any of `Gains`. `Authority` moves the objective
forward, and the stretch ends with the second canton. Floats are exact here: the distances are whole mm and `Racine` is what the
conversion to `int` leaves of the square root. Past the objective the square root
is not a number; what the motor receives is then 0. Speed limits are the slopes of
`get_limit_speed`, with the one after a slower canton going down instead of up, as
the code has it.

### OnBoard

The loop is cut into cells. `auto` is where `boucle_automatique` is (`Connect`,
`FirstBalise`, `PassBalise`, `FirstFrame`, `Resume`, `Frame02F`, `StopTrain` for
SIGINT); `FirstAcknowledged`, `FirstRequest` and `NextRequest` are the other two
threads, whose waits on condition variables are guards; `Move` and `ReadAgain` are
the train and the balise reader. `wants` is the test of the three triggers;
`armed` is what of `last_distance_triggered` it can tell. The distance of the first
request is a variable not yet assigned: `armed` becomes anything. A train that has
made its laps brakes for its start balise only from that balise on, and may run
past it into the next lap: `Frame02F` leaves that open.

### The libraries

- `Marvelmind`: a datagram is written in two steps under `lock_`, so that a copy
  without the lock would be torn. Positions are in the ring with, as a history, how
  often each was printed. The flags `haveNewValues_` and `updated` are cleared
  outside the lock, in steps of their own. `SemOpen` comes after the thread was
  started: a datagram in between crashes the program, which the model does too.
- `MarvelmindParser`: bytes 0..15 stand for 0..255, so that `nBytesInBlockReceived`
  wraps as it does in the code for a length above 248 there. The line loses,
  alters and adds bytes until it is quiet.
- `CanQueue`: `MESCAN_enfiler` and `MESCAN_defiler` are two steps each, for they read
  and write the same count. `canLinux_transmit` unlocks the mutex also when
  `pthread_mutex_trylock` has failed (`transmit_Refused`): from there on the other
  steps interleave without exclusion, and `stolen` records it.
- `CanMessages`: all bytes of a message have one value. The checksum is a sum of
  eight bits and the flags of the slices are 16, as in the code. `fresh` is a history: the
  places of `destinationArray` written since the last head. A head goes out before the slices
  that wait, those of the message before it included (`heads`, `waiting`): the file of high
  priority against that of medium. `SendHead` and `SendSlice` are
  `SendThroughCAN` with its `MESCAN_sliceArray`; `RadioMessage` and `RelayEnqueues`
  the relay of `xbee.c`, which ignores a full file; `reconstructMessage` all of
  `MESCAN_reconstructMessage` with its statics.
- `CanVariables`: each frame is a record of its id, its length and the places of its
  variables, copied from the tables. `MESCAN_Set` is each of the set functions,
  with the test of the id; `Crossing` is what arrives of a frame whose first bytes
  only were written.
- `XbeeFrames`: one step per byte (`PortXbee_receptionOctet`) through all states of
  the parser, for data, acknowledgements, answers to commands with and without a value, obeyed
  or refused, and changes of status. `AcceptedAfterSilence` says which whole frames are read: an
  answer whose status is not 0 is refused, for the status is not added to the checksum
  (`xbee.c:300-308`), and one with a value misses its end, for the index of the data is not reset
  and is compared with one too many (`xbee.c:310-317`), unless a data frame cut short has left the index
  at the right place. The overflow of `bReceivePacketData` by such an index is not modelled.
  `late` is the timeout of the parser, measured from the last time it was late or a frame began.
- `Ertms`: how each message is written and how it is read are two sequences of
  fields, translated from the two functions; values have their width, high byte
  first. A packet 16 is copied by `initEBT` and written and read by nobody: `RoundTrip` says of it
  (and of any packet `initEBT` does not know) that the message is read back without it and that both functions
  return 0. The top byte of a number of 32 bits is below 128, TLC's integers being
  32-bit.

## 3. The runs

Passing runs:

| Run | Instance | Shows |
|---|---|---|
| `trains_1_3` | trains 1, 3; two positions per canton; CAN commands may fail | types, each train holds what it enters, exclusion, every resource comes back at its release balise, every step is one of `TrackSharing` |
| `trains_2_3` | each train alone, then trains 2, 3 with four followed switches; reports may skip balises | `AloneAssumption` on the real tables; `IInv`; switches locked under a train |
| `laps_3` | train 3; three positions per canton; fairness | lap after lap |
| `listener_races` | 3 ids, answers late, twice, reordered | list, memory, answers and start-up order |
| `lossy_network` | losses, answers within 5 s, fairness | reports in order, no lost wake-up, the train keeps reporting |
| `split_reads` | trains 2, 3; two positions per canton; one followed switch; `next_eoa` read by read, reports store by store | each train holds what it enters, whatever its authority was computed from; every step is one of `Interlocking`; authorities stop at the other trains and only grow, until `torn` |
| `driving` | two cantons frame by frame; a loop of 12 cells, 2 laps; fairness | stops within the tolerance or past the next balise, never surges before that, enters the slower canton slowly; counts its turns, stays in the cell of its authority, makes its laps |
| `annexes` | each library with small queues, rings and messages; fairness | the last column of the second table of section 1 |

Deadlock is checked but in `driving` and `annexes`, whose programs end (SIGINT, the
end of the mission of `avance_train`, a message that has been read). Both hold
parts that have no variable in common. A behaviour is one of one part, which
`grain` or `part` names, while the variables of the others stay at their initial
values: the states are the sum and not the product of those of the parts.

Runs that end in a counterexample, each a disagreement between the code and
what its documentation says (quoted under `findings` in `PROJECT.json`):

| Run | What it shows |
|---|---|
| `leak_R5` | train 2 never gives R5 back: `L_res_size` is 3 and its release table has 4 entries (it then blocks itself at its second lap) |
| `gridlock_1_3` | train 1, behind train 3, obtains the resource train 3 is waiting for; neither can move on |
| `torn_report` | `next_eoa` of train 3 reads the new balise of train 1 with its old `pos_r`: an authority past where train 1 is |
| `lost_request` | a 102 overwritten in the RBC before the main loop took it: `eoa_handler` waits for ever |

The passing runs are not weakened by these flaws: they check what does hold, with
the flaws in the model. Train 2's leak, for instance, is present in
`trains_2_3` and `split_reads`, where it costs progress and not safety. That an
authority ends exactly where another train reported itself, with no margin for the
length of a train, is what `StopsUnlessTorn` allows. In the
libraries, the program that crashes when a datagram comes before its semaphore is
open, and the mutex that is unlocked by the thread that does not hold it, are in the
models; `EndsOnCtrlC` and the properties of `CanQueue` say what holds all the same.

### Bounds

- `Active`: the trains that run. The others stand where `init_trains` puts them,
  as the RBC believes of a train that has not started. Runs have two: a violation of the
  exclusion involves two trains and the byte they share; what a third one adds is in
  `trains_2_3`, whose `AloneAssumption` is about all three, and in the theorems, which hold for
  every set of active trains.
- `PosMax`: 0 to 2. With 1 there is on the balise and past it, which is what
  `pos_r <= 0` and the comparison of two trains in one canton tell apart.
- `EveryBalise`: no release balise is skipped by the reports (at one report per
  second it takes a train less than the shortest canton). `trains_2_3` and the proofs
  do without it; `ReleasedInTime` and the progress runs need it, since a missed
  release is only made a lap later.
- `Apart`: a train does not come up to the very position of another one. Only in
  `gridlock_1_3`, so that the counterexample is not the blocking of two trains at
  equal positions.
- `Followed`: the switches whose commands a run keeps; the commands of the others
  are dropped from the lists. `trains_2_3` follows four switches that its two
  trains move in opposite directions, `split_reads` one, so that a handler sets switches
  while others read.
- `NotLeft`: the states after `left` are not explored further. The properties of
  `split_reads` say nothing of them (`left \/ ...`, or `torn \/ ...`, and `left` implies `torn`), so nothing
  is lost. Its trains are the two that run in opposite directions over four cantons; trains 1
  and 3 with two positions per canton have too many states to go through (`torn_report` stops at its
  counterexample).
- `Depth`: steps of the search in `MCTrainAlone`. It stops changing before 80; if
  it did not, `AloneAssumption` (the set is closed under the steps) would fail.
- `Id`: three ids. Two threads have one request each; the third lets an old answer
  be under way or in the scan while its thread has sent a new request.
- `driving`: limits 25, 30, 20, 30 cm/s on cantons of 330 and 90 mm (those of the code
  are 25 to 40, on cantons of metres): a train reaches its limit, brakes for the
  slower canton and for objectives inside a canton, from 29 mm and from 400, and the
  objective moves by little (10) and by much (150) while it brakes, to 329 mm among others: the last
  millimetre of its canton, which the train overruns. `LapLength` is 2000 mm. `Period` is one
  authority per second. Cantons of 4, 3 and 5 cells with triggers at 8, 4 and 2
  let the train be before, between and past all three; 2 laps and one more.
- `annexes`: a ring of 3 positions and a table of 2 beacons for 3 addresses, so that
  both overflow; a file of 3 places and 2 measures, which fills and wraps; messages
  of 9, 16 and 17 bytes (above, at and above a multiple of 8), three of them with a
  file of 4 frames that overflows and one loss; one pattern per number and two calls, with
  a variable of the wrong frame; 3 radio frames, one fault, data that hold the start
  delimiter, besides the frames of the module itself; arrays of 0, 1 and 3 elements and two fillings of the other fields.

### Fairness

`EoaReads` (`FairReadsSpec`, for `laps_3` and `gridlock_1_3`): the two threads of a train at the RBC run; a
train with an authority moves on and reports (`Advances`). Each of these may find
`pos_trains_locks[t]` taken by the other thread or the resource byte taken by another train, and get it
again later: `lock_ressources` polls every 50 ms, the mutex is given up after each
critical section. Strong fairness says that what is free again and again is obtained in
the end. The system scheduler does not promise it; it makes the counterexample stronger, where
the request starves although polling is as lucky as can be, and `KeepsLapping` is about a train alone,
whose two threads only wait for each other.

`RequestReply`: the threads run, and obtain a mutex that is free again and
again while the listener waits for a datagram (strong fairness of the steps
that need it); timers fire; the listener finishes its scans; what is not lost
is received and answered. Nothing forces `eoa_handler` to send or `Lose` to act.

`OnBoard`: the train moves when it is told to, its motor goes on sending frames
(strong fairness of `Move` and `Frame02F`, which wait while a balise is being read
again), the threads run and are answered. That the RBC does not answer for
ever with the authority the train already has is what `laps_3` shows for a train that
is alone, and is assumed here.

`Marvelmind`, `CanQueue`: both threads run and a thread that tries a lock again and
again gets it (strong fairness); the bus accepts at last a frame that is written
again and again; measures come. `MarvelmindParser`: datagrams go on being sent.

## 4. What is proved

| Theorem | Module | States |
|---|---|---|
| `AlonePreserved` | `InterlockingProofs` | `Spec => []IInv` |
| `TypeCorrect` | `InterlockingProofs` | `Spec => []TypeOK` |
| `ResourcesAccounted` | `InterlockingProofs` | `Spec => []Accounted` |
| `TrainsHoldTheirZones` | `InterlockingProofs` | `Spec => []EntersWhatItHolds` |
| `ZonesAreExclusive` | `InterlockingProofs` | `Spec => []ZonesExclusive` |
| `ImplementsSharing` | `InterlockingProofs` | `Spec => SharesTrack`: `Interlocking` implements `TrackSharing` |
| `SwitchesStayLocked` | `InterlockingProofs` | `Spec => []SwitchesLocked`, when no command fails |
| `ReadsPreserve` | `InterlockingProofs` | `ReadsSpec => []InductiveUnlessLeft` |
| `ReadsComeToAnswers` | `InterlockingProofs` | `ReadsSpec => ReadsAreAnswers`: `EoaReads` implements `Interlocking`, until `left` |
| `ReadsAreSafe` | `InterlockingProofs` | `ReadsSpec => []SafeUnlessLeft` |
| `ReadsKeepZonesExclusive` | `InterlockingProofs` | `ReadsSpec => [](left \/ ZonesExclusive)` |
| `ReadsShareTrack` | `InterlockingProofs` | `ReadsSpec => SharesUnlessLeft`: the steps of `EoaReads` are steps of `TrackSharing` |
| `WaysStayClear` | `InterlockingProofs` | `ReadsSpec => []InductiveUnlessTorn` |
| `AuthoritiesStopAtTrains` | `InterlockingProofs` | `ReadsSpec => []StopsUnlessTorn` |
| `AuthoritiesProlong` | `InterlockingProofs` | `ReadsSpec => ProlongsUnlessTorn` |
| `SharingExcludes` | `TrackSharingProofs` | `Spec => []Exclusive` of `TrackSharing` |
| `WaitInvariant` | `RequestReplyProofs` | `Spec => []WaitInv` |
| `ListStaysIntact` | `RequestReplyProofs` | `Spec => []ListIntact` |
| `NeverFollowsFreed` | `RequestReplyProofs` | `Spec => []NoUseAfterFree` |
| `OwnAnswer` | `RequestReplyProofs` | `Spec => []ReturnsItsAnswer` |
| `AuthoritiesNeedPosition` | `RequestReplyProofs` | `Spec => []AsksOncePositioned` |
| `ReportsStayInOrder` | `RequestReplyProofs` | `Spec => []ReportsInOrder`, when answers come within 5 s |
| `DriveTyped` | `SpeedControlProofs` | `DriveSpec => []DriveTypeOK` |
| `NeverSurges` | `SpeedControlProofs` | `DriveSpec => KeepsBraking` |
| `SlowsDownInTime` | `SpeedControlProofs` | `DriveSpec => EntersSlowEnough`, when no limit is above twice the next one |
| `AlwaysStopsInTime` | `SpeedControlProofs` | `DriveSpec => []StopsInTime`, under `Usual` |
| `TurnsAreCounted` | `OnBoardProofs` | `ProgramSpec => []CountsTurns` |
| `AuthorityStops` | `OnBoardProofs` | `ProgramSpec => StopsAtAuthority` |
| `FilesKeepFrames` | `CanQueueProofs` | `QueueSpec => []QueueInv` |
| `FramesGoInOrder` | `CanQueueProofs` | `QueueSpec => InOrder` |
| `NoFrameLost` | `CanQueueProofs` | `QueueSpec => []NothingLost` |
| `EveryByteOnce` | `CanMessagesProofs` | `MessagesSpec => CutInOrder` |
| `WholeCompletes` | `CanMessagesProofs` | `MessagesSpec => []WholeIsComplete`, for messages of up to 128 bytes |
| `CompletesWhatAddsUp` | `CanMessagesProofs` | `MessagesSpec => []CompleteAddsUp`, for messages of up to 128 bytes |
| `NeverPrintedTwice` | `MarvelmindProofs` | `HedgeSpec => []PrintedOnce` |
| `NeverHalfWritten` | `MarvelmindProofs` | `HedgeSpec => []NotTorn` |

Those about `Interlocking` hold for every value of the constants, that is every
map, all tables, every set of active trains and every bound, from the assumptions
`BoundsAssumption`, `LoopAssumption`, `TableAssumption` (the tables are long
enough and speak of balises of the loop) and `AloneAssumption`. Those about
authorities and switches also need `MergeAssumption`, `CrossAssumption` and
`SwitchAssumption` of `TrainAlone`, which are about the tables too and which TLC
evaluates on the real ones in run `trains_2_3` (`TablesAssumption` is the last of them
for all the switches, the run keeping the commands of four).

None of the safety properties is inductive: that a release gives back what the
train holds depends on where both indices of that train are, on its position and
on the authority it has. These relations are specific to the hand-written tables.
They are captured by `Alone(t)`, a set of states of train `t`, as a constant of
which `AloneAssumption` says: it holds the initial state; it is closed under
the steps of the train, where `next_eoa` may answer anything another train could
cause (`EoaRange`); and in each of its states the train only releases what it
owns and owns what its authority lets it enter. TLC computes that set from the
real tables (a few hundred states per train) and evaluates the assumption in run
`trains_2_3`. The inductive invariant is then

    IInv == TypeOK /\ (\A t : SeenBy(t) \in Alone(t)) /\ Accounted

Each action changes the view `SeenBy(t)` of one train by one of its own steps
(`ReportStep`, `AskStep`, `LockStep`, ...; `next_eoa` answers within `EoaRange` whatever
the other trains do), and `Accounted` is kept
because a lock takes only free bits and a release only the train's own. So the
product of three trains need not be explored: a table is safe when each train
alone is.

`ZonesAreExclusive` follows from `TrainsHoldTheirZones`, and that one from
`AloneAssumption`; both rest on `Accounted`.

The refinement maps `held` to itself and `inside` to the parts the train may be in
from its last report to its authority. A lock is `Obtain`, for it takes only free
bits; a new authority is `Enter`, by `InsideIsHeld` of the next state; a report is
`Leave`: the train comes closer to its authority and a release takes only what it
has left. `Ask`, `SetSwitch` and `EndSwitches` stutter. `SharingExcludes` then
shows what any such RBC gives.

`SwitchesStayLocked` rests on `SwitchesStand`: the commands of every request whose
resources a train holds stand, and those of the request being set do as far as they
have been sent, while that train does not yet run where they protect it. A command of
another train cannot undo them: by `SwitchAssumption`, two requests that move the same
switch in two directions need a common resource, and `Accounted` gives that to one train.
That commands do not fail is a hypothesis; with `CanMayFail` TLC finds a train authorised over
switches that were not set, since `ask_resources` ignores the result of `set_all_switch`.

Those about `EoaReads` say what is left of this when `next_eoa` goes through its reads. Its answer
need not be one that any single state would give. But `AloneAssumption` is about every answer
in `EoaRange`, the balise of the next request at the farthest, so it is enough that each answer
is there, wherever the positions it was computed from come from. `Knows` is what the local variables keep
between two reads: the request is on none of the cantons already passed, what is `found` is an
objective on this one, and a train found in front in the own canton is still there,
not behind. The first two depend on the train's own position, which does not change
since its lock is held; the last one is what `left` excepts (`StoreKnows`). The search ends within a lap
(`MetWithinALap`). `ReadsIInv` is `IInv` with that, and with the lock exclusions of a
half-stored report (`StoringOK`). A report is then the `ReportStep` of before, a step of `next_eoa`
either goes on with what it knows (`ContinueStep`) or answers within `Answers` (`GiveStep`,
`AuthorityStep`). So even a torn report, which lets a train be authorised past another one,
never lets it into a protected part it does not hold, and `ReadsComeToAnswers` says that
`Interlocking` misses none of what the reads do before `left` (with `Apart`, a bound of one run on the reports, it
would: a report could come to where another train has just reported itself).

Until `torn`, no authority reaches past a place another train has reported. `next_eoa` sees to it
for the trains it finds; later one may enter the loop from another one, or its report may bring it
somewhere else, also while `next_eoa` is searching. So the invariant `WaysIInv` is about two ways of
each train: up to its authority, and up to where `next_eoa` has searched for the other train so far
(`Ends`). `WaysClear` says of every two trains that neither stands strictly inside a way of the
other, and that of two trains at one position one at most may move. Reports keep it because, by
`MergeAssumption`, the ways of two trains that hold different resources only meet where one
of them already stands (`WaysMeet`): two loops never merge between two trains that see nothing of each other. That
assumption is pairwise and about `Alone(t)` and `Alone(u)`, hence a static check of the tables. It applies to
a search too, for what has been searched is an answer the train could have got
(`EndsFacts`). Reads keep it because a search goes on past a canton only when the other train is not there, is behind in the own
canton, or its `pos_r` is among those the answer will be the nearest of (`SearchClear`, `SearchShortens`), and because a train that was
found on a balise is still there when its `pos_r` is read (`StillThere`, which is where `torn` is needed). `CrossAssumption`, no balise being on three loops, is why the first
train met in the own canton is the only one. `AuthoritiesProlong` follows with `FindsEnd`: what ends the new authority of a train inside the old
one stood in its way, or is the balise of its request, or is at the position of the train
itself, which is the exception of the property.

After `torn`, TLC finds the following on trains 1 and 3 with two positions per canton:

- `AuthorityStopsAtTrains` fails (run `torn_report`): a report stores its balise (`requests_handler.c:71`) and
  then, after another conversion, its `pos_r`. `next_eoa` of train 3 reads the new balise 13 of
  train 1 with the old `pos_r` 1, and answers 13, 1 while train 1 is at 13, 0.
- The next answer to train 3 is then 13, 0, behind the one it has: authorities do shrink.
- `\A t : OnLoop(t)` fails: train 3 on balise 9 finds train 1 in front of it (line 29); train 1
  reports balise 1, and line 30 copies that. Balise 1 is not on the loop of train 3, whose
  `get_distance` then never returns (`automatique.c:192`). This is what `left` excepts.

Those about `RequestReply` hold for any set of ids, and whether the network loses, repeats
or delays datagrams or not, from `IdAssumption` alone. `ReturnsItsAnswer` is not inductive:
it depends on what was written to the response, on what travels and on whom the list
shows to the listener. `WaitInv` adds that two threads never wait for the same id and
that a datagram with that id is the thread's request or its answer (`IdsOwned`, kept by a
new id because nothing refers to it, `FreshId`), and that a response that is ready
holds that answer or the timeout (`Answered`). `ListIntact` and `NoUseAfterFree` are
proved together: the cursor moves to the next response of the list (`AfterListed`), a
response is linked or unlinked (`Linked`, `Unlinked`) only while there is no scan, and
then the cursor is nowhere (`CursorScans`).

`AuthoritiesNeedPosition` uses that as long as the RBC has stored no report of the train no
101 can have been acknowledged (`KnownFirst`). `ReportsStayInOrder` has the hypothesis
that answers come within the timeout (`Slow = FALSE`, as in `lossy_network`): then
at most one report is on its way, the one `report_position` waits for (`OneReport`), and
none is older than what is stored. With late answers the thread gives up and sends the
next report while the first may still be on its way.

`NeverSurges` holds for every stretch, every limit, every objective and every gain, from
`StretchAssumption`. The argument is about one frame: a train that brakes at distance
`d` from speed `v` has `2d <= v*v` and is sent `u`, the integer part of the square root of
`2d`; so `u <= v` (`FastEnough`) and it covers at least `u` mm before the next frame,
where it has at most `d - u` left. As `2d < (u+1)*(u+1)`, twice that is at most `u*u`:
it still brakes (`BrakesOn`), unless the limit of the track cut its speed below `u`, or the frame took it past the
objective to where `get_distance` sees a lap. That
the integer square root exists is `RacineOf`, from the least number principle.

`SlowsDownInTime`: in the last frame of a canton the train is at most one frame, that is
as many mm as its speed or the speed it is sent, from the end; on the slope it is
sent `v` with `v*v <= n*n + 2*left`, where `n` is the limit behind, so `v <= n + 1`
(`OneFrameAway`). The speed it had is at most the limit of its canton, and is less than
`2*n + 2` when that limit is at most twice `n`; the limits of `map.c` are 25 to 40.

`AlwaysStopsInTime` says nothing from the first frame on that finds the train past its objective and past the next
balise: the program then accelerates, by `map.c:38`. How far in front of a balise an objective must be for that not to happen is the same
question, at most one frame. It has the hypotheses of `Usual`: limits up to 40 cm/s, as in `map.c`;
authorities three frames or more apart (`eoa_handler` asks once per second, that is
every ten frames); gains up to 50 mm/s, which is 5 ms of processor time in
the 100 ms of a frame; a tolerance of 50 mm. A train that brakes passes
its objective by less than one frame at its speed. One that does not, but passes
its objective at the next frame, must be told a speed of 26 cm/s or more from 7 or
less, `retenue_sur_vitesse` having kept the speed of before a braking while the
objective moved a little. So `StopsInv` bounds what is kept: right after an authority
it is at most 13 cm/s above the speed (`Close`), and within three frames, whatever the
train was told, this is so again (`Steady`): a frame without braking leaves it
`Tight`, and then `Near` to the speed from which it stops; a frame with braking leaves
it `Slowing`, and from `Near` or `Slowing` the next one keeps little (`KeepsLittle`). None of the
numbers is sharp, but the hypothesis on the period is needed: if authorities came every
frame, a train could be told again the speed it had before a sharp braking. The run
`driving` also explores gains of 100 mm/s, with limits up to 30.

`TurnsAreCounted` and `AuthorityStops` hold for a loop of any cantons and any triggers,
from `LoopAssumption`. `Start`, where the balises are, is a recursive function; that it
exists and grows is proved by least counterexamples (`SumsExist`, `OneBehindTheOther`), and
`NextCell` says what the train meets in the next cell. `TurnsInv` then says that the train
is in the canton of the last balise read or on the one to be read (`Placed`), which
is the same or the next: the start balise is never read again as a new one, and a turn
ends nowhere else. `AuthorityInv`: a train ordered to run in the cell it has published
is not in the cell of its authority; an answer keeps that since no new authority is
behind the old one, which is assumed of the RBC (section 2).

`CanQueueProofs`, for arrays of any size and any number of measures: while `~stolen`, each
file is a circular array in which the frames from `tete` to `queue` are those accepted
and not yet sent, in order, the count says how many (`Counted`, `Ordered`), the frame
`task_send` has taken out is the next one (`Carried`), and one thread has the mutex
(`OneOwner`). Between the reading and the writing of a count the invariant says by how
much it is behind.

`CanMessagesProofs`, for messages of any lengths up to 255: the sender has put on the bus
the first bytes of its message, eight by eight (`SenderInv`, `BytesJoin`), until the
last slice. On the other side `row` is a history of the frames that came one after
the other from a head; `InRow` says what the statics are after them, `SameSize` that
frames of one message agree, and `RowEnds` that the last one makes the flags complete.
`CompletesWhatAddsUp` is about every loss and mixture instead: since the last head the
flags are the slices accepted, each accepted slice wrote places that were not written
before (`SliceIsNew`), and `checksum` is the sum of what is there, a recursive function of
the places (`SumInv`, `SumWithMore`); so when all flags are set and the sums agree, all slices have come. Both
have the hypothesis `ShortMessages`, 128 bytes, that is 16 slices with a flag each;
beyond it `WholeIsComplete` fails: with `Sizes = {136}` TLC finds a message judged at its sixteenth
slice, the flags having 16 bits, while its last frame has not come.

`MarvelmindProofs`: a position is printed at most once since it was written, and is
marked processed when it was (`BufferInv`); the two fields of a sample are equal unless the
reader is between them and has `lock_` (`SampleInv`).

## 5. Only model-checked

`ReleasedInTime` is about the tables of one train and about reports that skip no balise:
it does not hold of train 2 (`leak_R5`), and TLC checks it where it does.

`RoundTrip`, `VariablesCross`, `SetsOnlyIt` and
`AcceptedAfterSilence` are about what folds over sets, fields and bytes compute, that
is induction over data, whose theorems take an operator as a parameter, which the provers
at hand do not do.

The liveness properties (`KeepsLapping`, `DeliveredIsReturned`, `KeepsReporting`,
`CompletesMission`, `KeepsPrinting`, `EndsOnCtrlC`, `Resynchronises`, `Closes`) stay with TLC:
liveness under fairness is out of the prover's reach, as is `ENABLED`.

## 6. Not modelled

- The mission requests (`EVC/src/requests_handler.c`) and the supervisor: no
  request ever reaches the thread, which waits on a copy, so there is no behaviour.
- What the train does with an authority that is behind the one it had, and what the RBC makes of a train that
  drove on past its authority: the two exceptions of section 2.
- Two lives of an EVC (ids start again, a second 102 of a train next to one still
  waiting), and what an overshoot does to the tests on `pos_r` in the RBC: hazards,
  without a property.
- `malloc` failures, the 4xx answers, the text encoding of the messages, logging,
  and CAN socket I/O (`can.c`), but for the failure of a command.
- `TestCanLinux`, a test program with an older copy of the CAN library modelled here;
  the headers of the CAN variables; `MESCAN_reconstructMessageB`, the same code as
  `MESCAN_reconstructMessage` with its own statics; how a receiver takes the frames of the on-board sender,
  whose heads may overtake slices; the EEPROM frames, whose length
  is still 0 in the tables; the configuration of radio modules.
- Wrong checksums that are right by chance, but for `CanMessages`, where a complete
  message may be a mixture whose sum of eight bits is right, as `CompleteAddsUp` says: the values
  of the other models keep them out.
- The UML and Petri-net design documents, whose requirements the findings quote.

Each is listed with its reason under `components` or `hazards` in `PROJECT.json`.

## 7. What could follow

The order in which it would add most: two lives of an EVC, in a module shown to implement
`Interlocking` while trains do not restart; `SpeedControl` composed with `Interlocking`, so that the overshoot it
allows reaches the RBC; an abstract queue that `CanQueue` implements; sharper numbers
in `Usual`.
