# SDR++Brown: a verification of the streaming core

SDR++Brown is a software-defined-radio receiver. Its own logic, apart from the
signal processing and the user interface, is a graph of blocks joined by
double-buffered streams, one thread per block, that the user interface stops,
changes and restarts all the time; around it stand the managers of sources,
sinks, VFOs and modules, a remote server, and the configuration file. This
directory holds TLA+ models of that logic, TLC configurations that check them
on small instances, and theorems that TLAPS proves for every instance.

Paths without `src/` below are relative to `src/core/src/`.

## 1. Inventory

### Streams (`dsp/stream.h`) — modelled but for `setBufferSize`, `free` and `queue<T>`
State: two buffers, `canSwap`, `writerStop` under `swapMtx`; `dataReady`,
`readerStop`, `nReaders` under `rdyMtx`. Operations: `swap` (writer), `read` and
`flush` (reader), `stopWriter/Reader`, `clearWriteStop/ReadStop` (whoever
controls the blocks). Hard: the hand-off crosses both mutexes in three
critical sections each way, and a stop can come between any two of them. Right
when: no frame is lost, repeated or overwritten, no wake-up is lost, every stop
returns.

### Block control (`dsp/block.h`, `dsp/processor.h`) — modelled
State: `running`, `tempStopped`, `tempStopDepth`, the worker thread, `ctrlMtx`.
Operations: `start`, `stop`, `tempStop`, `tempStart`, and the setters of all
derived blocks (lock, tempStop, change, tempStart). Hard: nested temporary
stops, several controlling threads, brackets that do not take the mutex. Right
when: what `run` uses changes only while no worker runs, there is never a second
worker, and the block ends up running exactly if it should.

### Chains (`dsp/chain.h`) — modelled
A list of processors that can be enabled one by one; the chain rewires its
neighbours. Right when the enabled ones are in series and exactly they run.

### Receive front end (`signal_path/iq_frontend.cpp`, `dsp/routing/splitter.h`, `dsp/channel/rx_vfo.h`) — partly modelled
Input buffer, decimation, pre-processing chain, splitter, one stream and one
`RxVFO` per VFO, an FFT path (reshaper and a handler sink). Operations: `start`,
`stop`, `setInput`, `setSampleRate`, `flushInputBuffer`, `addVFO`, `removeVFO`,
`bindIQStream`, `unbindIQStream`, `setDecimation` and other setters. Hard: the
splitter walks over a list that the user interface changes; a VFO whose
demodulator is slow blocks everything upstream; things are deleted while threads
exist that use them. Left out: the pre-processing chain between buffer and
splitter, `setDecimation`, the FFT path.

### Sample frame buffer (`dsp/buffer/frame_buffer.h`) — partly modelled, in the front end
A ring of 32 frames between two workers: one takes the device's frames in, the
other hands them on, so that the device never waits. Hard: the writer laps the
reader, and the stop of the second worker is notified without the mutex. Left
out: the bypass mode that the file source turns on.

### Reshaper and ring buffer (`dsp/buffer/reshaper.h`, `ring_buffer.h`) — modelled
The ring counts what is readable and what is writable under two mutexes and has
a latency limit that changes with the frame size. Right when samples come out
once and in order, whatever wraps, stops or is reshaped.

### Merger (`dsp/routing/merger.h`) — partly modelled
Head of every audio stream: a detached reader thread per input, a worker that
chooses an input by priority with a switching delay, and drops the rest. Left
out: a stream that is bound again after it was unbound, and what happens when
the list is changed under the worker's eyes.

### Configuration (`config.cpp`) — modelled
One JSON document per manager, changed between `acquire` and `release`, and one
worker for all managers that saves a document about a second after a change, by
writing a new file and renaming it. Hard: three mutexes, a job that may be
cancelled while it is being done, the process dying at any moment.

### Server and its connections (`server.cpp`, `utils/networking.cpp`) — partly modelled
One client at a time, which may take an idle one's place. The listener's worker,
the read worker of every connection and the thread of the last DSP block share
`client` and `running` with no lock at all. Right when an open client is always
listened to, the acceptor always comes back, and the source does not run on for
a client that is gone. Left out: the transmit path, the commands of the user
interface, the contents of the shared send buffer, the write worker,
`waitForEnd`, UDP.

### How they meet
Blocks meet in streams (Stream); whoever builds a graph of blocks starts, stops
and rewires them by block operations (BlockControl); the front end and the
chains are such builders (Chain, FrontEnd). The merger reads demodulators'
streams and feeds the sink manager's. The user interface's thread calls nearly
everything; rigctl, the server and players call some of it from threads of their
own: the server starts and stops the selected source (ServerSessions), which in a
model of the front end is the device that has frames or has none. Shutdown stops
the front end and only then saves the configuration (`core.cpp:926-930`), so a
stop that does not return also costs what the user changed last.

## 2. Modules

| module | models | uses |
|---|---|---|
| `Stream` | every critical section of `dsp::stream`, one operator each | |
| `StreamHandoff` | a writing and a reading block, each with a worker and a controlling thread | `Stream`, `FrameChannel` |
| `FrameChannel` | what a stream promises: a place for one frame | |
| `BlockControl` | one block under several controlling threads | |
| `Chain` | `dsp::chain` | |
| `FrontEnd` | input ring, splitter, VFOs and the thread that rearranges them | streams as `FrameChannel` has them |
| `Reshaper`, `MCReshaper` | `dsp::buffer::Reshaper` on its `RingBuffer` | |
| `Merger`, `MCMerger` | `dsp::routing::Merger` | |
| `ConfigSaving` | `ConfigManager`, `ConfigSaveWorker`, the file | |
| `ServerSessions` | acceptor, connections, DSP thread of the server | |
| `StreamProofs`, `BlockProofs`, `ChainProofs`, `FrontEndProofs`, `ReshaperProofs`, `MergerProofs`, `ConfigProofs`, `ServerProofs` | proofs about the module of that name (`StreamHandoff`, `BlockControl`, `ConfigSaving` and `ServerSessions` for the short ones) | that module |

How state and actions follow the code:

- **StreamHandoff.** `s` is the stream; `wpc`, `rpc` say between which two critical
  sections each worker is, `wctl`, `rctl` where each `block::doStop` is. A
  condition variable is the set of threads asleep on it. `swap` is three
  actions (exchange under `swapMtx`, announce under `rdyMtx`, notify), `flush` also
  (`FlushClears`, `FlushFrees`, `FlushNotifies`), each stop four or five. All waits
  of `stream.h` have a predicate, so a spurious wake-up only repeats a test
  that is modelled.
- **BlockControl.** One `pc` per thread walks through the operation it called, with
  the load and the store of `tempStopDepth` apart (it is a plain `int`). Threads in
  `Bracketing` also do what `IQFrontEnd::setSampleRate` does: tempStop, setters,
  tempStart, with no mutex around. `Teams` says which threads may be there
  together in one behaviour.
- **Chain.** `chain` is the object as a record; every operation is one step, because
  one thread calls them; `reads[b]` is the input each block was last given,
  `consumer` what `onOutputChange` told the owner. Neighbours are sought by
  their places in the list, and `enableAllBlocks` and `disableAllBlocks` are a
  recursive function over them.
- **FrontEnd.** `todo` is the list of block operations that the body of the called
  operation still has to perform, done one at a time while the workers run; a
  stop is two of its steps, the flags and the join. `chan` holds the frame in each
  stream. The ring is two numbers, since the frames are numbered by the device:
  it holds `taken + 1 .. produced`; when it would hold `RingSize` the cursors meet
  and it looks empty. "doze" is the second worker between its test and its wait,
  "missed" the same with the stop's notification gone by. A VFO that yields no
  samples for a frame is taken to have delivered it. `disturbed` is history: what
  a stop, a flush or an overrun may cost each VFO.
- **Reshaper.** `w` and `r` are the two workers, at the grain of single holds of
  `_readable_mtx` and `_writable_mtx`; "dozing" is a thread that has found its
  predicate false and still holds its mutex. Samples carry their number.
- **Merger.** `reader` are the detached threads, `worker` the rounds of `run`, one list
  element at a time; the clock is the flag `recent`. The vector that `bindStream` and
  `unbindStream` change without the worker's mutex changes only between rounds
  here; what happens otherwise is undefined and is a hazard no model settles.
  `running` is the class's own, which hides the block's: doStop clears it and no
  start sets it again.
- **ConfigSaving.** `file` and `newFile` are what is on the disk; all else (`mutexes`,
  `config`, `job`, `places`) dies with the process, and `Die` may happen in any state
  and leaves the memory `Fresh`. A document is its version number. A job
  can be in the queue more than once after saving was turned off and on with a
  release under way, which is harmless and kept in the model.
- **ServerSessions.** Connections are numbered as they are accepted. `open`,
  `stopping`, `queue` are the connection's members, `shut` its socket, `dead` a
  deleted object. `reader[c]` walks through `readWorker` and, in it, `_packetHandler`,
  which reads the body of a packet, answers and asks for the next one through the
  global `client` and not through `c`; `acceptor` walks through `_clientHandler`,
  `sender` through `_testServerHandler`. To use a null or deleted connection, or
  for two threads to be in the same `unique_ptr`, is undefined: `crashed` is set and
  everything stops. A test of `client` and the call it guards are one step, and
  `send()` does not block.

The comments "Slip" mark variants of an operator with one mistake each. No action
uses them; every checked property is also run with a slip in place of the
operator it imitates, and must then fail.

## 3. What the runs check

| run | instance | shows |
|---|---|---|
| `handoff` | two payloads, ~10 000 states | types; the handler and the writer never share a buffer (`BufferExclusion`); the flags are never both up (`FlagsExclude`); no reader inside after `stopReader` (`NoReaderInside`); every stop returns (`StopReturns`); frames keep flowing while nobody stops (`FramesFlow`); the stream implements `FrameChannel` (`ImplementsChannel`) |
| `block` | three threads, or one that brackets without the mutex, ~11 000 states | changes meet no running worker, one worker, running as asked, every call returns |
| `block_bracket_raced` | a bracketing thread and a setter | **violated**: the setter changes the block under its worker |
| `chain` | three blocks, at most two enabled, ~8 600 states | in series, and exactly the enabled ones run |
| `chain_of_three` | the same, three enabled | **violated**: two blocks read one stream |
| `front_end` | two VFOs, three frames, a ring of two, ~838 000 states | nothing deleted in use, the list stable under the splitter, frames in order with no repetition and only the losses of a stop, a flush or an overrun, every operation returns though a demodulator may never take a frame (but for `StopMissed`) |
| `config_saving` | one user, two changes, one death, ~48 000 states | no change forgotten, the mark true to the file, the worker away from a manager that is disabled, the file always whole and never older, quiet implies saved, every call returns |
| `reshaper` | ring of five, two shapes, seven samples, one stop, ~392 000 states | samples read once, in order, across wrap, stop and reshape; the latency limit; nobody sleeps on work |
| `reshaper_stop` | ring of three | **violated**: a stop that does not return |
| `merger` | two streams, three samples and one, batches of two, ~1 435 000 states | batches in order and without gaps while the output stays with a stream; no fall back within the delay; a stop returns, with or without a taker of the output (but for `StopMissed`) |
| `merger_default` | the same | **violated**: a silent second stream keeps the default from being sent |
| `server` | three connections, ~262 000 states | an open client is listened to (`ClientIsRead`), the acceptor comes back (`AcceptsAgain`, but for `Misled`), a client that has left keeps no newcomer out (`GoneMakesRoom`), and a client that is gone does not keep the source running (`DeadNoticed`) |

**Three properties that name their exception.** The code does fail in these places, so
each property says exactly when, and the run shows that nothing else can go
wrong. The two missed stops are the fault of finding 3 once more, in other
classes: they are not caught by these properties but excluded from them, and what
finding 3 quotes speaks against them as well. `FrontEnd!StopMissed`: the frame buffer's
stop is notified without the mutex (`frame_buffer.h:112`), so that the second
worker, between its test and its wait, sleeps on; the next frame of the device
would wake it, and there is none when the first worker is gone. `Merger!StopMissed`:
`dataReady` is waited for without a predicate (`merger.h:126`). `Misled`: the read
worker of a client that has been replaced reads the body of its packet from
the new client (`server.cpp:360`), and the acceptor, which deletes the old one,
waits until the new one sends something.

**What `running` may say.** `server.cpp:302` says that an idle client is sent away. It is
not when `running` has stayed set: a client that dies after START is replaced
before the DSP thread has noticed, the settings are reset, the source stops, and
no more buffers come that would make the DSP thread clear the flag. The next client
then keeps all others out though it has never started anything. This happens in the
model as it does in the code. What the run shows is how long it can last:
`GoneMakesRoom` says that the client keeps others out only while it is there. Nothing
is sent to it then, so that only a read of the client can tell that it has left; and
the reads are asked for by handlers that go by the global `client` and return
without asking when a body cannot be read.

**Bounds.** `StreamHandoff`, `BlockControl` and `Chain` have none: starts, stops and
frames go on for ever, and the state is finite. Two payloads suffice in `handoff`
because the code never looks at one. Three threads in `block` give one inside, one
waiting and one that arrives; the theorems hold for any number. Three frames in
`front_end` let one be in hand, one dropped and one follow; a ring of two is overrun
by a device two frames ahead; two VFOs let one have a frame that the other has
not. The reshaper's seven samples go more than once round a ring of five; its
shapes overlap by one (`<<3,-1>>`) and skip one (`<<1,1>>`), so that requests come in
several pieces and a change lowers the latency below what is in the ring. In
`config_saving` two changes let one be made while the other is being saved. In
`merger` a block of three is cut into two batches, the player can begin, end
and be bound at every place, and either stream be unbound (`setInput` does so to
the radio's); one start, because there is no second that does
anything. In `server` three connections are one that is being deleted, one that is
the client and one that arrives. `chain` stops at two enabled blocks because with
three the code fails, which `chain_of_three` shows.

Deadlock is checked except in `front_end` (a stop can be missed and the device be
silent), `reshaper`, `reshaper_stop`, `merger` and `merger_default` (bounded input
ends, and the same) and `server` (the connections are used up, or the process has
crashed).

**Fairness.** Weak fairness of the steps of a worker, and of the rest of a stop or of
an operation once it has begun: threads are scheduled. In `BlockControl` and
`ConfigSaving` strong fairness for taking a mutex: a thread is not passed over
for ever by one that becomes free again and again. Nothing obliges anyone to
call an operation, the input to deliver (but in `server`, below), a demodulator or the merger's reader to
take a frame, a peer to send or to leave, or the user to change anything; in
`config_saving` the claim that changes are saved is made only for callers that
come to rest, since every release puts the job off by a second (`config.cpp:31`)
and the worker only tries the mutex. In `server` a source that is
started is assumed to go on giving buffers (`Buffer` is a step of the fair
`SenderStep`), which is what a source does: `DeadNoticed` needs it, because the DSP
thread looks at the client only when it has a buffer to send. `Chain` states safety
only and assumes no fairness.

## 4. Findings

1. `chain_of_three` — `blockBefore` returns the first enabled block of the list and
   not the nearest one before (`dsp/chain.h:169`). With decimation, DC blocking and
   inversion all on, two workers read one stream and one block's output is
   read by nobody.
2. `block_bracket_raced` — the front end's brackets take no mutex, and
   `tempStopDepth` is raised before the worker is joined (`dsp/block.h:72`): a setter on
   another thread takes the block for stopped.
3. `reshaper_stop` — `RingBuffer::stopReader` and `stopWriter` store and notify without
   the mutex of the waiting thread (`dsp/buffer/ring_buffer.h:189`): the stop can be
   missed, and `Reshaper::doStop` joins for ever.
4. `merger_default` — within the delay the merger's loop takes the last eligible
   stream, not the old one, and an empty one at that (`dsp/routing/merger.h:145`): the
   radio is silenced by a bound player that sends nothing.

## 5. What is proved

Every invariant below is proved as an invariant of `Spec` (of its safety part in
`StreamProofs` and `BlockProofs`), for every value of the constants that satisfies
the module's assumption. None is inductive by itself; each proof module defines
the inductive one, shows that the initial states have it and that every action
keeps it, one lemma or step per action, and draws the theorems from it.

**`StreamProofs`**, for every set of payloads: `TypeCorrect`, `Exclusion`, `FlagsApart`,
`ReaderDrained`, the invariants of run `handoff`; and `Implements`: every behaviour
of the four threads is a behaviour of `FrameChannel` (its safety part).
`BufferExclusion` says nothing of a writer about to swap; `IInv` adds where the two
flags stand during a hand-off (`HandoffInv`: with `canSwap` up nothing is in flight,
and otherwise the frame is in exactly one of three places), and that `nReaders`
counts the one worker that can wait and `readerStop` stays up through a stop
(`ReaderInv`). Each action is then one step of the proof, and maps under the same
invariant to a step of the channel or to none. `NotifierOnItsWay` and
`NeverBothAsleep` are about the two condition variables: a worker that sleeps
although what it waits for is there has its notifier between the unlock and the
notify (`NoLostWakeup`), and both sleep only while a stop is about to notify one.
They need that nothing in flight means `canSwap` is up, the converse of what
`HandoffInv` says (`SleepInv`).

**`BlockProofs`**, for every set of threads and teams of them, assuming `Apart`: a
thread that brackets setters outside the mutex is the only one of its team, as
the user interface is while no other thread controls the front end's blocks.
Without it finding 2 is a counterexample. `TypeCorrect`, `ChangesWhileStopped`,
`NeverTwoWorkers`, `SettledWhenQuiet`. `IInv` says what the block's state is at every
place of the thread that is inside an operation or a bracket (`BlockAt`, with the
depth counted from the bracket's own tempStop), which places go with which level
(`LevelAt`), and that the block is settled (worker there exactly if `running`, no
temporary stop left) when nobody is inside. That at most one thread is inside is
a lemma (`OneInside`), from the mutex and `Apart`. A step changes only the acting
thread's place; `StepOf` says what it must leave true, `StepKeeps` that this is
enough, `StepsAre` that all actions are such. `InsideGoesOn` (`NoWaitInVain`) reads off the
same invariant that nobody inside waits for what does not come: the mutex is held
only inside an operation, a worker is joined only when told to stop, and a start
finds no worker.

**`ChainProofs`**, for any blocks, inputs and lists: `TypeCorrect`, `StartedRight` and,
for at most two enabled blocks at a time, `SeriesOfTwo`, that they are in series
(with three it is false: finding 1). `Fit` says that the list names no block
twice, that the enabled blocks are in it, and that those are started which should
be. `SeriesOfTwo` then goes by how many are enabled: for none, one and two, being
in series comes down to what one or two blocks read (`NoneInSeries`, `OneInSeries`,
`TwoInSeries`), and each operation leads from one such shape to another. The
operations on all blocks are recursive functions. That such a function exists
(`LoopExists`) and that each of its values is `Fit` (`AllFit`) is shown by a least
counterexample (`Least`, from the well-foundedness of `<` on the naturals), which
needs no theorem with an operator for a parameter.

**`ReshaperProofs`**, for every size of the ring, shapes, frames and numbers of stops:
`TypeCorrect`, `ReadsInOrder` (`ReadsWhatWasWritten`) and the action property
`LatencyKept` (`LatencyBounded`). Each worker changes the two halves of the ring under two
mutexes in turn, so that the counters disagree for a while. `IInv` counts samples
written, charged to `writable`, announced in `readable`, and credited back, says
which two of them differ at which place of a worker (`Counts`), that the cursors
are these counts modulo the size, that no worker is granted more than there is
(`Bounds`), that every sample written and not credited is still in its cell
(`Contents`), which part of its frame each worker is at (`Frames`), and what the
reader has copied of it (`InHand`). The cell
a sample is put into lies as far ahead of a cursor, going round, as the sample
is ahead of the cursor's count (`Ahead`): so the writer stays off cells not yet read.
`NotifierOnItsWay` is hard because the announcement and the notification are steps
apart, and the writer's room grows in two holds of different mutexes: a worker that
sleeps beside work has its notifier at one of two places (`NoLostWakeup`), and
`SleepInv` says the same of one that has found nothing and still holds its mutex.
`OneOfThemAwake` follows: with both asleep the ring would be empty and have room (`OneAwake`).

**`ConfigProofs`**, for any users, versions and deaths: `TypeCorrect`,
`NoChangeForgotten`, `UnmarkedIsSaved`, `DisabledIsLeftAlone`, `FileNeverGoesBack`. `IInv` says
which places of which threads hold which of the three mutexes (`Places`,
`Mutexes`), what each stage of the owner's life does to the marks (`Life`), that a
job marked queued is in the queue or in the worker's hand and at most three copies
of it are about (`Queue`), that a marked change has somebody on the way to save it
(`Marked`), and that memory, new file and file agree wherever nobody is in the
middle of changing one (`Files`). `NoDeadlock` (`NoCircularWait`) follows from `Places` and
`Mutexes`: the manager's mutex and the job's are held only where nothing is waited
for, and the queue's by a thread that waits at most for the job's while the worker
has it.

**`ServerProofs`**, for any number of connections: `ClientStaysRead`
and `TypeCorrect`. `IInv` says that a connection which has not been the client
yet is `Untouched` by everybody but the acceptor, which has it `InHand`, and that the
client's own worker never reads from another connection (`OwnBody`). What is hard in `TypeOK` is that `readQueue`, which has no limit,
never holds more reads than there have been connections: since a packet handler
asks for the next packet at whatever `client` is then, reads may move from one
connection to another. Each read queued or being handled is a claim, and so are
the newcomer and the client the acceptor has yet to arm: no step makes more claims
than it uses up but the accepting of a connection, which brings one claim and one
connection (`Counted`). `ClosingIsHeard` and `NotFreedUnderWorker` are about closing: a read
worker is joined only when told to return, with its socket shut down or closed, and
a connection is deleted only when its own worker has returned (`Closing`). What
`AcceptsAgain` leaves is the one case it names, a worker that reads from another
connection than its own.

**`FrontEndProofs`**, for any VFOs, ring and number of frames: `TypeCorrect`,
`NothingEverDangles`, `ListChangedWhileOff`. The operation under way is a list of
operations that may come at any time (`Plain`) or a stage of addVFO or removeVFO
(`Adding`, `Removing`), and the stage says what is stopped by then; `Attached` ties
the workers to the running flags.

Its second half proves `DeliveredInOrder`, for `FramesInOrder`. On top of
`IInv`, `OInv` says that only the streams of the block being stopped have a flag set
(`Flags`), what each worker has in hand (`Hands`), that the frames on the way to a
VFO - in its stream, at the splitter, in the buffer's hands, in the ring - are in
this order (`InLine`), that what has left the ring and is nowhere on the way was
lost to a disturbance (`NoGap`, `NoLoss`, `Served`), and that what a block being
stopped may have to give up is already counted as disturbed (`Told`).

The last part proves `StopsAreHeard` (`StopIsHeard`) and `NeverResumedTwice`
(`ResumedBlockIsOff`): the worker an operation joins is there and has been told,
and a block that is resumed has none. Each operation begins as a list in which
every pause is answered by a resume with nothing done to the block in between, and
the other way round (`Paired`; for setSampleRate's list over all VFOs in
`EachPaired`); what is left of it stays so, but for blocks already paused, and these
alone run without a worker (`Pauses`). `Sleeps` adds what the flag says of the input
buffer's second worker, which can miss its notification.

**`MergerProofs`**, for any streams, priorities (equal ones included), blocks and
batches: `TypeCorrect`, `SentInOrder`, `NoFallback`. `IInv` says that a stream chosen in a
round has samples until they are sent (`Round`), that what waits of a stream is an
unbroken run up to the last sample collected (`Waiting`), that nothing is missing
of the stream sent last unless another is about to take its place or the merger
has ended (`NoHole`), and which priority counts within the delay (`Delayed`). That
the merger never runs again after a stop (`Ending`) is needed: a worker that gives
up a batch leaves a hole behind. `NothingAfterStop` (`SentBeforeFirstStop`) states that for
itself: all that is ever sent is sent between the first start and the end of the
first stop, however often the merger is started again (`Lives`).

**Only model-checked.** Every liveness property, since fairness and ENABLED are
beyond the prover: `StopReturns`, `FramesFlow`, `CallsReturn`, `OperationsReturn`,
`NobodySleepsOnWork`, `ChangesSaved`, `AcceptsAgain`, `GoneMakesRoom`, `DeadNoticed`, and in
`ImplementsChannel` the fairness of `FrameChannel`, whose safety part is `Implements`.
Much of what these rest on besides the scheduling is proved: that no notification is lost
(`NotifierOnItsWay`, twice), that nobody waits in a circle (`NoDeadlock`, `NeverBothAsleep`,
`OneOfThemAwake`) and that what is joined is there and has been told (`InsideGoesOn`,
`StopsAreHeard`, `ClosingIsHeard`). These theorems, and those on resuming, deleting and what a
stopped merger sends, state formulas of the proof modules, which no run checks.
Every invariant and every action property that a passing run checks is also the
statement of a theorem.

## 6. Not modelled

- *Inside the modelled parts.* The pre-processing chain in the path of `FrontEnd`
  and the FFT sink (a frame of the old size may be handled with the new one,
  `iq_frontend.cpp:271`); frames kept in a disabled chain block's output
  (`dsp/chain.h:103`); a processor whose worker ends by an error while the block
  stays running (`dsp/processor.h:59`); write errors of the file, about which the
  code promises nothing (`config.cpp:157`); the race on the merger's list
  (`merger.h:51`), which is undefined behaviour of a vector; the resending of a
  buffer after a partial send (`utils/networking.cpp:137`), because contents of
  packets are not in `ServerSessions`.
- **Source, sink and VFO managers** (`signal_path/`) beyond what the front end and
  the server use of them: maps of registrations that one thread changes, without
  a lock or a worker of their own.
- **Packer and prebuffer** (`dsp/buffer/`), **server source**: the packer cuts a stream
  into the frames of an audio device; the prebuffer is the client's end of the
  server's protocol, with a detached sender that a stop does not wait for
  (`prebuffer.h:149`), which matters only with the life of the client object around
  it.
- **hier_block, doubler, stream link**: as block and splitter, over fixed lists.
- **Module manager, module calls, events**: tables filled and searched in one thread,
  around the operating system's loader.
- **Scanner** and the other `misc_modules`: what they decide depends on spectra and
  on the clock.
- **Signal processing** (floating-point algorithms), the **user interface** (drawing;
  the calls it makes are the operations of the models), **hardware sources and
  audio sinks** (each drives a vendor's library behind a stream), **decoders**, the
  **debug server**, **backends**, Android glue and vendored code. These are more than
  nine tenths of the source lines.
