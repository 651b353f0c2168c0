# A TLA+ verification project for CaenDAQ

CaenDAQ reads out CAEN digitizers: one reader thread per board takes buffers
from the board and hands them to one shared file writer and to an optional
decode thread, while a statistics thread samples the counters. This directory
holds TLA+ models of that machinery, the TLC configurations that check them on
small instances, and TLAPS proofs about them. Paths below are relative to the
repository (`src/...` is the C++ code, `include/caendaq/...` the headers).

## The system

| Part | State | Operations | Meets the others through |
|---|---|---|---|
| `BlockQueue` | deque, `closed_`, `dropped_`, a mutex, two condition variables | `push`, `pop`, `popFor`, `close` | shared by all readers, `drain()`, the writer; one more per decode stage |
| `BoardRunner` | `running_`, reader thread, counters | `prepare`, `start`/`arm`, `startReader`, `stop`, `drain`, `readerLoop`, `dispatch` | `IDigitizer`, the write queue, `writerFailed_`, its `DecodeStage` |
| `DecodeStage` | queue, thread, `running_` | `submit`, `start`, `stop`, `loop` | fed by `dispatch`, stopped by the runner |
| `Daq` | boards, `prepared_`, `running_`, writer thread, write queue, file | `addBoard`, `prepare`, `start`, `stop`, `writerLoop`, `teardownWriter` | owns all of them |
| `CaenDigitizer` | driver handle, readout buffer, `running_`, the link mutex of its bridge | `open`, `configure`, `start`, `arm`, `read`, `reconnect`, `writeRegister`, `readRegister`, `stop`, `close` | reader, API threads, teardown and the other boards on the bridge |
| `MockDigitizer` | `running_`, a rate | the same interface | as above |
| `StatsCollector` | interval, generation, previous sample, Graphite target | `start`, `stop`, `setInterval`, `setGraphite`, `loop` | samples the runners; setters come from any thread |
| `GraphiteClient` | socket, `retryDelay_`, `nextAttempt_` | `send` | called by the statistics thread, which `Daq::stop()` joins |
| `RawFileWriter` | `cycle_`, `fileBytes_`, the stream, the files on disk | `open`, `write`, `flush`, `close` | called by the writer thread and by `Daq` |
| `ClockSync` | lock state of each board of the chain | `clockChainOrder`, `synchroniseClockChain` | called by `start()` before the boards are armed, through register accesses |
| `AggregateDecoder`, `HistogramStore`, `HitTap` | time-tag roll-over, histograms, hit buffer | `decode`, `fill`, `append`, `take` | called by the decode thread, read by the API |
| bindings, command line | none | argument conversion | call `Daq` |

What is hard to test here: the wake-ups of the queue and of the statistics
thread; the order of `stop()` (boards, readers, drain, decode, queue, writer,
file); a `start()` that fails half way; boards that stop answering while a
reader, an API thread and the teardown compete for one link; a second `start()`;
a disk that fills up, or a process that dies, around a change of the file; a
server that goes away in the middle of a batch; a clock that is lost, or a
register that cannot be read, while the chain is being aligned.
`PROJECT.json` lists each hazard at its line with the properties about it.

## Modules

`BoundedQueue` is the abstract queue: a push is accepted, dropped (full) or
rejected (closed) at one instant; what was accepted comes out in order. `fate`
records what became of each block.

`BlockQueue` is `BlockQueue.hpp` step by step: a critical section of `mtx_` is
one action, a wait on a condition variable is a state (`waiting`, then `woken`)
that is left by a notification, the deadline (`PushExpire`, `PopExpire`) or for
no reason (`PushSpurious`, `PopSpurious`). `close()` takes three steps, because
its notifications come after the unlock. `notify_one` chooses any waiter.
`ImplementsBoundedQueue` states that it implements `BoundedQueue`.

`BoardRunner` has, for every board, a record with the board as `IDigitizer`
shows it (the connection `open`, `hw` for what it does, `mem` for the buffers it
holds), the runner (`running`, `reader`, the counters) and the decode stage. The
board and the connection are two things: a board that could not be stopped goes on
after the connection is closed, and `missed` remembers that a stop failed. The shared write queue is an instance of `BoundedQueue`, which
`BlockQueue` is proved to implement: a push that waits is a push that has not
happened yet. `link` is the bridge, whose driver executes one read at a time. A
buffer is `<<b, n>>`, the n-th read from board b, so the file, a sequence of
buffers, shows order and loss.

`Daq` adds the thread that calls `start()` and `stop()` and the writer thread.
`call.at` is the line the call has reached. The loop `Halt .. Release` is
`BoardRunner::stop()` and serves `stop()` and both error paths of `start()`,
with `teardownWriter()` (`CloseQueue`, `JoinWriter`) at its end. `Halt` ends in
`Stopped` or, when `dgtz_->stop()` fails, in `NotStopped`; the call goes on the same
way, as its result is not looked at. `Faults` says which calls may fail; the calls of
a mock never do, and a mock is on no bridge. A read of an armed board does not come
back, unless a failed stop has cost the connection.

`CaenDigitizer` is one real board on its own, in more detail than `BoardRunner`
has it: the handle, the buffer and the link mutex, used by the main thread, the
reader, an API thread and a sibling board. A driver call takes effect when its
thread leaves the corresponding `pc`; it works while the board answers, and
otherwise fails and drops the driver's `isActive`. `alone` remembers that a
teardown gave up on the link after two seconds, `missed` that
`SWStopAcquisition` failed. A start that fails goes straight to `close()`, which
in the program is the destructor. The sibling may keep the link for ever; only
`FairSpec` assumes that it does not. `sendSWTrigger()` is in `Daq`.

`StatsCollector` is the sampling loop with its condition variable, the two
setters and `stop()`. Time is counted from the start of the tick, so the
deadline is `elapsed = loop.wait`; a wake-up at or after the deadline is a
timeout, as in `std::condition_variable::wait_until`. `overtaken` remembers that an
interval was changed between the loads of the next wait and of its generation.

`AggregateDecoder` is the walk of `decode()` over a buffer, one action per
branch of its loops, and `unwrap()`. The words of a buffer are not stored: the
walk reads each once, so the action that reads a word chooses it. A buffer is
either that of a sound board (complete aggregates of real hits, filler between
them) or arbitrary words: sizes that do not fit, format words
without time stamp, reserved bits set. A hit has a true time; `HitTimes` says what the header assumes of them, that they
are read less than half a wrap apart. The two decoding functions walk alike and
share the actions; the map names one or the other.

`DecodeStage` extends it with the loop of the decode thread and with `HitTap`,
whose operations are atomic (one mutex) but fall anywhere between the moment the
loop asks whether to tap and the moment it appends the batch.

`RawFileWriter` is the file as `Daq` has it, opened up: the directory with the
files of earlier runs, the `std::ofstream` with what it holds back, the search for
a free name, the rotation. A byte is the number of its block, so a file shows what
was lost, repeated or split. `write()` of the stream holds back any part of the
data that fits its buffer. On a full disk a hand-over stores a part of its bytes
and the stream is bad from then on; whether a bad stream keeps or drops what it
held, and whether a later flush tries again, is left open. `Die` loses what the
stream held. `errors` remembers whether an error was reported by a call or passed
unheard (the result of `flush()` and the closing of a file are not looked at).

`GraphiteClient` is `send()` in the steps between which the server can change:
connect, one `::send()` per piece of the batch, the end. `due` is the time left
until `nextAttempt_`. `since` and `fails` observe the attempts from outside, so
that the back-off is not measured with its own variables. `StatsCollector` has the
whole call as one step.

`SyncChain` is the part of `start()` in which the boards depend on each other:
`masterIndex()`, the alignment of the clock chain, arming and the trigger. Its
initial states are wirings that fit `README.md`: which boards wait for a
start, which take their clock from CLK-IN, which have register id 0, and possibly
one board whose Acquisition Control could not be read back and counts as 0. The
cables begin at the synchronised board with id 0, or at the first synchronised one
if none has that id; a free-running board may have id 0 as well. Two synchronised
boards with id 0 are not admitted. The
hardware is external: a re-alignment moves the clock of the boards behind, a PLL
may lose its lock and find it again, 0x8104[7] is sticky until 0xEF04 is read.
`Daq` has the same start with failing calls and threads, and without clocks.

`MCBlockQueue`, `MCDaq`, `MCStatsCollector`, `MCDecodeStage` and `MCRawFileWriter`
give constants their values for TLC; `CaenDigitizer`, `GraphiteClient` and
`SyncChain` are checked as they are. The theorems are in `BlockQueueProofs`,
`DaqProofs` (with the runners of `BoardRunner`), `CaenDigitizerProofs`,
`StatsCollectorProofs`, `DecodeStageProofs` (with `AggregateDecoder`),
`RawFileWriterProofs`, `GraphiteClientProofs` and `SyncChainProofs`.

Definitions named `...Unchecked`, `...Late`, `...Silently` and the like, each
with a comment that begins with "Mutant", are plausible mistakes. No
specification uses them; putting one in the place of the definition it follows
must make TLC find the property it is paired with in `PROJECT.json` violated.

## Runs

| Run | Instance | Shows |
|---|---|---|
| `queue` | 2 producers, 3 pushes each, capacity 0 (the constructor makes it 1), a consumer whose deadline may pass or not | no needed wake-up lost; `close()` wakes everybody; pushes return and the consumer finishes; the abstract queue is implemented |
| `daq_run` | a free-running board that is decoded and a synchronised one that is written, on one bridge, 2 buffers each; start, trigger, stop and write may fail; drain limit 1 | calls return, unless a board that could not be stopped keeps `drain()`; `stop()` leaves in a board only what is beyond the limit; nothing that was read for the decode tap is lost uncounted, after a stop or a failed start; a write failure ends the readers; the file is flushed |
| `daq_faults` | a free-running mock and a synchronised master added last, every fault, 2 calls of `start()`, write queue of 1, drain limit 2 | order in the file; every buffer is accounted for, and none is rejected in a first run; no thread and no file left, and no board running but one whose own stop failed |
| `digitizer` | either start mode, 2 outages, 2 register accesses, a sibling that may keep the link | no use of a closed handle, driver calls serialised, a stopped board stays stopped; a reconnect restarts a software-started board; the teardown ends, unless it waits for a read that waits for the sibling |
| `stats` | 2 boards, a failing sample, an interval change below or above the range, 2 Graphite settings | every count is in exactly one rate; server and prefix change together; the loop does not sleep beyond an interval set while it waits; publishing goes on; `stop()` returns |
| `decode` | 2 buffers of 10 words, of a sound board or arbitrary, 2 couples; the tap (room for 1 or 2 hits) is switched, resized and emptied at every point | the walk stays in the buffer and ends; good data is not rejected; hits keep their true time through two wraps; every hit is accounted for, in order |
| `writer` | limit 3, header 1, blocks of 2 and 4, names of two parts taken or free, 2 faults | the parts hold the run in order; what was flushed survives; parts keep to the limit and blocks are whole; no file of another run is touched |
| `graphite` | batches of 3 pieces, a send buffer of 2, 5 kinds of server | lines stay whole; a call is bounded; attempts back off; a server that is back is served again |
| `chain` | 3 boards in every wiring of `Init`, a failing access, 2 losses of lock | a board reported as locked has its phase; a healthy chain is aligned; no board is left waiting for its start |

Runs that are expected to find a violation, each a finding in `PROJECT.json`:

| Run | What the code does, and what the repository says |
|---|---|
| `daq_retry` | after a failed `start()` the next one runs with a closed write queue (`Daq.cpp:280`); "so it is ready to drain buffers" (`Daq.cpp:150`) |
| `digitizer_recovery` | one failed reconnect and `read()` never reconnects again; "attempt recovery on the next read()" (`BoardRunner.cpp:98`) |
| `decode_mixed` | couples with and without extended time stamps share one epoch count (`AggregateDecoder.cpp:47`); "still lands in the right epoch" (`AggregateDecoder.hpp:67`) |

Three more configurations find a violation and are kept beside the runs.
`DigitizerRearm.cfg` (`ReconnectRearms`): one failed re-arming leaves `running_`
cleared (`CaenDigitizer.cpp:301`) and the next reconnect does not re-arm, while
`README.md:246` has a synchronised board re-armed. `StatsStop.cfg`
(`StopIsPrompt`): `stop()` notifies without the mutex (`StatsCollector.cpp:55`), so
a call between the predicate and the wait sits out the interval, while
`tests/stats_interval_test.cpp:137` says it must not. `StatsInterval.cfg`
(`IntervalIsFeltAtOnce`): a `setInterval()` between the load of the next wait
(`StatsCollector.cpp:133`) and the load of the generation (`:117`) is only felt after
the old interval, while `StatsCollector.hpp:85` says "Takes effect immediately";
`IntervalIsFelt` excepts that case and no other.

Smaller disagreements showed while the properties were written, and the
properties are stated so as not to depend on them.

* `Daq::stop()` goes through the boards in the order they were added, while its
  comment (`Daq.cpp:228`) has the master go first.
* `open()`, `configure()`, `start()`, `arm()` and `sendSWTrigger()` take no link,
  while `CaenDigitizer.hpp:58` says of the mutex that it serialises every access:
  `BusIsSerialised` begins when the reader is up, after `start()` or `arm()` and, in
  a chain, after the trigger.
* `BoardRunner.cpp:61` and `Daq.cpp:184` have arming refresh the board info;
  `CaenDigitizer::arm()` does not read it again.
* `MockDigitizer.hpp:49` has an armed mock begin when the trigger arrives; `arm()`
  starts it at once, and so does the model.
* `stop()` and `close()` take the link with a timeout because they "must not be
  able to block for ever" (`CaenDigitizer.cpp:385`), but `BoardRunner::stop()`
  joins a reader whose `read()` takes it without one (`:324`), and `drain()` reads the
  same way. A sibling that never comes back from its read therefore hangs
  `BoardRunner::stop()` after all. `TeardownReturns` is checked with such a sibling
  (`WedgeSpec`) and excepts this wait (`WaitsForRead`) and no other.
* `BoardRunner::stop()` does not look at the result of `dgtz_->stop()`
  (`BoardRunner.cpp:70`). `CaenDigitizer::running_` is down by then, so `close()` does
  not try again: the board goes on acquiring behind a closed connection, and only the
  log of the digitizer says so. `RestIsQuiet` allows a board to run on only after its
  own stop has failed.
* The limits of `drain()` keep "a wedged board from hanging the stop"
  (`BoardRunner.cpp:142`), but are only looked at between reads. A board whose stop
  has failed and that is still armed, because the trigger failed or has not arrived,
  does not come back from the read: `CallsReturn` excepts this (`DrainHangs`).
* Nobody opens the queue of a decode stage again once `stop()` has closed it
  (`DecodeStage.cpp:28`): after a second `start()` on the same `Daq` the push of
  `submit()` is turned away by the closed queue and counted nowhere,
  while `DecodeStage.hpp:30` says that it drops "(counted)" and `README.md:154` has
  what is not decoded in `decode_dropped`. After a failed `start()` there was no
  decode thread and `stop()` returns at once (`DecodeStage.cpp:27`): what `drain()`
  read out of a board that had started stays in the queue, neither decoded nor
  counted. `DecoderSeesAll` counts it there, and is about the first `start()`.
* `README.md:129` has the counter unwrapped per channel; the code has one clock
  per board, and so has the model.
* A rotation closes the old part and clears the stream's state
  (`RawFileWriter.cpp:59`): if the last bytes of that part could not be stored,
  `write()` still returns true, over a hole in the run, while
  `RawFileWriter.hpp:49` promises false on an I/O error. The same error in
  `close()` is not looked at either. `PartsHoldTheRun` and `FlushedSurvives` speak
  of what was written before the first such error.
* `GraphiteClient.hpp:46` bounds a call by the connect and send time-outs; the
  send time-out holds for each piece, so a server that reads slowly makes a call
  last pieces times as long. `CallsAreBounded` states that bound. The name look-up
  has none, as the code says.
* A failed read of 0x8100 on the first board of the chain makes another board
  stand in for the master: it is re-aligned before its reference is, and the true
  first board, armed by its own register, waits for a trigger that never comes.
  `LockedMeansAligned` and `EveryBoardStarts` except that case.
* `alignClockChain()` leaves a chain of one board alone, as "nothing takes a clock
  from another board" (`Daq.cpp:101`). Without a synchronised board the chain has no
  master, and a single board on CLK-IN does take a clock from another one and is not
  aligned: `HealthyChainIsAligned` excepts it.
* `ClockSync.hpp:21` speaks of a PLL that has stayed locked; what is lost between
  a board's re-alignment and the read that re-arms the sticky bit is forgotten by
  that read, and what happens after its window is not seen.
  `LockedMeansAligned` excepts the boards that lost their clock then.

### Bounds

Two boards are enough for the interplay of two readers, of a reader with the
drain of another board, of a free-running board with one that waits for the trigger,
and for a start that fails on the second board (masters and slaves are the subject of
`chain`). Two buffers per board let one be in the file and one in flight, so
that order and loss can be seen; a queue of one or two fills up. `DrainReads`
stands for 1000 reads or two seconds: 1 in `daq_run`, where it is reached with a buffer
left, 2 in `daq_faults`, where it is not. Two producers and one place
let a newcomer overtake a woken producer; the proofs cover every number of both.
Two calls of `start()` reach everything a call can find left
behind by an earlier one. Two outages let the second hit the recovery from the
first. Intervals of 1 and 2 time units distinguish shorter and longer. A counter that wraps at
8 reaches its third epoch with four hits; ten words hold one couple with two
events, or two couples with one event between them, and the second buffer again.

Four blocks make up to four parts; a block of 2 fits beside the header and not
beside another block, one of 4 exceeds the limit of 3 by itself; a stream buffer
of 2 holds a whole block back or lets a part of it through. `LastSuffix` is 1 where
the code tries 99999: both candidates free, one, or none. Two faults are a disk
that fills up and a file that cannot be created after it has been freed. A batch
of three pieces and a send buffer of two let a batch be cut off before, at and
after the point where it has to wait; the back-off goes 2, 4, 7. Three boards have
a first, a middle and a last one on the clock cable, whichever was added first;
one poll (`MaxPolls`) is one success or time-out after a wait; a second loss of
lock hits the recovery from the first.

Counters without a limit in the code are limited by `MaxPushes`, `MaxBuffers`,
`MaxErrors`, `MaxStarts`, `MaxOutages`, `MaxAccesses`, `MaxDrain`, `MaxCalls`,
`MaxConfigured`, `MaxCount`, `MaxThrows`, `MaxBlocks`, `MaxTime`, `MaxFaults` and
`MaxUnlocks`. Deadlock checking is off: in every model all threads may be done, or
the bounds used up.

### Fairness

A thread that can take a step takes it (weak fairness). Strong fairness is
assumed where a mutex or the link comes free again and again: for `drain()`,
because a reader leaves the link alone for `idlePollMs` after an empty read; for
`read()` and register accesses on the link mutex; for `setInterval()` on
`cvMtx_`. Nothing is assumed of the deadline of the queue's consumer: `pop()`, which has
none, is `popFor()` where it never passes. A sibling's driver calls come back in
`digitizer_recovery`, so that the violation is the reconnect's alone; in `digitizer`
they need not. The statistics thread goes on calling
`send()`, whose system calls come back, and a Carbon server that is up reads; that
it comes up is not assumed (`Recovers` is about one that does). `RawFileWriter` and
`SyncChain` state no liveness and no fairness.
Time passes and, in `CaenDigitizer`, an outage ends. Nobody has to call
`start()`, `stop()` or a setter, and no board has to take data.

## Proofs

Every safety and action property that a passing run checks is proved, for every
value of the constants that the named assumptions of its module allow: any
number of boards, blocks, calls and faults, any capacity, time-out and size.
TLC's instances stay useful: they show that the interesting cases happen, and
that each property fails when the code is changed.

All proofs have the same form. An inductive invariant is a conjunction of named
parts; a lemma per part says that the initial states have it and that every
action keeps it, given the parts before it; the property follows from the
invariant. Where an action is long or nondeterministic, a lemma first says what
it does in the terms of the invariant (`...Effect`), and only that is used from
there on.

`BlockQueueProofs` (assumptions of `BlockQueue`: `Producers` finite, `Capacity`,
`MaxPushes` natural numbers, `TimedPop` Boolean).

* `TypeCorrect`: the type invariant, together with `PushBegun` (a producer
  inside `push()` has begun at least one), without which the block it carries
  need not be a block.
* `BoundHolds`, `RoomAlwaysAnnounced`, `ConsumerNeverForgotten`,
  `CloseReleasesProducers`: the four safety properties of the queue, from the
  inductive invariant `QueueInv`. It is their conjunction with `CloserAgrees`
  (`closed_` is set exactly when `close()` has begun): the wake-up properties
  are not inductive without it, as a notification of `close()` still to come
  could not be told from one that was lost. `RoomIsAnnounced` counts woken
  producers, hence the lemmas on cardinalities.
* `Refinement`: the code implements `BoundedQueue`. It needs `FateInv`: a block
  whose push has not ended is `new`, and no block is in the queue twice. A step
  that only moves a thread is a stuttering step of the abstract queue.

`DaqProofs`. `RestInv` relates the line `call.at` to everything else: which
boards are up before, at and behind `call.idx`, which threads live, who holds
the link, whether the queue is closed and the file open. `RestIsQuiet` says this
of one line only, and to be inductive it needs all of them, the error paths of
`start()` included. `Quiet` is a board at rest or one whose own stop failed, behind a
closed connection; that `prepare()` never opens such a board again is `Fresh`. The other properties add an invariant each:

* `StopEmptiesBoards`: `Emptied` counts the reads of `drain()` against what a closed
  board that rests still holds (`Drained`), for every limit. The hypothesis is that
  reads do not fail; with one that does `drain()` gives up with buffers left.
* `DecoderSeesAll`: `TapInv` adds up, per board, the buffers decoded, dropped,
  in the queue, with the decoder and still with the reader or `drain()`. It is
  about the first `start()` (see the disagreements above), hence `TapClosed`: who may
  find the queue of a tap closed.
* `FileKeepsBoardOrder`: `OrderInv` treats the file, the block the writer holds,
  the write queue and the hands of readers and `drain()` as one line in which
  the buffers of a board ascend. That reader and `drain()` do not both have one
  of a board comes from `RestInv`.
* `StopAccountsForAll`: `BooksInv` has the books per board and the number of its
  buffers in the file and in the queue; the count over a sequence is the
  cardinality of a set of positions (`CountAppend`, `CountTail`).

`CaenDigitizerProofs`. `Guarded` says who holds the link at which line, when the
handle is null, when the reader exists and when a stopped board may still
acquire. `NoUseAfterClose` and `BusIsSerialised` except a teardown that gave up
on the link (`alone`), and that exception runs through the invariant.

`StatsCollectorProofs`. `SinkConfigured` (every pair of server and prefix, the
copy in the loop's hands included, was configured as a pair), `WaitSound` (the
loop sleeps on an old generation only while a notification is on its way), `Felt` (a
wait longer than the interval has a bump or a notification still to come, or was
overtaken) and `Added` (samples grow, what is published is the latest one). `RatesAdd` has the
hypothesis that the register ids tell the boards apart: two boards with one id
share a previous sample in the code, and the sums of their rates are wrong.

`DecodeStageProofs`. `Walking` bounds the walk by the aggregate and the buffer,
`Sounding` says what is left of a sound buffer at each place, `Timing` that the
reference is the latest true time read and the epoch its own. That `unwrap()`
picks the right epoch is arithmetic: of three candidates a wrap apart, the one
within half a wrap of the reference is unique (`NearestUnique`,
`UnwrapIsRight`). `Stream` and `Counted` order and count the hits between batch,
tap and reader. The couples of a board are a finite set (`CouplesAssumption`).

`RawFileWriterProofs`. `Typed` and `Opened` tie the stream to the last part,
`Whole` says that what is on disk and what the stream holds is what was given,
`Kept` that the flushed beginning of the two agrees, `Sized` that `fileBytes_`
is the length of the open part with what is held back, without which the guard
of a rotation would say nothing about the file. What the stream does on a good
and on a full disk is cut down to `Outcome`: the file has grown, and a good
stream holds the rest. The run on disk is a `FlattenSeq`, a recursive function;
the lemmas on it (`FlattenAppend`, `FlattenLast`) argue with the least length at
which they would fail, since the induction theorems cannot be used.

`GraphiteClientProofs`. `Framed` relates the pieces left of a batch to what is
on the wire, `OnTime` the time a call has taken to the piece it is at, `Spaced`
the delay to the number of failures in a row. The provers know nothing about
powers, so that they double comes from `2^n` being the number of subsets of `1
.. n` (`PowerDoubles`).

`SyncChainProofs`. The chain is computed anew at every step, so the first part
says what it is (`Chained`): every board once, the master first, the others by
their register id. `SyncedPassed`, `Aligned`, `Healthy` and `Starting` say what
holds of the boards that the two walks and the arming have passed.
`HealthyChainIsAligned` needs most, also who is missing from the chain (`Chained`): a re-alignment disturbs the boards behind
it, which must not have been passed.

Left to TLC:

* all liveness (`PushReturns`, `ConsumerFinishes`, `CallsReturn`,
  `WriterFailureStopsReaders`, `WrittenIsFlushed`, `TeardownReturns`,
  `StopReturns`, `KeepsPublishing`, `DecodeReturns`, `Recovers`): the prover has
  no rules for fairness and `ENABLED`;
* the properties that are expected to fail.

## Plan

The queue, `Daq` with its runners, the digitizer, the statistics, the decoder, the
file writer, the Graphite client and the clock chain are modelled, and their safety
properties proved. Left, in order:

1. `BoardRunner` uses the abstract queue, and a file without parts. A refinement from
   `RawFileWriter` to the file of `Daq` would join the two levels, as `Refinement`
   does for the queue.
2. Concurrent callers of `Daq` (the bindings release the GIL in `stop()`).
3. The interval histogram of `HistogramStore`.

## Not modelled

The contents of buffers, headers, histograms and metrics; board information and
register dumps; the vendored CAEN and RUReader code, whose behaviour appears as
external actions; the bindings and the command line; exceptions for lack of
memory. `Daq.tla` leaves out what a `reconnect()` inside `read()` does to the board (that is
`CaenDigitizer`; a synchronised board that is armed again lets the next read wait on
the bridge), `StatsCollector::stop()` at the head of `Daq::stop()` (`StopReturns` covers it) and `alignClockChain()`, which never
fails a start and is in `SyncChain`. `StatsCollector` has `GraphiteClient::send()`
as one step, whose length `CallsAreBounded` limits. Calls of one `Daq` from
several threads at a time are not modelled.
