# A verification project for webrtc-gcc-ns3

`webrtc-gcc-ns3` runs the WebRTC stack, unchanged, inside an ns-3 network
simulation, to measure its congestion controller. This directory has TLA+
models of the code that makes that work, the TLC runs that check them, and
proofs checked by TLAPS. Paths below are relative to `src/ex-webrtc/`.

## 1. The system

The WebRTC stack is a set of task queues, process threads and threads that post
work to each other. Two interchangeable *time controllers* run it:

* the **simulation controller** (`model/webrtc-simu-controller.*`) runs every
  queue on the one ns-3 thread, inside an ns-3 event (`OnTaskTimer`), in
  simulated time;
* the **emulation controller** (`model/webrtc-emu-controller.*`) leaves the
  stack on its own operating-system threads, with ns-3 running in real time.

The stack's packets go through two ns-3 applications, `WebrtcSender` and
`WebrtcReceiver`, over simulated links. `WebrtcSessionManager` builds a pair of
call clients and the video stream between them from the scenario library in
`test/`, which `scratch/webrtc-static.cc` sets up and measures.

| Component | State | Operations | Interacts with |
|---|---|---|---|
| Time controller `model/webrtc-simu-controller.*` | `runners_`, `ready_runners_`, `yielded_`, the scheduled timer event | `OnTaskTimer`, `RunReadyRunners`, `NextRunTime`, `YieldExecution`, `Register`, `Unregister`, `StartYield`, `StopYield` | is called by ns-3 and, through `Event::Wait`, by tasks; calls `RunReady` of the runners |
| Task queue `model/simulated-task-queue.*` | `ready_tasks_`, `delayed_tasks_`, `next_run_time_` | `PostTask`, `PostDelayedTask`, `RunReady`, `Delete` | runs tasks, which call everything |
| Process thread `model/simulated-process-thread.*` | stopped and delayed modules, `queue_`, `delayed_tasks_`, `next_run_time_`, running or not | `Start`, `Stop`, `WakeUp`, `RegisterModule`, `DeRegisterModule`, posting, `RunReady` | calls `Process` of modules, which call back |
| Thread `model/simulated-thread.*` | `next_run_time_`, the message queue of `rtc::Thread` | `Send`, `Post`, `PostDelayed`, `PostAt`, `RunReady` | `Send` runs the handler at once, on the caller's stack |
| Sending and receiving application `model/webrtc-sender.*`, `model/webrtc-receiver.*` | packet queues and spin locks, running or not, sequence number, trace time, peer | `SendRtp`, `SendRtcp`, `DeliveryPacket`, `RecvPacket`, start, stop | called by the stack (other threads, when emulated) and by ns-3 |
| Tag and traces `model/webrtc-tag.*`, `model/webrtc-trace.*` | sequence number and time of a packet; expected sequence number, losses | encode, decode; `OnReceiptPktInfo`, `OnBW`, `Close` | on every packet received |
| Session manager, call client `model/webrtc-config.*`, `test/scenario/call_client.*` | clients, stream pairs, transport, SSRC counters | create, start, stop, destroy; `SendTask` to the client's queue | applications, streams |
| Program `scratch/webrtc-static.cc` | the bottleneck's rate and its schedule, applications, sessions, traces | set-up, `BandwidthChanger`, report | everything above, from `main` to `exit` |
| Streams, capturer, encoders, frame matcher `test/scenario/*`, `test/*` | frame rates, encoder debt and layers, frames to be matched | start, stop, change of rates, encode, match | task queues of the stack |

### What is hard here

* **Nested execution on one stack.** A task that waits for another queue
  (`SendTask`) runs all *other* queues from inside the blocked call, and those
  may wait too. `ready_runners_` is shared by all nesting levels, and a queue
  must not be entered a second time.
* **One timer.** The controller is driven by a single scheduled event. If it is
  scheduled too late, or not at all, nothing fails: the simulated stack just
  stops, and the measurements are wrong.
* **`next_run_time_`** is the only thing the controller knows of a runner's
  work, and five operations of each runner write it.
* **Two clocks of control.** The stack's threads push packets while the ns-3
  thread drains them; only spin locks, an unlocked flag and the order of
  "push, then schedule" keep packets from being lost or left behind.
* **Statistics** that silently misattribute late packets or missing tags.

`PROJECT.json` lists each hazard at its line with the property that covers it.

### What makes each component correct

* Controller and queues: a task runs once, not before it is due, in order and
  alone on its queue; nothing due is left behind, and nothing that is freed is
  run; the next timer covers all the work; a `SendTask` returns.
* Process thread: a registered module is never forgotten, and it has a second
  place in the thread's containers only when the code looked for the first one and
  did not find it; nothing is processed while the thread is stopped.
* Applications: each kind of packet is a FIFO channel; no packet waits without
  something on its way to send it.
* Tag and traces: the losses count exactly the packets that did not come in
  order; a delay that is written down is the packet's own.
* Session: feedback reaches the sender's client in order and without lag,
  however the starts and stops of the two applications interleave with it.
* Frame matcher and statistics: a captured frame is reported once and in order,
  with the decode that is most like it, and counted once.
* Encoder: its rate stays within the maximum, and what it delivers meets the rate
  on average.
* Program: the link has the configured rate at every moment, the clients on the
  same nodes are told apart, and the results that can be written are, and are right.

## 2. The modules

| Module | What it is |
|---|---|
| `SimController` | the controller composed with its task queues, `SendTask` and the ns-3 event loop |
| `TaskSequences` | the promise to code that posts tasks; `SimController` implements it |
| `SimControllerProofs` | theorems about `SimController` for all constants, among them that it implements `TaskSequences` |
| `SimThread` | `SimulatedThread` as a runner of the controller, next to its queues; extends `SimController` |
| `SimThreadProofs` | theorems about `SimThread` for all constants |
| `ProcessThread` | `SimulatedProcessThread` |
| `ProcessThreadProofs` | theorems about it for all constants |
| `WebrtcTransport` | sending side of both applications, their spin locks and the ns-3 thread |
| `MediaChannel` | a FIFO channel per kind of packet; `WebrtcTransport` implements it |
| `WebrtcTransportProofs` | theorems about `WebrtcTransport` for all constants |
| `WebrtcTag` | the code of the tag's two numbers |
| `WebrtcTrace` | the delay and loss traces of the receiver |
| `WebrtcSession` | both applications, started and stopped, over a network; composes `WebrtcTag` and `WebrtcTrace` |
| `WebrtcSessionProofs` | theorems about the three for all constants |
| `VideoFrameMatcher` | the matcher of captured and decoded frames |
| `VideoQualityAnalyzer` | the counts made from its frame pairs |
| `VideoQuality` | both, between a capturer and decoders that may do anything |
| `BandwidthChanger` | the changes of the link's rate, and the throughput that follows from them |
| `WebrtcStatic` | the program from `main` to `exit`; extends `BandwidthChanger` |
| `WebrtcStaticProofs` | theorems about both for all constants |
| `Recursion` | lemmas that the proofs share, about functions defined by recursion over an interval |
| `FakeEncoder` | the rates, key frames and debt of the encoder the program uses |
| `VideoProofs` | theorems about `VideoQuality` and `FakeEncoder` for all constants |
| `MC...` | the modules that instantiate these for TLC |

Some definitions are marked *Mutant* in a comment. They are plausible wrong
versions of the definition below them, kept to show that the property they are
listed with in `PROJECT.json` notices the difference. No specification uses
them.

### SimController

The calls nest, so the state has the C++ call stack: one frame for each
function that a nested call can interrupt (`OnTaskTimer`, `RunReadyRunners`,
the two loops of `RunReady`, a task, an event handler, a wait). Every action is
one step of the function on top. `runners` keeps the order of `runners_`;
`ready_runners` is a set, since the list always has the order of `runners_`.
A task is its number in posting order, and `post` says to which queue it was
posted and when it is due; with that, a delayed queue is a set. A task's code is
external: it may post to any registered queue, at once or delayed, create and
delete the dynamic queues, and wait for another queue as far as `SendPairs`
allows. Simulated time moves only between ns-3 events, so that `at_time`,
`current_time` and `CurrentTime()` agree inside a handler.

`SendTask` is one action: it posts, then enters `Event::Wait`, `YieldExecution`
and `RunReadyRunners`. Its wait returns when the closure has been run or
destroyed. If it has not when the nested `RunReadyRunners` returns, the model
stops there, as the program does.

A queue is deleted only by code that is not below one of its own tasks or waits
on the stack.

### SimThread

A message is a task of `SimController`, `delayed_tasks` and `ready_tasks` are the
two parts of the message queue of `rtc::Thread`, which is external, and `RunReady` calls
`ProcessMessages`. Other than a task queue it looks for due messages again after each
one (`GetDue`). `rtc::Thread` counts in whole milliseconds, so that time here
has a finer unit (`Millis` of them in a millisecond), and a thread may wake up
late by less than one. `Send` puts the handler on the stack at once (the frame
`Send` stands for the caller between `StartYield` and `StopYield`); `PostDelayed`
stands for `PostAt`, too. A stopped thread throws away what is posted to it, but the
post still sets its next run time (`PostWhileQuitting`); with a task of `SendTask` goes
the closure that ends the wait (`SendWhileQuitting`).

### ProcessThread

`lock_` is recursive and everything is on one thread, so a call from `Process`
enters the object again in the middle of `RunReady`: `pc` says where `RunReady`
is. `delayed_modules` is a map from timestamps to lists, as in the code, and keeps the
key of a list that `DeRegisterModule` has emptied: the next run time may then be too
early, never too late. `Start` calls `ProcessThreadAttached` of all its modules, which
may post, before it schedules one module after the other (`StartModule`).
`TimeUntilNextProcess` is external and returns any of `Periods`. `Uses`
switches on the clients' more daring behaviours, one by one: starting with
delayed tasks posted, waking modules while stopped, registering, starting,
stopping from `Process`. `missed` is history: how often `RemoveByValue`, whose result
`WakeUp` and `DeRegisterModule` ignore, has not found a module. `WakeUp` then schedules
the module a second time, and `DeRegisterModule` leaves it where it is.

### WebrtcTransport

The threads that call `SendRtp` and `SendRtcp` take the steps "enter the lock,
push, leave, trace, schedule"; the ns-3 thread takes those of `DeliveryPacket`
for every scheduled event. `Sender` chooses between the two applications: only
the sender traces the bandwidth and tags packets. The time of the clock passes
between ns-3 events only.

### WebrtcSession, WebrtcTrace, WebrtcTag

Every action is one ns-3 event: a start or stop of an application, a packet
that leaves (`SendToNetwork`), or one that arrives (`RecvPacket`). The network
may keep a packet for ever and delivers in any order, but never twice, since
each link of the program is a point-to-point one. The sender's tag is really
encoded and decoded, with a smaller base than 128 (by recursive functions, so that it
can be reasoned about for any base); the delay and the sequence
number that the receiver traces come out of the code. The sender returns from
`RecvPacket` before it reads, when it is stopped, so its socket is a queue
(`sender_socket`); the receiver reads always, and its socket is always empty.
The manager's `CreateStreamPair`, `Start` and `Stop` are called by the sender's
start and stop only (`SessionStarted`), and the receiver's stack has nothing to
report before. The receiver stops after the sender, as `InstallWebrtcApplication`
sets the times; the simulation ends at any time after that, and `over` says so.
The contents of packets, and with them the early return for RTP without an
SSRC, are left out. `m_readBytes` counts packets instead of bytes.

### VideoFrameMatcher, VideoQualityAnalyzer, VideoQuality

The matcher is called by the capturer's and the decoders' taps and does its work
in tasks on its own queue, which is `tasks`; one action runs a whole task. A task hands
frames on one after the other; `HandleMatches` is all of it, and `Uses` says how often a
decode is repeated up to a frame. A
frame is a width and a thumbnail, and the difference of two thumbnails is a
squared difference of numbers. Decoded frames are kept by id in `decodes`, so that
`last_decode`, `next_decoded_id` and `best_score` follow from it. The destructor
posts `Finalize` and waits; nobody calls afterwards. `first` (the frame that was next,
`NextToCome`, when the layer was registered) and the `since`,
`until` and `final` of a pair are history, for the reference definition in
`BestMatch`. The analyzer gets the pairs inside the matcher's task or, with
`config_.thread`, in tasks of another thread; both are in the run. `stats()` may
be called at any time, but as one step: the data race that it has with the other
thread, since the analyzer has no lock, is not modelled. The matcher is a part of the library that the program
constructs and leaves without handlers.

### BandwidthChanger, WebrtcStatic

`BandwidthChanger` has time, the rate and the chain of events; `capacity` is
history: what the link has really carried room for. `WebrtcStatic` adds the rest
of the program. `stage` follows `main` and `test_app_on_p2p`; while the ns-3 loop
runs, the events of a moment come in any order, and time passes when there
is none left. `main`'s choice of topology and instance is the constants
`Starts` and `Schedule` and the initial choice of `changer`; a changer with
several clients, which the model has, is not a choice of the command line.
Changes come in order and not before the first start, and the device has a rate to
begin with (`ChangerConstants`, `StaticConstants`), as in every schedule of the
program. What the program calculates works with whole seconds: where a property
depends on the schedule's times being whole seconds, too, it says so
(`WholeSecondChanges`).
Starting and stopping goes through both applications to the session manager. A
packet arrives at the receiver that is bound to the port its sender was told, and
all packets together fit into what the link has carried since the start. `MakePath`
works on the number of directories that exist: the path is given with a trailing
slash, which is one more prefix of the same directory. `blocked` is the first directory
that `mkdir` cannot make, for want of permission or because a file has its name
(`taken`), and `Mkdir` has the errors that follow. A result file is written if its
directory exists and it is none of `unopenable`, the files that cannot be opened even so.

### FakeEncoder

The steps are the critical sections of `crit_sect_`: `Encode` takes a snapshot,
`NextFrame` uses it, and `SetMaxBitrate`, which the client's queue calls, may come in
between. The other calls are on the encoder's queue. `DeliverLayer` is the loop at the
end of `Encode`, one layer at a time: layers below 14 bytes are dropped, and an error of
the callback keeps the layer and those behind it from being delivered. Each stream has one temporal
layer, as configured; layer `i` gets the rate of stream `i`, although layers are counted
by the streams that have a rate. `surplus` is history: how many more bits were
delivered than the bitrates of the frames allow, whatever factor the code uses. `made`,
`small` and `refused` count the layers made, those too small, and the bytes not delivered
after an error.

## 3. The runs

| Run | Question | Bounds |
|---|---|---|
| `SimController_safety` | types, next run times, one task at a time, no freed queue run, nothing due left behind, the next timer, the implementation of `TaskSequences`; handlers return, tasks run | 2 queues (1 dynamic), 3 tasks, delays 0 and 2, fair |
| `SimThread_leaf` | a thread's next run time on its coarser clock; every wait and every `Send` ends, and whoever waits has yielded once | 2 queues, 1 dynamic thread that both and ns-3 events wait for, 3 tasks |
| `SimController_yield` (violation) | `YieldExecution` as declared | 3 queues, 5 tasks |
| `SimController_chain` (violation) | `SendTask` along a chain | 3 queues, 4 tasks |
| `ProcessThread_any` | next run time, no module forgotten, no place but by a failed search, under every use but one | 2 modules, 2 tasks, periods 0 and 2 |
| `ProcessThread_plain` | no stray `Process`, tasks run, without calls from `Process` and waking while stopped | same, periods 1 and 2, fair |
| `ProcessThread_start` (violation) | next run time after `Start` with delayed tasks | same |
| `WebrtcTransport_safety` | locks, packets covered, FIFO per kind, packets sent (sender) | 1 RTP and 2 RTCP threads, 3 packets, fair |
| `WebrtcSession_safety` | losses, delays, feedback | 3 media packets, 2 feedback packets, 4 times, base 3 |
| `VideoQuality_safety` | matching, accounting, cache | 2 layers, 2 captured and 3 decoded frames out of 3 pictures, 2 tasks waiting |
| `WebrtcStatic_report` | rate of the link, capacity and utilisation reported, ports, result files | 2 clients, 2 changes, seconds of 2, 12 times, a path of 3 directories of which any number exists and any one cannot be made, at most one file that cannot be opened |
| `FakeEncoder_rate` | rate within the maximum, output on target | 1 stream, 4 bitrates, 2 maxima and none, 4 frames |

The receiving application takes the sender's steps without the trace of the
bandwidth and the tag (`Sender` = FALSE); its runs are a part of the sender's.

Why the bounds are enough. The controller's hazards need a queue that works, a
second one that waits for it, and one task that is posted while another runs;
the third queue adds the nested wait, and a chain or a common worker. Ties
between due times need two delayed tasks; `StopTime` is such that the timer
chain ends within a behaviour and work may be due at the stop time itself. The
process thread's double entries need two entries of one module and room for a
third. The transport needs two threads on the same queue for the lock, a third
on the other queue for the order of draining, and time enough for a second trace.
The thread needs a delay that is no multiple of its millisecond, an ns-3 event in
the middle of one, and callers at two levels of the stack. The session needs three
packets for a gap and a late packet behind it, times of one, two and three digits
and at a multiple of the base (3, 9), and two feedback packets to see one skipped.
The matcher needs two frames that
wait together, a decode before, between and after them, equal and unequal
differences, a width that is too small, and a layer registered late. The program
needs two segments of the rate, one after them, a start that is not at a whole
second, and a second client that starts later. The encoder needs bitrates that do
and do not divide by the maximum, two maxima in both orders, frames that are large,
too small when they pay, always too small and empty, and enough of them to pay for a
key frame; one stream, as the program has, and the theorem about the maximum has any number. `PlusInfinity` bounds due times, `NumTasks`, `MaxTime`, `MaxEntries`
and `MaxPackets` the rest; each is named in a guard.

### Fairness

* `SimController!FairSpec`: the thread keeps running (`Returns`), every task
  and event handler ends (`CodeReturns`), and the ns-3 loop reaches the timer
  although other events may come first (strong fairness: finitely many events
  precede any time).
* `ProcessThread!FairSpec`: calls return, the controller calls `RunReady`
  when it is due, time passes.
* `WebrtcTransport!FairSpec`: each operating-system thread is scheduled, and
  the ns-3 loop runs its events. Spin locks need no more, since the lock is
  held for finitely many steps and each thread sends finitely many packets.

### Disagreements between code and text

1. `YieldExecution` skips all queues that have yielded, its declaration says
   only the caller's (`SimController_yield`).
2. With waits nested along a chain the inner `SendTask` never returns, although
   no queue waits for itself (`SimController_chain`). The program as it is
   never nests like that: `SimThread_leaf` shows that its use, queues and events
   that wait for a runner which waits for nobody, is safe, for `SendTask` as for `Send`.
3. `SimulatedProcessThread::Start` forgets waiting delayed tasks in
   `next_run_time_` (`ProcessThread_start`).

What else the models had to follow, and no text of the repository contradicts:

* `TotalThroughput` leaves out the segment in progress if the last packet comes
  before the last change of the rate, so that a utilisation above 100 per cent
  is possible then; `UtilAtMostFull` says when not.
* `MakePath` reports failure where it had to create the parent of the trailing
  slash, and where it really failed; nobody looks at the result. The program then runs
  to its end without the results that cannot be written.
* `NextFrame` takes the factor of each layer's rate from `kTemporalLayerRateFactor`, a
  table for temporal layers, by the number of spatial layers. With two simulcast streams
  it makes frames for twice the bitrate, although it means to "meet the bitrate
  target" on average (`fake_encoder.cc:210`). The program configures one stream, for which
  the factor is 1; `MeetsTarget` is about that.
* When the first stream has no rate, the second one's frames have the first's size.
* `WakeUp` of a module that is being processed or stopped gives it a second place, so
  that it is processed twice as often, and `DeRegisterModule` of a module that `RunReady`
  has extracted leaves it with the thread (`PlacesAddUp` counts both).
* A `SimulatedThread` whose handler waited for a queue that sends to it again would
  enter its caller in `yielded_` twice.
* `exit` keeps the session managers' destructors, which would run on a deleted
  time controller, from running.

## 4. The proofs

`SimControllerProofs` proves, for every set of queues, every `SendPairs`, all
delays and times under `SimConstants`:

* `SimTypeCorrect`: `Spec => []TypeOK`. Inductive with `WellFormed(stack)`:
  frames above a `Task` or `Event` frame are in an order the code can produce,
  and each frame that belongs to a queue names one.
* `OneTaskCorrect`: `Spec => []OneTaskAtATime`. The invariant `NestInv` relates
  the stack to `yielded`: every queue that has frames on the stack, except the
  one on top, has yielded, and `ready_runners` has no queue that yielded. It is
  needed because the stack alone does not say why `RunReadyRunners` skips a
  queue.
* `NextRunTimeCorrect`: `Spec => []NextRunTimeProvided`, and `TimerCorrect`:
  `Spec => TimerCoversWork`. `RunTimeInv` adds that the timer has not passed,
  that delayed tasks have been posted, and that each `next_run_time` is never
  late and, off the stack, exact. `MinIsLeast` gives that the `Min` over a
  non-empty set of natural numbers is reached.
* `ReadyCorrect`: `Spec => []ReadyRunnersExist`, inductive by itself, since `Unregister`
  erases a queue from both lists.
* `NothingDueCorrect`: `Spec => []NothingDueIsLeft`: when `RunReadyRunners`
  returns it has found no registered queue that is due and has not yielded; with
  `NextRunTimeProvided` such a queue has no due work.

And it proves what these are for:

* `TasksCorrect`: `Spec => TasksRunInSequence`, the refinement of `TaskSequences`
  under the mapping of `SimController` (a task's status follows from where it is).
  `QueueInv` says that each list has its own tasks, once and in order, and `FrameInv`
  that a task on the stack is in no list and on the stack once. Every step is then one
  of five effects (`Steps`): a task starts, finishes, is posted, is dropped with its
  queue, or nothing happens to tasks (`OtherEffect`), and each is a step of the
  promise (`StartStep`, `FinishStep`, `PostStep`, `DeleteStep`) or a stutter.
* `SendTaskCorrect`: `QueuesWaitForLeaves /\ Spec => []SendTaskReturns`. When queues
  wait only for queues that do not wait themselves (events may wait for any), a wait
  always ends with its task run. `WaitInv` says that the task of a wait was posted to a
  queue that `SendPairs` allows, undelayed, and runs from inside the wait if it runs;
  `RegisteredInv` that a queue that is gone has no tasks. Without the hypothesis it is false (`SimController_chain`); the clients' calls
  of the program satisfy it, since they come from ns-3 events or wait for
  queues that never wait.

`SimThreadProofs` proves, of queues and simulated threads together, for every use of
`SendTask` and `Send`, every delay and any number of units in a millisecond. `StackEffect`
and `DataEffect` say of every step what it does to the call stack, `yielded_` and
`ready_runners_`, and which queue's messages and next run time it changes; the invariants
are proved from these two, and not action by action.

* `ThreadNextRunTimeCorrect`: `ThreadSpec => []ThreadNextRunTime`. Here the next run time
  may be late, by less than a millisecond, and early, for a thread that was stopped. So
  `OnTime` adds what the code relies on instead: the queue whose turn it is was due when
  its `RunReady` began (`TurnInv`: it is off `ready_runners_` since), and a thread that has
  a message that is due while it works has a next run time that has come. That keeps the
  time right when a nested call posts to a thread which is working.
* `YieldedOnceCorrect`: `SendsToLeaves /\ ThreadSpec => []YieldedOnce`, where the hypothesis
  says that the threads that other queues `Send` to do not wait themselves. `Yields` adds
  that nobody who waits works above his wait or is about to be run. `Send`, unlike
  `SendTask`, runs its handler without asking whether the thread has yielded, so the
  invariant needs the hypothesis: a handler that waits on the stack of a thread that waits
  already would enter it twice.
* `ThreadSendTaskCorrect`: `ThreadsWaitForLeaves /\ ThreadSpec => []SendTaskReturns`, the
  theorem about waits with threads, `Send`, deletion and stopping. `QuietWait` says that
  what has not yielded has nothing ready when the control returns to a wait, `Messages` that
  messages belong to registered queues, and `LeafAwaited` that the queue waited for
  has not yielded.

`ProcessThreadProofs` proves the process thread's invariants for any modules, periods,
tasks and delays:

* `TypeCorrect`, with `ControlInv`: `current` is a module exactly while it is
  processed, and `starting` is empty outside of `Start`.
* `ProvidedCorrect`: unless `Start` is called while delayed tasks wait, the next run
  time is never late. `KeysProvided` says it of the *keys* of the map, those of empty
  lists included, because `Start` and `RunReady` take the first key.
* `KeptCorrect`: in every use, a registered module is in one of the places that
  `RunReady`, `Start` and `Stop` move it between (`KeptInv`). The lemmas on
  `Schedule`, `Unschedule`, `Listed` and `RemoveFirst` say what each does to the
  set of modules scheduled and to their being there once.
* `PlacesCorrect` (`Spec => []PlacesAddUp`), in every use. `TallyInv` says it of sums:
  `Count` is how often a module occurs in a sequence, `Total` in the lists of the map,
  and the lemmas on them (`CountConcat`, `CountRemove`, `TotalOfSchedule`,
  `TotalOfUnschedule`, `TotalOfTake`) how the code's operations change these numbers, an
  `Unschedule` that finds nothing by nothing. `PlacesTally` shows that the sum is the
  number of places. Entries are counted as pairs of a key and a position, since the map
  may hold any number of lists.
* `StartedCorrect`, when `Uses` is empty: no `Process` of a module that is not registered
  or while stopped. `OnceInv` says that the places are disjoint, and each lists a module
  once. The hypothesis is that `Process` does not call back and nobody wakes a module of
  a stopped thread. The code does not enforce it, and with it dropped TLC finds a module
  processed that is not registered.

`WebrtcTransportProofs` proves `TypeCorrect`, `MutexCorrect` and `CoveredCorrect` for any number of threads and packets. Mutual exclusion is
inductive by itself, since it says that the lock is held *exactly* while
somebody is inside; the coverage of packets is, too, since it names every place
from which a delivery is still to come. `InOrderCorrect` (`Spec => PacketsInOrder`) is
the refinement of `MediaChannel`: what is sent of a kind is what `OfKind` selects
from the wire, and the lemmas on it (`OfKindAppend`, `OfKindTail`) show that a
step that moves a packet moves it in the channel of its kind and in no other one
(`KindInv`, `ChannelStep`).

`WebrtcSessionProofs` proves, of the trace alone, `AccountingCorrect` (`TraceSpec =>
[]LossAccounting`) and `BelowCorrect` (`TraceSpec => []LossBelowAll`) for arrivals in
any number and order, duplicates and untagged packets included. `MaxInv` says that
`m_maxSeq` is the greatest number received, itself one of them, and that the
next is expected. When a greater number arrives the missing ones grow by exactly the
interval between (`IntervalSize`, `DisjointUnion`), and when another one does,
`InOrder` does not change below `m_maxSeq` (`InOrderAppend`).

Of the tag it proves `TagRoundTrip`: for every base, two numbers that are not 0 come
back from `Deserialize(Serialize(seq, time))`. `Coded` says what bytes stand for a
number, only the last one without the flag; `EncodeCoded` that encoding gives such
bytes, and `DecodeCoded` that decoding finds their end and their number with any bytes
behind them. (0 has no bytes at all, so it would not come back: the reason for
`SessionConstants` to keep time 0 from the tags.)

Of the session: `SessionImplementsTrace` (`Spec => TraceSpec`), with which the
trace's theorems hold of every session; `OwdCorrect` (`Spec => []OwdTraced`),
`FeedbackCorrect` (`Spec => []FeedbackInOrder`) and `TypeCorrect`. `MediaInv` says that
every packet in the network has the tag of a packet that was sent, with its time; with
the round trip, the receiver reads its number and a time that has passed
(`PacketRead`). `OwdInv` adds that `m_lastOutTime` is the last line's time, for which no
line has to be at time 0. `FeedbackInv` adds that there is no feedback before the sender
has started, so that no packet can have come to the socket while nobody read it.
`CountInv` bounds what the utilisation counts.

`WebrtcStaticProofs` proves, of the bandwidth changes and the program:

* `ChangerCorrect` (`ChangerSpec => []RateAsConfigured`) for every schedule of
  increasing times. `ChangerInv` says that the next change is scheduled for its own
  time, which has not passed: the code schedules by differences, so this depends on
  every earlier change having been on time. `ScheduleIncreases` gives the order of any
  two changes; `ChangerInvRate` that the change in force is the only one it can be.
  `ProgramImplementsChanger` (`Spec => ChangerSpec`) shows that the program does nothing
  else to the changer, and `RateCorrect` carries the result over to it.
* `PortsCorrect` (`Spec => []ClientsApart`) for any number of clients; `PortsInv` has
  the ports of every client, installed or not, since a packet may reach a receiver
  only by the port it is bound to.
* `ThroughputCorrect` and `UtilCorrect`: the bits that the program says the link could
  carry, against those it carried. `CapacityInv` relates the integral of the rate to
  the segments of the schedule that are over (`SegmentEnds`, `CarriedNow`),
  `ScheduledBits` and `TotalIs` what the program sums up to the same segments,
  `ReceiptInv` the two at the moment of the last receipt, and `ReportInv` carries them to
  the report. Proving them corrected the two properties for schedules that the runs did
  not have: a last rate of 0 and changes between whole seconds.
* `ResultsCorrect`: exactly the results that can be written are. `MakePathMakes` says that
  after `MakePath` of a path of any length, whatever part of it existed, all directories
  up to the first that cannot be made exist, and no others (`MkdirReturns` has the errors); `ResultsInv` that the files
  which are open are those of the installed clients that can be, and `SomeBits` that the
  utilisation does not divide by 0. This one needed the
  condition that the first change is no less than a second after the start of time.

`VideoProofs` proves, of the encoder, for any number of streams, rates and maxima:

* `RateCorrect` (`EncoderSpec => []RateWithinMax`). Scaling rounds each stream down, and
  the sum is then rounded down to kilobits: `ScaledWithinMax` bounds the sum of the scaled
  rates by the maximum, whatever was scaled before.
* `TargetCorrect` (`NumStreams = 1 /\ EncoderSpec => []MeetsTarget`). `KeyLayered` and `DeltaLayered` say of each
  kind of frame that its size less the change of the debt is the average size,
  `FrameMeets` that this is the bitrate up to the rounding, and `DeliveryMeets` that
  delivering a layer, dropping it or stopping at an error keeps the account of what is
  still to be delivered. With more streams it is false.

Of the matcher and the analyzer, for any layers and pictures and any number of frames:

* `MatcherInv` is the inductive invariant of the matcher. `InOrder` says that the ids that
  are posted, that wait in a layer and that its pairs have are three intervals, one after
  the other, which is what `FramesMatchedOnce` (`Spec => []EveryFrameOnce`) needs; a
  layer has no pairs before it is registered, because it is registered once
  (`RegisterInv`). `WaitInv` says that what waits has its best decode so far, and is
  matched only if that is not the last one; with `PairedInv`, that pairs stay the best
  (`PairedKept`), it gives `BestCorrect` (`Spec => []BestMatch`).
* `OnDecodedFrame` and `Finalize` hand frames on in different orders. `HandsOn` is what
  they have in common (`DecodedHands`, `FinalizeHands`): frames at the front of each layer,
  in order, each with its best decode. The rest of the proof is about `HandsOn` alone.
* `FramesCounted` (`Spec => []FramesAccounted`) needs from the matcher that the pairs which
  are no repetitions are the first to show their decode (`FirstUses`). It follows from
  `Unused`, that a decode's `repeat_count` is 0 exactly when no pair shows it, through
  `HandOverUses`, since several frames handed on by one task may have one decode.
  `AnalyzerInv` says that what is posted to the thread are the last pairs and that those
  before are counted (`CountOne` for one pair, `CountAll` for those of a task).
* `CacheCorrect` (`Spec => []CacheFresh`) and `QualityTypeCorrect` (`Spec => []TypeOK`).

`Recursion` has the lemmas for the functions that are defined by recursion (the code
of a tag, the bits of a schedule, the prefixes of a path, the packets of a kind, the
lists of a map, the sums of an encoder's layers, the counts of an analyzer). The library's induction cannot be used here, so its `FirstNumber` gives
the first number for which a statement is false, and the statement is proved by
contradiction for that one (`UpTo` has this for what a step carries on); `Iteration` gives the existence of a function that takes a
step after a step, `IterationsAgree` that there is only one.

Assumptions: only the named assumptions of the modules on their constants
(`SimConstants`, `ThreadConstants`, `ProcessThreadConstants`, `TransportConstants`, `TraceConstants`,
`TagConstants`, `SessionConstants`, `ChangerConstants`, `StaticConstants`, `MatcherConstants`,
`QualityConstants`, `EncoderConstants`), which TLC evaluates in each run, and the hypotheses named above (`QueuesWaitForLeaves`,
`SendsToLeaves`, `ThreadsWaitForLeaves`, `"StartWithDelayed" \notin Uses`, `Uses = {}`, `NumStreams = 1`). The
programs of the runs satisfy those about waits, except for `SimController_chain`, which is
there to break one. `ProcessThreadConstants` asks for a
greatest period or delay, since `MaxDue` is made from it.

Every invariant, action property and refinement that a passing run checks has its theorem.
Only model-checked: the liveness properties (`EventsReturn`, `TasksRunWhileTimerAlive`,
`TasksRun`, `PacketsSent`). Liveness under fairness and `ENABLED` are out of the prover's reach.

## 5. Not modelled, and the plan

Components without a module are listed in `PROJECT.json` with the reason.
Pixel data, formatting, default configurations and the build have no
behaviour to check. The call client, the network nodes and the frame capturer
are facades of the WebRTC library or feed the modelled parts, which assume nothing
of their timing; the multithreaded encoder and the dumbbell topology are not used.
Random loss is covered by the session's network, which may lose any packet.

The order so far: the controller and its queues, the process thread, the sending
side of the applications, the session, the frame matcher with its statistics, the
simulated thread, the program with its bandwidth changes, the encoder. What is left:

1. `FrameCapturer`: `wanted_fps_` after `ChangeFramerate`, uneven frame rates.
2. `CallClients`: construction, destruction and SSRC allocation on their queues.
