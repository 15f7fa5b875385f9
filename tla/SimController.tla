---------------------------- MODULE SimController ----------------------------
(***************************************************************************)
(* The simulated time controller and its task queues, as run on the one    *)
(* operating-system thread of an ns-3 simulation                           *)
(* (model/webrtc-simu-controller.cc, model/simulated-task-queue.cc).       *)
(*                                                                         *)
(* The ns-3 event loop calls OnTaskTimer, or some other event handler; the *)
(* controller runs the queues that are due; a task may post, create and    *)
(* delete queues, and may block in SendTask, which yields: it runs the     *)
(* other queues from inside the blocked call.  The calls nest, so the      *)
(* state has the C++ call stack, one frame per function that can be        *)
(* interrupted by a nested call.  Simulated time moves only between ns-3   *)
(* events: |at_time| and |current_time| of every call equal "now".         *)
(***************************************************************************)
EXTENDS SequencesExt, Integers

CONSTANTS
  Queues,        \* SimulatedTaskQueue objects
  Main,          \* what TaskQueueBase::Current() returns in an ns-3 event
  Dynamic,       \* the queues the program creates and deletes while it runs
  InitRunners,   \* runners_ when the simulation starts
  SendPairs,     \* the <<from, to>> pairs the program uses SendTask for
  NumTasks,      \* bound: number of tasks posted in a behaviour
  Delays,        \* delays given to PostDelayedTask, in ms
  StartTime,     \* start_us of the constructor
  StopTime,      \* stop_us of the constructor
  MaxTime,       \* bound: the last moment of an ns-3 event other than the timer
  PlusInfinity   \* Timestamp::PlusInfinity(); bound: no task is due that late

ASSUME SimConstants ==
  /\ Main \notin Queues /\ Dynamic \subseteq Queues
  /\ InitRunners \in Seq(Queues)
  /\ IsInjective(InitRunners)
  /\ SendPairs \subseteq (Queues \cup {Main}) \X Queues
  /\ NumTasks \in Nat
  /\ Delays \subseteq Nat
  /\ StartTime \in Nat /\ StopTime \in Nat /\ MaxTime \in Nat
  /\ PlusInfinity \in Nat /\ StartTime < PlusInfinity /\ MaxTime < PlusInfinity

VARIABLES
  now,            \* ns3::Simulator::Now()
  timer,          \* when the scheduled OnTaskTimer event is due, or PlusInfinity
  stack,          \* the C++ call stack, bottom first; <<>> between ns-3 events
  runners,        \* runners_
  ready_runners,  \* ready_runners_; always in the order of runners_
  yielded,        \* yielded_
  ready_tasks,    \* ready_tasks_ of each queue
  delayed_tasks,  \* delayed_tasks_ of each queue: ordered by <<due, id>>
  next_run_time,  \* next_run_time_ of each queue
  posted,         \* number of tasks posted so far; task ids are in posting order
  post,           \* how each task was posted: to which queue, when due, delayed?
  dropped         \* tasks destroyed by Delete without having run

vars == <<now, timer, stack, runners, ready_runners, yielded, ready_tasks,
          delayed_tasks, next_run_time, posted, post, dropped>>
queueVars == <<ready_tasks, delayed_tasks, next_run_time, posted, post>>

Task == 1..NumTasks
Time == 0..(PlusInfinity - 1)
MinusInfinity == -1
Current == Queues \cup {Main}
Registered == ToSet(runners)

\* A stack frame: the function, the queue it belongs to, the task it runs or
\* waits for (0: none).  "MoveDue" and "RunTasks" are the two loops of RunReady.
Frame == [fn : {"OnTaskTimer", "RunReadyRunners", "MoveDue", "RunTasks",
                "Task", "Event", "Wait"},
          q : Current, t : 0..NumTasks]
F(fn, q, t) == [fn |-> fn, q |-> q, t |-> t]
Top(fn) == stack # <<>> /\ Last(stack).fn = fn
Return == Front(stack)

\* Task code, or the code of an ns-3 event handler, has control.
CodeRuns == Top("Task") \/ Top("Event")

\* Mutant: of two delayed tasks that are due together the later one runs first.
PrecedesTiesReversed(t, u) ==
  post[t].due < post[u].due \/ (post[t].due = post[u].due /\ t > u)

Precedes(t, u) == post[t].due < post[u].due \/ (post[t].due = post[u].due /\ t < u)
FirstDelayed(q) == CHOOSE t \in delayed_tasks[q] :
                     \A u \in delayed_tasks[q] \ {t} : Precedes(t, u)

Init ==
  /\ now = 0
  /\ timer = StartTime
  /\ stack = <<>>
  /\ runners = InitRunners
  /\ ready_runners = {}
  /\ yielded = {}
  /\ ready_tasks = [q \in Queues |-> <<>>]
  /\ delayed_tasks = [q \in Queues |-> {}]
  /\ next_run_time = [q \in Queues |-> PlusInfinity]
  /\ posted = 0
  /\ post = [t \in Task |-> [q |-> Main, due |-> 0, delayed |-> FALSE]]
  /\ dropped = {}
------------------------------------------------------------------------------
(* The ns-3 event loop *)

\* The scheduled OnTaskTimer event fires.
FireTimer ==
  /\ stack = <<>> /\ timer < PlusInfinity
  /\ now' = timer
  /\ timer' = PlusInfinity
  /\ stack' = <<F("OnTaskTimer", Main, 0), F("RunReadyRunners", Main, 0)>>
  /\ ready_runners' = {}
  /\ UNCHANGED <<runners, yielded, dropped, queueVars>>

\* Any other ns-3 event: an application starting or stopping, a packet arriving.
FireEvent ==
  /\ stack = <<>>
  /\ now' \in now..MaxTime /\ now' <= timer
  /\ stack' = <<F("Event", Main, 0)>>
  /\ UNCHANGED <<timer, runners, ready_runners, yielded, dropped, queueVars>>

\* No event is left: Simulator::Run returns.
SimulationOver ==
  /\ stack = <<>> /\ timer = PlusInfinity /\ now >= MaxTime
  /\ UNCHANGED vars

EventReturns ==
  /\ Top("Event")
  /\ stack' = Return
  /\ UNCHANGED <<now, timer, runners, ready_runners, yielded, dropped, queueVars>>
------------------------------------------------------------------------------
(* SimulatedTimeControllerImpl *)

\* Mutant: a queue that has yielded is run again.
CollectYielded ==
  /\ Top("RunReadyRunners") /\ ready_runners = {}
  /\ LET due == {q \in Registered : next_run_time[q] <= now}
     IN  /\ ready_runners' = due
         /\ stack' = IF due = {} THEN Return ELSE stack
  /\ UNCHANGED <<now, timer, runners, yielded, dropped, queueVars>>

\* Mutant: a queue that is due right now is not due yet.
CollectOverdue ==
  /\ Top("RunReadyRunners") /\ ready_runners = {}
  /\ LET due == {q \in Registered \ yielded : next_run_time[q] < now}
     IN  /\ ready_runners' = due
         /\ stack' = IF due = {} THEN Return ELSE stack
  /\ UNCHANGED <<now, timer, runners, yielded, dropped, queueVars>>

\* One round of RunReadyRunners collects the runners that are due, in the order
\* of runners_; the next ones run them.
CollectReady ==
  /\ Top("RunReadyRunners") /\ ready_runners = {}
  /\ LET due == {q \in Registered \ yielded : next_run_time[q] <= now}
     IN  /\ ready_runners' = due
         /\ stack' = IF due = {} THEN Return ELSE stack
  /\ UNCHANGED <<now, timer, runners, yielded, dropped, queueVars>>

RunReady(q) ==
  /\ Top("RunReadyRunners")
  /\ \E i \in DOMAIN runners :
       /\ runners[i] = q /\ q \in ready_runners
       /\ \A j \in DOMAIN runners : runners[j] \in ready_runners => i <= j
  /\ ready_runners' = ready_runners \ {q}
  /\ stack' = Append(stack, F("MoveDue", q, 0))
  /\ UNCHANGED <<now, timer, runners, yielded, dropped, queueVars>>

\* Mutant: the next run time of the first runner, not the least of them all.
FirstNextRunTime == IF next_run_time[Head(runners)] <= now THEN now
                    ELSE next_run_time[Head(runners)]

NextRunTime ==
  LET times == {next_run_time[q] : q \in Registered}
  IN  IF \E x \in times : x <= now THEN now ELSE Min(times \cup {PlusInfinity})

\* The loop of OnTaskTimer goes round again.
TimerAgain ==
  /\ Top("OnTaskTimer") /\ NextRunTime <= now
  /\ stack' = Append(stack, F("RunReadyRunners", Main, 0))
  /\ ready_runners' = {}
  /\ UNCHANGED <<now, timer, runners, yielded, dropped, queueVars>>

\* Mutant: the next run time is taken for a delay.
TimerAtDelay ==
  /\ Top("OnTaskTimer") /\ NextRunTime > now
  /\ timer' = IF now < StopTime THEN now + NextRunTime ELSE PlusInfinity
  /\ stack' = Return
  /\ UNCHANGED <<now, runners, ready_runners, yielded, dropped, queueVars>>

\* Mutant: no timer for what is due at the stop time itself.
TimerBeforeStop ==
  /\ Top("OnTaskTimer") /\ NextRunTime > now
  /\ timer' = IF NextRunTime < StopTime THEN NextRunTime ELSE PlusInfinity
  /\ stack' = Return
  /\ UNCHANGED <<now, runners, ready_runners, yielded, dropped, queueVars>>

TimerReturns ==
  /\ Top("OnTaskTimer") /\ NextRunTime > now
  /\ timer' = IF now < StopTime THEN NextRunTime ELSE PlusInfinity
  /\ stack' = Return
  /\ UNCHANGED <<now, runners, ready_runners, yielded, dropped, queueVars>>

\* OnTaskTimer after RunReadyRunners returned: again, or schedule the next timer.
\* (NothingDueIsLeft says that it is always the latter.)
OnTaskTimer == IF NextRunTime <= now THEN TimerAgain ELSE TimerReturns
------------------------------------------------------------------------------
(* SimulatedTaskQueue::RunReady *)

\* The first delayed task that is due becomes ready.
MoveDue ==
  /\ Top("MoveDue")
  /\ LET q == Last(stack).q
     IN  /\ \E t \in delayed_tasks[q] : post[t].due <= now
         /\ ready_tasks' = [ready_tasks EXCEPT ![q] = Append(@, FirstDelayed(q))]
         /\ delayed_tasks' = [delayed_tasks EXCEPT ![q] = @ \ {FirstDelayed(q)}]
  /\ UNCHANGED <<now, timer, stack, runners, ready_runners, yielded, dropped,
                 next_run_time, posted, post>>

AllMoved ==
  /\ Top("MoveDue")
  /\ LET q == Last(stack).q
     IN  /\ \A t \in delayed_tasks[q] : post[t].due > now
         /\ stack' = Append(Return, F("RunTasks", q, 0))
  /\ UNCHANGED <<now, timer, runners, ready_runners, yielded, dropped, queueVars>>

RunTask ==
  /\ Top("RunTasks")
  /\ LET q == Last(stack).q
     IN  /\ ready_tasks[q] # <<>>
         /\ stack' = Append(stack, F("Task", q, Head(ready_tasks[q])))
         /\ ready_tasks' = [ready_tasks EXCEPT ![q] = Tail(@)]
  /\ UNCHANGED <<now, timer, runners, ready_runners, yielded, dropped,
                 delayed_tasks, next_run_time, posted, post>>

TaskReturns ==
  /\ Top("Task")
  /\ stack' = Return
  /\ UNCHANGED <<now, timer, runners, ready_runners, yielded, dropped, queueVars>>

RunReadyReturns ==
  /\ Top("RunTasks")
  /\ LET q == Last(stack).q
     IN  /\ ready_tasks[q] = <<>>
         /\ next_run_time' = [next_run_time EXCEPT ![q] =
              IF delayed_tasks[q] = {} THEN PlusInfinity ELSE post[FirstDelayed(q)].due]
  /\ stack' = Return
  /\ UNCHANGED <<now, timer, runners, ready_runners, yielded, dropped,
                 ready_tasks, delayed_tasks, posted, post>>
------------------------------------------------------------------------------
(* What task code and event handlers call *)

\* Mutant: a queue with delayed tasks keeps its next run time.
EnqueueKeepsTime(q) ==
  /\ posted < NumTasks /\ q \in Registered
  /\ posted' = posted + 1
  /\ post' = [post EXCEPT ![posted + 1] = [q |-> q, due |-> now, delayed |-> FALSE]]
  /\ ready_tasks' = [ready_tasks EXCEPT ![q] = Append(@, posted + 1)]
  /\ next_run_time' = [next_run_time EXCEPT ![q] =
                        IF delayed_tasks[q] = {} THEN MinusInfinity ELSE @]
  /\ delayed_tasks' = delayed_tasks

\* SimulatedTaskQueue::PostTask
Enqueue(q) ==
  /\ posted < NumTasks /\ q \in Registered
  /\ posted' = posted + 1
  /\ post' = [post EXCEPT ![posted + 1] = [q |-> q, due |-> now, delayed |-> FALSE]]
  /\ ready_tasks' = [ready_tasks EXCEPT ![q] = Append(@, posted + 1)]
  /\ next_run_time' = [next_run_time EXCEPT ![q] = MinusInfinity]
  /\ delayed_tasks' = delayed_tasks

PostTask(q) ==
  /\ CodeRuns
  /\ Enqueue(q)
  /\ UNCHANGED <<now, timer, stack, runners, ready_runners, yielded, dropped>>

\* Mutant: the next run time is overwritten, not lowered.
PostDelayedOverwrites(q, d) ==
  /\ CodeRuns /\ posted < NumTasks /\ q \in Registered /\ now + d < PlusInfinity
  /\ posted' = posted + 1
  /\ post' = [post EXCEPT ![posted + 1] = [q |-> q, due |-> now + d, delayed |-> TRUE]]
  /\ delayed_tasks' = [delayed_tasks EXCEPT ![q] = @ \cup {posted + 1}]
  /\ next_run_time' = [next_run_time EXCEPT ![q] = now + d]
  /\ UNCHANGED <<now, timer, stack, runners, ready_runners, yielded, dropped, ready_tasks>>

PostDelayedTask(q, d) ==
  /\ CodeRuns /\ posted < NumTasks /\ q \in Registered /\ now + d < PlusInfinity
  /\ posted' = posted + 1
  /\ post' = [post EXCEPT ![posted + 1] = [q |-> q, due |-> now + d, delayed |-> TRUE]]
  /\ delayed_tasks' = [delayed_tasks EXCEPT ![q] = @ \cup {posted + 1}]
  /\ next_run_time' = [next_run_time EXCEPT ![q] = IF @ <= now + d THEN @ ELSE now + d]
  /\ UNCHANGED <<now, timer, stack, runners, ready_runners, yielded, dropped, ready_tasks>>

\* Mutant: the queue that waits is not entered in yielded_.
SendWithoutYield(q) ==
  /\ CodeRuns
  /\ LET from == Last(stack).q
     IN  /\ <<from, q>> \in SendPairs /\ from # q
         /\ stack' = stack \o <<F("Wait", from, posted + 1),
                                F("RunReadyRunners", Main, 0)>>
  /\ Enqueue(q)
  /\ ready_runners' = {}
  /\ UNCHANGED <<now, timer, runners, yielded, dropped>>

\* SendTask posts a task and waits for it; Event::Wait calls YieldExecution,
\* which runs the queues that have not yielded, and then blocks.
SendTask(q) ==
  /\ CodeRuns
  /\ LET from == Last(stack).q
     IN  /\ <<from, q>> \in SendPairs /\ from # q
         /\ yielded' = yielded \cup {from}
         /\ stack' = stack \o <<F("Wait", from, posted + 1),
                                F("RunReadyRunners", Main, 0)>>
  /\ Enqueue(q)
  /\ ready_runners' = {}
  /\ UNCHANGED <<now, timer, runners, dropped>>

Pending(t) == \E q \in Queues : t \in ToSet(ready_tasks[q]) \cup delayed_tasks[q]
Running(t) == \E i \in DOMAIN stack : stack[i].fn = "Task" /\ stack[i].t = t
Over(t) == ~Pending(t) /\ ~Running(t)

\* Mutant: the queue stays in yielded_ when its wait is over.
WaitStaysYielded ==
  /\ Top("Wait")
  /\ LET t == Last(stack).t IN Over(t)
  /\ stack' = Return
  /\ UNCHANGED <<now, timer, runners, ready_runners, yielded, dropped, queueVars>>

\* The closure of the task, run or destroyed, has set the event.
WaitReturns ==
  /\ Top("Wait")
  /\ LET t == Last(stack).t IN Over(t)
  /\ yielded' = yielded \ {Last(stack).q}
  /\ stack' = Return
  /\ UNCHANGED <<now, timer, runners, ready_runners, dropped, queueVars>>

CreateTaskQueue(q) ==
  /\ CodeRuns /\ q \in Dynamic \ Registered
  /\ runners' = Append(runners, q)
  /\ UNCHANGED <<now, timer, stack, ready_runners, yielded, dropped, queueVars>>

\* Mutant: Unregister erases the runner from runners_ only.
DeleteLeavesReady(q) ==
  /\ CodeRuns /\ q \in Dynamic /\ \A i \in DOMAIN stack : stack[i].q # q
  /\ \E i \in DOMAIN runners : runners[i] = q /\ runners' = RemoveAt(runners, i)
  /\ dropped' = dropped \cup ToSet(ready_tasks[q]) \cup delayed_tasks[q]
  /\ ready_tasks' = [ready_tasks EXCEPT ![q] = <<>>]
  /\ delayed_tasks' = [delayed_tasks EXCEPT ![q] = {}]
  /\ next_run_time' = [next_run_time EXCEPT ![q] = PlusInfinity]
  /\ UNCHANGED <<now, timer, stack, ready_runners, yielded, posted, post>>

\* Delete and the destructor, which unregisters; never by the queue's own task
\* or by code that a task of the queue waits for.
DeleteTaskQueue(q) ==
  /\ CodeRuns /\ q \in Dynamic /\ \A i \in DOMAIN stack : stack[i].q # q
  /\ \E i \in DOMAIN runners : runners[i] = q /\ runners' = RemoveAt(runners, i)
  /\ ready_runners' = ready_runners \ {q}
  /\ dropped' = dropped \cup ToSet(ready_tasks[q]) \cup delayed_tasks[q]
  /\ ready_tasks' = [ready_tasks EXCEPT ![q] = <<>>]
  /\ delayed_tasks' = [delayed_tasks EXCEPT ![q] = {}]
  /\ next_run_time' = [next_run_time EXCEPT ![q] = PlusInfinity]
  /\ UNCHANGED <<now, timer, stack, yielded, posted, post>>
------------------------------------------------------------------------------
\* The steps the program takes by itself, once an ns-3 event has called it.
Returns == CollectReady \/ OnTaskTimer \/ MoveDue \/ AllMoved
           \/ RunTask \/ RunReadyReturns \/ WaitReturns
           \/ \E q \in Queues : RunReady(q)
CodeReturns == TaskReturns \/ EventReturns
Calls == \E q \in Queues : \/ PostTask(q) \/ SendTask(q)
                           \/ CreateTaskQueue(q) \/ DeleteTaskQueue(q)
                           \/ \E d \in Delays : PostDelayedTask(q, d)

Next == FireTimer \/ FireEvent \/ SimulationOver \/ Returns \/ CodeReturns \/ Calls

Spec == Init /\ [][Next]_vars

\* The thread keeps running, every task and event handler ends, and the ns-3
\* event loop, which has finitely many events before any time, reaches the timer.
FairSpec == /\ Spec
            /\ WF_vars(Returns) /\ SF_vars(CodeReturns) /\ SF_vars(FireTimer)
------------------------------------------------------------------------------
TypeOK ==
  /\ now \in Time /\ timer \in 0..PlusInfinity
  /\ stack \in Seq(Frame)
  /\ runners \in Seq(Queues)
  /\ ready_runners \subseteq Queues /\ yielded \subseteq Current
  /\ ready_tasks \in [Queues -> Seq(Task)]
  /\ delayed_tasks \in [Queues -> SUBSET Task]
  /\ next_run_time \in [Queues -> MinusInfinity..PlusInfinity]
  /\ posted \in 0..NumTasks
  /\ post \in [Task -> [q : Current, due : Time, delayed : BOOLEAN]]
  /\ dropped \subseteq Task

OnStack(q) == \E i \in DOMAIN stack : stack[i].fn # "Wait" /\ stack[i].q = q
DueWork(q) == ready_tasks[q] # <<>> \/ \E t \in delayed_tasks[q] : post[t].due <= now

\* The next run time of a queue is never later than its earliest work, whatever
\* is posted while the queue runs, is yielded or waits for its turn; and it is
\* that work's time, neither earlier nor stale, when RunReady is not in progress.
\* A late value is a task the controller never runs (NextRunTime, CollectReady).
NextRunTimeProvided ==
  \A q \in Queues :
    /\ ready_tasks[q] # <<>> => next_run_time[q] <= now
    /\ \A t \in delayed_tasks[q] : next_run_time[q] <= post[t].due
    /\ ~OnStack(q) =>
         next_run_time[q] =
           IF ready_tasks[q] # <<>> THEN MinusInfinity
           ELSE Min({post[t].due : t \in delayed_tasks[q]} \cup {PlusInfinity})

\* A queue runs one task at a time, although the tasks of other queues run inside
\* a task that waits: RunReady of a queue is never entered twice (yielded_, and
\* ready_runners_ cleared by every nested call), so yielded_.insert never fails.
OneTaskAtATime ==
  /\ \A i, j \in DOMAIN stack :
       /\ stack[i].fn \in {"MoveDue", "RunTasks"}
       /\ stack[j].fn \in {"MoveDue", "RunTasks"}
       /\ stack[i].q = stack[j].q
       => i = j
  /\ CodeRuns => Last(stack).q \notin yielded

\* A queue that the task of another one deletes while RunReadyRunners works, or that
\* code below it on the stack deletes, is not left in its list: the pointers there are
\* those of runners that exist, so that RunReadyRunners never runs a freed queue.
ReadyRunnersExist == ready_runners \subseteq Registered

\* RunReadyRunners leaves nothing due, except on the queues that wait themselves:
\* also when a nested call emptied the list the outer call was working on, and
\* when a task posted to a queue that had already had its turn.
NothingDueIsLeft ==
  Top("OnTaskTimer") \/ Top("Wait") =>
    \A q \in Registered \ yielded : ~DueWork(q)

\* SendTask returns: when YieldExecution has returned inside Event::Wait, the task
\* that was sent has run or is destroyed.  There is only one thread, so otherwise
\* the wait never ends and the simulation hangs.
SendTaskReturns ==
  Top("Wait") => LET t == Last(stack).t IN Over(t)

\* YieldExecution as its declaration describes it: it runs the ready tasks on all
\* task queues, except that the queue of the calling task is skipped.
YieldSkipsOnlyTheCaller ==
  Top("Wait") => \A q \in Registered \ {Last(stack).q} : ~DueWork(q)

\* When OnTaskTimer returns before the stop time, the next timer covers all the
\* work there is: it comes no later than the earliest delayed task of any queue,
\* and it is left out only if there is no work at all.
TimerCoversWork ==
  [][TimerReturns /\ now < StopTime =>
       \A q \in Registered : /\ ready_tasks[q] = <<>>
                             /\ \A t \in delayed_tasks[q] : timer' <= post[t].due]_vars

\* Every ns-3 event handler returns: no SendTask waits for ever, if the program
\* never uses SendTask in a circle.
EventsReturn == (stack # <<>>) ~> (stack = <<>>)

\* While a timer is scheduled, a task that is due by the stop time runs or is
\* destroyed with its queue, whatever posts it and however the calls nest.
TasksRunWhileTimerAlive ==
  \A t \in Task :
    (t <= posted /\ Pending(t) /\ timer < PlusInfinity /\ post[t].due <= StopTime)
      ~> ~Pending(t)
------------------------------------------------------------------------------
(* The promise to the code that posts tasks, and how the state keeps it *)

status ==
  [t \in Task |-> CASE t > posted -> "new"
                    [] t <= posted /\ Pending(t) -> "pending"
                    [] Running(t) -> "running"
                    [] t \in dropped -> "dropped"
                    [] OTHER -> "done"]

Promise == INSTANCE TaskSequences WITH Times <- Time

\* The queues keep what TaskSequences promises: each task runs at most once, not
\* before it is due, in order, alone on its queue, and no task is lost.
TasksRunInSequence == Promise!Spec
==============================================================================
