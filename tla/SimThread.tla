------------------------------ MODULE SimThread ------------------------------
(***************************************************************************)
(* SimulatedThread as a runner of the time controller, next to its task    *)
(* queues (model/simulated-thread.cc).  A message posted to a thread is a  *)
(* task; the handler of a message that is *sent* runs at once, on the      *)
(* stack of the caller, whose queue yields meanwhile.  rtc::Thread, whose  *)
(* messages have times in whole milliseconds, is external.                 *)
(* The unit of time is a fraction of a millisecond.                        *)
(***************************************************************************)
EXTENDS SimController

CONSTANTS
  Threads,      \* those of Queues that are SimulatedThreads
  Millis,       \* units of time in a millisecond
  ThreadSends,  \* the <<from, to>> pairs the program uses Send for
  ThreadDelays  \* delays given to PostDelayed, in milliseconds

ASSUME ThreadConstants ==
  /\ Threads \subseteq Queues
  /\ Millis \in Nat \ {0}
  /\ ThreadSends \subseteq (Queues \cup {Main}) \X Threads
  /\ ThreadDelays \subseteq Nat

VARIABLE quitting  \* the threads that have been stopped

threadVars == <<vars, quitting>>

FloorMillis(time) == (time \div Millis) * Millis  \* rtc::TimeMillis
HasDue(q) == \E t \in delayed_tasks[q] : post[t].due <= now
------------------------------------------------------------------------------
(* RunReady: ProcessMessages(0), then the delay until the next message *)

\* Get moves every message that is due before it takes the first one; it does so
\* again after each message, other than a task queue.
GetDue ==
  /\ Top("RunTasks") /\ Last(stack).q \in Threads /\ HasDue(Last(stack).q)
  /\ LET q == Last(stack).q
     IN  /\ ready_tasks' = [ready_tasks EXCEPT ![q] = Append(@, FirstDelayed(q))]
         /\ delayed_tasks' = [delayed_tasks EXCEPT ![q] = @ \ {FirstDelayed(q)}]
  /\ UNCHANGED <<now, timer, stack, runners, ready_runners, yielded, dropped,
                 next_run_time, posted, post>>

GetMessage ==
  /\ Top("RunTasks") /\ Last(stack).q \in Threads => ~HasDue(Last(stack).q)
  /\ RunTask

\* Mutant: the delay is not added to the time of this call.
ProcessedKeepsTime ==
  /\ Top("RunTasks") /\ Last(stack).q \in Threads
  /\ LET q == Last(stack).q
     IN  /\ ready_tasks[q] = <<>> /\ ~HasDue(q)
         /\ next_run_time' = [next_run_time EXCEPT ![q] =
              IF delayed_tasks[q] = {} THEN PlusInfinity
              ELSE post[FirstDelayed(q)].due + Millis]
  /\ stack' = Return
  /\ UNCHANGED <<now, timer, runners, ready_runners, yielded, dropped,
                 ready_tasks, delayed_tasks, posted, post>>

\* GetDelay is the time from the whole millisecond that has begun to the next
\* message; RunReady adds it to the moment at which it was called.
MessagesProcessed ==
  /\ Top("RunTasks") /\ Last(stack).q \in Threads
  /\ LET q == Last(stack).q
     IN  /\ ready_tasks[q] = <<>> /\ ~HasDue(q)
         /\ next_run_time' = [next_run_time EXCEPT ![q] =
              IF delayed_tasks[q] = {} THEN PlusInfinity
              ELSE now + (post[FirstDelayed(q)].due - FloorMillis(now))]
  /\ stack' = Return
  /\ UNCHANGED <<now, timer, runners, ready_runners, yielded, dropped,
                 ready_tasks, delayed_tasks, posted, post>>

QueueReturns == stack # <<>> /\ Last(stack).q \notin Threads /\ RunReadyReturns
------------------------------------------------------------------------------
(* What task code, message handlers and event handlers call *)

StartYield(from) == yielded' = yielded \cup {from}
StopYield(from) == yielded' = yielded \ {from}

\* Mutant: the caller is not entered in yielded_.
SendNoYield(th) ==
  /\ CodeRuns /\ th \in Registered \ quitting
  /\ LET from == Last(stack).q
     IN  /\ <<from, th>> \in ThreadSends /\ from # th
         /\ stack' = stack \o <<F("Send", from, 0), F("Task", th, 0)>>
  /\ UNCHANGED <<now, timer, runners, ready_runners, yielded, dropped, queueVars>>

\* Send from another queue or thread.  (From the thread itself the handler is just
\* called; a thread that is quitting ignores it.)
Send(th) ==
  /\ CodeRuns /\ th \in Registered \ quitting
  /\ LET from == Last(stack).q
     IN  /\ <<from, th>> \in ThreadSends /\ from # th
         /\ StartYield(from)
         /\ stack' = stack \o <<F("Send", from, 0), F("Task", th, 0)>>
  /\ UNCHANGED <<now, timer, runners, ready_runners, dropped, queueVars>>

SendReturns ==
  /\ Top("Send")
  /\ StopYield(Last(stack).q)
  /\ stack' = Return
  /\ UNCHANGED <<now, timer, runners, ready_runners, dropped, queueVars>>

\* PostDelayed and PostAt: the thread counts in whole milliseconds.
PostDelayed(th, ms) ==
  LET due == FloorMillis(now) + ms * Millis
  IN  /\ CodeRuns /\ posted < NumTasks /\ due < PlusInfinity
      /\ th \in Registered \ quitting
      /\ posted' = posted + 1
      /\ post' = [post EXCEPT ![posted + 1] = [q |-> th, due |-> due, delayed |-> TRUE]]
      /\ delayed_tasks' = [delayed_tasks EXCEPT ![th] = @ \cup {posted + 1}]
      /\ next_run_time' = [next_run_time EXCEPT ![th] = IF @ <= due THEN @ ELSE due]
      /\ UNCHANGED <<now, timer, stack, runners, ready_runners, yielded, dropped,
                     ready_tasks>>

\* Quit: what is posted from now on is thrown away, although the next run time is
\* still updated; what was posted before is still processed.
Stop(th) ==
  /\ CodeRuns /\ th \in Registered \ quitting
  /\ quitting' = quitting \cup {th}
  /\ UNCHANGED vars

PostWhileQuitting(th) ==
  /\ CodeRuns /\ th \in Registered \cap quitting
  /\ next_run_time' = [next_run_time EXCEPT ![th] = MinusInfinity]
  /\ UNCHANGED <<now, timer, stack, runners, ready_runners, yielded, dropped,
                 ready_tasks, delayed_tasks, posted, post>>

\* SendTask to a thread that has been stopped: the task is thrown away, and with it
\* goes the closure that sets the event the caller waits for.
SendWhileQuitting(th) ==
  LET from == Last(stack).q
      t == posted + 1
  IN  /\ CodeRuns /\ th \in Registered \cap quitting
      /\ <<from, th>> \in SendPairs /\ from # th /\ posted < NumTasks
      /\ posted' = t
      /\ post' = [post EXCEPT ![t] = [q |-> th, due |-> now, delayed |-> FALSE]]
      /\ dropped' = dropped \cup {t}
      /\ next_run_time' = [next_run_time EXCEPT ![th] = MinusInfinity]
      /\ StartYield(from)
      /\ stack' = stack \o <<F("Wait", from, t), F("RunReadyRunners", Main, 0)>>
      /\ ready_runners' = {}
      /\ UNCHANGED <<now, timer, runners, ready_tasks, delayed_tasks>>
------------------------------------------------------------------------------
Keep(step) == step /\ UNCHANGED quitting

\* A thread is registered and unregistered as a queue is.
CreateThread(th) == Keep(CreateTaskQueue(th))
DeleteThread(th) == DeleteTaskQueue(th) /\ quitting' = quitting \ {th}

ThreadNext ==
  \/ Keep(FireTimer) \/ Keep(FireEvent) \/ Keep(SimulationOver)
  \/ Keep(TaskReturns) \/ Keep(EventReturns) \/ Keep(WaitReturns)
  \/ Keep(CollectReady) \/ Keep(OnTaskTimer) \/ Keep(MoveDue) \/ Keep(AllMoved)
  \/ Keep(GetDue) \/ Keep(GetMessage) \/ Keep(MessagesProcessed) \/ Keep(QueueReturns)
  \/ Keep(SendReturns)
  \/ \E q \in Queues :
       \/ Keep(RunReady(q))
       \/ q \notin quitting /\ (Keep(SendTask(q)) \/ Keep(PostTask(q)))
       \/ \E d \in Delays : q \notin Threads /\ Keep(PostDelayedTask(q, d))
  \/ \E th \in Threads :
       \/ CreateThread(th) \/ DeleteThread(th) \/ Stop(th)
       \/ Keep(Send(th)) \/ Keep(PostWhileQuitting(th)) \/ Keep(SendWhileQuitting(th))
       \/ \E ms \in ThreadDelays : Keep(PostDelayed(th, ms))

ThreadSpec == Init /\ quitting = {} /\ [][ThreadNext]_threadVars
------------------------------------------------------------------------------
\* A thread is run for a delayed message less than a millisecond after it is due,
\* although it counts in whole milliseconds and the controller does not; it is
\* never run for a message that is not there, except after it was stopped; and a
\* message that may run at once is not overlooked.
ThreadNextRunTime ==
  \A th \in Threads \cap Registered :
    LET earliest == Min({post[t].due : t \in delayed_tasks[th]} \cup {PlusInfinity})
    IN  /\ ready_tasks[th] # <<>> => next_run_time[th] <= now
        /\ delayed_tasks[th] # {} => next_run_time[th] < earliest + Millis
        /\ ~OnStack(th) /\ ready_tasks[th] = <<>> /\ th \notin quitting
             => next_run_time[th] >= earliest

\* A queue or a thread that waits, in Event::Wait or in Send, is in yielded_, and
\* it is there once: the insertions that YieldExecution and StartYield check never
\* find it already there, and the one return does not end the other's yield.
YieldedOnce ==
  LET waits == {i \in DOMAIN stack : stack[i].fn \in {"Wait", "Send"}}
  IN  /\ yielded = {stack[i].q : i \in waits}
      /\ \A i, j \in waits : stack[i].q = stack[j].q => i = j
==============================================================================
