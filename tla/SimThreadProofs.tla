--------------------------- MODULE SimThreadProofs ---------------------------
(***************************************************************************)
(* Theorems about SimThread for any queues, threads, programs and bounds:  *)
(* the next run time of a thread, who is in yielded_ when, and that        *)
(* SendTask returns.                                                       *)
(***************************************************************************)
EXTENDS SimThread, SimControllerProofs

(* The call stack, with the frame of Send *)

ThreadFrame ==
  [fn : {"OnTaskTimer", "RunReadyRunners", "MoveDue", "RunTasks",
         "Task", "Event", "Wait", "Send"},
   q : Current, t : 0..NumTasks]

ThreadFits(caller, f) ==
  \/ Fits(caller, f)
  \/ f.fn = "Send" /\ caller.fn \in {"Task", "Event"} /\ caller.q = f.q
  \/ /\ f.fn = "Task" /\ f.q \in Queues
     /\ caller.fn = "Send" /\ <<caller.q, f.q>> \in ThreadSends

ThreadStack(s) ==
  /\ s \in Seq(ThreadFrame)
  /\ s # <<>> => s[1].fn \in {"OnTaskTimer", "Event"} /\ s[1].q = Main
  /\ \A i \in 2..Len(s) : ThreadFits(s[i - 1], s[i])

LEMMA PopThread ==
  ASSUME NEW s, ThreadStack(s), s # <<>>
  PROVE  /\ ThreadStack(Front(s)) /\ Len(Front(s)) = Len(s) - 1
         /\ DOMAIN Front(s) = 1..(Len(s) - 1) /\ DOMAIN s = 1..Len(s)
         /\ \A i \in 1..(Len(s) - 1) : Front(s)[i] = s[i]
         /\ Last(s) \in ThreadFrame /\ Last(s) = s[Len(s)] /\ Len(s) \in Nat \ {0}
<1>1. s \in Seq(ThreadFrame)
  BY DEF ThreadStack
<1>2. /\ Front(s) \in Seq(ThreadFrame) /\ Len(Front(s)) = Len(s) - 1
      /\ DOMAIN Front(s) = 1..(Len(s) - 1)
      /\ \A i \in 1..(Len(s) - 1) : Front(s)[i] = s[i]
      /\ Last(s) \in ThreadFrame /\ Last(s) = s[Len(s)] /\ Len(s) \in Nat \ {0}
  BY <1>1, FrontFacts
<1>3. Front(s) # <<>> => Front(s)[1] = s[1]
  BY <1>2
<1>4. ASSUME NEW i \in 2..Len(Front(s)) PROVE ThreadFits(Front(s)[i - 1], Front(s)[i])
  <2>1. i \in 2..Len(s) /\ i \in 1..(Len(s) - 1) /\ i - 1 \in 1..(Len(s) - 1)
    BY <1>2
  <2> QED
    BY <1>2, <2>1 DEF ThreadStack
<1>5. ThreadStack(Front(s))
  BY <1>2, <1>3, <1>4 DEF ThreadStack
<1> QED
  BY <1>1, <1>2, <1>5

LEMMA PushThread ==
  ASSUME NEW s, ThreadStack(s), s # <<>>, NEW f \in ThreadFrame, ThreadFits(Last(s), f)
  PROVE  /\ ThreadStack(Append(s, f)) /\ Len(s) \in Nat \ {0}
         /\ DOMAIN Append(s, f) = 1..(Len(s) + 1) /\ DOMAIN s = 1..Len(s)
         /\ Append(s, f)[Len(s) + 1] = f
         /\ \A i \in 1..Len(s) : Append(s, f)[i] = s[i]
         /\ Append(s, f) # <<>> /\ Last(Append(s, f)) = f
<1> DEFINE n == Len(s)
<1>1. s \in Seq(ThreadFrame)
  BY DEF ThreadStack
<1>2. /\ Append(s, f) \in Seq(ThreadFrame) /\ Len(Append(s, f)) = n + 1 /\ n \in Nat \ {0}
      /\ Append(s, f)[n + 1] = f /\ \A i \in 1..n : Append(s, f)[i] = s[i]
      /\ DOMAIN Append(s, f) = 1..(n + 1) /\ DOMAIN s = 1..n
  BY <1>1
<1>3. ASSUME NEW i \in 2..(n + 1) PROVE ThreadFits(Append(s, f)[i - 1], Append(s, f)[i])
  <2>1. CASE i = n + 1
    <3>1. i - 1 = n /\ n \in 1..n
      BY <1>2, <2>1
    <3>2. Append(s, f)[i - 1] = s[n] /\ Append(s, f)[i] = f
      BY <1>2, <2>1, <3>1
    <3>3. Last(s) = s[n]
      BY DEF Last
    <3> HIDE DEF n
    <3> QED
      BY <3>2, <3>3
  <2>2. CASE i \in 2..n
    <3>1. i - 1 \in 1..n /\ i \in 1..n
      BY <1>2, <2>2
    <3> QED
      BY <1>2, <2>2, <3>1 DEF ThreadStack
  <2> QED
    BY <1>2, <2>1, <2>2
<1>4. ThreadStack(Append(s, f))
  BY <1>2, <1>3 DEF ThreadStack
<1>5. Append(s, f) # <<>> /\ Last(Append(s, f)) = f
  BY <1>2 DEF Last
<1> QED
  BY <1>2, <1>4, <1>5

\* What the top frame says of the one below it.
LEMMA TopOfThread ==
  ASSUME NEW s, ThreadStack(s), s # <<>>
  PROVE  \/ Len(s) = 1 /\ Last(s).fn \in {"OnTaskTimer", "Event"} /\ Last(s).q = Main
         \/ /\ Len(s) > 1 /\ Front(s) # <<>> /\ Last(Front(s)) = s[Len(s) - 1]
            /\ ThreadFits(s[Len(s) - 1], Last(s))
<1>1. /\ Front(s) \in Seq(ThreadFrame) /\ Len(Front(s)) = Len(s) - 1
      /\ \A i \in 1..(Len(s) - 1) : Front(s)[i] = s[i]
      /\ Len(s) \in Nat \ {0} /\ Last(s) = s[Len(s)]
  BY PopThread DEF ThreadStack
<1>2. CASE Len(s) = 1
  BY <1>1, <1>2 DEF ThreadStack
<1>3. CASE Len(s) > 1
  <2>1. Front(s) # <<>> /\ Last(Front(s)) = s[Len(s) - 1] /\ Len(s) \in 2..Len(s)
    BY <1>1, <1>3 DEF Last
  <2> QED
    BY <1>1, <1>3, <2>1 DEF ThreadStack
<1> QED
  BY <1>1, <1>2, <1>3

LEMMA FrameTyped ==
  /\ \A fn \in {"OnTaskTimer", "RunReadyRunners", "MoveDue", "RunTasks",
                "Task", "Event", "Wait", "Send"}, q \in Current, t \in 0..NumTasks :
       /\ F(fn, q, t) \in ThreadFrame
       /\ F(fn, q, t).fn = fn /\ F(fn, q, t).q = q /\ F(fn, q, t).t = t
  /\ 0 \in 0..NumTasks /\ Main \in Current /\ Queues \subseteq Current /\ Main \notin Queues
  /\ Task \subseteq 0..NumTasks
BY SimConstants DEF F, ThreadFrame, Current, Task
------------------------------------------------------------------------------
(* The steps, by what they do to the stack, yielded_ and ready_runners_ *)

IsWaiting(f) == f.fn \in {"Wait", "Send"}

\* A function returns.
Pops ==
  /\ stack # <<>> /\ stack' = Front(stack)
  /\ yielded' = IF IsWaiting(Last(stack)) THEN yielded \ {Last(stack).q} ELSE yielded
  /\ ready_runners' = ready_runners
  /\ Last(stack).fn = "RunReadyRunners" => CollectReady /\ ready_runners = {}
  /\ Last(stack).fn # "MoveDue"
  /\ Last(stack).fn = "RunTasks" => MessagesProcessed \/ QueueReturns

\* The stack stays; a queue may be deleted, or a new round collected.
Stays ==
  /\ stack' = stack /\ yielded' = yielded
  /\ Top("Wait") => UNCHANGED vars
  /\ \/ ready_runners' \subseteq ready_runners
     \/ /\ Top("RunReadyRunners") /\ UNCHANGED <<now, queueVars>>
        /\ ready_runners' = {q \in Registered \ yielded : next_run_time[q] <= now}

TakesTurn(q) ==
  /\ Top("RunReadyRunners") /\ q \in ready_runners
  /\ stack' = Append(stack, F("MoveDue", q, 0))
  /\ ready_runners' = ready_runners \ {q} /\ yielded' = yielded
  /\ UNCHANGED <<now, queueVars>>

LoopsOn ==
  /\ Top("MoveDue")
  /\ stack' = Append(Front(stack), F("RunTasks", Last(stack).q, 0))
  /\ UNCHANGED <<ready_runners, yielded>>

StartsTask ==
  /\ Top("RunTasks")
  /\ \E t \in Task : /\ t \in ToSet(ready_tasks[Last(stack).q])
                    /\ stack' = Append(stack, F("Task", Last(stack).q, t))
  /\ UNCHANGED <<ready_runners, yielded>>

RunsAll ==
  /\ Top("OnTaskTimer")
  /\ stack' = Append(stack, F("RunReadyRunners", Main, 0))
  /\ ready_runners' = {} /\ yielded' = yielded

\* What is posted to q is thrown away.
ThrowsAway(q) ==
  /\ posted < NumTasks /\ q \in Registered
  /\ posted' = posted + 1
  /\ post' = [post EXCEPT ![posted + 1] = [q |-> q, due |-> now, delayed |-> FALSE]]
  /\ UNCHANGED <<ready_tasks, delayed_tasks>>

StartsWait ==
  /\ CodeRuns
  /\ posted + 1 \in Task
  /\ \E q \in Queues : /\ <<Last(stack).q, q>> \in SendPairs
                       /\ Enqueue(q) \/ ThrowsAway(q)
  /\ stack' = Append(Append(stack, F("Wait", Last(stack).q, posted + 1)),
                     F("RunReadyRunners", Main, 0))
  /\ ready_runners' = {} /\ yielded' = yielded \cup {Last(stack).q}

StartsSend ==
  /\ CodeRuns
  /\ \E th \in Threads :
       /\ <<Last(stack).q, th>> \in ThreadSends /\ Last(stack).q # th
       /\ stack' = Append(Append(stack, F("Send", Last(stack).q, 0)), F("Task", th, 0))
  /\ ready_runners' = ready_runners /\ yielded' = yielded \cup {Last(stack).q}

FromLoop ==
  /\ stack = <<>> /\ yielded' = yielded
  /\ \/ /\ stack' = <<F("OnTaskTimer", Main, 0), F("RunReadyRunners", Main, 0)>>
        /\ ready_runners' = {}
     \/ stack' = <<F("Event", Main, 0)>> /\ ready_runners' = ready_runners

StackEffect ==
  \/ Pops \/ Stays \/ LoopsOn \/ StartsTask \/ RunsAll \/ StartsWait \/ StartsSend
  \/ FromLoop \/ \E q \in Queues : TakesTurn(q)

LEMMA StackEffects ==
  ASSUME stack \in Seq(ThreadFrame), ready_tasks \in [Queues -> Seq(Task)],
         posted \in 0..NumTasks, [ThreadNext]_threadVars,
         Top("RunTasks") => Last(stack).q \in Queues
  PROVE  StackEffect
<1> USE DEF StackEffect
<1>1. CASE FireTimer \/ FireEvent
  BY <1>1 DEF FireTimer, FireEvent, FromLoop
<1>2. CASE TaskReturns \/ EventReturns \/ TimerReturns
  BY <1>2 DEF TaskReturns, EventReturns, TimerReturns, Pops, Top, Return, IsWaiting
<1>3. CASE MessagesProcessed \/ QueueReturns
  BY <1>3 DEF MessagesProcessed, QueueReturns, RunReadyReturns, Pops, Top, Return, IsWaiting
<1>4. CASE SendReturns \/ WaitReturns
  BY <1>4 DEF SendReturns, StopYield, WaitReturns, Pops, Top, Return, IsWaiting
<1>5. CASE CollectReady
  <2> DEFINE due == {q \in Registered \ yielded : next_run_time[q] <= now}
  <2>1. /\ Top("RunReadyRunners") /\ ready_runners = {} /\ ready_runners' = due
        /\ stack' = IF due = {} THEN Return ELSE stack
        /\ yielded' = yielded /\ UNCHANGED <<now, queueVars>>
    BY <1>5 DEF CollectReady
  <2>2. CASE due = {}
    BY <1>5, <2>1, <2>2 DEF Pops, Top, Return, IsWaiting
  <2>3. CASE due # {}
    BY <2>1, <2>3 DEF Stays, Top
  <2> QED
    BY <2>2, <2>3
<1>6. CASE TimerAgain
  BY <1>6 DEF TimerAgain, RunsAll
<1>7. CASE AllMoved
  BY <1>7 DEF AllMoved, LoopsOn, Return
<1>8. CASE GetMessage
  <2>1. /\ Top("RunTasks") /\ ready_tasks[Last(stack).q] # <<>>
        /\ stack' = Append(stack, F("Task", Last(stack).q, Head(ready_tasks[Last(stack).q])))
        /\ UNCHANGED <<ready_runners, yielded>>
    BY <1>8 DEF GetMessage, RunTask
  <2>2. /\ Head(ready_tasks[Last(stack).q]) \in Task
        /\ Head(ready_tasks[Last(stack).q]) \in ToSet(ready_tasks[Last(stack).q])
    <3>1. ASSUME NEW r \in Seq(Task), r # <<>> PROVE Head(r) \in Task /\ Head(r) \in ToSet(r)
      <4>1. 1 \in DOMAIN r /\ Head(r) = r[1] /\ r[1] \in Task
        BY <3>1
      <4> QED
        BY <4>1 DEF ToSet
    <3> QED
      BY <2>1, <3>1
  <2> QED
    BY <2>1, <2>2 DEF StartsTask
<1>9. ASSUME NEW q \in Queues, RunReady(q) PROVE StackEffect
  BY <1>9 DEF RunReady, TakesTurn
<1>10. ASSUME NEW q \in Queues, SendTask(q) PROVE StackEffect
  <2> DEFINE from == Last(stack).q
             w == F("Wait", from, posted + 1)
             r == F("RunReadyRunners", Main, 0)
  <2>1. /\ CodeRuns /\ <<from, q>> \in SendPairs /\ from # q
        /\ stack' = stack \o <<w, r>> /\ ready_runners' = {}
        /\ yielded' = yielded \cup {from} /\ posted < NumTasks /\ Enqueue(q)
    BY <1>10 DEF SendTask, Enqueue
  <2>2. posted + 1 \in Task
    BY <2>1, SimConstants DEF Task
  <2>3. stack \o <<w, r>> = Append(Append(stack, w), r)
    <3> HIDE DEF w, r
    <3> QED
      OBVIOUS
  <2> QED
    BY <2>1, <2>2, <2>3 DEF StartsWait
<1>17. ASSUME NEW th \in Threads, SendWhileQuitting(th) PROVE StackEffect
  <2> DEFINE from == Last(stack).q
             w == F("Wait", from, posted + 1)
             r == F("RunReadyRunners", Main, 0)
  <2>1. /\ CodeRuns /\ <<from, th>> \in SendPairs
        /\ stack' = stack \o <<w, r>> /\ ready_runners' = {}
        /\ yielded' = yielded \cup {from} /\ posted < NumTasks /\ ThrowsAway(th)
    BY <1>17 DEF SendWhileQuitting, StartYield, ThrowsAway
  <2>2. posted + 1 \in Task /\ th \in Queues
    BY <2>1, SimConstants, ThreadConstants DEF Task
  <2>3. stack \o <<w, r>> = Append(Append(stack, w), r)
    <3> HIDE DEF w, r
    <3> QED
      OBVIOUS
  <2> QED
    BY <2>1, <2>2, <2>3 DEF StartsWait
<1>11. ASSUME NEW th \in Threads, Send(th) PROVE StackEffect
  <2> DEFINE from == Last(stack).q
             w == F("Send", from, 0)
             r == F("Task", th, 0)
  <2>1. /\ CodeRuns /\ <<from, th>> \in ThreadSends /\ from # th
        /\ stack' = stack \o <<w, r>> /\ ready_runners' = ready_runners
        /\ yielded' = yielded \cup {from}
    BY <1>11 DEF Send, StartYield
  <2>2. stack \o <<w, r>> = Append(Append(stack, w), r)
    <3> HIDE DEF w, r
    <3> QED
      OBVIOUS
  <2> QED
    BY <2>1, <2>2 DEF StartsSend
<1>12. ASSUME UNCHANGED <<stack, yielded, ready_runners>>, Top("Wait") => UNCHANGED vars
       PROVE  StackEffect
  BY <1>12 DEF Stays
<1>13. CASE MoveDue \/ GetDue \/ SimulationOver
  BY <1>12, <1>13 DEF MoveDue, GetDue, SimulationOver, Top, vars
<1>14. ASSUME NEW q \in Queues,
              \/ PostTask(q) \/ CreateTaskQueue(q) \/ PostWhileQuitting(q)
              \/ (\E d \in Delays : PostDelayedTask(q, d))
              \/ (\E ms \in ThreadDelays : PostDelayed(q, ms))
       PROVE  StackEffect
  BY <1>12, <1>14
  DEF PostTask, CreateTaskQueue, PostDelayedTask, PostDelayed, PostWhileQuitting, CodeRuns, Top
<1>15. ASSUME NEW th \in Threads, DeleteThread(th) \/ Stop(th) PROVE StackEffect
  BY <1>12, <1>15 DEF DeleteThread, DeleteTaskQueue, Stop, vars, Stays, CodeRuns, Top
<1>16. CASE UNCHANGED threadVars
  BY <1>12, <1>16 DEF threadVars, vars
<1> QED
  BY <1>1, <1>2, <1>3, <1>4, <1>5, <1>6, <1>7, <1>8, <1>9, <1>10, <1>11, <1>13, <1>14,
     <1>15, <1>16, <1>17, ThreadConstants
  DEF ThreadNext, Keep, OnTaskTimer, CreateThread, ThreadConstants
------------------------------------------------------------------------------
(* The types, and the steps by what they do to the messages of the queues *)

ThreadTypes ==
  /\ now \in Time /\ timer \in 0..PlusInfinity /\ now <= timer
  /\ runners \in Seq(Queues)
  /\ ready_runners \subseteq Queues
  /\ ready_tasks \in [Queues -> Seq(Task)]
  /\ delayed_tasks \in [Queues -> SUBSET Task]
  /\ next_run_time \in [Queues -> Int]
  /\ posted \in 0..NumTasks
  /\ post \in [Task -> [q : Current, due : Time, delayed : BOOLEAN]]
  /\ \A q \in Queues : delayed_tasks[q] \subseteq 1..posted
  /\ quitting \subseteq Threads

ThreadInv == ThreadTypes /\ ThreadStack(stack)

Idles ==
  /\ UNCHANGED queueVars
  /\ now' = now \/ (stack = <<>> /\ now <= now')

MovesFirst(q) ==
  /\ stack # <<>> /\ IsRunReady(Last(stack)) /\ Last(stack).q = q /\ stack' = stack
  /\ HasDue(q)
  /\ ready_tasks' = [ready_tasks EXCEPT ![q] = Append(@, FirstDelayed(q))]
  /\ delayed_tasks' = [delayed_tasks EXCEPT ![q] = @ \ {FirstDelayed(q)}]
  /\ UNCHANGED <<now, next_run_time, posted, post>>

TakesTask(q) ==
  /\ Top("RunTasks") /\ Last(stack).q = q /\ ready_tasks[q] # <<>>
  /\ ready_tasks' = [ready_tasks EXCEPT ![q] = Tail(@)]
  /\ UNCHANGED <<now, delayed_tasks, next_run_time, posted, post>>

EndsRun(q) ==
  /\ Top("RunTasks") /\ Last(stack).q = q /\ ready_tasks[q] = <<>>
  /\ q \in Threads => ~HasDue(q)
  /\ next_run_time' = [next_run_time EXCEPT ![q] =
       IF delayed_tasks[q] = {} THEN PlusInfinity
       ELSE IF q \in Threads THEN now + (post[FirstDelayed(q)].due - FloorMillis(now))
       ELSE post[FirstDelayed(q)].due]
  /\ UNCHANGED <<now, ready_tasks, delayed_tasks, posted, post>>

PostsTask(q) == Enqueue(q) /\ UNCHANGED now

PostsDelayed(q, due) ==
  /\ posted < NumTasks /\ q \in Registered
  /\ posted' = posted + 1
  /\ post' = [post EXCEPT ![posted + 1] = [q |-> q, due |-> due, delayed |-> TRUE]]
  /\ delayed_tasks' = [delayed_tasks EXCEPT ![q] = @ \cup {posted + 1}]
  /\ next_run_time' = [next_run_time EXCEPT ![q] = IF @ <= due THEN @ ELSE due]
  /\ UNCHANGED <<now, ready_tasks>>

PostsInVain(q) ==
  /\ q \in quitting
  /\ next_run_time' = [next_run_time EXCEPT ![q] = MinusInfinity]
  /\ UNCHANGED <<now, ready_tasks, delayed_tasks>>
  /\ UNCHANGED <<posted, post>> \/ ThrowsAway(q)

Deletes(q) ==
  /\ q \notin ready_runners'
  /\ ready_tasks' = [ready_tasks EXCEPT ![q] = <<>>]
  /\ delayed_tasks' = [delayed_tasks EXCEPT ![q] = {}]
  /\ next_run_time' = [next_run_time EXCEPT ![q] = PlusInfinity]
  /\ UNCHANGED <<now, posted, post>>

Concerns(q) ==
  \/ MovesFirst(q) \/ TakesTask(q) \/ EndsRun(q)
  \/ PostsTask(q) \/ PostsInVain(q) \/ Deletes(q)
  \/ \E due \in Time : PostsDelayed(q, due)

\* At most one queue changes, and the others do not.
DataEffect ==
  \/ Idles /\ quitting \subseteq quitting'
  \/ \E q \in Queues :
       /\ Concerns(q)
       /\ \/ quitting' = quitting
          \/ Deletes(q) /\ quitting' = quitting \ {q}

\* The whole millisecond that has begun.
LEMMA FloorOfNow ==
  ASSUME NEW t \in Nat
  PROVE  FloorMillis(t) \in Nat /\ FloorMillis(t) <= t /\ t < FloorMillis(t) + Millis
<1>1. Millis \in Nat /\ Millis > 0
  BY ThreadConstants
<1>2. (t \div Millis) \in Nat
  BY <1>1
<1>3. t = (t \div Millis) * Millis + (t % Millis) /\ (t % Millis) \in 0..(Millis - 1)
  BY <1>1
<1>4. (t \div Millis) * Millis \in Nat
  BY <1>1, <1>2
<1> QED
  BY <1>1, <1>3, <1>4 DEF FloorMillis

LEMMA TopThread ==
  ASSUME ThreadStack(stack), stack # <<>>
  PROVE  /\ Last(stack) \in ThreadFrame
         /\ IsRunReady(Last(stack)) \/ Last(stack).fn = "Task" => Last(stack).q \in Queues
<1>1. Last(stack) \in ThreadFrame
  BY PopThread
<1> QED
  BY <1>1, TopOfThread DEF ThreadFits, Fits, IsRunReady

LEMMA DataEffects ==
  ASSUME ThreadInv, [ThreadNext]_threadVars PROVE DataEffect
<1> USE DEF DataEffect, Concerns
<1>1. ASSUME UNCHANGED queueVars, now' = now, quitting \subseteq quitting' PROVE DataEffect
  BY <1>1 DEF Idles
<1>2. CASE Keep(FireTimer) \/ Keep(FireEvent)
  <2>1. stack = <<>> /\ UNCHANGED queueVars /\ quitting' = quitting
    BY <1>2 DEF Keep, FireTimer, FireEvent
  <2>2. now <= now'
    BY <1>2, SimConstants DEF Keep, FireTimer, FireEvent, ThreadInv, ThreadTypes, Time
  <2> QED
    BY <2>1, <2>2 DEF Idles
<1>3. CASE \/ Keep(SimulationOver) \/ Keep(TaskReturns) \/ Keep(EventReturns)
           \/ Keep(WaitReturns) \/ Keep(CollectReady)
  BY <1>1, <1>3
  DEF Keep, SimulationOver, TaskReturns, EventReturns, WaitReturns, CollectReady,
      vars, queueVars
<1>4. CASE \/ Keep(OnTaskTimer) \/ Keep(AllMoved) \/ Keep(SendReturns)
           \/ UNCHANGED threadVars
  BY <1>1, <1>4
  DEF Keep, OnTaskTimer, TimerAgain, TimerReturns, AllMoved, SendReturns, threadVars, vars,
      queueVars
<1>5. CASE Keep(MoveDue)
  <2> DEFINE q == Last(stack).q
  <2>1. q \in Queues
    BY <1>5, TopThread DEF Keep, MoveDue, Top, IsRunReady, ThreadInv
  <2>2. MovesFirst(q) /\ quitting' = quitting
    BY <1>5 DEF Keep, MoveDue, MovesFirst, HasDue, Top, IsRunReady
  <2> HIDE DEF q
  <2> QED
    BY <2>1, <2>2
<1>6. CASE Keep(GetDue)
  <2> DEFINE q == Last(stack).q
  <2>1. q \in Queues
    BY <1>6, TopThread DEF Keep, GetDue, Top, IsRunReady, ThreadInv
  <2>2. MovesFirst(q) /\ quitting' = quitting
    BY <1>6 DEF Keep, GetDue, MovesFirst, Top, IsRunReady
  <2> HIDE DEF q
  <2> QED
    BY <2>1, <2>2
<1>7. CASE Keep(GetMessage)
  <2> DEFINE q == Last(stack).q
  <2>1. q \in Queues
    BY <1>7, TopThread DEF Keep, GetMessage, Top, IsRunReady, ThreadInv, RunTask
  <2>2. TakesTask(q) /\ quitting' = quitting
    BY <1>7 DEF Keep, GetMessage, RunTask, TakesTask
  <2> HIDE DEF q
  <2> QED
    BY <2>1, <2>2
<1>8. CASE Keep(MessagesProcessed) \/ Keep(QueueReturns)
  <2> DEFINE q == Last(stack).q
  <2>1. q \in Queues
    BY <1>8, TopThread
    DEF Keep, MessagesProcessed, QueueReturns, RunReadyReturns, Top, IsRunReady, ThreadInv
  <2>2. EndsRun(q)
    <3>1. CASE MessagesProcessed
      BY <3>1 DEF MessagesProcessed, EndsRun
    <3>2. CASE QueueReturns
      BY <3>2 DEF QueueReturns, RunReadyReturns, EndsRun
    <3> QED
      BY <1>8, <3>1, <3>2 DEF Keep
  <2>3. quitting' = quitting
    BY <1>8 DEF Keep
  <2> HIDE DEF q
  <2> QED
    BY <2>1, <2>2, <2>3
<1>9. ASSUME NEW q \in Queues, Keep(RunReady(q)) PROVE DataEffect
  BY <1>1, <1>9 DEF Keep, RunReady
<1>10. ASSUME NEW q \in Queues, Keep(SendTask(q)) \/ Keep(PostTask(q)) PROVE DataEffect
  <2>1. PostsTask(q) /\ quitting' = quitting
    BY <1>10 DEF Keep, SendTask, PostTask, PostsTask
  <2> QED
    BY <2>1
<1>11. ASSUME NEW q \in Queues, NEW d \in Delays, Keep(PostDelayedTask(q, d))
       PROVE  DataEffect
  <2>1. now + d \in Time
    <3>1. now \in Nat /\ d \in Nat /\ now + d < PlusInfinity /\ PlusInfinity \in Nat
      BY <1>11, SimConstants DEF Keep, PostDelayedTask, ThreadInv, ThreadTypes, Time
    <3> QED
      BY <3>1 DEF Time
  <2>2. PostsDelayed(q, now + d) /\ quitting' = quitting
    BY <1>11 DEF Keep, PostDelayedTask, PostsDelayed
  <2> QED
    BY <2>1, <2>2
<1>12. ASSUME NEW th \in Threads, NEW ms \in ThreadDelays, Keep(PostDelayed(th, ms))
       PROVE  DataEffect
  <2> DEFINE due == FloorMillis(now) + ms * Millis
  <2>1. due \in Time /\ th \in Queues
    <3>1. now \in Nat /\ ms \in Nat /\ Millis \in Nat /\ PlusInfinity \in Nat
      BY SimConstants, ThreadConstants DEF ThreadInv, ThreadTypes, Time
    <3>2. ms * Millis \in Nat /\ FloorMillis(now) \in Nat
      BY <3>1, FloorOfNow
    <3>3. due < PlusInfinity
      BY <1>12 DEF Keep, PostDelayed
    <3>4. due \in Nat
      BY <3>2
    <3> HIDE DEF due
    <3> QED
      BY <3>1, <3>3, <3>4, ThreadConstants DEF Time
  <2>2. PostsDelayed(th, due) /\ quitting' = quitting
    BY <1>12 DEF Keep, PostDelayed, PostsDelayed
  <2> HIDE DEF due
  <2> QED
    BY <2>1, <2>2
<1>13. ASSUME NEW th \in Threads, Keep(PostWhileQuitting(th)) \/ Keep(SendWhileQuitting(th))
       PROVE  DataEffect
  <2>1. PostsInVain(th) /\ quitting' = quitting /\ th \in Queues
    BY <1>13, ThreadConstants
    DEF Keep, PostWhileQuitting, SendWhileQuitting, PostsInVain, ThrowsAway
  <2> QED
    BY <2>1
<1>14. ASSUME NEW th \in Threads, DeleteThread(th) PROVE DataEffect
  <2>1. Deletes(th) /\ quitting' = quitting \ {th} /\ th \in Queues
    BY <1>14, ThreadConstants DEF DeleteThread, DeleteTaskQueue, Deletes
  <2> QED
    BY <2>1
<1>15. ASSUME NEW th \in Threads, Stop(th) \/ CreateThread(th) \/ Keep(Send(th))
       PROVE  DataEffect
  BY <1>1, <1>15 DEF Stop, CreateThread, CreateTaskQueue, Send, Keep, vars, queueVars
<1> QED
  BY <1>2, <1>3, <1>4, <1>5, <1>6, <1>7, <1>8, <1>9, <1>10, <1>11, <1>12, <1>13, <1>14,
     <1>15
  DEF ThreadNext

LEMMA EffectOnStack == ASSUME ThreadInv, [ThreadNext]_threadVars PROVE StackEffect
<1>1. Top("RunTasks") => Last(stack).q \in Queues
  BY TopThread DEF Top, IsRunReady, ThreadInv
<1> QED
  BY <1>1, StackEffects DEF ThreadInv, ThreadTypes, ThreadStack

LEMMA ThreadStackStep ==
  ASSUME ThreadStack(stack), StackEffect PROVE ThreadStack(stack')
<1>0. Last(stack).q \in Current \/ stack = <<>>
  BY PopThread DEF ThreadFrame
<1>1. CASE Pops
  BY <1>1, PopThread DEF Pops
<1>2. CASE Stays
  BY <1>2 DEF Stays
<1>3. CASE LoopsOn
  <2> DEFINE f == F("RunTasks", Last(stack).q, 0)
  <2>1. stack # <<>> /\ Last(stack).fn = "MoveDue" /\ stack' = Append(Front(stack), f)
    BY <1>3 DEF LoopsOn, Top
  <2>2. Last(stack).q \in Queues
    BY <2>1, TopThread DEF IsRunReady
  <2>3. f \in ThreadFrame /\ f.fn = "RunTasks" /\ f.q = Last(stack).q
    BY <1>0, <2>1, FrameTyped
  <2> HIDE DEF f
  <2>4. Front(stack) # <<>> /\ ThreadFits(Last(Front(stack)), Last(stack))
    BY <2>1, TopOfThread
  <2>5. ThreadFits(Last(Front(stack)), f)
    BY <2>1, <2>2, <2>3, <2>4 DEF ThreadFits, Fits
  <2> QED
    BY <2>1, <2>3, <2>4, <2>5, PopThread, PushThread
<1>4. CASE StartsTask
  <2>1. stack # <<>> /\ Last(stack).fn = "RunTasks" /\ Last(stack).q \in Queues
    BY <1>4, TopThread DEF StartsTask, Top, IsRunReady
  <2>2. PICK t \in Task : stack' = Append(stack, F("Task", Last(stack).q, t))
    BY <1>4 DEF StartsTask
  <2> DEFINE f == F("Task", Last(stack).q, t)
  <2>3. f \in ThreadFrame /\ f.fn = "Task" /\ f.q = Last(stack).q
    BY <1>0, <2>1, FrameTyped
  <2> HIDE DEF f
  <2>4. ThreadFits(Last(stack), f)
    BY <2>1, <2>3 DEF ThreadFits, Fits
  <2> QED
    BY <2>1, <2>2, <2>3, <2>4, PushThread DEF f
<1>5. CASE RunsAll \/ (\E q \in Queues : TakesTurn(q))
  <2>1. PICK f \in ThreadFrame : /\ stack # <<>> /\ stack' = Append(stack, f)
                                /\ ThreadFits(Last(stack), f)
    <3>1. CASE RunsAll
      <4> DEFINE f == F("RunReadyRunners", Main, 0)
      <4>1. f \in ThreadFrame /\ f.fn = "RunReadyRunners" /\ f.q = Main
        BY FrameTyped
      <4> HIDE DEF f
      <4>2. stack # <<>> /\ ThreadFits(Last(stack), f)
        BY <3>1, <4>1 DEF RunsAll, Top, ThreadFits, Fits
      <4> QED
        BY <3>1, <4>1, <4>2 DEF RunsAll, f
    <3>2. ASSUME NEW q \in Queues, TakesTurn(q)
          PROVE  \E f \in ThreadFrame : /\ stack # <<>> /\ stack' = Append(stack, f)
                                        /\ ThreadFits(Last(stack), f)
      <4> DEFINE f == F("MoveDue", q, 0)
      <4>1. f \in ThreadFrame /\ f.fn = "MoveDue" /\ f.q = q
        BY FrameTyped
      <4> HIDE DEF f
      <4>2. stack # <<>> /\ ThreadFits(Last(stack), f)
        BY <3>2, <4>1 DEF TakesTurn, Top, ThreadFits, Fits
      <4> QED
        BY <3>2, <4>1, <4>2 DEF TakesTurn, f
    <3> QED
      BY <1>5, <3>1, <3>2
  <2> QED
    BY <2>1, PushThread
<1>6. ASSUME NEW w \in ThreadFrame, NEW f \in ThreadFrame, stack # <<>>,
             stack' = Append(Append(stack, w), f),
             ThreadFits(Last(stack), w), ThreadFits(w, f)
      PROVE  ThreadStack(stack')
  <2>1. ThreadStack(Append(stack, w)) /\ Append(stack, w) # <<>> /\ Last(Append(stack, w)) = w
    BY <1>6, PushThread
  <2> DEFINE r == Append(stack, w)
  <2> HIDE DEF r
  <2>2. ThreadStack(r) /\ r # <<>> /\ ThreadFits(Last(r), f) /\ stack' = Append(r, f)
    BY <1>6, <2>1 DEF r
  <2> QED
    BY <2>2, PushThread
<1>7. CASE StartsWait
  <2>1. PICK t \in Task :
          /\ t = posted + 1
          /\ stack' = Append(Append(stack, F("Wait", Last(stack).q, t)),
                             F("RunReadyRunners", Main, 0))
    BY <1>7 DEF StartsWait
  <2>2. stack # <<>> /\ Last(stack).fn \in {"Task", "Event"}
    BY <1>7 DEF StartsWait, CodeRuns, Top
  <2> DEFINE w == F("Wait", Last(stack).q, t)
             f == F("RunReadyRunners", Main, 0)
  <2>3. /\ w \in ThreadFrame /\ w.fn = "Wait" /\ w.q = Last(stack).q
        /\ f \in ThreadFrame /\ f.fn = "RunReadyRunners" /\ f.q = Main
    BY <1>0, <2>2, FrameTyped
  <2> HIDE DEF w, f
  <2>4. ThreadFits(Last(stack), w) /\ ThreadFits(w, f)
    BY <2>2, <2>3 DEF ThreadFits, Fits
  <2> QED
    BY <1>6, <2>1, <2>2, <2>3, <2>4 DEF w, f
<1>8. CASE StartsSend
  <2>1. PICK th \in Threads :
          /\ <<Last(stack).q, th>> \in ThreadSends
          /\ stack' = Append(Append(stack, F("Send", Last(stack).q, 0)), F("Task", th, 0))
    BY <1>8 DEF StartsSend
  <2>2. stack # <<>> /\ Last(stack).fn \in {"Task", "Event"} /\ th \in Queues
    BY <1>8, ThreadConstants DEF StartsSend, CodeRuns, Top
  <2> DEFINE w == F("Send", Last(stack).q, 0)
             f == F("Task", th, 0)
  <2>3. /\ w \in ThreadFrame /\ w.fn = "Send" /\ w.q = Last(stack).q
        /\ f \in ThreadFrame /\ f.fn = "Task" /\ f.q = th
    BY <1>0, <2>2, FrameTyped
  <2> HIDE DEF w, f
  <2>4. ThreadFits(Last(stack), w) /\ ThreadFits(w, f)
    BY <2>1, <2>2, <2>3 DEF ThreadFits
  <2> QED
    BY <1>6, <2>1, <2>2, <2>3, <2>4 DEF w, f
<1>9. CASE FromLoop
  <2> DEFINE w == F("OnTaskTimer", Main, 0)
             f == F("RunReadyRunners", Main, 0)
             e == F("Event", Main, 0)
  <2>1. /\ w \in ThreadFrame /\ w.fn = "OnTaskTimer" /\ w.q = Main
        /\ f \in ThreadFrame /\ f.fn = "RunReadyRunners" /\ f.q = Main
        /\ e \in ThreadFrame /\ e.fn = "Event" /\ e.q = Main
    BY FrameTyped
  <2>2. stack' = <<w, f>> \/ stack' = <<e>>
    BY <1>9 DEF FromLoop
  <2> HIDE DEF w, f, e
  <2>3. CASE stack' = <<w, f>>
    <3>1. ThreadFits(w, f)
      BY <2>1 DEF ThreadFits, Fits
    <3> QED
      BY <2>1, <2>3, <3>1 DEF ThreadStack
  <2>4. CASE stack' = <<e>>
    BY <2>1, <2>4 DEF ThreadStack
  <2> QED
    BY <2>2, <2>3, <2>4
<1> QED
  BY <1>1, <1>2, <1>3, <1>4, <1>5, <1>7, <1>8, <1>9 DEF StackEffect

LEMMA ThreadNextRunTimeTyped ==
  ASSUME ThreadTypes PROVE NextRunTime \in Nat /\ NextRunTime <= PlusInfinity
<1> DEFINE times == {next_run_time[q] : q \in Registered}
           all == times \cup {PlusInfinity}
<1>1. /\ now \in Nat /\ now < PlusInfinity /\ PlusInfinity \in Nat
      /\ times \subseteq Int
  BY SimConstants DEF ThreadTypes, Time, Registered, ToSet
<1>2. CASE \E x \in times : x <= now
  BY <1>1, <1>2 DEF NextRunTime
<1>3. CASE ~\E x \in times : x <= now
  <2>1. NextRunTime = Min(all)
    BY <1>3 DEF NextRunTime
  <2>2. all \in SUBSET Nat /\ PlusInfinity \in all
    BY <1>1, <1>3
  <2> HIDE DEF all
  <2>3. Min(all) \in all /\ \A y \in all : Min(all) <= y
    BY <2>2, MinIsLeast
  <2> QED
    BY <2>1, <2>2, <2>3
<1> QED
  BY <1>2, <1>3

LEMMA ThreadTimesStep ==
  ASSUME ThreadTypes, [ThreadNext]_threadVars
  PROVE  /\ now' \in Time /\ timer' \in 0..PlusInfinity /\ now' <= timer'
         /\ runners' \in Seq(Queues) /\ ready_runners' \subseteq Queues
         /\ quitting' \subseteq Threads
<1> USE DEF ThreadTypes
<1>1. now \in Nat /\ timer \in Nat /\ PlusInfinity \in Nat /\ MaxTime < PlusInfinity
      /\ MaxTime \in Nat
  BY SimConstants DEF Time
<1>2. CASE Keep(FireTimer) \/ Keep(FireEvent)
  <2>1. now' \in Time /\ timer' \in 0..PlusInfinity /\ now' <= timer'
    <3>1. CASE FireTimer
      BY <1>1, <3>1 DEF FireTimer, Time
    <3>2. CASE FireEvent
      BY <1>1, <3>2 DEF FireEvent, Time
    <3> QED
      BY <1>2, <3>1, <3>2 DEF Keep
  <2> QED
    BY <1>2, <2>1 DEF Keep, FireTimer, FireEvent
<1>3. CASE Keep(OnTaskTimer)
  <2>1. timer' \in 0..PlusInfinity /\ now' <= timer'
    <3>1. CASE TimerReturns
      BY <1>1, <3>1, ThreadNextRunTimeTyped DEF TimerReturns, Time
    <3>2. CASE TimerAgain
      BY <3>2 DEF TimerAgain
    <3> QED
      BY <1>3, <3>1, <3>2 DEF Keep, OnTaskTimer
  <2> QED
    BY <1>3, <2>1 DEF Keep, OnTaskTimer, TimerReturns, TimerAgain
<1>4. ASSUME UNCHANGED <<now, timer, runners, ready_runners, quitting>>
      PROVE  /\ now' \in Time /\ timer' \in 0..PlusInfinity /\ now' <= timer'
             /\ runners' \in Seq(Queues) /\ ready_runners' \subseteq Queues
             /\ quitting' \subseteq Threads
  BY <1>4
<1>5. CASE \/ Keep(SimulationOver) \/ Keep(TaskReturns) \/ Keep(EventReturns)
           \/ Keep(WaitReturns) \/ Keep(MoveDue) \/ Keep(AllMoved) \/ Keep(GetDue)
           \/ Keep(GetMessage)
  BY <1>4, <1>5
  DEF Keep, SimulationOver, TaskReturns, EventReturns, WaitReturns, MoveDue, AllMoved,
      GetDue, GetMessage, RunTask, vars
<1>6. CASE \/ Keep(MessagesProcessed) \/ Keep(QueueReturns) \/ Keep(SendReturns)
           \/ UNCHANGED threadVars
  BY <1>4, <1>6
  DEF Keep, MessagesProcessed, QueueReturns, RunReadyReturns, SendReturns, threadVars, vars
<1>7. CASE Keep(CollectReady)
  <2>1. Registered \subseteq Queues
    BY DEF Registered, ToSet
  <2> QED
    BY <1>7, <2>1 DEF Keep, CollectReady
<1>8. ASSUME NEW q \in Queues,
             \/ Keep(RunReady(q)) \/ Keep(SendTask(q)) \/ Keep(PostTask(q))
             \/ \E d \in Delays : Keep(PostDelayedTask(q, d))
      PROVE  /\ now' \in Time /\ timer' \in 0..PlusInfinity /\ now' <= timer'
             /\ runners' \in Seq(Queues) /\ ready_runners' \subseteq Queues
             /\ quitting' \subseteq Threads
  BY <1>8 DEF Keep, RunReady, SendTask, PostTask, PostDelayedTask
<1>9. ASSUME NEW th \in Threads,
             \/ Keep(Send(th)) \/ Keep(PostWhileQuitting(th)) \/ Stop(th)
             \/ Keep(SendWhileQuitting(th))
             \/ \E ms \in ThreadDelays : Keep(PostDelayed(th, ms))
      PROVE  /\ now' \in Time /\ timer' \in 0..PlusInfinity /\ now' <= timer'
             /\ runners' \in Seq(Queues) /\ ready_runners' \subseteq Queues
             /\ quitting' \subseteq Threads
  BY <1>9 DEF Keep, Send, PostWhileQuitting, SendWhileQuitting, PostDelayed, Stop, vars
<1>10. ASSUME NEW th \in Threads, CreateThread(th) \/ DeleteThread(th)
      PROVE  /\ now' \in Time /\ timer' \in 0..PlusInfinity /\ now' <= timer'
             /\ runners' \in Seq(Queues) /\ ready_runners' \subseteq Queues
             /\ quitting' \subseteq Threads
  <2>1. runners' \in Seq(Queues)
    <3>1. th \in Queues
      BY ThreadConstants
    <3>2. CASE CreateThread(th)
      BY <3>1, <3>2 DEF CreateThread, Keep, CreateTaskQueue
    <3>3. CASE DeleteThread(th)
      BY <3>3, RemoveAtFacts DEF DeleteThread, DeleteTaskQueue
    <3> QED
      BY <1>10, <3>2, <3>3
  <2> QED
    BY <1>10, <2>1 DEF CreateThread, DeleteThread, Keep, CreateTaskQueue, DeleteTaskQueue
<1> QED
  BY <1>2, <1>3, <1>5, <1>6, <1>7, <1>8, <1>9, <1>10 DEF ThreadNext

LEMMA ThreadDataStep ==
  ASSUME ThreadTypes, DataEffect
  PROVE  /\ ready_tasks' \in [Queues -> Seq(Task)]
         /\ delayed_tasks' \in [Queues -> SUBSET Task]
         /\ next_run_time' \in [Queues -> Int]
         /\ posted' \in 0..NumTasks
         /\ post' \in [Task -> [q : Current, due : Time, delayed : BOOLEAN]]
         /\ \A q \in Queues : delayed_tasks'[q] \subseteq 1..posted'
<1> DEFINE P == [q : Current, due : Time, delayed : BOOLEAN]
<1>0. /\ now \in Nat /\ PlusInfinity \in Nat /\ NumTasks \in Nat
      /\ posted \in Nat /\ Queues \subseteq Current
      /\ \A t \in Task : post[t].due \in Nat
  BY SimConstants DEF ThreadTypes, Time, Current
<1> USE DEF ThreadTypes
<1>1. CASE Idles
  BY <1>1 DEF Idles, queueVars
<1>2. ASSUME NEW q \in Queues, MovesFirst(q) \/ TakesTask(q)
      PROVE  /\ ready_tasks' \in [Queues -> Seq(Task)]
             /\ delayed_tasks' \in [Queues -> SUBSET Task]
             /\ \A p \in Queues : delayed_tasks'[p] \subseteq 1..posted'
             /\ UNCHANGED <<next_run_time, posted, post>>
  <2>1. CASE MovesFirst(q)
    <3>1. FirstDelayed(q) \in Task
      BY <2>1, FirstOfDelayed DEF MovesFirst, HasDue
    <3> DEFINE t == FirstDelayed(q)
    <3>2. /\ ready_tasks' = [ready_tasks EXCEPT ![q] = Append(ready_tasks[q], t)]
          /\ delayed_tasks' = [delayed_tasks EXCEPT ![q] = delayed_tasks[q] \ {t}]
          /\ UNCHANGED <<next_run_time, posted, post>> /\ t \in Task
      BY <2>1, <3>1 DEF MovesFirst
    <3> HIDE DEF t
    <3>3. Append(ready_tasks[q], t) \in Seq(Task)
      BY <3>2
    <3> QED
      BY <3>2, <3>3
  <2>2. CASE TakesTask(q)
    <3>1. Tail(ready_tasks[q]) \in Seq(Task)
      BY <2>2 DEF TakesTask
    <3> QED
      BY <2>2, <3>1 DEF TakesTask
  <2> QED
    BY <1>2, <2>1, <2>2
<1>3. ASSUME NEW q \in Queues, EndsRun(q)
      PROVE  next_run_time' \in [Queues -> Int] /\ UNCHANGED <<ready_tasks, delayed_tasks, posted, post>>
  <2> DEFINE x == IF delayed_tasks[q] = {} THEN PlusInfinity
                  ELSE IF q \in Threads THEN now + (post[FirstDelayed(q)].due - FloorMillis(now))
                  ELSE post[FirstDelayed(q)].due
  <2>1. x \in Int
    <3>1. delayed_tasks[q] # {} => FirstDelayed(q) \in Task
      BY FirstOfDelayed
    <3>2. FloorMillis(now) \in Nat
      BY <1>0, FloorOfNow
    <3> QED
      BY <1>0, <3>1, <3>2
  <2>2. next_run_time' = [next_run_time EXCEPT ![q] = x]
    BY <1>3 DEF EndsRun
  <2> HIDE DEF x
  <2> QED
    BY <1>3, <2>1, <2>2 DEF EndsRun
<1>4. ASSUME NEW q \in Queues, PostsTask(q)
      PROVE  /\ ready_tasks' \in [Queues -> Seq(Task)]
             /\ delayed_tasks' = delayed_tasks
             /\ next_run_time' \in [Queues -> Int]
             /\ posted' \in 0..NumTasks /\ posted' = posted + 1
             /\ post' \in [Task -> P]
  <2>1. posted' = posted + 1 /\ posted + 1 \in Task /\ posted' \in 0..NumTasks
    BY <1>0, <1>4 DEF PostsTask, Enqueue, Task
  <2>2. Append(ready_tasks[q], posted + 1) \in Seq(Task) /\ MinusInfinity \in Int
    BY <2>1 DEF MinusInfinity
  <2>3. ready_tasks' \in [Queues -> Seq(Task)] /\ next_run_time' \in [Queues -> Int]
    BY <1>4, <2>2 DEF PostsTask, Enqueue
  <2>4. [q |-> q, due |-> now, delayed |-> FALSE] \in P
    BY <1>0
  <2> HIDE DEF P
  <2>5. post' \in [Task -> P]
    <3>1. post \in [Task -> P]
      BY DEF P
    <3> QED
      BY <1>4, <2>4, <3>1 DEF PostsTask, Enqueue
  <2> QED
    BY <1>4, <2>1, <2>3, <2>5 DEF PostsTask, Enqueue
<1>5. ASSUME NEW q \in Queues, NEW due \in Time, PostsDelayed(q, due)
      PROVE  /\ ready_tasks' = ready_tasks
             /\ delayed_tasks' \in [Queues -> SUBSET Task]
             /\ \A p \in Queues : delayed_tasks'[p] \subseteq 1..posted'
             /\ next_run_time' \in [Queues -> Int]
             /\ posted' \in 0..NumTasks
             /\ post' \in [Task -> P]
  <2>1. /\ posted' = posted + 1 /\ posted + 1 \in Task /\ posted' \in 0..NumTasks
        /\ posted + 1 \in 1..posted' /\ 1..posted \subseteq 1..posted'
    BY <1>0, <1>5 DEF PostsDelayed, Task
  <2>2. delayed_tasks[q] \cup {posted + 1} \in SUBSET Task
    BY <2>1
  <2>3. /\ delayed_tasks' \in [Queues -> SUBSET Task]
        /\ \A p \in Queues : delayed_tasks'[p] \subseteq delayed_tasks[p] \cup {posted + 1}
    BY <1>5, <2>2 DEF PostsDelayed
  <2>4. next_run_time' \in [Queues -> Int]
    BY <1>0, <1>5 DEF PostsDelayed, Time
  <2>5. [q |-> q, due |-> due, delayed |-> TRUE] \in P
    BY <1>0
  <2> HIDE DEF P
  <2>6. post' \in [Task -> P]
    <3>1. post \in [Task -> P]
      BY DEF P
    <3> QED
      BY <1>5, <2>5, <3>1 DEF PostsDelayed
  <2>7. \A p \in Queues : delayed_tasks'[p] \subseteq 1..posted'
    BY <2>1, <2>3
  <2> QED
    BY <1>5, <2>1, <2>3, <2>4, <2>6, <2>7 DEF PostsDelayed
<1>6. ASSUME NEW q \in Queues, PostsInVain(q) \/ Deletes(q)
      PROVE  /\ ready_tasks' \in [Queues -> Seq(Task)]
             /\ delayed_tasks' \in [Queues -> SUBSET Task]
             /\ \A p \in Queues : delayed_tasks'[p] \subseteq 1..posted'
             /\ next_run_time' \in [Queues -> Int]
             /\ posted' \in 0..NumTasks /\ post' \in [Task -> P]
  <2>1. <<>> \in Seq(Task) /\ {} \in SUBSET Task /\ PlusInfinity \in Int
        /\ MinusInfinity \in Int
    BY <1>0 DEF MinusInfinity
  <2>2. ASSUME ThrowsAway(q)
        PROVE  posted' = posted + 1 /\ posted' \in 0..NumTasks /\ post' \in [Task -> P]
    <3>1. posted + 1 \in 0..NumTasks /\ posted + 1 \in Task
      BY <1>0, <2>2, SimConstants DEF ThrowsAway, Task
    <3>2. [q |-> q, due |-> now, delayed |-> FALSE] \in P
      BY <1>0 DEF Current
    <3> QED
      BY <1>0, <2>2, <3>1, <3>2 DEF ThrowsAway
  <2>3. CASE UNCHANGED <<posted, post>>
    BY <1>0, <1>6, <2>1, <2>3 DEF PostsInVain, Deletes
  <2>4. CASE PostsInVain(q) /\ ThrowsAway(q)
    <3>1. \A p \in Queues : delayed_tasks[p] \subseteq 1..posted'
      BY <1>0, <2>2, <2>4
    <3> QED
      BY <1>0, <2>1, <2>2, <2>4, <3>1 DEF PostsInVain
  <2> QED
    BY <1>6, <2>3, <2>4 DEF PostsInVain, Deletes
<1>7. ASSUME NEW q \in Queues, PostsTask(q)
      PROVE  \A p \in Queues : delayed_tasks'[p] \subseteq 1..posted'
  BY <1>0, <1>4, <1>7
<1> HIDE DEF ThreadTypes
<1>8. /\ ready_tasks \in [Queues -> Seq(Task)]
      /\ delayed_tasks \in [Queues -> SUBSET Task]
      /\ next_run_time \in [Queues -> Int]
      /\ posted \in 0..NumTasks
      /\ post \in [Task -> P]
      /\ \A q \in Queues : delayed_tasks[q] \subseteq 1..posted
  BY DEF ThreadTypes
<1>9. CASE \E q \in Queues : MovesFirst(q) \/ TakesTask(q)
  BY <1>2, <1>8, <1>9
<1>10. CASE \E q \in Queues : EndsRun(q)
  BY <1>3, <1>8, <1>10
<1>11. CASE \E q \in Queues : PostsTask(q)
  BY <1>4, <1>7, <1>8, <1>11
<1>12. CASE \E q \in Queues : \E due \in Time : PostsDelayed(q, due)
  BY <1>5, <1>8, <1>12
<1>13. CASE \E q \in Queues : PostsInVain(q) \/ Deletes(q)
  BY <1>6, <1>8, <1>13
<1> QED
  BY <1>1, <1>9, <1>10, <1>11, <1>12, <1>13 DEF DataEffect, Concerns

LEMMA ThreadInvStep ==
  ASSUME ThreadInv, [ThreadNext]_threadVars PROVE ThreadInv'
<1>1. ThreadStack(stack')
  BY EffectOnStack, ThreadStackStep DEF ThreadInv
<1>2. ThreadTypes'
  BY DataEffects, ThreadTimesStep, ThreadDataStep DEF ThreadInv, ThreadTypes
<1> QED
  BY <1>1, <1>2 DEF ThreadInv

LEMMA InitThread == Init /\ quitting = {} => ThreadInv
<1>1. Init => /\ ready_tasks \in [Queues -> Seq(Task)]
              /\ post \in [Task -> [q : Current, due : Time, delayed : BOOLEAN]]
  BY SimConstants DEF Init, Current, Time
<1>2. Init => /\ delayed_tasks \in [Queues -> SUBSET Task]
              /\ next_run_time \in [Queues -> Int]
              /\ \A q \in Queues : delayed_tasks[q] \subseteq 1..posted
  BY SimConstants DEF Init
<1>3. Init => ThreadStack(stack)
  BY DEF Init, ThreadStack
<1> QED
  BY <1>1, <1>2, <1>3, SimConstants DEF Init, ThreadInv, ThreadTypes, Time
------------------------------------------------------------------------------
(* Whose turn it is.  A queue has been taken off ready_runners_ when its       *)
(* RunReady begins, and no new round begins before it ends, except inside a    *)
(* nested RunReadyRunners.                                                     *)

InRunReady(s, q) == \E i \in DOMAIN s : IsRunReady(s[i]) /\ s[i].q = q

TurnTaken(s, r) ==
  \A i \in DOMAIN s :
    /\ IsRunReady(s[i])
    /\ \A j \in DOMAIN s : i < j => s[j].fn # "RunReadyRunners"
    => s[i].q \notin r

\* How the stack changes: |k| frames stay, and the new ones are |f| and |g|.
Grows(k, f) ==
  /\ Len(stack') = k + 1 /\ stack'[k + 1] = f
  /\ \A i \in 1..k : stack'[i] = stack[i]
GrowsTwice(k, f, g) ==
  /\ Len(stack') = k + 2 /\ stack'[k + 1] = f /\ stack'[k + 2] = g
  /\ \A i \in 1..k : stack'[i] = stack[i]

LEMMA StackGrows ==
  ASSUME ThreadStack(stack), ThreadStack(stack')
  PROVE  /\ stack \in Seq(ThreadFrame) /\ stack' \in Seq(ThreadFrame)
         /\ DOMAIN stack = 1..Len(stack) /\ DOMAIN stack' = 1..Len(stack')
         /\ Len(stack) \in Nat /\ Len(stack') \in Nat
         /\ stack # <<>> => Last(stack) = stack[Len(stack)] /\ Len(stack) > 0
         /\ stack # <<>> /\ stack' = Front(stack) =>
              /\ Len(stack') = Len(stack) - 1
              /\ \A i \in 1..(Len(stack) - 1) : stack'[i] = stack[i]
         /\ \A f \in ThreadFrame : stack' = Append(stack, f) => Grows(Len(stack), f)
         /\ \A f \in ThreadFrame : stack # <<>> /\ stack' = Append(Front(stack), f) =>
              Grows(Len(stack) - 1, f)
         /\ \A f, g \in ThreadFrame : stack' = Append(Append(stack, f), g) =>
              GrowsTwice(Len(stack), f, g)
<1>1. /\ stack \in Seq(ThreadFrame) /\ stack' \in Seq(ThreadFrame)
      /\ DOMAIN stack = 1..Len(stack) /\ DOMAIN stack' = 1..Len(stack')
      /\ Len(stack) \in Nat /\ Len(stack') \in Nat
  BY DEF ThreadStack
<1>2. stack # <<>> =>
        /\ Front(stack) \in Seq(ThreadFrame) /\ Len(Front(stack)) = Len(stack) - 1
        /\ \A i \in 1..(Len(stack) - 1) : Front(stack)[i] = stack[i]
        /\ Last(stack) = stack[Len(stack)] /\ Len(stack) > 0
  <2>1. SUFFICES ASSUME stack # <<>>
                 PROVE  /\ Front(stack) \in Seq(ThreadFrame)
                        /\ Len(Front(stack)) = Len(stack) - 1
                        /\ \A i \in 1..(Len(stack) - 1) : Front(stack)[i] = stack[i]
                        /\ Last(stack) = stack[Len(stack)] /\ Len(stack) > 0
    OBVIOUS
  <2>2. /\ ThreadStack(Front(stack)) /\ Len(Front(stack)) = Len(stack) - 1
        /\ \A i \in 1..(Len(stack) - 1) : Front(stack)[i] = stack[i]
        /\ Last(stack) = stack[Len(stack)] /\ Len(stack) \in Nat \ {0}
    BY <2>1, PopThread
  <2> QED
    BY <2>2 DEF ThreadStack
<1>3. ASSUME NEW s \in Seq(ThreadFrame), NEW f \in ThreadFrame
      PROVE  /\ Append(s, f) \in Seq(ThreadFrame)
             /\ Len(Append(s, f)) = Len(s) + 1 /\ Append(s, f)[Len(s) + 1] = f
             /\ \A i \in 1..Len(s) : Append(s, f)[i] = s[i]
  OBVIOUS
<1>4. ASSUME NEW f \in ThreadFrame, stack' = Append(stack, f) PROVE Grows(Len(stack), f)
  BY <1>1, <1>3, <1>4 DEF Grows
<1>5. ASSUME NEW f \in ThreadFrame, stack # <<>>, stack' = Append(Front(stack), f)
      PROVE  Grows(Len(stack) - 1, f)
  <2> DEFINE r == Front(stack)
  <2>1. /\ r \in Seq(ThreadFrame) /\ Len(r) = Len(stack) - 1 /\ stack' = Append(r, f)
        /\ \A i \in 1..(Len(stack) - 1) : r[i] = stack[i]
    BY <1>2, <1>5
  <2> HIDE DEF r
  <2> QED
    BY <1>3, <2>1 DEF Grows
<1>6. ASSUME NEW f \in ThreadFrame, NEW g \in ThreadFrame, stack' = Append(Append(stack, f), g)
      PROVE  GrowsTwice(Len(stack), f, g)
  <2> DEFINE r == Append(stack, f)
             n == Len(stack)
  <2>1. /\ r \in Seq(ThreadFrame) /\ Len(r) = n + 1 /\ r[n + 1] = f /\ n \in Nat
        /\ \A i \in 1..n : r[i] = stack[i]
    BY <1>1, <1>3
  <2>2. stack' = Append(r, g)
    BY <1>6
  <2> HIDE DEF r
  <2>3. /\ Len(stack') = Len(r) + 1 /\ stack'[Len(r) + 1] = g
        /\ \A i \in 1..Len(r) : stack'[i] = r[i]
    BY <1>3, <2>1, <2>2
  <2>4. Len(stack') = n + 2 /\ stack'[n + 2] = g
    <3>1. Len(r) + 1 = n + 2
      BY <2>1
    <3> QED
      BY <2>3, <3>1
  <2>5. n + 1 \in 1..Len(r) /\ \A i \in 1..n : i \in 1..Len(r)
    BY <2>1
  <2> QED
    BY <2>1, <2>3, <2>4, <2>5 DEF GrowsTwice
<1> QED
  BY <1>1, <1>2, <1>4, <1>5, <1>6

\* The frames a step pushes.
LEMMA PushedFrames ==
  ASSUME ThreadStack(stack), ThreadStack(stack'), StackEffect
  PROVE  \/ /\ Pops /\ Len(stack') = Len(stack) - 1 /\ Len(stack) > 0
            /\ \A i \in 1..(Len(stack) - 1) : stack'[i] = stack[i]
         \/ Stays
         \/ LoopsOn /\ Len(stack) > 0 /\ \E f \in ThreadFrame :
               /\ f.fn = "RunTasks" /\ f.q = stack[Len(stack)].q
               /\ Grows(Len(stack) - 1, f)
         \/ StartsTask /\ Len(stack) > 0 /\ \E f \in ThreadFrame :
               /\ f.fn = "Task" /\ f.q = stack[Len(stack)].q
               /\ f.t \in ToSet(ready_tasks[f.q]) /\ Grows(Len(stack), f)
         \/ RunsAll /\ \E f \in ThreadFrame :
               f.fn = "RunReadyRunners" /\ Grows(Len(stack), f)
         \/ StartsWait /\ Len(stack) > 0 /\ \E f, g \in ThreadFrame :
               /\ f.fn = "Wait" /\ f.q = stack[Len(stack)].q /\ f.t = posted + 1
               /\ g.fn = "RunReadyRunners" /\ GrowsTwice(Len(stack), f, g)
         \/ StartsSend /\ Len(stack) > 0 /\ \E f, g \in ThreadFrame :
               /\ f.fn = "Send" /\ f.q = stack[Len(stack)].q /\ g.fn = "Task" /\ g.t = 0
               /\ GrowsTwice(Len(stack), f, g)
         \/ /\ FromLoop
            /\ \A i \in DOMAIN stack' :
                 stack'[i].fn \in {"OnTaskTimer", "RunReadyRunners", "Event"}
            /\ \/ ready_runners' = {}
               \/ Len(stack') = 1 /\ stack'[1].fn = "Event" /\ ready_runners' = ready_runners
         \/ \E q \in Queues : TakesTurn(q) /\ Len(stack) > 0 /\ \E f \in ThreadFrame :
               f.fn = "MoveDue" /\ f.q = q /\ Grows(Len(stack), f)
<1> DEFINE n == Len(stack)
<1>0. /\ stack # <<>> => /\ Last(stack) = stack[n] /\ n > 0
                         /\ Last(stack) \in ThreadFrame /\ Last(stack).q \in Current
  BY StackGrows, TopThread DEF ThreadFrame
<1> HIDE DEF n
<1>1. CASE Pops
  BY <1>0, <1>1, StackGrows DEF Pops, n
<1>2. CASE LoopsOn
  <2> DEFINE f == F("RunTasks", Last(stack).q, 0)
  <2>1. f \in ThreadFrame /\ f.fn = "RunTasks" /\ f.q = stack[n].q
    BY <1>0, <1>2, FrameTyped DEF LoopsOn, Top
  <2>2. stack # <<>> /\ stack' = Append(Front(stack), f)
    BY <1>2 DEF LoopsOn, Top
  <2> HIDE DEF f
  <2>3. Grows(n - 1, f)
    BY <2>1, <2>2, StackGrows DEF n
  <2> QED
    BY <1>0, <1>2, <2>1, <2>2, <2>3 DEF n
<1>3. CASE StartsTask
  <2>1. PICK t \in Task : /\ t \in ToSet(ready_tasks[Last(stack).q])
                         /\ stack' = Append(stack, F("Task", Last(stack).q, t))
    BY <1>3 DEF StartsTask
  <2> DEFINE f == F("Task", Last(stack).q, t)
  <2>2. /\ f \in ThreadFrame /\ f.fn = "Task" /\ f.q = stack[n].q /\ stack # <<>>
        /\ f.t \in ToSet(ready_tasks[f.q])
    BY <1>0, <1>3, <2>1, FrameTyped DEF StartsTask, Top
  <2>3. stack' = Append(stack, f)
    BY <2>1
  <2> HIDE DEF f
  <2>4. Grows(n, f)
    BY <2>2, <2>3, StackGrows DEF n
  <2> QED
    BY <1>0, <1>3, <2>2, <2>4 DEF n
<1>4. CASE RunsAll
  <2> DEFINE f == F("RunReadyRunners", Main, 0)
  <2>1. f \in ThreadFrame /\ f.fn = "RunReadyRunners" /\ stack' = Append(stack, f)
    BY <1>4, FrameTyped DEF RunsAll
  <2> HIDE DEF f
  <2>2. Grows(n, f)
    BY <2>1, StackGrows DEF n
  <2> QED
    BY <1>4, <2>1, <2>2 DEF n
<1>5. ASSUME NEW q \in Queues, TakesTurn(q)
      PROVE  Len(stack) > 0 /\ \E f \in ThreadFrame :
               f.fn = "MoveDue" /\ f.q = q /\ Grows(Len(stack), f)
  <2> DEFINE f == F("MoveDue", q, 0)
  <2>1. f \in ThreadFrame /\ f.fn = "MoveDue" /\ f.q = q
    BY FrameTyped
  <2>2. stack' = Append(stack, f) /\ stack # <<>>
    BY <1>5 DEF TakesTurn, Top
  <2> HIDE DEF f
  <2>3. Grows(n, f)
    BY <2>1, <2>2, StackGrows DEF n
  <2> QED
    BY <1>0, <2>1, <2>2, <2>3 DEF n
<1>6. CASE StartsWait
  <2>1. PICK t \in Task :
          /\ t = posted + 1
          /\ stack' = Append(Append(stack, F("Wait", Last(stack).q, t)),
                             F("RunReadyRunners", Main, 0))
    BY <1>6 DEF StartsWait
  <2> DEFINE f == F("Wait", Last(stack).q, t)
             g == F("RunReadyRunners", Main, 0)
  <2>2. stack # <<>>
    BY <1>6 DEF StartsWait, CodeRuns, Top
  <2>3. /\ f \in ThreadFrame /\ f.fn = "Wait" /\ f.q = stack[n].q /\ f.t = posted + 1
        /\ g \in ThreadFrame /\ g.fn = "RunReadyRunners"
    BY <1>0, <2>1, <2>2, FrameTyped
  <2>4. stack' = Append(Append(stack, f), g)
    BY <2>1
  <2> HIDE DEF f, g
  <2>5. GrowsTwice(n, f, g)
    BY <2>3, <2>4, StackGrows DEF n
  <2> QED
    BY <1>0, <1>6, <2>2, <2>3, <2>5 DEF n
<1>7. CASE StartsSend
  <2>1. PICK th \in Threads :
          stack' = Append(Append(stack, F("Send", Last(stack).q, 0)), F("Task", th, 0))
    BY <1>7 DEF StartsSend
  <2> DEFINE f == F("Send", Last(stack).q, 0)
             g == F("Task", th, 0)
  <2>2. stack # <<>> /\ th \in Current
    BY <1>7, ThreadConstants DEF StartsSend, CodeRuns, Top, Current
  <2>3. /\ f \in ThreadFrame /\ f.fn = "Send" /\ f.q = stack[n].q
        /\ g \in ThreadFrame /\ g.fn = "Task" /\ g.t = 0
    BY <1>0, <2>2, FrameTyped
  <2>4. stack' = Append(Append(stack, f), g)
    BY <2>1
  <2> HIDE DEF f, g
  <2>5. GrowsTwice(n, f, g)
    BY <2>3, <2>4, StackGrows DEF n
  <2> QED
    BY <1>0, <1>7, <2>2, <2>3, <2>5 DEF n
<1>8. CASE FromLoop
  <2>1. CASE /\ stack' = <<F("OnTaskTimer", Main, 0), F("RunReadyRunners", Main, 0)>>
             /\ ready_runners' = {}
    BY <1>8, <2>1 DEF F
  <2>2. CASE stack' = <<F("Event", Main, 0)>> /\ ready_runners' = ready_runners
    BY <1>8, <2>2 DEF F
  <2> QED
    BY <1>8, <2>1, <2>2 DEF FromLoop
<1> QED
  BY <1>1, <1>2, <1>3, <1>4, <1>5, <1>6, <1>7, <1>8 DEF StackEffect

\* ready_runners_ is in use only inside RunReadyRunners.
RoundsEnd(s, r) == (\A i \in DOMAIN s : s[i].fn # "RunReadyRunners") => r = {}

LEMMA TurnStep ==
  ASSUME ThreadStack(stack), ThreadStack(stack'), StackEffect, TurnTaken(stack, ready_runners),
         RoundsEnd(stack, ready_runners)
  PROVE  TurnTaken(stack', ready_runners') /\ RoundsEnd(stack', ready_runners')
<1> DEFINE n == Len(stack)
           m == Len(stack')
<1>0. /\ n \in Nat /\ m \in Nat /\ DOMAIN stack = 1..n /\ DOMAIN stack' = 1..m
      /\ (stack # <<>> => Last(stack) = stack[n])
      /\ (stack # <<>> => n > 0)
  BY StackGrows
<1> HIDE DEF n, m
<1>1. ASSUME ready_runners' = {}
      PROVE  TurnTaken(stack', ready_runners') /\ RoundsEnd(stack', ready_runners')
  BY <1>1 DEF TurnTaken, RoundsEnd
<1>2. CASE Pops /\ m = n - 1 /\ n > 0 /\ \A i \in 1..(n - 1) : stack'[i] = stack[i]
  <2>1. SUFFICES ASSUME stack[n].fn # "RunReadyRunners", ready_runners' = ready_runners
                 PROVE  TurnTaken(stack', ready_runners') /\ RoundsEnd(stack', ready_runners')
    BY <1>0, <1>1, <1>2 DEF Pops
  <2>2. ASSUME NEW i \in 1..m, IsRunReady(stack'[i]),
               \A j \in 1..m : i < j => stack'[j].fn # "RunReadyRunners"
        PROVE  stack'[i].q \notin ready_runners
    <3>1. i \in 1..n /\ stack'[i] = stack[i]
      BY <1>0, <1>2
    <3>2. ASSUME NEW j \in 1..n, i < j PROVE stack[j].fn # "RunReadyRunners"
      <4>1. CASE j = n
        BY <2>1, <4>1
      <4>2. CASE j # n
        <5>1. j \in 1..m /\ stack'[j] = stack[j]
          BY <1>0, <1>2, <4>2
        <5> QED
          BY <2>2, <3>2, <5>1
      <4> QED
        BY <4>1, <4>2
    <3> QED
      BY <1>0, <2>2, <3>1, <3>2 DEF TurnTaken
  <2>3. ASSUME \A i \in 1..m : stack'[i].fn # "RunReadyRunners" PROVE ready_runners = {}
    <3>1. ASSUME NEW i \in 1..n PROVE stack[i].fn # "RunReadyRunners"
      <4>1. CASE i = n
        BY <2>1, <4>1
      <4>2. CASE i # n
        BY <1>0, <1>2, <2>3, <4>2
      <4> QED
        BY <4>1, <4>2
    <3> QED
      BY <1>0, <3>1 DEF RoundsEnd
  <2> QED
    BY <1>0, <2>1, <2>2, <2>3 DEF TurnTaken, RoundsEnd
<1>3. CASE Stays
  <2>1. stack' = stack
    BY <1>3 DEF Stays
  <2>2. CASE ready_runners' \subseteq ready_runners
    BY <2>1, <2>2 DEF TurnTaken, RoundsEnd
  <2>3. CASE Top("RunReadyRunners")
    <3>1. n \in 1..n /\ stack[n].fn = "RunReadyRunners" /\ \A i \in 1..n : i < n \/ i = n
      BY <1>0, <2>3 DEF Top
    <3> QED
      BY <1>0, <2>1, <3>1 DEF TurnTaken, RoundsEnd, IsRunReady
  <2> QED
    BY <1>3, <2>2, <2>3 DEF Stays
<1>4. ASSUME NEW f \in ThreadFrame, f.fn = "RunTasks", f.q = stack[n].q, n > 0, LoopsOn, Grows(n - 1, f)
      PROVE  TurnTaken(stack', ready_runners') /\ RoundsEnd(stack', ready_runners')
  <2>1. /\ ready_runners' = ready_runners /\ stack[n].fn = "MoveDue" /\ m = n
        /\ stack'[n] = f /\ \A i \in 1..(n - 1) : stack'[i] = stack[i]
    BY <1>0, <1>4 DEF LoopsOn, Top, Grows, m
  <2>2. \A i \in 1..n : /\ stack'[i].q = stack[i].q
                        /\ IsRunReady(stack'[i]) <=> IsRunReady(stack[i])
                        /\ stack'[i].fn = "RunReadyRunners" <=> stack[i].fn = "RunReadyRunners"
    <3>1. ASSUME NEW i \in 1..n, i # n PROVE stack'[i] = stack[i]
      BY <1>0, <2>1, <3>1
    <3> QED
      BY <1>4, <2>1, <3>1 DEF IsRunReady
  <2> QED
    BY <1>0, <2>1, <2>2 DEF TurnTaken, RoundsEnd
<1>5. ASSUME NEW f \in ThreadFrame, f.fn = "Task", Grows(n, f), ready_runners' = ready_runners
      PROVE  TurnTaken(stack', ready_runners') /\ RoundsEnd(stack', ready_runners')
  <2>1. /\ m = n + 1 /\ stack'[m] = f /\ \A i \in 1..n : stack'[i] = stack[i] /\ i \in 1..m
        /\ \A i \in 1..m : i = m \/ i \in 1..n
    BY <1>0, <1>5 DEF Grows, m
  <2> QED
    BY <1>0, <1>5, <2>1 DEF TurnTaken, RoundsEnd, IsRunReady
<1>6. ASSUME NEW q \in Queues, TakesTurn(q), NEW f \in ThreadFrame, f.fn = "MoveDue", f.q = q,
             Grows(n, f), n > 0
      PROVE  TurnTaken(stack', ready_runners') /\ RoundsEnd(stack', ready_runners')
  <2>1. /\ m = n + 1 /\ stack'[m] = f /\ \A i \in 1..n : stack'[i] = stack[i] /\ i \in 1..m
        /\ \A i \in 1..m : i = m \/ i \in 1..n
        /\ n \in 1..n
    BY <1>0, <1>6 DEF Grows, m
  <2>2. stack'[n].fn = "RunReadyRunners" /\ ready_runners' = ready_runners \ {q}
    BY <1>0, <1>6, <2>1 DEF TakesTurn, Top
  <2>3. RoundsEnd(stack', ready_runners')
    BY <1>0, <2>1, <2>2 DEF RoundsEnd
  <2>4. ASSUME NEW i \in 1..m, IsRunReady(stack'[i]),
               \A j \in 1..m : i < j => stack'[j].fn # "RunReadyRunners"
        PROVE  stack'[i].q \notin ready_runners'
    <3>1. CASE i = m
      BY <1>6, <2>1, <2>2, <3>1
    <3>2. CASE i \in 1..n
      <4>1. i = n \/ i < n
        BY <1>0, <3>2
      <4> QED
        BY <2>1, <2>2, <2>4, <4>1 DEF IsRunReady
    <3> QED
      BY <2>1, <3>1, <3>2
  <2> QED
    BY <1>0, <2>3, <2>4 DEF TurnTaken
<1>7. ASSUME NEW f \in ThreadFrame, NEW g \in ThreadFrame, f.fn = "Send", g.fn = "Task",
             GrowsTwice(n, f, g), ready_runners' = ready_runners
      PROVE  TurnTaken(stack', ready_runners') /\ RoundsEnd(stack', ready_runners')
  <2>1. /\ m = n + 2 /\ stack'[n + 1] = f /\ stack'[n + 2] = g
        /\ \A i \in 1..n : stack'[i] = stack[i] /\ i \in 1..m
        /\ \A i \in 1..m : i = n + 1 \/ i = n + 2 \/ i \in 1..n
    BY <1>0, <1>7 DEF GrowsTwice, m
  <2> QED
    BY <1>0, <1>7, <2>1 DEF TurnTaken, RoundsEnd, IsRunReady
<1>8. CASE FromLoop /\ \A i \in 1..m :
                 stack'[i].fn \in {"OnTaskTimer", "RunReadyRunners", "Event"}
  <2>1. TurnTaken(stack', ready_runners')
    BY <1>0, <1>8 DEF TurnTaken, IsRunReady
  <2>2. stack = <<>> => ready_runners = {}
    BY DEF RoundsEnd
  <2>3. ready_runners' = {}
    BY <1>8, <2>2 DEF FromLoop
  <2> QED
    BY <1>1, <2>3
<1>9. CASE RunsAll \/ StartsWait
  BY <1>1, <1>9 DEF RunsAll, StartsWait
<1>10. CASE LoopsOn /\ n > 0 /\ \E f \in ThreadFrame :
              f.fn = "RunTasks" /\ f.q = stack[n].q /\ Grows(n - 1, f)
  BY <1>4, <1>10
<1>11. CASE StartsTask /\ \E f \in ThreadFrame : f.fn = "Task" /\ Grows(n, f)
  BY <1>5, <1>11 DEF StartsTask
<1>12. CASE StartsSend /\ \E f, g \in ThreadFrame :
              f.fn = "Send" /\ g.fn = "Task" /\ GrowsTwice(n, f, g)
  BY <1>7, <1>12 DEF StartsSend
<1>13. CASE \E q \in Queues : /\ TakesTurn(q) /\ n > 0
                            /\ \E f \in ThreadFrame : f.fn = "MoveDue" /\ f.q = q /\ Grows(n, f)
  BY <1>6, <1>13
<1> QED
  BY <1>0, <1>2, <1>3, <1>8, <1>9, <1>10, <1>11, <1>12, <1>13, PushedFrames DEF n, m
------------------------------------------------------------------------------
(* The next run time of a queue or a thread *)

OnTime(p) ==
  /\ ready_tasks[p] # <<>> => next_run_time[p] <= now
  /\ \A t \in delayed_tasks[p] : next_run_time[p] < post[t].due + Millis
  /\ InRunReady(stack, p) =>
       \A t \in delayed_tasks[p] : post[t].due <= now => next_run_time[p] <= now
  /\ p \in ready_runners => next_run_time[p] <= now

NotEarly(p) ==
  \/ InRunReady(stack, p) \/ ready_tasks[p] # <<>> \/ p \in quitting
  \/ PlusInfinity <= next_run_time[p]
  \/ \E t \in delayed_tasks[p] : post[t].due <= next_run_time[p]

TurnInv == TurnTaken(stack, ready_runners) /\ RoundsEnd(stack, ready_runners)
RunTimes == \A p \in Queues : OnTime(p) /\ NotEarly(p)

\* RunReady begins when the queue takes its turn, and ends when it is processed.
LEMMA RunReadyBegins ==
  ASSUME ThreadInv, ThreadInv', StackEffect, NEW p \in Queues, InRunReady(stack', p)
  PROVE  InRunReady(stack, p) \/ TakesTurn(p)
<1> DEFINE n == Len(stack)
<1>0. /\ n \in Nat /\ DOMAIN stack = 1..n /\ DOMAIN stack' = 1..Len(stack')
      /\ (stack # <<>> => Last(stack) = stack[n]) /\ (stack # <<>> => n > 0)
  BY StackGrows DEF ThreadInv
<1>1. PICK i \in 1..Len(stack') : IsRunReady(stack'[i]) /\ stack'[i].q = p
  BY <1>0 DEF InRunReady
<1> HIDE DEF n
<1>2. ASSUME i \in 1..n, stack'[i] = stack[i] PROVE InRunReady(stack, p)
  BY <1>0, <1>1, <1>2 DEF InRunReady
<1>3. CASE Pops /\ Len(stack') = n - 1 /\ n > 0 /\ \A k \in 1..(n - 1) : stack'[k] = stack[k]
  BY <1>0, <1>1, <1>2, <1>3
<1>4. CASE Stays
  BY <1>4 DEF Stays, InRunReady
<1>5. ASSUME NEW f \in ThreadFrame, f.q = stack[n].q, n > 0, LoopsOn, Grows(n - 1, f)
      PROVE  InRunReady(stack, p)
  <2>1. CASE i = n
    <3>1. IsRunReady(stack[n]) /\ stack[n].q = p /\ n \in 1..n
      BY <1>0, <1>1, <1>5, <2>1 DEF LoopsOn, Top, IsRunReady, Grows
    <3> QED
      BY <1>0, <3>1 DEF InRunReady
  <2>2. CASE i # n
    BY <1>0, <1>1, <1>2, <1>5, <2>2 DEF Grows
  <2> QED
    BY <2>1, <2>2
<1>6. ASSUME NEW f \in ThreadFrame, ~IsRunReady(f), Grows(n, f) PROVE InRunReady(stack, p)
  BY <1>0, <1>1, <1>2, <1>6 DEF Grows
<1>7. ASSUME NEW f \in ThreadFrame, NEW g \in ThreadFrame, ~IsRunReady(f), ~IsRunReady(g),
             GrowsTwice(n, f, g)
      PROVE InRunReady(stack, p)
  BY <1>0, <1>1, <1>2, <1>7 DEF GrowsTwice
<1>8. ASSUME NEW q \in Queues, TakesTurn(q), NEW f \in ThreadFrame, f.q = q, Grows(n, f)
      PROVE  InRunReady(stack, p) \/ TakesTurn(p)
  <2>1. i \in 1..n \/ i = n + 1
    BY <1>0, <1>1, <1>8 DEF Grows
  <2> QED
    BY <1>1, <1>2, <1>8, <2>1 DEF Grows
<1>9. ~\A k \in DOMAIN stack' : stack'[k].fn \in {"OnTaskTimer", "RunReadyRunners", "Event"}
  BY <1>0, <1>1 DEF IsRunReady
<1>10. \A f \in ThreadFrame : f.fn \in {"Task", "RunReadyRunners", "Wait", "Send"} => ~IsRunReady(f)
  BY DEF IsRunReady
<1>11. CASE StartsTask /\ \E f \in ThreadFrame : f.fn = "Task" /\ Grows(n, f)
  BY <1>6, <1>10, <1>11
<1>12. CASE RunsAll /\ \E f \in ThreadFrame : f.fn = "RunReadyRunners" /\ Grows(n, f)
  BY <1>6, <1>10, <1>12
<1>13. CASE \E f, g \in ThreadFrame : /\ f.fn \in {"Wait", "Send"}
                                     /\ g.fn \in {"Task", "RunReadyRunners"}
                                     /\ GrowsTwice(n, f, g)
  BY <1>7, <1>10, <1>13
<1>14. CASE \E q \in Queues : TakesTurn(q) /\ \E f \in ThreadFrame : f.q = q /\ Grows(n, f)
  BY <1>8, <1>14
<1>15. CASE LoopsOn /\ n > 0 /\ \E f \in ThreadFrame : f.q = stack[n].q /\ Grows(n - 1, f)
  BY <1>5, <1>15
<1> QED
  BY <1>3, <1>4, <1>9, <1>11, <1>12, <1>13, <1>14, <1>15, PushedFrames DEF n, ThreadInv

LEMMA RunReadyEnds ==
  ASSUME ThreadInv, ThreadInv', StackEffect, NEW p \in Queues, InRunReady(stack, p)
  PROVE  InRunReady(stack', p) \/ EndsRun(p)
<1> DEFINE n == Len(stack)
<1>0. /\ n \in Nat /\ DOMAIN stack = 1..n /\ DOMAIN stack' = 1..Len(stack')
      /\ (stack # <<>> => Last(stack) = stack[n]) /\ (stack # <<>> => n > 0)
  BY StackGrows DEF ThreadInv
<1>1. PICK i \in 1..n : IsRunReady(stack[i]) /\ stack[i].q = p
  BY <1>0 DEF InRunReady
<1> HIDE DEF n
<1>2. ASSUME i \in 1..Len(stack'), stack'[i] = stack[i] PROVE InRunReady(stack', p)
  BY <1>0, <1>1, <1>2 DEF InRunReady
<1>3. CASE Pops /\ Len(stack') = n - 1 /\ n > 0 /\ \A k \in 1..(n - 1) : stack'[k] = stack[k]
  <2>1. CASE i = n
    <3>1. MessagesProcessed \/ QueueReturns
      BY <1>0, <1>1, <1>3, <2>1 DEF Pops, IsRunReady
    <3>2. Last(stack).q = p
      BY <1>0, <1>1, <2>1, <1>3 DEF Pops
    <3>3. MessagesProcessed => EndsRun(p)
      BY <3>2 DEF MessagesProcessed, EndsRun
    <3>4. QueueReturns => EndsRun(p)
      BY <3>2 DEF QueueReturns, RunReadyReturns, EndsRun
    <3> QED
      BY <3>1, <3>3, <3>4
  <2>2. CASE i # n
    BY <1>0, <1>1, <1>2, <1>3, <2>2
  <2> QED
    BY <2>1, <2>2
<1>4. CASE Stays
  BY <1>4 DEF Stays, InRunReady
<1>5. ASSUME NEW f \in ThreadFrame, f.fn = "RunTasks", f.q = stack[n].q, n > 0, Grows(n - 1, f)
      PROVE  InRunReady(stack', p)
  <2>1. CASE i = n
    <3>1. n \in 1..Len(stack') /\ IsRunReady(stack'[n]) /\ stack'[n].q = p
      BY <1>0, <1>1, <1>5, <2>1 DEF IsRunReady, Grows
    <3> QED
      BY <1>0, <3>1 DEF InRunReady
  <2>2. CASE i # n
    BY <1>0, <1>1, <1>2, <1>5, <2>2 DEF Grows
  <2> QED
    BY <2>1, <2>2
<1>6. ASSUME NEW f \in ThreadFrame, Grows(n, f) PROVE InRunReady(stack', p)
  BY <1>0, <1>1, <1>2, <1>6 DEF Grows
<1>7. ASSUME NEW f \in ThreadFrame, NEW g \in ThreadFrame, GrowsTwice(n, f, g)
      PROVE InRunReady(stack', p)
  BY <1>0, <1>1, <1>2, <1>7 DEF GrowsTwice
<1>8. ~FromLoop
  BY <1>0, <1>1 DEF FromLoop
<1>9. CASE \E f \in ThreadFrame : Grows(n, f)
  BY <1>6, <1>9
<1>10. CASE \E f, g \in ThreadFrame : GrowsTwice(n, f, g)
  BY <1>7, <1>10
<1>11. CASE /\ n > 0
            /\ \E f \in ThreadFrame : f.fn = "RunTasks" /\ f.q = stack[n].q /\ Grows(n - 1, f)
  BY <1>5, <1>11
<1> QED
  BY <1>3, <1>4, <1>8, <1>9, <1>10, <1>11, PushedFrames DEF n, ThreadInv

\* The numbers of a queue.
LEMMA ThreadNumbers ==
  ASSUME ThreadTypes, NEW p \in Queues
  PROVE  /\ now \in Nat /\ PlusInfinity \in Nat /\ Millis \in Nat \ {0}
         /\ next_run_time[p] \in Int /\ MinusInfinity = -1
         /\ delayed_tasks[p] \subseteq Task
         /\ \A t \in Task : post[t].due \in Nat /\ post[t].due < PlusInfinity
         /\ \A t \in delayed_tasks[p] : t # posted + 1
         /\ FloorMillis(now) \in Nat /\ FloorMillis(now) <= now
         /\ now < FloorMillis(now) + Millis
<1>1. now \in Nat /\ PlusInfinity \in Nat /\ Millis \in Nat \ {0}
  BY ThreadConstants, SimConstants DEF ThreadTypes, Time
<1>2. \A t \in Task : post[t].due \in Nat /\ post[t].due < PlusInfinity
  BY <1>1 DEF ThreadTypes, Time
<1>3. \A t \in delayed_tasks[p] : t # posted + 1
  BY <1>1 DEF ThreadTypes
<1> QED
  BY <1>1, <1>2, <1>3, FloorOfNow DEF ThreadTypes, MinusInfinity

\* What the next run time becomes in a step that changes it.
LEMMA RunEnds ==
  ASSUME ThreadTypes, NEW p \in Queues, EndsRun(p)
  PROVE  /\ delayed_tasks[p] = {} => next_run_time'[p] = PlusInfinity
         /\ delayed_tasks[p] # {} =>
              \E t \in delayed_tasks[p] : post[t].due <= next_run_time'[p]
         /\ \A t \in delayed_tasks[p] : next_run_time'[p] < post[t].due + Millis
         /\ \A t \in delayed_tasks[p] : post[t].due <= now => next_run_time'[p] <= now
<1> DEFINE u == FirstDelayed(p)
<1>1. /\ now \in Nat /\ PlusInfinity \in Nat /\ Millis \in Nat \ {0}
      /\ FloorMillis(now) \in Nat /\ FloorMillis(now) <= now
      /\ now < FloorMillis(now) + Millis
      /\ \A t \in delayed_tasks[p] : post[t].due \in Nat
  BY ThreadNumbers
<1>2. delayed_tasks[p] # {} =>
        u \in delayed_tasks[p] /\ \A t \in delayed_tasks[p] : post[u].due <= post[t].due
  BY <1>1, FirstOfDelayed DEF ThreadTypes
<1>3. next_run_time'[p] = IF delayed_tasks[p] = {} THEN PlusInfinity
                           ELSE IF p \in Threads THEN now + (post[u].due - FloorMillis(now))
                           ELSE post[u].due
  BY DEF EndsRun, ThreadTypes
<1>4. p \in Threads => \A t \in delayed_tasks[p] : ~(post[t].due <= now)
  BY DEF EndsRun, HasDue
<1> HIDE DEF u
<1>5. CASE delayed_tasks[p] # {}
  <2>1. u \in delayed_tasks[p] /\ post[u].due \in Nat
    BY <1>1, <1>2, <1>5
  <2>2. next_run_time'[p] = IF p \in Threads THEN now + (post[u].due - FloorMillis(now))
                            ELSE post[u].due
    BY <1>3, <1>5
  <2>3. /\ next_run_time'[p] \in Int
        /\ post[u].due <= next_run_time'[p] /\ next_run_time'[p] < post[u].due + Millis
    BY <1>1, <2>1, <2>2
  <2>4. \A t \in delayed_tasks[p] : next_run_time'[p] < post[t].due + Millis
    BY <1>1, <1>2, <1>5, <2>1, <2>3
  <2>5. \A t \in delayed_tasks[p] : post[t].due <= now => next_run_time'[p] <= now
    <3>1. CASE p \in Threads
      BY <1>4, <3>1
    <3>2. CASE p \notin Threads
      BY <1>1, <1>2, <1>5, <2>1, <2>2, <3>2
    <3> QED
      BY <3>1, <3>2
  <2> QED
    BY <1>5, <2>1, <2>3, <2>4, <2>5
<1> QED
  BY <1>3, <1>5

\* A step that is about another queue, or about none.
LEMMA OtherQueue ==
  ASSUME ThreadTypes, NEW p \in Queues, DataEffect, ~Concerns(p)
  PROVE  /\ ready_tasks'[p] = ready_tasks[p] /\ delayed_tasks'[p] = delayed_tasks[p]
         /\ next_run_time'[p] = next_run_time[p]
         /\ \A t \in delayed_tasks[p] : post'[t] = post[t]
         /\ p \in quitting => p \in quitting'
         /\ now' = now \/ (stack = <<>> /\ now <= now')
<1>1. \A t \in delayed_tasks[p] : t # posted + 1 /\ t \in Task
  BY ThreadNumbers
<1>2. CASE Idles /\ quitting \subseteq quitting'
  BY <1>2 DEF Idles, queueVars
<1>3. ASSUME NEW q \in Queues, q # p, MovesFirst(q) \/ TakesTask(q) \/ EndsRun(q),
             quitting' = quitting
      PROVE  /\ ready_tasks'[p] = ready_tasks[p] /\ delayed_tasks'[p] = delayed_tasks[p]
             /\ next_run_time'[p] = next_run_time[p] /\ post' = post /\ now' = now
  BY <1>1, <1>3 DEF ThreadTypes, MovesFirst, TakesTask, EndsRun
<1>4. ASSUME NEW q \in Queues, q # p,
             PostsTask(q) \/ PostsInVain(q) \/ \E due \in Time : PostsDelayed(q, due)
      PROVE  /\ ready_tasks'[p] = ready_tasks[p] /\ delayed_tasks'[p] = delayed_tasks[p]
             /\ next_run_time'[p] = next_run_time[p]
             /\ \A t \in delayed_tasks[p] : post'[t] = post[t]
             /\ now' = now
  BY <1>1, <1>4 DEF ThreadTypes, PostsTask, Enqueue, PostsInVain, ThrowsAway, PostsDelayed
<1>5. ASSUME NEW q \in Queues, q # p, Deletes(q),
             quitting' \in {quitting, quitting \ {q}}
      PROVE  /\ ready_tasks'[p] = ready_tasks[p] /\ delayed_tasks'[p] = delayed_tasks[p]
             /\ next_run_time'[p] = next_run_time[p] /\ post' = post /\ now' = now
             /\ p \in quitting => p \in quitting'
  BY <1>1, <1>5 DEF ThreadTypes, Deletes
<1>6. ASSUME NEW q \in Queues, Concerns(q),
             quitting' = quitting \/ (Deletes(q) /\ quitting' = quitting \ {q})
      PROVE  /\ ready_tasks'[p] = ready_tasks[p] /\ delayed_tasks'[p] = delayed_tasks[p]
             /\ next_run_time'[p] = next_run_time[p]
             /\ \A t \in delayed_tasks[p] : post'[t] = post[t]
             /\ p \in quitting => p \in quitting'
             /\ now' = now
  <2>1. q # p
    BY <1>6
  <2>2. CASE Deletes(q)
    BY <1>5, <1>6, <2>1, <2>2
  <2>3. CASE quitting' = quitting /\ (MovesFirst(q) \/ TakesTask(q) \/ EndsRun(q))
    BY <1>3, <2>1, <2>3
  <2>4. CASE /\ quitting' = quitting
             /\ PostsTask(q) \/ PostsInVain(q) \/ \E due \in Time : PostsDelayed(q, due)
    BY <1>4, <2>1, <2>4
  <2> QED
    BY <1>6, <2>2, <2>3, <2>4 DEF Concerns
<1> QED
  BY <1>2, <1>6 DEF DataEffect

\* What the steps about a queue make of its next run time.
LEMMA PostedOnTime ==
  ASSUME ThreadTypes, NEW p \in Queues, NEW due \in Time, PostsDelayed(p, due)
  PROVE  /\ delayed_tasks'[p] = delayed_tasks[p] \cup {posted + 1}
         /\ post'[posted + 1].due = due /\ \A t \in delayed_tasks[p] : post'[t] = post[t]
         /\ next_run_time'[p] <= next_run_time[p] /\ next_run_time'[p] <= due
         /\ next_run_time'[p] \in {next_run_time[p], due}
         /\ due \in Nat /\ next_run_time'[p] \in Int
<1>1. /\ next_run_time[p] \in Int /\ due \in Nat
      /\ \A t \in delayed_tasks[p] : t # posted + 1 /\ t \in Task
  BY ThreadNumbers, SimConstants DEF Time
<1>2. posted + 1 \in Task
  BY SimConstants DEF PostsDelayed, ThreadTypes, Task
<1>3. next_run_time'[p] = IF next_run_time[p] <= due THEN next_run_time[p] ELSE due
  BY <1>1 DEF PostsDelayed, ThreadTypes
<1>4. /\ delayed_tasks'[p] = delayed_tasks[p] \cup {posted + 1}
      /\ post'[posted + 1].due = due /\ \A t \in delayed_tasks[p] : post'[t] = post[t]
  BY <1>1, <1>2 DEF PostsDelayed, ThreadTypes
<1> QED
  BY <1>1, <1>3, <1>4

LEMMA TopInRunReady ==
  ASSUME ThreadStack(stack), stack # <<>>, IsRunReady(Last(stack))
  PROVE  InRunReady(stack, Last(stack).q)
<1>1. Last(stack) = stack[Len(stack)] /\ Len(stack) \in DOMAIN stack
  BY PopThread
<1> QED
  BY <1>1 DEF InRunReady

LEMMA TurnIsTaken ==
  ASSUME ThreadStack(stack), TurnTaken(stack, ready_runners), Top("RunTasks")
  PROVE  Last(stack).q \notin ready_runners
<1>1. /\ Last(stack) = stack[Len(stack)] /\ Len(stack) \in DOMAIN stack
      /\ DOMAIN stack = 1..Len(stack) /\ Len(stack) \in Nat
  BY PopThread DEF Top
<1>2. IsRunReady(Last(stack)) /\ \A j \in DOMAIN stack : ~(Len(stack) < j)
  BY <1>1 DEF Top, IsRunReady
<1> QED
  BY <1>1, <1>2 DEF TurnTaken

LEMMA RunnersGrow ==
  ASSUME StackEffect, RoundsEnd(stack, ready_runners), NEW p \in ready_runners'
  PROVE  \/ p \in ready_runners
         \/ next_run_time[p] <= now /\ UNCHANGED <<now, queueVars>>
BY DEF StackEffect, Pops, Stays, LoopsOn, StartsTask, RunsAll, StartsWait, StartsSend, FromLoop,
       TakesTurn, RoundsEnd

LEMMA OnTimeStep ==
  ASSUME ThreadInv, ThreadInv', StackEffect, DataEffect, TurnInv,
         NEW p \in Queues, OnTime(p)
  PROVE  OnTime(p)'
<1>0. /\ now \in Nat /\ PlusInfinity \in Nat /\ Millis \in Nat \ {0}
      /\ next_run_time[p] \in Int /\ next_run_time'[p] \in Int /\ MinusInfinity = -1
      /\ now' \in Nat /\ now <= now'
      /\ \A t \in delayed_tasks[p] : post[t].due \in Nat
  <2>1. /\ now \in Nat /\ PlusInfinity \in Nat /\ Millis \in Nat \ {0}
        /\ next_run_time[p] \in Int /\ MinusInfinity = -1
        /\ \A t \in delayed_tasks[p] : post[t].due \in Nat
    BY ThreadNumbers DEF ThreadInv
  <2>2. now' \in Nat /\ next_run_time'[p] \in Int
    BY <2>1, SimConstants DEF ThreadInv, ThreadTypes, Time
  <2>3. now <= now'
    <3>1. ASSUME NEW q \in Queues, Concerns(q) PROVE now' = now
      BY <3>1 DEF Concerns, MovesFirst, TakesTask, EndsRun, PostsTask, PostsInVain, PostsDelayed,
         Deletes
    <3> QED
      BY <2>1, <2>2, <3>1 DEF DataEffect, Idles
  <2> QED
    BY <2>1, <2>2, <2>3
<1>1. ThreadTypes
  BY DEF ThreadInv
\* In RunReady, or about to be: the step is the first of RunReady, or goes on with it.
<1>2. ASSUME InRunReady(stack', p) PROVE InRunReady(stack, p) \/ TakesTurn(p)
  BY <1>2, RunReadyBegins
<1>3. ASSUME p \in ready_runners'
      PROVE  \/ p \in ready_runners
             \/ next_run_time[p] <= now /\ UNCHANGED <<now, queueVars>>
  BY <1>3, RunnersGrow DEF TurnInv
<1>4. TakesTurn(p) => next_run_time[p] <= now /\ UNCHANGED <<now, queueVars>>
  BY DEF TakesTurn, OnTime
<1>5. CASE UNCHANGED <<now, queueVars>> /\ next_run_time[p] <= now
  <2>1. /\ ready_tasks' = ready_tasks /\ delayed_tasks' = delayed_tasks
        /\ next_run_time' = next_run_time /\ post' = post /\ now' = now
    BY <1>5 DEF queueVars
  <2> QED
    BY <1>5, <2>1 DEF OnTime
<1>6. SUFFICES ASSUME InRunReady(stack', p) => InRunReady(stack, p),
                      p \in ready_runners' => p \in ready_runners
               PROVE  OnTime(p)'
  BY <1>2, <1>3, <1>4, <1>5
<1>7. ASSUME /\ ready_tasks'[p] = ready_tasks[p] /\ delayed_tasks'[p] = delayed_tasks[p]
             /\ next_run_time'[p] = next_run_time[p]
             /\ \A t \in delayed_tasks[p] : post'[t] = post[t]
             /\ now' = now \/ (stack = <<>> /\ now <= now')
      PROVE  OnTime(p)'
  <2>1. ready_tasks'[p] # <<>> => next_run_time'[p] <= now'
    BY <1>0, <1>7 DEF OnTime
  <2>2. \A t \in delayed_tasks'[p] : next_run_time'[p] < post'[t].due + Millis
    BY <1>7 DEF OnTime
  <2>3. InRunReady(stack', p) =>
          \A t \in delayed_tasks'[p] : post'[t].due <= now' => next_run_time'[p] <= now'
    <3>1. stack = <<>> => ~InRunReady(stack, p)
      BY DEF InRunReady
    <3> QED
      BY <1>6, <1>7, <3>1 DEF OnTime
  <2>4. p \in ready_runners' => next_run_time'[p] <= now'
    BY <1>0, <1>6, <1>7 DEF OnTime
  <2> QED
    BY <2>1, <2>2, <2>3, <2>4 DEF OnTime
<1>8. CASE MovesFirst(p)
  <2>1. InRunReady(stack, p)
    BY <1>8, TopInRunReady DEF MovesFirst, ThreadInv
  <2>2. next_run_time[p] <= now
    BY <1>8, <2>1 DEF MovesFirst, HasDue, OnTime
  <2>3. /\ next_run_time' = next_run_time /\ now' = now /\ post' = post
        /\ delayed_tasks'[p] \subseteq delayed_tasks[p]
    BY <1>0, <1>1, <1>8 DEF MovesFirst, ThreadTypes
  <2> QED
    BY <2>2, <2>3 DEF OnTime
<1>9. CASE TakesTask(p)
  <2>1. next_run_time[p] <= now
    BY <1>9 DEF TakesTask, OnTime
  <2>2. /\ next_run_time' = next_run_time /\ now' = now /\ post' = post
        /\ delayed_tasks' = delayed_tasks
    BY <1>9 DEF TakesTask
  <2> QED
    BY <2>1, <2>2 DEF OnTime
<1>10. CASE EndsRun(p)
  <2>1. p \notin ready_runners
    BY <1>10, TurnIsTaken DEF EndsRun, ThreadInv, TurnInv
  <2>2. /\ \A t \in delayed_tasks[p] : next_run_time'[p] < post[t].due + Millis
        /\ \A t \in delayed_tasks[p] : post[t].due <= now => next_run_time'[p] <= now
    BY <1>1, <1>10, RunEnds
  <2>3. /\ ready_tasks' = ready_tasks /\ ready_tasks[p] = <<>> /\ now' = now /\ post' = post
        /\ delayed_tasks' = delayed_tasks
    BY <1>10 DEF EndsRun
  <2> QED
    BY <1>6, <2>1, <2>2, <2>3 DEF OnTime
<1>11. ASSUME next_run_time'[p] = MinusInfinity, now' = now,
              \A t \in delayed_tasks'[p] : post'[t].due \in Nat
       PROVE  OnTime(p)'
  <2>1. next_run_time'[p] <= now'
    BY <1>0, <1>11
  <2>2. \A t \in delayed_tasks'[p] : next_run_time'[p] < post'[t].due + Millis
    BY <1>0, <1>11
  <2> QED
    BY <2>1, <2>2 DEF OnTime
<1>12. \A t \in delayed_tasks'[p] : post'[t].due \in Nat
  <2>1. ThreadTypes'
    BY DEF ThreadInv
  <2>2. \A t \in Task : post'[t].due \in Nat
    BY <2>1, SimConstants DEF ThreadTypes, Time
  <2> QED
    BY <1>0, <2>1, <2>2 DEF ThreadTypes
<1>13. CASE PostsTask(p) \/ PostsInVain(p)
  <2>1. next_run_time'[p] = MinusInfinity /\ now' = now
    BY <1>0, <1>1, <1>13 DEF PostsTask, Enqueue, PostsInVain, ThreadTypes
  <2> QED
    BY <1>11, <1>12, <2>1
<1>14. ASSUME NEW due \in Time, PostsDelayed(p, due) PROVE OnTime(p)'
  <2>1. /\ delayed_tasks'[p] = delayed_tasks[p] \cup {posted + 1}
        /\ post'[posted + 1].due = due /\ \A t \in delayed_tasks[p] : post'[t] = post[t]
        /\ next_run_time'[p] <= next_run_time[p] /\ next_run_time'[p] <= due
        /\ due \in Nat
    BY <1>1, <1>14, PostedOnTime
  <2>2. ready_tasks' = ready_tasks /\ now' = now
    BY <1>14 DEF PostsDelayed
  <2>3. ready_tasks'[p] # <<>> => next_run_time'[p] <= now'
    BY <1>0, <2>1, <2>2 DEF OnTime
  <2>4. \A t \in delayed_tasks'[p] : next_run_time'[p] < post'[t].due + Millis
    <3>1. \A t \in delayed_tasks[p] : next_run_time'[p] < post'[t].due + Millis
      BY <1>0, <2>1 DEF OnTime
    <3>2. next_run_time'[p] < due + Millis
      BY <1>0, <2>1
    <3> QED
      BY <2>1, <3>1, <3>2
  <2>5. InRunReady(stack', p) =>
          \A t \in delayed_tasks'[p] : post'[t].due <= now' => next_run_time'[p] <= now'
    <3>1. SUFFICES ASSUME InRunReady(stack', p), NEW t \in delayed_tasks'[p],
                          post'[t].due <= now'
                   PROVE  next_run_time'[p] <= now'
      OBVIOUS
    <3>2. CASE t = posted + 1
      BY <1>0, <2>1, <2>2, <3>1, <3>2
    <3>3. CASE t \in delayed_tasks[p]
      <4>1. next_run_time[p] <= now
        BY <1>6, <2>1, <2>2, <3>1, <3>3 DEF OnTime
      <4> QED
        BY <1>0, <2>1, <2>2, <4>1
    <3> QED
      BY <2>1, <3>1, <3>2, <3>3
  <2>6. p \in ready_runners' => next_run_time'[p] <= now'
    BY <1>0, <1>6, <2>1, <2>2 DEF OnTime
  <2> QED
    BY <2>3, <2>4, <2>5, <2>6 DEF OnTime
<1>15. CASE Deletes(p)
  <2>1. /\ p \notin ready_runners' /\ ready_tasks'[p] = <<>> /\ delayed_tasks'[p] = {}
    BY <1>0, <1>1, <1>15 DEF Deletes, ThreadTypes
  <2> QED
    BY <2>1 DEF OnTime
<1>16. CASE ~Concerns(p)
  BY <1>1, <1>7, <1>16, OtherQueue
<1> QED
  BY <1>8, <1>9, <1>10, <1>13, <1>14, <1>15, <1>16 DEF Concerns

LEMMA NotEarlyStep ==
  ASSUME ThreadInv, ThreadInv', StackEffect, DataEffect, NEW p \in Queues, NotEarly(p)
  PROVE  NotEarly(p)'
<1>0. /\ ThreadTypes
      /\ next_run_time[p] \in Int /\ PlusInfinity \in Nat
      /\ \A t \in delayed_tasks[p] : post[t].due \in Nat
  BY ThreadNumbers DEF ThreadInv
<1>1. SUFFICES ASSUME ~InRunReady(stack', p), ~EndsRun(p) PROVE NotEarly(p)'
  <2>1. CASE EndsRun(p)
    <3>1. delayed_tasks' = delayed_tasks /\ post' = post
      BY <2>1 DEF EndsRun
    <3>2. \/ next_run_time'[p] = PlusInfinity
          \/ \E t \in delayed_tasks[p] : post[t].due <= next_run_time'[p]
      BY <1>0, <2>1, RunEnds
    <3> QED
      BY <1>0, <3>1, <3>2 DEF NotEarly
  <2>2. CASE InRunReady(stack', p)
    BY <2>2 DEF NotEarly
  <2> QED
    BY <2>1, <2>2
<1>2. ~InRunReady(stack, p)
  BY <1>1, RunReadyEnds
<1>3. ~MovesFirst(p) /\ ~TakesTask(p)
  BY <1>2, TopInRunReady DEF MovesFirst, TakesTask, Top, IsRunReady, ThreadInv
<1>4. CASE ~Concerns(p)
  <2>1. /\ ready_tasks'[p] = ready_tasks[p] /\ delayed_tasks'[p] = delayed_tasks[p]
        /\ next_run_time'[p] = next_run_time[p]
        /\ \A t \in delayed_tasks[p] : post'[t] = post[t]
        /\ p \in quitting => p \in quitting'
    BY <1>0, <1>4, OtherQueue
  <2> QED
    BY <1>2, <2>1 DEF NotEarly
<1>5. CASE PostsTask(p)
  <2>1. ready_tasks'[p] = Append(ready_tasks[p], posted + 1) /\ ready_tasks[p] \in Seq(Task)
    BY <1>0, <1>5 DEF PostsTask, Enqueue, ThreadTypes
  <2>2. ready_tasks'[p] # <<>>
    BY <2>1
  <2> QED
    BY <2>2 DEF NotEarly
<1>6. CASE Deletes(p)
  <2>1. next_run_time'[p] = PlusInfinity
    BY <1>0, <1>6 DEF Deletes, ThreadTypes
  <2> QED
    BY <1>0, <2>1 DEF NotEarly
<1>7. CASE PostsInVain(p) /\ ~Deletes(p)
  <2>1. p \in quitting
    BY <1>7 DEF PostsInVain
  <2>2. p \in quitting'
    BY <1>7, <2>1 DEF DataEffect
  <2> QED
    BY <2>2 DEF NotEarly
<1>8. ASSUME NEW due \in Time, PostsDelayed(p, due), ~Deletes(p) PROVE NotEarly(p)'
  <2>1. /\ delayed_tasks'[p] = delayed_tasks[p] \cup {posted + 1}
        /\ post'[posted + 1].due = due /\ \A t \in delayed_tasks[p] : post'[t] = post[t]
        /\ next_run_time'[p] \in {next_run_time[p], due} /\ due \in Nat
    BY <1>0, <1>8, PostedOnTime
  <2>2. ready_tasks' = ready_tasks
    BY <1>8 DEF PostsDelayed
  <2>3. CASE next_run_time'[p] = due
    BY <2>1, <2>3 DEF NotEarly
  <2>4. CASE next_run_time'[p] = next_run_time[p]
    <3>1. p \in quitting => p \in quitting'
      <4>1. ASSUME NEW q \in Queues PROVE ~Deletes(q)
        BY <1>0, <1>8 DEF PostsDelayed, Deletes, ThreadTypes
      <4> QED
        BY <4>1 DEF DataEffect
    <3> QED
      BY <1>2, <2>1, <2>2, <2>4, <3>1 DEF NotEarly
  <2> QED
    BY <2>1, <2>3, <2>4
<1> QED
  BY <1>1, <1>3, <1>4, <1>5, <1>6, <1>7, <1>8 DEF Concerns

LEMMA RunTimesStep ==
  ASSUME ThreadInv, TurnInv, RunTimes, [ThreadNext]_threadVars
  PROVE  ThreadInv' /\ TurnInv' /\ RunTimes'
<1>1. ThreadInv' /\ StackEffect /\ DataEffect
  BY ThreadInvStep, EffectOnStack, DataEffects
<1>2. TurnInv'
  BY <1>1, TurnStep DEF TurnInv, ThreadInv
<1>3. \A p \in Queues : OnTime(p)' /\ NotEarly(p)'
  BY <1>1, OnTimeStep, NotEarlyStep DEF RunTimes
<1> QED
  BY <1>1, <1>2, <1>3 DEF RunTimes

LEMMA InitRunTimes == Init /\ quitting = {} => ThreadInv /\ TurnInv /\ RunTimes
<1>1. SUFFICES ASSUME Init PROVE TurnInv /\ RunTimes
  BY InitThread
<1>2. TurnInv
  BY <1>1 DEF Init, TurnInv, TurnTaken, RoundsEnd
<1>3. ASSUME NEW p \in Queues PROVE OnTime(p) /\ NotEarly(p)
  <2>1. /\ ready_tasks[p] = <<>> /\ delayed_tasks[p] = {} /\ ready_runners = {}
        /\ next_run_time[p] = PlusInfinity
    BY <1>1 DEF Init
  <2> QED
    BY <2>1, SimConstants DEF OnTime, NotEarly
<1> QED
  BY <1>2, <1>3 DEF RunTimes

\* Min picks one of the times, and none is less.
LEMMA RunTimesGive == ThreadInv /\ RunTimes => ThreadNextRunTime
<1>1. SUFFICES ASSUME ThreadInv, RunTimes, NEW th \in Threads
               PROVE  LET earliest == Min({post[t].due : t \in delayed_tasks[th]} \cup {PlusInfinity})
                      IN  /\ ready_tasks[th] # <<>> => next_run_time[th] <= now
                          /\ delayed_tasks[th] # {} => next_run_time[th] < earliest + Millis
                          /\ ~OnStack(th) /\ ready_tasks[th] = <<>> /\ th \notin quitting
                               => next_run_time[th] >= earliest
  BY DEF ThreadNextRunTime
<1> DEFINE S == {post[t].due : t \in delayed_tasks[th]} \cup {PlusInfinity}
           e == Min(S)
<1>2. /\ next_run_time[th] \in Int /\ PlusInfinity \in Nat /\ Millis \in Nat
      /\ \A t \in delayed_tasks[th] : post[t].due \in Nat /\ post[t].due < PlusInfinity
  BY <1>1, ThreadNumbers, ThreadConstants DEF ThreadInv
<1>3. S \in SUBSET Nat /\ PlusInfinity \in S
  BY <1>2
<1>4. \A t \in delayed_tasks[th] : post[t].due \in S
  OBVIOUS
<1>5. \A x \in S : x = PlusInfinity \/ \E t \in delayed_tasks[th] : x = post[t].due
  OBVIOUS
<1>6. e \in S /\ (\A y \in S : e <= y) /\ e \in Nat
  <2> HIDE DEF S
  <2> QED
    BY <1>3, MinIsLeast
<1> HIDE DEF S
<1>7. OnTime(th) /\ NotEarly(th)
  BY <1>1, ThreadConstants DEF RunTimes
<1>8. delayed_tasks[th] # {} => next_run_time[th] < e + Millis
  <2>1. SUFFICES ASSUME delayed_tasks[th] # {} PROVE next_run_time[th] < e + Millis
    OBVIOUS
  <2>2. e # PlusInfinity
    <3>1. PICK t \in delayed_tasks[th] : TRUE
      BY <2>1
    <3>2. e <= post[t].due /\ post[t].due < PlusInfinity /\ post[t].due \in Nat
      BY <1>2, <1>4, <1>6
    <3> QED
      BY <1>2, <1>6, <3>2
  <2>3. PICK t \in delayed_tasks[th] : e = post[t].due
    BY <1>5, <1>6, <2>2
  <2> QED
    BY <1>7, <2>3 DEF OnTime
<1>9. ~OnStack(th) /\ ready_tasks[th] = <<>> /\ th \notin quitting => next_run_time[th] >= e
  <2>1. InRunReady(stack, th) => OnStack(th)
    BY DEF InRunReady, OnStack, IsRunReady
  <2>2. CASE PlusInfinity <= next_run_time[th]
    BY <1>2, <1>3, <1>6, <2>2
  <2>3. ASSUME NEW t \in delayed_tasks[th], post[t].due <= next_run_time[th]
        PROVE  next_run_time[th] >= e
    BY <1>2, <1>4, <1>6, <2>3
  <2> QED
    BY <1>7, <2>1, <2>2, <2>3 DEF NotEarly
<1>10. ready_tasks[th] # <<>> => next_run_time[th] <= now
  BY <1>7 DEF OnTime
<1> QED
  BY <1>8, <1>9, <1>10 DEF S

\* A SimulatedThread is run for a delayed message less than a millisecond after it
\* is due, for none that is not there and for every one that may run at once, for
\* any program that posts to it, sends to it, stops it and deletes it, and however
\* the calls nest.
THEOREM ThreadNextRunTimeCorrect == ThreadSpec => []ThreadNextRunTime
<1>1. ThreadInv /\ TurnInv /\ RunTimes /\ [ThreadNext]_threadVars
        => (ThreadInv /\ TurnInv /\ RunTimes)'
  BY RunTimesStep
<1> QED
  BY InitRunTimes, <1>1, RunTimesGive, PTL DEF ThreadSpec
------------------------------------------------------------------------------
(* Who has yielded *)

\* A thread that queues or other threads use Send for does not wait itself: the
\* handlers of the messages sent to it neither send nor block.
SendsToLeaves ==
  \A x \in ThreadSends : \A y \in SendPairs \cup ThreadSends : x[1] # Main => x[2] # y[1]

\* yielded_ has the queues of the waiting frames, each once; a queue that waits is
\* not run, so it is neither collected nor on the stack above its wait.
Yields(s, y, r) ==
  /\ \A i \in DOMAIN s : IsWaiting(s[i]) => s[i].q \in y
  /\ \A q \in y : \E i \in DOMAIN s : IsWaiting(s[i]) /\ s[i].q = q
  /\ \A i, j \in DOMAIN s : IsWaiting(s[i]) /\ IsWaiting(s[j]) /\ s[i].q = s[j].q => i = j
  /\ \A i, j \in DOMAIN s : i < j /\ IsWaiting(s[i]) /\ IsRunReady(s[j]) => s[i].q # s[j].q
  /\ r \cap y = {}

\* Code that may wait runs neither on a queue that waits nor on one that is about
\* to be run.
LEMMA MayYield ==
  ASSUME SendsToLeaves, ThreadInv, TurnInv, Yields(stack, yielded, ready_runners),
         CodeRuns, NEW th, <<Last(stack).q, th>> \in SendPairs \cup ThreadSends
  PROVE  Last(stack).q \notin yielded /\ Last(stack).q \notin ready_runners
<1> DEFINE n == Len(stack)
           from == Last(stack).q
<1>0. /\ n \in Nat \ {0} /\ DOMAIN stack = 1..n /\ Last(stack) = stack[n]
      /\ stack[n].fn \in {"Task", "Event"} /\ stack[n].q = from
      /\ stack[1].fn \in {"OnTaskTimer", "Event"} /\ stack[1].q = Main
      /\ \A i \in 2..n : ThreadFits(stack[i - 1], stack[i])
      /\ ready_runners \subseteq Queues
  BY PopThread DEF ThreadInv, ThreadTypes, ThreadStack, CodeRuns, Top
<1> HIDE DEF n
<1>1. CASE n = 1
  <2>1. from = Main /\ \A i \in DOMAIN stack : ~IsWaiting(stack[i])
    BY <1>0, <1>1 DEF IsWaiting
  <2> QED
    BY <1>0, <2>1, SimConstants DEF Yields
<1>2. CASE n > 1
  <2>1. n \in 2..n /\ n - 1 \in 1..n /\ ThreadFits(stack[n - 1], stack[n])
    BY <1>0, <1>2
  <2>2. stack[n].fn = "Task" /\ from \in Queues
    BY <1>0, <2>1 DEF ThreadFits, Fits
  <2>3. CASE stack[n - 1].fn = "RunTasks" /\ stack[n - 1].q = from
    <3>1. ASSUME NEW i \in 1..n, IsWaiting(stack[i]), stack[i].q = from PROVE FALSE
      <4>1. i # n /\ i # n - 1
        BY <2>2, <2>3, <3>1 DEF IsWaiting
      <4>2. i < n - 1
        BY <1>0, <4>1
      <4> QED
        BY <1>0, <2>1, <2>3, <3>1, <4>2 DEF Yields, IsRunReady
    <3>2. from \notin yielded
      BY <1>0, <3>1 DEF Yields
    <3>3. \A j \in 1..n : n - 1 < j => j = n
      BY <1>0
    <3>4. from \notin ready_runners
      BY <1>0, <2>1, <2>2, <2>3, <3>3 DEF TurnInv, TurnTaken, IsRunReady
    <3> QED
      BY <3>2, <3>4
  <2>4. CASE stack[n - 1].fn = "Send" /\ <<stack[n - 1].q, from>> \in ThreadSends
    <3>1. stack[n - 1].q = Main
      <4>1. SUFFICES ASSUME stack[n - 1].q # Main PROVE FALSE
        OBVIOUS
      <4> DEFINE x == <<stack[n - 1].q, from>>
                 y == <<from, th>>
      <4>2. x \in ThreadSends /\ y \in SendPairs \cup ThreadSends
            /\ x[1] # Main /\ x[2] = y[1]
        BY <2>4, <4>1
      <4> HIDE DEF x, y
      <4> QED
        BY <4>2 DEF SendsToLeaves
    <3>2. n - 1 \in 2..n
      <4>1. n - 1 # 1
        BY <1>0, <2>4
      <4> QED
        BY <1>0, <1>2, <4>1
    <3>3. ThreadFits(stack[n - 1 - 1], stack[n - 1])
      BY <1>0, <3>2
    <3>4. stack[n - 1 - 1].fn \in {"Task", "Event"} /\ stack[n - 1 - 1].q = Main
      BY <2>4, <3>1, <3>3 DEF ThreadFits, Fits
    <3>5. n - 1 - 1 \notin 2..n
      <4>1. SUFFICES ASSUME n - 1 - 1 \in 2..n PROVE FALSE
        OBVIOUS
      <4>2. ThreadFits(stack[n - 1 - 1 - 1], stack[n - 1 - 1])
        BY <1>0, <4>1
      <4> QED
        BY <3>4, <4>2, SimConstants DEF ThreadFits, Fits
    <3>6. n = 3
      BY <1>0, <3>2, <3>5
    <3>7. stack[1].fn = "Event" /\ stack[2].fn = "Send" /\ stack[2].q = Main
          /\ stack[3].fn = "Task"
      BY <1>0, <2>2, <2>4, <3>1, <3>4, <3>6
    <3>8. \A i \in 1..n : IsWaiting(stack[i]) => stack[i].q = Main
      BY <3>6, <3>7 DEF IsWaiting
    <3>9. ready_runners = {}
      BY <1>0, <3>6, <3>7 DEF TurnInv, RoundsEnd
    <3> QED
      BY <1>0, <2>2, <3>8, <3>9, SimConstants DEF Yields
  <2> QED
    BY <1>0, <2>1, <2>2, <2>3, <2>4 DEF ThreadFits, Fits
<1> QED
  BY <1>0, <1>1, <1>2

LEMMA YieldsStep ==
  ASSUME SendsToLeaves, ThreadInv, ThreadInv', TurnInv, StackEffect,
         Yields(stack, yielded, ready_runners)
  PROVE  Yields(stack', yielded', ready_runners')
<1> DEFINE n == Len(stack)
           m == Len(stack')
           Goal == Yields(stack', yielded', ready_runners')
<1>0. /\ n \in Nat /\ m \in Nat /\ DOMAIN stack = 1..n /\ DOMAIN stack' = 1..m
      /\ (stack # <<>> => Last(stack) = stack[n])
      /\ (stack # <<>> => n > 0)
  BY StackGrows DEF ThreadInv
<1> HIDE DEF n, m, Goal
<1>1. CASE Pops /\ m = n - 1 /\ n > 0 /\ \A i \in 1..(n - 1) : stack'[i] = stack[i]
  <2>1. /\ \A i \in 1..m : stack'[i] = stack[i] /\ i \in 1..n /\ i # n
        /\ \A i \in 1..n : i = n \/ i \in 1..m
        /\ n \in 1..n
    BY <1>0, <1>1
  <2>2. /\ ready_runners' = ready_runners /\ Last(stack) = stack[n]
        /\ yielded' = IF IsWaiting(stack[n]) THEN yielded \ {stack[n].q} ELSE yielded
    BY <1>0, <1>1 DEF Pops
  <2> QED
    BY <1>0, <2>1, <2>2 DEF Goal, Yields
<1>2. CASE Stays
  <2>1. /\ stack' = stack /\ yielded' = yielded
        /\ ready_runners' \subseteq ready_runners \/ ready_runners' \cap yielded = {}
    BY <1>2 DEF Stays
  <2> QED
    BY <2>1 DEF Goal, Yields
<1>3. ASSUME NEW f \in ThreadFrame, f.fn = "RunTasks", f.q = stack[n].q, n > 0, LoopsOn, Grows(n - 1, f)
      PROVE  Goal
  <2>1. /\ ready_runners' = ready_runners /\ yielded' = yielded /\ stack[n].fn = "MoveDue"
        /\ m = n /\ stack'[n] = f /\ \A i \in 1..(n - 1) : stack'[i] = stack[i]
    BY <1>0, <1>3 DEF LoopsOn, Top, Grows, m
  <2>2. \A i \in 1..n : /\ stack'[i].q = stack[i].q
                        /\ IsRunReady(stack'[i]) <=> IsRunReady(stack[i])
                        /\ IsWaiting(stack'[i]) <=> IsWaiting(stack[i])
    <3>1. ASSUME NEW i \in 1..n, i # n PROVE stack'[i] = stack[i]
      BY <1>0, <2>1, <3>1
    <3> QED
      BY <1>3, <2>1, <3>1 DEF IsRunReady, IsWaiting
  <2> QED
    BY <1>0, <2>1, <2>2 DEF Goal, Yields
<1>4. ASSUME NEW f \in ThreadFrame, ~IsWaiting(f), Grows(n, f), yielded' = yielded,
             ready_runners' \subseteq ready_runners,
             IsRunReady(f) => f.q \notin yielded
      PROVE  Goal
  <2>1. /\ m = n + 1 /\ stack'[m] = f /\ \A i \in 1..n : stack'[i] = stack[i] /\ i \in 1..m
        /\ \A i \in 1..m : i = m \/ i \in 1..n
        /\ \A i \in 1..m : ~(m < i)
    BY <1>0, <1>4 DEF Grows, m
  <2> QED
    BY <1>0, <1>4, <2>1 DEF Goal, Yields
<1>5. ASSUME NEW f \in ThreadFrame, NEW g \in ThreadFrame, IsWaiting(f), ~IsWaiting(g),
             ~IsRunReady(f), ~IsRunReady(g), f.q \notin yielded,
             GrowsTwice(n, f, g), yielded' = yielded \cup {f.q},
             ready_runners' \subseteq ready_runners, f.q \notin ready_runners'
      PROVE  Goal
  <2>1. /\ m = n + 2 /\ stack'[n + 1] = f /\ stack'[n + 2] = g
        /\ \A i \in 1..n : stack'[i] = stack[i] /\ i \in 1..m
        /\ \A i \in 1..m : i = n + 1 \/ i = n + 2 \/ i \in 1..n
        /\ n + 1 \in 1..m /\ \A i \in 1..n : ~(n + 1 < i)
    BY <1>0, <1>5 DEF GrowsTwice, m
  <2>2. \A i \in 1..n : IsWaiting(stack[i]) => stack[i].q # f.q
    BY <1>0, <1>5 DEF Yields
  <2>3. /\ \A i \in 1..m : IsWaiting(stack'[i]) => stack'[i].q \in yielded'
        /\ \A q \in yielded' : \E i \in 1..m : IsWaiting(stack'[i]) /\ stack'[i].q = q
    BY <1>0, <1>5, <2>1 DEF Yields
  <2>4. \A i, j \in 1..m :
          IsWaiting(stack'[i]) /\ IsWaiting(stack'[j]) /\ stack'[i].q = stack'[j].q => i = j
    BY <1>0, <1>5, <2>1, <2>2 DEF Yields
  <2>5. \A i, j \in 1..m :
          i < j /\ IsWaiting(stack'[i]) /\ IsRunReady(stack'[j]) => stack'[i].q # stack'[j].q
    BY <1>0, <1>5, <2>1 DEF Yields
  <2>6. ready_runners' \cap yielded' = {}
    BY <1>5 DEF Yields
  <2> QED
    BY <1>0, <2>3, <2>4, <2>5, <2>6 DEF Goal, Yields
<1>6. \A f \in ThreadFrame :
        /\ f.fn \in {"Task", "RunReadyRunners"} => ~IsWaiting(f) /\ ~IsRunReady(f)
        /\ f.fn \in {"Wait", "Send"} => IsWaiting(f) /\ ~IsRunReady(f)
        /\ f.fn = "MoveDue" => ~IsWaiting(f)
  BY DEF IsWaiting, IsRunReady
<1>7. CASE LoopsOn /\ n > 0 /\ \E f \in ThreadFrame :
              f.fn = "RunTasks" /\ f.q = stack[n].q /\ Grows(n - 1, f)
  BY <1>3, <1>7 DEF Goal
<1>8. CASE StartsTask /\ \E f \in ThreadFrame : f.fn = "Task" /\ Grows(n, f)
  BY <1>4, <1>6, <1>8 DEF StartsTask, Goal
<1>9. CASE RunsAll /\ \E f \in ThreadFrame : f.fn = "RunReadyRunners" /\ Grows(n, f)
  BY <1>4, <1>6, <1>9 DEF RunsAll, Goal
<1>10. CASE \E q \in Queues : /\ TakesTurn(q) /\ n > 0
                            /\ \E f \in ThreadFrame : f.fn = "MoveDue" /\ f.q = q /\ Grows(n, f)
  BY <1>4, <1>6, <1>10 DEF TakesTurn, Yields, Goal
<1>11. CASE StartsWait /\ n > 0 /\ \E f, g \in ThreadFrame :
              /\ f.fn = "Wait" /\ f.q = stack[n].q /\ g.fn = "RunReadyRunners"
              /\ GrowsTwice(n, f, g)
  <2>1. Last(stack) = stack[n] /\ Last(stack).q \notin yielded
    BY <1>0, <1>11, MayYield DEF StartsWait, CodeRuns, Top
  <2>2. ready_runners' = {} /\ yielded' = yielded \cup {Last(stack).q}
    BY <1>11 DEF StartsWait
  <2> QED
    BY <1>5, <1>6, <1>11, <2>1, <2>2 DEF Goal
<1>12. CASE StartsSend /\ n > 0 /\ \E f, g \in ThreadFrame :
              /\ f.fn = "Send" /\ f.q = stack[n].q /\ g.fn = "Task"
              /\ GrowsTwice(n, f, g)
  <2>1. /\ Last(stack) = stack[n] /\ Last(stack).q \notin yielded
        /\ Last(stack).q \notin ready_runners
    BY <1>0, <1>12, MayYield DEF StartsSend, CodeRuns, Top
  <2>2. ready_runners' = ready_runners /\ yielded' = yielded \cup {Last(stack).q}
    BY <1>12 DEF StartsSend
  <2> QED
    BY <1>5, <1>6, <1>12, <2>1, <2>2 DEF Goal
<1>13. CASE FromLoop /\ \A i \in 1..m :
                  stack'[i].fn \in {"OnTaskTimer", "RunReadyRunners", "Event"}
  <2>1. yielded' = {} /\ \A i \in 1..m : ~IsWaiting(stack'[i]) /\ ~IsRunReady(stack'[i])
    BY <1>13 DEF FromLoop, Yields, IsWaiting, IsRunReady
  <2> QED
    BY <1>0, <2>1 DEF Goal, Yields
<1> QED
  BY <1>0, <1>1, <1>2, <1>7, <1>8, <1>9, <1>10, <1>11, <1>12, <1>13, PushedFrames
  DEF n, m, Goal, ThreadInv

\* A queue or a thread that waits, in Event::Wait or in Send, is in yielded_ once,
\* and nobody else is, if the threads that are sent to from queues do not wait
\* themselves: the checks of YieldExecution and StartYield never fail.
THEOREM YieldedOnceCorrect == SendsToLeaves /\ ThreadSpec => []YieldedOnce
<1> SUFFICES ASSUME SendsToLeaves PROVE ThreadSpec => []YieldedOnce
  OBVIOUS
<1> DEFINE Y == Yields(stack, yielded, ready_runners)
<1>1. Init /\ quitting = {} => ThreadInv /\ TurnInv /\ RunTimes /\ Y
  BY InitRunTimes DEF Init, Yields
<1>2. ThreadInv /\ TurnInv /\ RunTimes /\ Y /\ [ThreadNext]_threadVars
        => (ThreadInv /\ TurnInv /\ RunTimes /\ Y)'
  BY RunTimesStep, EffectOnStack, YieldsStep
<1>3. Y => YieldedOnce
  BY DEF Yields, YieldedOnce, IsWaiting
<1> HIDE DEF Y
<1> QED
  BY <1>1, <1>2, <1>3, PTL DEF ThreadSpec
------------------------------------------------------------------------------
(* The end of a wait *)

\* The messages a queue has were posted to it, and it is registered.
Messages(q) ==
  /\ \A t \in Has(q) : t \in 1..posted /\ post[t].q = q
  /\ \A t \in delayed_tasks[q] : post[t].delayed
  /\ Has(q) # {} => q \in Registered

AllMessages == \A q \in Queues : Messages(q)

FramesPosted == \A i \in DOMAIN stack : stack[i].fn = "Task" => stack[i].t <= posted

LEMMA PostStays ==
  ASSUME ThreadTypes, DataEffect
  PROVE  posted \in Nat /\ posted' \in Nat /\ posted <= posted'
         /\ \A t \in 1..posted : post'[t] = post[t] /\ t \in 1..posted'
<1>1. posted \in Nat /\ NumTasks \in Nat /\ 1..posted \subseteq Task /\ posted + 1 \notin 1..posted
  BY SimConstants DEF ThreadTypes, Task
<1>2. CASE UNCHANGED <<posted, post>>
  BY <1>1, <1>2
<1>3. ASSUME NEW x, posted' = posted + 1, post' = [post EXCEPT ![posted + 1] = x]
      PROVE  posted \in Nat /\ posted' \in Nat /\ posted <= posted'
             /\ \A t \in 1..posted : post'[t] = post[t] /\ t \in 1..posted'
  BY <1>1, <1>3 DEF ThreadTypes
<1>4. ASSUME NEW q \in Queues, Concerns(q)
      PROVE  posted \in Nat /\ posted' \in Nat /\ posted <= posted'
             /\ \A t \in 1..posted : post'[t] = post[t] /\ t \in 1..posted'
  <2>1. CASE MovesFirst(q) \/ TakesTask(q) \/ EndsRun(q) \/ PostsInVain(q) \/ Deletes(q)
    BY <1>2, <1>3, <2>1 DEF MovesFirst, TakesTask, EndsRun, PostsInVain, ThrowsAway, Deletes
  <2>2. CASE PostsTask(q)
    BY <1>3, <2>2 DEF PostsTask, Enqueue
  <2>3. ASSUME NEW due \in Time, PostsDelayed(q, due)
        PROVE  posted \in Nat /\ posted' \in Nat /\ posted <= posted'
               /\ \A t \in 1..posted : post'[t] = post[t] /\ t \in 1..posted'
    BY <1>3, <2>3 DEF PostsDelayed
  <2> QED
    BY <1>4, <2>1, <2>2, <2>3 DEF Concerns
<1>5. CASE Idles
  BY <1>2, <1>5 DEF Idles, queueVars
<1> QED
  BY <1>4, <1>5 DEF DataEffect

\* A queue stays registered until it is deleted, with its messages.
LEMMA RegisteredStays ==
  ASSUME ThreadTypes, [ThreadNext]_threadVars, NEW q \in Registered
  PROVE  q \in Registered' \/ Deletes(q)
<1>1. runners \in Seq(Queues)
  BY DEF ThreadTypes
<1>2. ASSUME runners' = runners PROVE q \in Registered'
  BY <1>2 DEF Registered
<1>3. ASSUME NEW th \in Threads, CreateThread(th) PROVE q \in Registered'
  <2>1. th \in Queues /\ runners' = Append(runners, th)
    BY <1>3, ThreadConstants DEF CreateThread, Keep, CreateTaskQueue
  <2> QED
    BY <1>1, <2>1, HeldAppend DEF Registered
<1>4. ASSUME NEW th \in Threads, DeleteThread(th) PROVE q \in Registered' \/ Deletes(q)
  <2>1. PICK i \in DOMAIN runners : runners[i] = th /\ runners' = RemoveAt(runners, i)
    BY <1>4 DEF DeleteThread, DeleteTaskQueue
  <2>2. PICK j \in DOMAIN runners : runners[j] = q
    BY DEF Registered, ToSet
  <2>3. CASE q = th
    BY <1>4, <2>3 DEF DeleteThread, DeleteTaskQueue, Deletes
  <2>4. CASE q # th
    <3>1. i \in 1..Len(runners) /\ j \in 1..Len(runners) /\ runners[j] # runners[i]
      BY <1>1, <2>1, <2>2, <2>4
    <3> QED
      BY <1>1, <2>1, <2>2, <3>1, RemoveAtKeeps DEF Registered
  <2> QED
    BY <2>3, <2>4
<1>5. CASE \/ Keep(FireTimer) \/ Keep(FireEvent) \/ Keep(SimulationOver)
           \/ Keep(TaskReturns) \/ Keep(EventReturns) \/ Keep(WaitReturns)
           \/ Keep(CollectReady) \/ Keep(OnTaskTimer)
  BY <1>2, <1>5
  DEF Keep, FireTimer, FireEvent, SimulationOver, TaskReturns, EventReturns, WaitReturns,
      CollectReady, OnTaskTimer, TimerAgain, TimerReturns, vars
<1>6. CASE \/ Keep(MoveDue) \/ Keep(AllMoved) \/ Keep(GetDue) \/ Keep(GetMessage)
           \/ Keep(MessagesProcessed) \/ Keep(QueueReturns) \/ Keep(SendReturns)
           \/ UNCHANGED threadVars
  BY <1>2, <1>6
  DEF Keep, MoveDue, AllMoved, GetDue, GetMessage, RunTask, MessagesProcessed, QueueReturns,
      RunReadyReturns, SendReturns, threadVars, vars
<1>7. ASSUME NEW p \in Queues,
             \/ Keep(RunReady(p)) \/ Keep(SendTask(p)) \/ Keep(PostTask(p))
             \/ \E d \in Delays : Keep(PostDelayedTask(p, d))
      PROVE  q \in Registered'
  BY <1>2, <1>7 DEF Keep, RunReady, SendTask, PostTask, PostDelayedTask
<1>8. ASSUME NEW th \in Threads,
             \/ Keep(Send(th)) \/ Keep(PostWhileQuitting(th)) \/ Stop(th)
             \/ Keep(SendWhileQuitting(th))
             \/ \E ms \in ThreadDelays : Keep(PostDelayed(th, ms))
      PROVE  q \in Registered'
  BY <1>2, <1>8 DEF Keep, Send, PostWhileQuitting, SendWhileQuitting, PostDelayed, Stop, vars
<1> QED
  BY <1>3, <1>4, <1>5, <1>6, <1>7, <1>8 DEF ThreadNext

LEMMA MessagesStep ==
  ASSUME ThreadInv, ThreadInv', AllMessages, DataEffect, [ThreadNext]_threadVars
  PROVE  AllMessages'
<1>0. /\ ThreadTypes /\ ThreadTypes'
      /\ posted \in Nat /\ posted' \in Nat /\ posted <= posted'
      /\ \A t \in 1..posted : post'[t] = post[t] /\ t \in 1..posted'
  BY PostStays DEF ThreadInv
<1>1. SUFFICES ASSUME NEW p \in Queues PROVE Messages(p)'
  BY DEF AllMessages
<1>2. Messages(p)
  BY DEF AllMessages
<1>3. ready_tasks[p] \in Seq(Task) /\ delayed_tasks[p] \subseteq Task
  BY <1>0 DEF ThreadTypes
<1>4. CASE Deletes(p)
  <2>1. ready_tasks'[p] = <<>> /\ delayed_tasks'[p] = {}
    BY <1>0, <1>4 DEF Deletes, ThreadTypes
  <2>2. Has(p)' = {}
    BY <2>1 DEF Has, Held, ToSet
  <2> QED
    BY <2>1, <2>2 DEF Messages
<1>5. Has(p) # {} /\ ~Deletes(p) => p \in Registered'
  BY <1>0, <1>2, RegisteredStays DEF Messages
<1>6. ASSUME Has(p)' \subseteq Has(p), delayed_tasks'[p] \subseteq delayed_tasks[p], ~Deletes(p)
      PROVE  Messages(p)'
  <2>1. delayed_tasks[p] \subseteq Has(p)
    BY DEF Has, Held
  <2>2. \A t \in Has(p)' : t \in 1..posted /\ post[t].q = p
    BY <1>2, <1>6 DEF Messages
  <2>3. \A t \in Has(p)' : t \in 1..posted' /\ post'[t].q = p
    BY <1>0, <2>2
  <2>4. \A t \in delayed_tasks'[p] : post'[t].delayed
    <3>1. ASSUME NEW t \in delayed_tasks'[p] PROVE post'[t].delayed
      <4>1. t \in Has(p) /\ t \in delayed_tasks[p]
        BY <1>6, <2>1, <3>1
      <4>2. t \in 1..posted /\ post[t].delayed
        BY <1>2, <4>1 DEF Messages
      <4> QED
        BY <1>0, <4>2
    <3> QED
      BY <3>1
  <2>5. Has(p)' # {} => p \in Registered'
    BY <1>5, <1>6
  <2> QED
    BY <2>3, <2>4, <2>5 DEF Messages
<1>7. CASE ~Concerns(p)
  <2>1. ready_tasks'[p] = ready_tasks[p] /\ delayed_tasks'[p] = delayed_tasks[p]
    BY <1>0, <1>7, OtherQueue
  <2>2. Has(p)' = Has(p)
    BY <2>1 DEF Has
  <2> QED
    BY <1>6, <1>7, <2>1, <2>2 DEF Concerns
<1>8. CASE MovesFirst(p) /\ ~Deletes(p)
  <2> DEFINE u == FirstDelayed(p)
  <2>1. u \in delayed_tasks[p] /\ u \in Task
    BY <1>0, <1>3, <1>8, FirstOfDelayed DEF MovesFirst, HasDue, ThreadTypes
  <2>2. /\ ready_tasks'[p] = Append(ready_tasks[p], u)
        /\ delayed_tasks'[p] = delayed_tasks[p] \ {u}
    BY <1>0, <1>8 DEF MovesFirst, ThreadTypes
  <2> HIDE DEF u
  <2>3. ToSet(ready_tasks'[p]) = ToSet(ready_tasks[p]) \cup {u}
    BY <1>3, <2>1, <2>2, HeldAppend
  <2> QED
    BY <1>6, <1>8, <2>1, <2>2, <2>3 DEF Has, Held
<1>9. CASE TakesTask(p) /\ ~Deletes(p)
  <2>1. /\ ready_tasks[p] # <<>> /\ ready_tasks'[p] = Tail(ready_tasks[p])
        /\ delayed_tasks'[p] = delayed_tasks[p]
    BY <1>0, <1>9 DEF TakesTask, ThreadTypes
  <2>2. ToSet(ready_tasks'[p]) \subseteq ToSet(ready_tasks[p])
    <3>1. ASSUME NEW r \in Seq(Task), r # <<>> PROVE ToSet(Tail(r)) \subseteq ToSet(r)
      <4>1. \A i \in DOMAIN Tail(r) : i + 1 \in DOMAIN r /\ Tail(r)[i] = r[i + 1]
        BY <3>1
      <4> QED
        BY <4>1 DEF ToSet
    <3> QED
      BY <1>3, <2>1, <3>1
  <2> QED
    BY <1>6, <1>9, <2>1, <2>2 DEF Has, Held
<1>10. CASE (EndsRun(p) \/ PostsInVain(p)) /\ ~Deletes(p)
  <2>1. ready_tasks' = ready_tasks /\ delayed_tasks' = delayed_tasks
    BY <1>10 DEF EndsRun, PostsInVain
  <2> QED
    BY <1>6, <1>10, <2>1 DEF Has
<1>11. ASSUME posted' = posted + 1, Has(p)' = Has(p) \cup {posted + 1}, p \in Registered, ~Deletes(p),
              delayed_tasks'[p] \subseteq delayed_tasks[p] \cup {posted + 1},
              post'[posted + 1].q = p,
              posted + 1 \in delayed_tasks'[p] => post'[posted + 1].delayed
       PROVE  Messages(p)'
  <2>1. \A t \in Has(p) : t \in 1..posted' /\ post'[t].q = p
    BY <1>0, <1>2 DEF Messages
  <2>2. posted + 1 \in 1..posted'
    BY <1>0, <1>11
  <2>3. ASSUME NEW t \in delayed_tasks'[p], t # posted + 1 PROVE post'[t].delayed
    <3>1. t \in delayed_tasks[p] /\ t \in Has(p)
      BY <1>11, <2>3 DEF Has, Held
    <3>2. t \in 1..posted /\ post[t].delayed
      BY <1>2, <3>1 DEF Messages
    <3> QED
      BY <1>0, <3>2
  <2>4. p \in Registered'
    BY <1>0, <1>11, RegisteredStays
  <2> QED
    BY <1>11, <2>1, <2>2, <2>3, <2>4 DEF Messages
<1>12. CASE PostsTask(p) /\ ~Deletes(p)
  <2>1. posted + 1 \in Task
    BY <1>0, <1>12, SimConstants DEF PostsTask, Enqueue, Task
  <2>2. /\ ready_tasks'[p] = Append(ready_tasks[p], posted + 1)
        /\ delayed_tasks' = delayed_tasks /\ posted' = posted + 1 /\ p \in Registered
        /\ post'[posted + 1].q = p
    BY <1>0, <1>12, <2>1 DEF PostsTask, Enqueue, ThreadTypes
  <2>3. ToSet(ready_tasks'[p]) = ToSet(ready_tasks[p]) \cup {posted + 1}
    BY <1>3, <2>1, <2>2, HeldAppend
  <2>4. posted + 1 \notin delayed_tasks[p]
    BY <1>0 DEF ThreadTypes
  <2>5. Has(p)' = Has(p) \cup {posted + 1}
    BY <2>2, <2>3 DEF Has, Held
  <2> QED
    BY <1>11, <1>12, <2>2, <2>4, <2>5
<1>13. ASSUME NEW due \in Time, PostsDelayed(p, due), ~Deletes(p) PROVE Messages(p)'
  <2>1. posted + 1 \in Task
    BY <1>0, <1>13, SimConstants DEF PostsDelayed, Task
  <2>2. /\ ready_tasks' = ready_tasks
        /\ delayed_tasks'[p] = delayed_tasks[p] \cup {posted + 1}
        /\ posted' = posted + 1 /\ p \in Registered
        /\ post'[posted + 1].q = p /\ post'[posted + 1].delayed
    BY <1>0, <1>13, <2>1 DEF PostsDelayed, ThreadTypes
  <2>3. Has(p)' = Has(p) \cup {posted + 1}
    BY <2>2 DEF Has, Held
  <2> QED
    BY <1>11, <1>13, <2>2, <2>3
<1> QED
  BY <1>4, <1>7, <1>8, <1>9, <1>10, <1>12, <1>13 DEF Concerns

LEMMA ThreadWaitStep ==
  ASSUME ThreadInv, ThreadInv', StackEffect, DataEffect, AllMessages, FramesPosted, WaitInv
  PROVE  FramesPosted' /\ WaitInv'
<1> DEFINE n == Len(stack)
           m == Len(stack')
           Goal == FramesPosted' /\ WaitInv'
<1>0. /\ n \in Nat /\ m \in Nat /\ DOMAIN stack = 1..n /\ DOMAIN stack' = 1..m
      /\ (stack # <<>> => Last(stack) = stack[n])
      /\ \A i \in 1..n : stack[i].t \in Nat
  <2>1. \A f \in ThreadFrame : f.t \in Nat
    BY SimConstants DEF ThreadFrame
  <2>2. /\ stack \in Seq(ThreadFrame) /\ n \in Nat /\ m \in Nat
        /\ DOMAIN stack = 1..n /\ DOMAIN stack' = 1..m
        /\ (stack # <<>> => Last(stack) = stack[n])
    BY StackGrows DEF ThreadInv
  <2>3. \A i \in 1..n : stack[i] \in ThreadFrame
    BY <2>2
  <2> QED
    BY <2>1, <2>2, <2>3
<1>1. /\ posted \in Nat /\ posted' \in Nat /\ posted <= posted'
      /\ \A t \in 1..posted : post'[t] = post[t] /\ t \in 1..posted'
  BY PostStays DEF ThreadInv
<1> HIDE DEF n, m, Goal
\* No wait begins; the first |k| frames stay.
<1>2. ASSUME NEW k \in 0..n, k <= m, \A i \in 1..k : stack'[i] = stack[i],
             \A i \in (k + 1)..m : /\ stack'[i].fn # "Wait"
                                   /\ stack'[i].fn = "Task" => stack'[i].t <= posted
      PROVE  Goal
  <2>1. \A i \in 1..m : (i \in 1..k /\ i \in 1..n) \/ i \in (k + 1)..m
    BY <1>0, <1>2
  <2>2. ASSUME NEW i \in 1..m, stack'[i].fn = "Task" PROVE stack'[i].t <= posted'
    <3>1. stack'[i].t <= posted
      BY <1>0, <1>2, <2>1, <2>2 DEF FramesPosted
    <3>2. stack'[i].t \in Nat
      <4>1. stack'[i] \in ThreadFrame
        BY <1>0 DEF ThreadInv, ThreadStack
      <4> QED
        BY <4>1, SimConstants DEF ThreadFrame
    <3> QED
      BY <1>1, <3>1, <3>2
  <2>3. ASSUME NEW i \in 1..m, stack'[i].fn = "Wait"
        PROVE  /\ stack'[i].t \in 1..posted' /\ ~post'[stack'[i].t].delayed
               /\ <<stack'[i].q, post'[stack'[i].t].q>> \in SendPairs
               /\ \A j \in 1..m : stack'[j].fn = "Task" /\ stack'[j].t = stack'[i].t => i < j
    <3>1. i \in 1..k /\ i \in 1..n /\ stack'[i] = stack[i]
      BY <1>2, <2>1, <2>3
    <3>2. /\ stack[i].t \in 1..posted /\ ~post[stack[i].t].delayed
          /\ <<stack[i].q, post[stack[i].t].q>> \in SendPairs
          /\ \A j \in 1..n : stack[j].fn = "Task" /\ stack[j].t = stack[i].t => i < j
      BY <1>0, <2>3, <3>1 DEF WaitInv
    <3>3. ASSUME NEW j \in 1..m, stack'[j].fn = "Task", stack'[j].t = stack'[i].t PROVE i < j
      <4>1. CASE j \in 1..k /\ j \in 1..n
        BY <1>2, <3>1, <3>2, <3>3, <4>1
      <4>2. CASE j \in (k + 1)..m
        BY <1>0, <3>1, <4>2
      <4> QED
        BY <2>1, <4>1, <4>2
    <3> QED
      BY <1>1, <3>1, <3>2, <3>3
  <2> QED
    BY <1>0, <2>2, <2>3 DEF Goal, FramesPosted, WaitInv
<1>3. CASE Pops /\ m = n - 1 /\ n > 0 /\ \A i \in 1..(n - 1) : stack'[i] = stack[i]
  <2>1. n - 1 \in 0..n /\ n - 1 <= m /\ (n - 1 + 1)..m = {}
    BY <1>0, <1>3
  <2> QED
    BY <1>2, <1>3, <2>1 DEF Goal
<1>4. CASE Stays
  <2>1. stack' = stack /\ m = n /\ n \in 0..n /\ (n + 1)..m = {}
    BY <1>0, <1>4 DEF Stays, n, m
  <2> QED
    BY <1>0, <1>2, <2>1 DEF Goal
<1>5. ASSUME NEW k \in 0..n, NEW f \in ThreadFrame, Grows(k, f), f.fn # "Wait",
             f.fn = "Task" => f.t <= posted
      PROVE  Goal
  <2>1. /\ m = k + 1 /\ stack'[k + 1] = f /\ \A i \in 1..k : stack'[i] = stack[i]
        /\ \A i \in (k + 1)..m : i = k + 1
        /\ k <= m
    BY <1>0, <1>5 DEF Grows, m
  <2>2. \A i \in (k + 1)..m : /\ stack'[i].fn # "Wait"
                              /\ stack'[i].fn = "Task" => stack'[i].t <= posted
    BY <1>5, <2>1
  <2> QED
    BY <1>2, <2>1, <2>2
<1>6. CASE LoopsOn /\ n > 0 /\ \E f \in ThreadFrame :
              f.fn = "RunTasks" /\ f.q = stack[n].q /\ Grows(n - 1, f)
  <2>1. n - 1 \in 0..n
    BY <1>0, <1>6
  <2> QED
    BY <1>5, <1>6, <2>1 DEF Goal
<1>7. CASE StartsTask /\ n > 0 /\ \E f \in ThreadFrame :
              /\ f.fn = "Task" /\ f.q = stack[n].q
              /\ f.t \in ToSet(ready_tasks[f.q]) /\ Grows(n, f)
  <2>1. PICK f \in ThreadFrame : /\ f.fn = "Task" /\ f.q = stack[n].q
                                /\ f.t \in ToSet(ready_tasks[f.q]) /\ Grows(n, f)
    BY <1>7
  <2>2. stack # <<>> /\ f.q \in Queues
    BY <1>0, <1>7, <2>1, TopThread DEF StartsTask, Top, IsRunReady, ThreadInv
  <2>3. f.t \in 1..posted
    BY <2>1, <2>2 DEF AllMessages, Messages, Has, Held
  <2> QED
    BY <1>0, <1>1, <1>5, <2>1, <2>3 DEF Goal
<1>8. CASE RunsAll /\ \E f \in ThreadFrame : f.fn = "RunReadyRunners" /\ Grows(n, f)
  BY <1>0, <1>5, <1>8 DEF Goal
<1>9. CASE \E q \in Queues : /\ TakesTurn(q) /\ n > 0
                           /\ \E f \in ThreadFrame : f.fn = "MoveDue" /\ f.q = q /\ Grows(n, f)
  BY <1>0, <1>5, <1>9 DEF Goal
<1>10. CASE StartsSend /\ n > 0 /\ \E f, g \in ThreadFrame :
              /\ f.fn = "Send" /\ f.q = stack[n].q /\ g.fn = "Task" /\ g.t = 0
              /\ GrowsTwice(n, f, g)
  <2>1. PICK f, g \in ThreadFrame : /\ f.fn = "Send" /\ g.fn = "Task" /\ g.t = 0
                                   /\ GrowsTwice(n, f, g)
    BY <1>10
  <2>2. /\ m = n + 2 /\ stack'[n + 1] = f /\ stack'[n + 2] = g
        /\ \A i \in 1..n : stack'[i] = stack[i]
        /\ \A i \in (n + 1)..m : i = n + 1 \/ i = n + 2
        /\ n <= m /\ n \in 0..n
    BY <1>0, <2>1 DEF GrowsTwice, m
  <2>3. 0 <= posted
    BY <1>1
  <2>4. \A i \in (n + 1)..m : /\ stack'[i].fn # "Wait"
                              /\ stack'[i].fn = "Task" => stack'[i].t <= posted
    BY <2>1, <2>2, <2>3
  <2> QED
    BY <1>2, <2>2, <2>4 DEF Goal
<1>11. CASE FromLoop /\ \A i \in 1..m :
                  stack'[i].fn \in {"OnTaskTimer", "RunReadyRunners", "Event"}
  <2>1. 0 \in 0..n /\ 0 <= m /\ \A i \in (0 + 1)..m : i \in 1..m
    BY <1>0
  <2> QED
    BY <1>2, <1>11, <2>1 DEF Goal
<1>12. CASE StartsWait /\ n > 0 /\ \E f, g \in ThreadFrame :
              /\ f.fn = "Wait" /\ f.q = stack[n].q /\ f.t = posted + 1
              /\ g.fn = "RunReadyRunners" /\ GrowsTwice(n, f, g)
  <2>1. PICK f, g \in ThreadFrame : /\ f.fn = "Wait" /\ f.q = stack[n].q /\ f.t = posted + 1
                                   /\ g.fn = "RunReadyRunners" /\ GrowsTwice(n, f, g)
    BY <1>12
  <2>2. /\ m = n + 2 /\ stack'[n + 1] = f /\ stack'[n + 2] = g
        /\ \A i \in 1..n : stack'[i] = stack[i]
        /\ \A i \in 1..m : i \in 1..n \/ i = n + 1 \/ i = n + 2
    BY <1>0, <2>1 DEF GrowsTwice, m
  <2>3. PICK q \in Queues : <<f.q, q>> \in SendPairs /\ (Enqueue(q) \/ ThrowsAway(q))
    BY <1>0, <1>12, <2>1 DEF StartsWait, CodeRuns, Top
  <2>4. /\ posted' = posted + 1
        /\ post'[posted + 1] = [q |-> q, due |-> now, delayed |-> FALSE]
    <3>1. posted + 1 \in Task
      BY <1>12 DEF StartsWait
    <3> QED
      BY <2>3, <3>1 DEF Enqueue, ThrowsAway, ThreadInv, ThreadTypes
  <2>5. ASSUME NEW j \in 1..m, stack'[j].fn = "Task"
        PROVE  j \in 1..n /\ stack'[j] = stack[j] /\ stack[j].t <= posted /\ stack[j].t \in Nat
    BY <1>0, <2>1, <2>2, <2>5 DEF FramesPosted
  <2>6. FramesPosted'
    <3>1. \A j \in 1..m : stack'[j].fn = "Task" => stack'[j].t <= posted'
      BY <1>1, <2>5
    <3> QED
      BY <1>0, <3>1 DEF FramesPosted
  <2>7. ASSUME NEW i \in 1..m, stack'[i].fn = "Wait"
        PROVE  /\ stack'[i].t \in 1..posted' /\ ~post'[stack'[i].t].delayed
               /\ <<stack'[i].q, post'[stack'[i].t].q>> \in SendPairs
               /\ \A j \in 1..m : stack'[j].fn = "Task" /\ stack'[j].t = stack'[i].t => i < j
    <3>1. CASE i = n + 1
      <4>1. stack'[i] = f /\ posted + 1 \in 1..posted'
        BY <1>1, <2>2, <2>4, <3>1
      <4>2. \A j \in 1..m : stack'[j].fn = "Task" => stack'[j].t # posted + 1
        BY <1>1, <2>5
      <4>3. /\ stack'[i].t = posted + 1 /\ stack'[i].q = f.q
            /\ post'[posted + 1].q = q /\ ~post'[posted + 1].delayed
        BY <2>1, <2>4, <4>1
      <4> QED
        BY <2>3, <4>1, <4>2, <4>3
    <3>2. CASE i \in 1..n
      <4>1. stack'[i] = stack[i] /\ stack[i].fn = "Wait"
        BY <2>2, <2>7, <3>2
      <4>2. /\ stack[i].t \in 1..posted /\ ~post[stack[i].t].delayed
            /\ <<stack[i].q, post[stack[i].t].q>> \in SendPairs
            /\ \A j \in 1..n : stack[j].fn = "Task" /\ stack[j].t = stack[i].t => i < j
        BY <1>0, <3>2, <4>1 DEF WaitInv
      <4>3. \A j \in 1..m : stack'[j].fn = "Task" /\ stack'[j].t = stack[i].t => i < j
        BY <2>5, <4>2
      <4> QED
        BY <1>1, <4>1, <4>2, <4>3
    <3> QED
      BY <2>1, <2>2, <2>7, <3>1, <3>2
  <2> QED
    BY <1>0, <2>6, <2>7 DEF WaitInv
<1> QED
  BY <1>0, <1>3, <1>4, <1>6, <1>7, <1>8, <1>9, <1>10, <1>11, <1>12, PushedFrames
  DEF n, m, Goal, ThreadInv

\* When YieldExecution has returned to a wait, only queues that have yielded have
\* messages that could run at once.
QuietWait == Top("Wait") => \A q \in Registered \ yielded : ready_tasks[q] = <<>>

LEMMA QuietWaitStep ==
  ASSUME ThreadInv, ThreadInv', StackEffect, RunTimes, QuietWait
  PROVE  QuietWait'
<1> DEFINE n == Len(stack)
           m == Len(stack')
<1>1. SUFFICES ASSUME Top("Wait")'
               PROVE  (\A q \in Registered \ yielded : ready_tasks[q] = <<>>)'
  BY DEF QuietWait
<1>2. /\ n \in Nat /\ m \in Nat /\ DOMAIN stack = 1..n /\ DOMAIN stack' = 1..m
      /\ m > 0 /\ stack'[m].fn = "Wait"
  <2>1. stack' # <<>> /\ Last(stack').fn = "Wait"
    BY <1>1 DEF Top
  <2>2. Last(stack') = stack'[m] /\ m \in Nat \ {0}
    BY <2>1, PopThread DEF ThreadInv
  <2>3. n \in Nat /\ m \in Nat /\ DOMAIN stack = 1..n /\ DOMAIN stack' = 1..m
    BY StackGrows DEF ThreadInv
  <2> HIDE DEF n, m
  <2> QED
    BY <2>1, <2>2, <2>3
<1> HIDE DEF n, m
<1>3. CASE Stays
  <2>1. UNCHANGED vars
    BY <1>1, <1>3 DEF Stays, Top
  <2> QED
    BY <1>1, <1>3, <2>1 DEF QuietWait, Stays, Top, Registered, vars
<1>4. CASE Pops /\ m = n - 1 /\ n > 0 /\ \A i \in 1..(n - 1) : stack'[i] = stack[i]
  <2>1. stack # <<>> /\ n > 1 /\ stack[n - 1].fn = "Wait"
    <3>1. n - 1 \in 1..(n - 1) /\ n > 1
      BY <1>2, <1>4
    <3> QED
      BY <1>2, <1>4, <3>1 DEF Pops
  <2>2. ThreadFits(stack[n - 1], Last(stack))
    <3>1. \/ n = 1
          \/ ThreadFits(stack[n - 1], Last(stack))
      BY <2>1, TopOfThread DEF ThreadInv, n
    <3> QED
      BY <1>2, <2>1, <3>1
  <2>3. Last(stack).fn = "RunReadyRunners"
    BY <2>1, <2>2 DEF ThreadFits, Fits
  <2>4. CollectReady
    BY <1>4, <2>3 DEF Pops
  <2>5. stack' # stack
    BY <1>2, <1>4 DEF n, m
  <2>6. /\ {q \in Registered \ yielded : next_run_time[q] <= now} = {}
        /\ UNCHANGED <<now, runners, yielded, ready_tasks>>
    BY <2>4, <2>5 DEF CollectReady, queueVars
  <2>7. Registered \subseteq Queues
    BY DEF ThreadInv, ThreadTypes, Registered, ToSet
  <2>8. \A q \in Registered \ yielded : ready_tasks[q] = <<>>
    BY <2>6, <2>7 DEF RunTimes, OnTime
  <2> QED
    BY <2>6, <2>8 DEF Registered
<1>5. ASSUME NEW k \in Nat, NEW f \in ThreadFrame, f.fn # "Wait", Grows(k, f) PROVE FALSE
  BY <1>2, <1>5 DEF Grows, m
<1>6. ASSUME NEW k \in Nat, NEW f \in ThreadFrame, NEW g \in ThreadFrame, g.fn # "Wait",
             GrowsTwice(k, f, g)
      PROVE  FALSE
  BY <1>2, <1>6 DEF GrowsTwice, m
<1>7. CASE n > 0 /\ \E f \in ThreadFrame : f.fn = "RunTasks" /\ Grows(n - 1, f)
  <2>1. n - 1 \in Nat
    BY <1>2, <1>7
  <2> QED
    BY <1>5, <1>7, <2>1
<1>8. CASE \E f \in ThreadFrame : f.fn \in {"Task", "RunReadyRunners", "MoveDue"} /\ Grows(n, f)
  BY <1>2, <1>5, <1>8
<1>9. CASE \E f, g \in ThreadFrame : g.fn \in {"RunReadyRunners", "Task"} /\ GrowsTwice(n, f, g)
  BY <1>2, <1>6, <1>9
<1>10. CASE \A i \in 1..m : stack'[i].fn \in {"OnTaskTimer", "RunReadyRunners", "Event"}
  <2>1. m \in 1..m
    BY <1>2
  <2> QED
    BY <1>2, <1>10, <2>1
<1> QED
  <2>1. DOMAIN stack' = 1..m
    BY <1>2
  <2> QED
    BY <1>3, <1>4, <1>7, <1>8, <1>9, <1>10, <2>1, PushedFrames DEF n, m, ThreadInv

\* An event handler that waits has nobody below it who waits.
LEMMA EventWaits ==
  ASSUME ThreadInv, Yields(stack, yielded, ready_runners), Top("Wait"), Last(stack).q = Main,
         NEW q \in Queues
  PROVE  q \notin yielded
<1> DEFINE n == Len(stack)
<1>1. /\ n \in Nat \ {0} /\ DOMAIN stack = 1..n /\ Last(stack) = stack[n]
      /\ stack[n].fn = "Wait" /\ stack[n].q = Main
      /\ stack[1].fn \in {"OnTaskTimer", "Event"}
      /\ \A i \in 2..n : ThreadFits(stack[i - 1], stack[i])
  BY PopThread DEF ThreadInv, ThreadStack, Top
<1> HIDE DEF n
<1>2. n \in 2..n
  <2>1. n # 1
    BY <1>1
  <2> QED
    BY <1>1, <2>1
<1>3. stack[n - 1].fn \in {"Task", "Event"} /\ stack[n - 1].q = Main
  <2>1. ThreadFits(stack[n - 1], stack[n])
    BY <1>1, <1>2
  <2> QED
    BY <1>1, <2>1 DEF ThreadFits, Fits
<1>4. n = 2
  <2>1. SUFFICES ASSUME n # 2 PROVE FALSE
    OBVIOUS
  <2>2. n - 1 \in 2..n
    BY <1>1, <1>2, <2>1
  <2>3. ThreadFits(stack[n - 1 - 1], stack[n - 1])
    BY <1>1, <2>2
  <2> QED
    BY <1>3, <2>3, SimConstants DEF ThreadFits, Fits
<1>5. \A i \in DOMAIN stack : IsWaiting(stack[i]) => i = n
  <2>1. \A i \in DOMAIN stack : i = n \/ i = 1
    BY <1>1, <1>4
  <2> QED
    BY <1>1, <2>1 DEF IsWaiting
<1>6. \A p \in yielded : p = Main
  BY <1>1, <1>5 DEF Yields
<1> QED
  BY <1>6, SimConstants

\* The program's queues and threads, the event handlers apart, wait, in SendTask or
\* in Send, only for those that do not wait themselves.
ThreadsWaitForLeaves ==
  \A x \in SendPairs \cup ThreadSends :
    \A y \in SendPairs \cup ThreadSends : x[1] # Main => x[2] # y[1]

\* The queue that a wait is for has not yielded.
LEMMA LeafAwaited ==
  ASSUME ThreadsWaitForLeaves, ThreadInv, Yields(stack, yielded, ready_runners), WaitInv,
         Top("Wait")
  PROVE  post[Last(stack).t].q \in Queues \ yielded
<1> DEFINE n == Len(stack)
<1>1. /\ n \in Nat \ {0} /\ DOMAIN stack = 1..n /\ Last(stack) = stack[n]
      /\ stack[n].fn = "Wait"
      /\ \A i \in 2..n : ThreadFits(stack[i - 1], stack[i])
  BY PopThread DEF ThreadInv, ThreadStack, Top
<1> HIDE DEF n
<1>2. PICK q, t, p : q = stack[n].q /\ t = stack[n].t /\ p = post[t].q
  OBVIOUS
<1>3. n \in 1..n
  BY <1>1
<1>4. <<q, p>> \in SendPairs
  BY <1>1, <1>2, <1>3 DEF WaitInv
<1>5. p \in Queues
  BY <1>4, SimConstants
<1>6. CASE q = Main
  BY <1>1, <1>2, <1>5, <1>6, EventWaits
<1>7. CASE q # Main
  <2>1. ASSUME NEW o, NEW s, <<o, s>> \in SendPairs \cup ThreadSends PROVE o # p
    <3> DEFINE x == <<q, p>>
               y == <<o, s>>
    <3>1. /\ x \in SendPairs \cup ThreadSends /\ y \in SendPairs \cup ThreadSends
          /\ x[1] # Main /\ x[2] = p /\ y[1] = o
      BY <1>4, <1>7, <2>1
    <3> HIDE DEF x, y
    <3> QED
      BY <3>1 DEF ThreadsWaitForLeaves
  <2>2. ASSUME NEW i \in 1..n, IsWaiting(stack[i]) PROVE stack[i].q # p
    <3>1. CASE stack[i].fn = "Wait"
      <4>1. <<stack[i].q, post[stack[i].t].q>> \in SendPairs
        BY <1>1, <3>1 DEF WaitInv
      <4> QED
        BY <2>1, <4>1
    <3>2. CASE stack[i].fn = "Send"
      <4>1. i # n
        BY <1>1, <3>2
      <4>2. i + 1 \in 2..n /\ i + 1 - 1 = i
        BY <1>1, <4>1
      <4>3. ThreadFits(stack[i], stack[i + 1])
        BY <1>1, <4>2
      <4>4. <<stack[i].q, stack[i + 1].q>> \in ThreadSends
        BY <3>2, <4>3 DEF ThreadFits, Fits
      <4> QED
        BY <2>1, <4>4
    <3> QED
      BY <2>2, <3>1, <3>2 DEF IsWaiting
  <2> QED
    BY <1>1, <1>2, <1>5, <2>2 DEF Yields
<1> QED
  BY <1>1, <1>2, <1>5, <1>6, <1>7

\* SendTask returns, among queues and threads, if those that wait do so for queues
\* and threads that do not: when the other queues have run, the task that was sent
\* has run or was destroyed, also when the call came from a handler run by Send.
THEOREM ThreadSendTaskCorrect == ThreadsWaitForLeaves /\ ThreadSpec => []SendTaskReturns
<1> SUFFICES ASSUME ThreadsWaitForLeaves PROVE ThreadSpec => []SendTaskReturns
  OBVIOUS
<1> DEFINE Y == Yields(stack, yielded, ready_runners)
           IInv == /\ ThreadInv /\ TurnInv /\ RunTimes /\ Y
                   /\ AllMessages /\ FramesPosted /\ WaitInv /\ QuietWait
<1>1. SendsToLeaves
  BY DEF ThreadsWaitForLeaves, SendsToLeaves
<1>2. Init /\ quitting = {} => IInv
  <2>1. SUFFICES ASSUME Init, quitting = {} PROVE IInv
    OBVIOUS
  <2>2. ThreadInv /\ TurnInv /\ RunTimes
    BY <2>1, InitRunTimes
  <2>3. Y /\ FramesPosted /\ WaitInv /\ QuietWait
    BY <2>1 DEF Init, Yields, FramesPosted, WaitInv, QuietWait, Top
  <2>4. AllMessages
    BY <2>1 DEF Init, AllMessages, Messages, Has, Held, ToSet
  <2> QED
    BY <2>2, <2>3, <2>4
<1>3. IInv /\ [ThreadNext]_threadVars => IInv'
  <2>1. SUFFICES ASSUME IInv, [ThreadNext]_threadVars PROVE IInv'
    OBVIOUS
  <2>2. StackEffect /\ DataEffect
    BY <2>1, EffectOnStack, DataEffects
  <2>3. ThreadInv' /\ TurnInv' /\ RunTimes'
    BY <2>1, RunTimesStep
  <2>4. Y'
    BY <1>1, <2>1, <2>2, <2>3, YieldsStep
  <2>5. AllMessages' /\ FramesPosted' /\ WaitInv' /\ QuietWait'
    BY <2>1, <2>2, <2>3, MessagesStep, ThreadWaitStep, QuietWaitStep
  <2> QED
    BY <2>3, <2>4, <2>5
<1>4. IInv => SendTaskReturns
  <2>1. SUFFICES ASSUME IInv, Top("Wait") PROVE Over(Last(stack).t)
    BY DEF SendTaskReturns
  <2>2. PICK t, p : t = Last(stack).t /\ p = post[t].q
    OBVIOUS
  <2>3. /\ stack # <<>> /\ Len(stack) \in Nat \ {0} /\ DOMAIN stack = 1..Len(stack)
        /\ stack[Len(stack)] = Last(stack) /\ Last(stack).fn = "Wait"
    BY <2>1, PopThread DEF ThreadInv, Top
  <2>4. /\ ~post[t].delayed
        /\ \A j \in DOMAIN stack : stack[j].fn = "Task" /\ stack[j].t = t => Len(stack) < j
    <3>1. Len(stack) \in DOMAIN stack
      BY <2>3
    <3> QED
      BY <2>1, <2>2, <2>3, <3>1 DEF WaitInv
  <2>5. ~Running(t)
    BY <2>3, <2>4 DEF Running
  <2>6. p \in Queues \ yielded
    BY <2>1, <2>2, LeafAwaited
  <2>7. ~Pending(t)
    <3>1. SUFFICES ASSUME NEW o \in Queues, t \in Has(o) PROVE FALSE
      BY DEF Pending, Has, Held
    <3>2. o = p /\ o \in Registered /\ t \notin delayed_tasks[o]
      BY <2>1, <2>2, <2>4, <3>1 DEF AllMessages, Messages
    <3>3. t \in ToSet(ready_tasks[o])
      BY <3>1, <3>2 DEF Has, Held
    <3>4. ready_tasks[o] # <<>>
      BY <3>3 DEF ToSet
    <3> QED
      BY <2>1, <2>6, <3>2, <3>4 DEF QuietWait
  <2> QED
    BY <2>2, <2>5, <2>7 DEF Over
<1> HIDE DEF IInv
<1> QED
  BY <1>2, <1>3, <1>4, PTL DEF ThreadSpec
==============================================================================
