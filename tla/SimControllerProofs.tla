------------------------- MODULE SimControllerProofs -------------------------
(***************************************************************************)
(* Theorems about SimController for any queues, programs and bounds: the   *)
(* types and the shape of the call stack, one task at a time on each       *)
(* queue, the next run time of each queue, and the timer that follows;     *)
(* that it implements TaskSequences, and that a wait for a queue that      *)
(* waits for nobody ends.                                                  *)
(***************************************************************************)
EXTENDS SimController, SequenceTheorems, Recursion, TLAPS

(* Facts about minima and sequences *)

\* Min picks the least number of any non-empty set, finite or not.
LEMMA MinIsLeast ==
  ASSUME NEW S \in SUBSET Nat, S # {}
  PROVE  Min(S) \in S /\ \A y \in S : Min(S) <= y
BY FirstNumber DEF Min

\* FirstDelayed is an entry of the queue's delayed tasks that precedes all the others;
\* none is due before it.
LEMMA FirstOfDelayed ==
  ASSUME NEW q \in Queues, delayed_tasks[q] # {}, delayed_tasks \in [Queues -> SUBSET Task],
         post \in [Task -> [q : Current, due : Time, delayed : BOOLEAN]]
  PROVE  /\ FirstDelayed(q) \in delayed_tasks[q]
         /\ \A u \in delayed_tasks[q] \ {FirstDelayed(q)} : Precedes(FirstDelayed(q), u)
         /\ \A u \in delayed_tasks[q] : post[FirstDelayed(q)].due <= post[u].due
<1> DEFINE S == delayed_tasks[q]
           D == {post[t].due : t \in S}
           E == {t \in S : post[t].due = Min(D)}
<1>1. S \subseteq Nat /\ \A t \in S : post[t].due \in Nat
  BY SimConstants DEF Task, Time
<1>2. Min(D) \in D /\ \A d \in D : Min(D) <= d
  <2>1. D \in SUBSET Nat /\ D # {}
    BY <1>1
  <2> HIDE DEF D
  <2> QED
    BY <2>1, MinIsLeast
<1>3. E \subseteq Nat /\ E # {}
  BY <1>1, <1>2
<1>4. Min(E) \in E /\ \A t \in E : Min(E) <= t
  <2> HIDE DEF E
  <2> QED
    BY <1>3, MinIsLeast
<1>5. \A u \in S \ {Min(E)} : Precedes(Min(E), u)
  <2>1. SUFFICES ASSUME NEW u \in S, u # Min(E) PROVE Precedes(Min(E), u)
    OBVIOUS
  <2>2. CASE u \in E
    <3>1. post[Min(E)].due = post[u].due
      BY <1>4, <2>2
    <3>2. Min(E) \in Nat /\ u \in Nat /\ Min(E) <= u
      BY <1>1, <1>4, <2>2
    <3>3. Min(E) < u
      BY <2>1, <3>2
    <3> QED
      BY <3>1, <3>3 DEF Precedes
  <2>3. CASE u \notin E
    <3>1. post[Min(E)].due = Min(D) /\ post[u].due # Min(D) /\ Min(D) <= post[u].due
      BY <1>2, <1>4, <2>1, <2>3
    <3>2. post[Min(E)].due < post[u].due
      BY <1>1, <1>4, <2>1, <3>1
    <3> QED
      BY <3>2 DEF Precedes
  <2> QED
    BY <2>2, <2>3
<1>6. /\ FirstDelayed(q) \in S
      /\ \A u \in S \ {FirstDelayed(q)} : Precedes(FirstDelayed(q), u)
  BY <1>4, <1>5 DEF FirstDelayed
<1> QED
  BY <1>1, <1>6 DEF Precedes

LEMMA FirstDelayedIsFirst ==
  ASSUME TypeOK, NEW q \in Queues, delayed_tasks[q] # {}
  PROVE  /\ FirstDelayed(q) \in delayed_tasks[q]
         /\ \A u \in delayed_tasks[q] \ {FirstDelayed(q)} : Precedes(FirstDelayed(q), u)
         /\ \A u \in delayed_tasks[q] : post[FirstDelayed(q)].due <= post[u].due
BY FirstOfDelayed DEF TypeOK

LEMMA FrontFacts ==
  ASSUME NEW S, NEW s \in Seq(S), s # <<>>
  PROVE  /\ Front(s) \in Seq(S) /\ Len(Front(s)) = Len(s) - 1
         /\ DOMAIN Front(s) = 1..(Len(s) - 1)
         /\ \A i \in 1..(Len(s) - 1) : Front(s)[i] = s[i]
         /\ Last(s) \in S /\ Last(s) = s[Len(s)] /\ Len(s) \in Nat \ {0}
<1>1. Len(s) \in Nat \ {0} /\ \A i \in 1..Len(s) : s[i] \in S
  OBVIOUS
<1>2. /\ Front(s) \in Seq(S) /\ Len(Front(s)) = Len(s) - 1
      /\ \A i \in 1..(Len(s) - 1) : Front(s)[i] = s[i]
  <2> DEFINE n == Len(s) - 1
  <2>1. 1 \in Int /\ n \in Int /\ n \in Nat /\ \A i \in 1..n : s[i] \in S
    BY <1>1
  <2> HIDE DEF n
  <2>2. /\ SubSeq(s, 1, n) \in Seq(S)
        /\ Len(SubSeq(s, 1, n)) = IF 1 <= n THEN n - 1 + 1 ELSE 0
        /\ \A i \in 1..(n - 1 + 1) : SubSeq(s, 1, n)[i] = s[1 + i - 1]
    BY <2>1, SubSeqProperties
  <2>3. Len(SubSeq(s, 1, n)) = n /\ \A i \in 1..n : SubSeq(s, 1, n)[i] = s[i]
    BY <2>1, <2>2
  <2> QED
    BY <2>2, <2>3 DEF Front, n
<1> QED
  BY <1>1, <1>2 DEF Last

LEMMA RemoveAtFacts ==
  ASSUME NEW S, NEW s \in Seq(S), NEW i \in DOMAIN s
  PROVE  RemoveAt(s, i) \in Seq(S)
BY DEF RemoveAt
------------------------------------------------------------------------------
(* The call stack: which function calls which, and on behalf of what queue *)

Fits(caller, f) ==
  \/ f.fn = "RunReadyRunners" /\ f.q = Main /\ caller.fn \in {"OnTaskTimer", "Wait"}
  \/ f.fn \in {"MoveDue", "RunTasks"} /\ f.q \in Queues /\ caller.fn = "RunReadyRunners"
  \/ f.fn = "Task" /\ f.q \in Queues /\ caller.fn = "RunTasks" /\ caller.q = f.q
  \/ f.fn = "Wait" /\ caller.fn \in {"Task", "Event"} /\ caller.q = f.q

WellFormed(s) ==
  /\ s \in Seq(Frame)
  /\ s # <<>> => s[1].fn \in {"OnTaskTimer", "Event"} /\ s[1].q = Main
  /\ \A i \in 2..Len(s) : Fits(s[i - 1], s[i])

LEMMA PopFits ==
  ASSUME NEW s, WellFormed(s), s # <<>> PROVE WellFormed(Front(s))
<1>1. s \in Seq(Frame)
  BY DEF WellFormed
<1>2. /\ Front(s) \in Seq(Frame) /\ Len(Front(s)) = Len(s) - 1
      /\ \A i \in 1..(Len(s) - 1) : Front(s)[i] = s[i]
      /\ Len(s) \in Nat \ {0}
  BY <1>1, FrontFacts
<1>3. Front(s) # <<>> => Front(s)[1] = s[1]
  BY <1>2
<1>4. \A i \in 2..Len(Front(s)) : i \in 2..Len(s) /\ Front(s)[i] = s[i] /\ Front(s)[i - 1] = s[i - 1]
  BY <1>2
<1> QED
  BY <1>2, <1>3, <1>4 DEF WellFormed

LEMMA PushFits ==
  ASSUME NEW s, WellFormed(s), s # <<>>, NEW f \in Frame, Fits(Last(s), f)
  PROVE  WellFormed(Append(s, f))
<1> DEFINE n == Len(s)
<1>1. s \in Seq(Frame)
  BY DEF WellFormed
<1>2. /\ Append(s, f) \in Seq(Frame) /\ Len(Append(s, f)) = n + 1 /\ n \in Nat \ {0}
      /\ Append(s, f)[n + 1] = f /\ \A i \in 1..n : Append(s, f)[i] = s[i]
  BY <1>1
<1>3. ASSUME NEW i \in 2..(n + 1) PROVE Fits(Append(s, f)[i - 1], Append(s, f)[i])
  <2>1. CASE i = n + 1
    BY <1>2, <2>1 DEF Last
  <2>2. CASE i \in 2..n
    <3>1. i - 1 \in 1..n /\ i \in 1..n
      BY <1>2, <2>2
    <3> QED
      BY <1>2, <2>2, <3>1 DEF WellFormed
  <2> QED
    BY <1>2, <2>1, <2>2
<1> QED
  BY <1>2, <1>3 DEF WellFormed

LEMMA TopFits ==
  ASSUME NEW s, WellFormed(s), s # <<>>
  PROVE  \/ Len(s) = 1 /\ Last(s).fn \in {"OnTaskTimer", "Event"} /\ Last(s).q = Main
         \/ Len(s) > 1 /\ Front(s) # <<>> /\ Fits(Last(Front(s)), Last(s))
<1>1. s \in Seq(Frame)
  BY DEF WellFormed
<1>2. /\ Front(s) \in Seq(Frame) /\ Len(Front(s)) = Len(s) - 1
      /\ \A i \in 1..(Len(s) - 1) : Front(s)[i] = s[i]
      /\ Len(s) \in Nat \ {0}
  BY <1>1, FrontFacts
<1>3. CASE Len(s) = 1
  BY <1>3 DEF WellFormed, Last
<1>4. CASE Len(s) > 1
  <2>1. Front(s) # <<>> /\ Last(Front(s)) = s[Len(s) - 1] /\ Len(s) \in 2..Len(s)
    BY <1>2, <1>4 DEF Last
  <2> QED
    BY <1>4, <2>1 DEF WellFormed, Last
<1> QED
  BY <1>2, <1>3, <1>4

TypeInv == TypeOK /\ WellFormed(stack)

\* What the top frame says of the one below it, and of its queue.
LEMMA TopFrame ==
  ASSUME TypeInv, stack # <<>>
  PROVE  /\ Last(stack) \in Frame /\ WellFormed(Front(stack))
         /\ Last(stack).fn \in {"MoveDue", "RunTasks", "Task"} => Last(stack).q \in Queues
         /\ Last(stack).fn \in {"MoveDue", "RunTasks"} =>
              /\ Front(stack) # <<>>
              /\ \A fn \in {"MoveDue", "RunTasks"} :
                   Fits(Last(Front(stack)), F(fn, Last(stack).q, 0))
<1>1. /\ stack \in Seq(Frame) /\ Last(stack) \in Frame
  BY FrontFacts DEF TypeInv, WellFormed
<1>2. WellFormed(Front(stack))
  BY PopFits DEF TypeInv
<1> QED
  BY <1>1, <1>2, TopFits DEF TypeInv, Fits, F

LEMMA StackStep == ASSUME TypeInv, [Next]_vars PROVE WellFormed(stack')
<1> USE DEF TypeInv
<1>1. ASSUME UNCHANGED stack PROVE WellFormed(stack')
  BY <1>1
<1>2. ASSUME stack # <<>>, stack' = Front(stack) PROVE WellFormed(stack')
  BY <1>2, PopFits
<1>3. ASSUME NEW f \in Frame, stack # <<>>, Fits(Last(stack), f), stack' = Append(stack, f)
      PROVE  WellFormed(stack')
  BY <1>3, PushFits
<1>4. \A fn \in {"OnTaskTimer", "RunReadyRunners", "MoveDue", "RunTasks", "Task", "Event", "Wait"},
         q \in Current, t \in 0..NumTasks : F(fn, q, t) \in Frame
  BY DEF F, Frame
<1>5. 0 \in 0..NumTasks /\ Main \in Current /\ Queues \subseteq Current
  BY SimConstants DEF Current
<1>6. CASE FireTimer
  <2>1. /\ stack' = <<F("OnTaskTimer", Main, 0), F("RunReadyRunners", Main, 0)>>
        /\ F("OnTaskTimer", Main, 0) \in Frame /\ F("RunReadyRunners", Main, 0) \in Frame
    BY <1>4, <1>5, <1>6 DEF FireTimer
  <2>2. Fits(F("OnTaskTimer", Main, 0), F("RunReadyRunners", Main, 0))
    BY DEF Fits, F
  <2> QED
    BY <2>1, <2>2 DEF WellFormed, F
<1>7. CASE FireEvent
  <2>1. stack' = <<F("Event", Main, 0)>> /\ F("Event", Main, 0) \in Frame
    BY <1>4, <1>5, <1>7 DEF FireEvent
  <2> QED
    BY <2>1 DEF WellFormed, F
<1>8. CASE CollectReady
  BY <1>1, <1>2, <1>8 DEF CollectReady, Top, Return
<1>9. ASSUME NEW q \in Queues, RunReady(q) PROVE WellFormed(stack')
  <2>1. Fits(Last(stack), F("MoveDue", q, 0))
    BY <1>9 DEF RunReady, Top, Fits, F
  <2> QED
    BY <1>3, <1>4, <1>5, <1>9, <2>1 DEF RunReady, Top
<1>10. CASE TimerAgain
  <2>1. Fits(Last(stack), F("RunReadyRunners", Main, 0))
    BY <1>10 DEF TimerAgain, Top, Fits, F
  <2> QED
    BY <1>3, <1>4, <1>5, <1>10, <2>1 DEF TimerAgain, Top
<1>11. CASE AllMoved
  <2>1. /\ stack # <<>> /\ Last(stack).fn = "MoveDue"
        /\ stack' = Append(Front(stack), F("RunTasks", Last(stack).q, 0))
    BY <1>11 DEF AllMoved, Top, Return
  <2>2. F("RunTasks", Last(stack).q, 0) \in Frame
    BY <1>4, <1>5, <2>1, TopFrame
  <2>3. /\ Front(stack) # <<>> /\ WellFormed(Front(stack))
        /\ Fits(Last(Front(stack)), F("RunTasks", Last(stack).q, 0))
    BY <2>1, TopFrame
  <2> QED
    BY <2>1, <2>2, <2>3, PushFits
<1>12. CASE RunTask
  <2>1. /\ stack # <<>> /\ Last(stack).fn = "RunTasks" /\ Last(stack).q \in Queues
        /\ ready_tasks[Last(stack).q] # <<>>
        /\ stack' = Append(stack, F("Task", Last(stack).q, Head(ready_tasks[Last(stack).q])))
    BY <1>12, TopFrame DEF RunTask, Top
  <2>2. Head(ready_tasks[Last(stack).q]) \in 0..NumTasks
    BY <2>1, SimConstants DEF TypeOK, Task
  <2>3. Fits(Last(stack), F("Task", Last(stack).q, Head(ready_tasks[Last(stack).q])))
    BY <2>1 DEF Fits, F
  <2> QED
    BY <1>3, <1>4, <1>5, <2>1, <2>2, <2>3
<1>13. ASSUME NEW q \in Queues, SendTask(q) PROVE WellFormed(stack')
  <2> DEFINE w == F("Wait", Last(stack).q, posted + 1)
             r == F("RunReadyRunners", Main, 0)
  <2>1. /\ stack # <<>> /\ Last(stack).fn \in {"Task", "Event"}
        /\ stack' = stack \o <<w, r>> /\ posted < NumTasks
    BY <1>13 DEF SendTask, CodeRuns, Top, Enqueue
  <2>2. posted + 1 \in 0..NumTasks
    BY <2>1, SimConstants DEF TypeOK
  <2>3. Last(stack).q \in Current
    BY <2>1, TopFrame DEF Frame
  <2>4. w \in Frame /\ r \in Frame
    BY <1>4, <1>5, <2>2, <2>3
  <2>5. Fits(Last(stack), w) /\ Fits(w, r)
    BY <2>1 DEF Fits, F
  <2> HIDE DEF w, r
  <2>6. WellFormed(Append(stack, w))
    BY <2>1, <2>4, <2>5, PushFits
  <2>7. stack \in Seq(Frame)
    BY DEF WellFormed
  <2>8. Append(stack, w) # <<>> /\ Last(Append(stack, w)) = w
    BY <2>4, <2>7 DEF Last
  <2>9. stack' = Append(Append(stack, w), r)
    BY <2>1, <2>4, <2>7
  <2> QED
    BY <2>4, <2>5, <2>6, <2>8, <2>9, PushFits
<1>14. CASE EventReturns \/ TimerReturns \/ TaskReturns \/ RunReadyReturns \/ WaitReturns
  BY <1>2, <1>14 DEF EventReturns, TimerReturns, TaskReturns, RunReadyReturns, WaitReturns,
                     Top, Return
<1>15. CASE MoveDue \/ SimulationOver \/ UNCHANGED vars
  BY <1>1, <1>15 DEF MoveDue, SimulationOver, vars
<1>16. ASSUME NEW q \in Queues,
              \/ PostTask(q) \/ CreateTaskQueue(q) \/ DeleteTaskQueue(q)
              \/ \E d \in Delays : PostDelayedTask(q, d)
       PROVE  WellFormed(stack')
  BY <1>1, <1>16 DEF PostTask, CreateTaskQueue, DeleteTaskQueue, PostDelayedTask
<1> QED
  BY <1>6, <1>7, <1>8, <1>9, <1>10, <1>11, <1>12, <1>13, <1>14, <1>15, <1>16
  DEF Next, Returns, CodeReturns, Calls, OnTaskTimer
------------------------------------------------------------------------------
LEMMA RegisteredAreQueues == TypeOK => Registered \subseteq Queues
BY DEF TypeOK, Registered, ToSet

\* The next run time of the controller: now if some queue is due, else the least.
LEMMA NextRunTimeIsLeast ==
  ASSUME TypeOK
  PROVE  /\ NextRunTime \in 0..PlusInfinity
         /\ NextRunTime > now =>
              \A q \in Registered : next_run_time[q] > now /\ NextRunTime <= next_run_time[q]
<1> DEFINE times == {next_run_time[q] : q \in Registered}
           all == times \cup {PlusInfinity}
<1>1. /\ now \in Nat /\ now < PlusInfinity /\ PlusInfinity \in Nat
      /\ times \subseteq MinusInfinity..PlusInfinity
  BY SimConstants, RegisteredAreQueues DEF TypeOK, Time
<1>2. CASE \E x \in times : x <= now
  <2>1. NextRunTime = now
    BY <1>2 DEF NextRunTime
  <2> QED
    BY <1>1, <2>1
<1>3. CASE ~\E x \in times : x <= now
  <2>1. NextRunTime = Min(all)
    BY <1>3 DEF NextRunTime
  <2>2. all \in SUBSET Nat /\ all # {} /\ all \subseteq 0..PlusInfinity
    BY <1>1, <1>3 DEF MinusInfinity
  <2> HIDE DEF all
  <2>3. Min(all) \in all /\ \A y \in all : Min(all) <= y
    BY <2>2, MinIsLeast
  <2>4. \A q \in Registered : next_run_time[q] \in times /\ next_run_time[q] \in all
    BY DEF all
  <2>5. \A q \in Registered : next_run_time[q] > now
    BY <1>1, <1>3, <2>4 DEF MinusInfinity
  <2> QED
    BY <2>1, <2>2, <2>3, <2>4, <2>5
<1> QED
  BY <1>2, <1>3

\* What Enqueue leaves in the variables of the queues.
LEMMA EnqueueTyped ==
  ASSUME TypeOK, NEW q \in Queues, Enqueue(q)
  PROVE  /\ ready_tasks' \in [Queues -> Seq(Task)]
         /\ delayed_tasks' \in [Queues -> SUBSET Task]
         /\ next_run_time' \in [Queues -> MinusInfinity..PlusInfinity]
         /\ posted' \in 0..NumTasks
         /\ post' \in [Task -> [q : Current, due : Time, delayed : BOOLEAN]]
<1> USE SimConstants DEF TypeOK
<1>1. posted + 1 \in Task /\ posted' = posted + 1 /\ q \in Current
  BY DEF Enqueue, Task, Current
<1>2. ready_tasks' \in [Queues -> Seq(Task)]
  <2>1. Append(ready_tasks[q], posted + 1) \in Seq(Task)
    BY <1>1
  <2> QED
    BY <2>1 DEF Enqueue
<1>3. [q |-> q, due |-> now, delayed |-> FALSE] \in [q : Current, due : Time, delayed : BOOLEAN]
  BY <1>1
<1>4. post' \in [Task -> [q : Current, due : Time, delayed : BOOLEAN]]
  <2> DEFINE p == [q |-> q, due |-> now, delayed |-> FALSE]
             P == [q : Current, due : Time, delayed : BOOLEAN]
  <2>1. p \in P /\ post' = [post EXCEPT ![posted + 1] = p] /\ post \in [Task -> P]
    BY <1>3 DEF Enqueue
  <2> HIDE DEF p, P
  <2>2. post' \in [Task -> P]
    BY <2>1
  <2> QED
    BY <2>2 DEF P
<1> QED
  BY <1>1, <1>2, <1>4 DEF Enqueue, MinusInfinity, Task

LEMMA TypeStep == ASSUME TypeInv, [Next]_vars PROVE TypeInv'
<1>0. WellFormed(stack')
  BY StackStep
<1>1. stack' \in Seq(Frame)
  BY <1>0 DEF WellFormed
<1> USE SimConstants DEF TypeInv, TypeOK
<1>2. SUFFICES TypeOK'
  BY <1>0
<1>3. CASE FireTimer \/ FireEvent \/ EventReturns
  <2>1. now' \in Time /\ timer' \in 0..PlusInfinity
    <3>1. CASE FireTimer
      BY <3>1 DEF FireTimer, Time
    <3>2. CASE FireEvent
      BY <3>2 DEF FireEvent, Time
    <3>3. CASE EventReturns
      BY <3>3 DEF EventReturns, Time
    <3> QED
      BY <1>3, <3>1, <3>2, <3>3
  <2>2. ready_runners' \subseteq Queues
    BY <1>3 DEF FireTimer, FireEvent, EventReturns
  <2>3. UNCHANGED <<runners, yielded, dropped, queueVars>>
    BY <1>3 DEF FireTimer, FireEvent, EventReturns
  <2> QED
    BY <1>1, <2>1, <2>2, <2>3 DEF queueVars
<1>4. CASE CollectReady
  <2>1. ready_runners' \subseteq Queues
    BY <1>4, RegisteredAreQueues DEF CollectReady
  <2> QED
    BY <1>1, <1>4, <2>1 DEF CollectReady, queueVars
<1>5. ASSUME NEW q \in Queues, RunReady(q) PROVE TypeOK'
  BY <1>1, <1>5 DEF RunReady, queueVars
<1>6. CASE TimerAgain \/ AllMoved \/ TaskReturns
  BY <1>1, <1>6 DEF TimerAgain, AllMoved, TaskReturns, queueVars
<1>7. CASE TimerReturns
  <2>1. timer' \in 0..PlusInfinity
    BY <1>7, NextRunTimeIsLeast DEF TimerReturns
  <2> QED
    BY <1>1, <1>7, <2>1 DEF TimerReturns, queueVars
<1>8. CASE MoveDue
  <2> DEFINE q == Last(stack).q
             t == FirstDelayed(q)
  <2>1. q \in Queues /\ delayed_tasks[q] # {}
    BY <1>8, TopFrame DEF MoveDue, Top
  <2>2. t \in Task
    BY <2>1, FirstDelayedIsFirst
  <2>3. Append(ready_tasks[q], t) \in Seq(Task) /\ delayed_tasks[q] \ {t} \in SUBSET Task
    BY <2>1, <2>2
  <2>4. /\ ready_tasks' = [ready_tasks EXCEPT ![q] = Append(ready_tasks[q], t)]
        /\ delayed_tasks' = [delayed_tasks EXCEPT ![q] = delayed_tasks[q] \ {t}]
    BY <1>8 DEF MoveDue
  <2> HIDE DEF q, t
  <2>5. ready_tasks' \in [Queues -> Seq(Task)] /\ delayed_tasks' \in [Queues -> SUBSET Task]
    BY <2>3, <2>4
  <2> QED
    BY <1>1, <1>8, <2>5 DEF MoveDue
<1>9. CASE RunTask
  <2>1. Last(stack).q \in Queues
    BY <1>9, TopFrame DEF RunTask, Top
  <2>2. Tail(ready_tasks[Last(stack).q]) \in Seq(Task)
    BY <1>9, <2>1 DEF RunTask
  <2>3. ready_tasks' \in [Queues -> Seq(Task)]
    BY <1>9, <2>2 DEF RunTask
  <2> QED
    BY <1>1, <1>9, <2>3 DEF RunTask
<1>10. CASE RunReadyReturns
  <2> DEFINE q == Last(stack).q
             x == IF delayed_tasks[q] = {} THEN PlusInfinity ELSE post[FirstDelayed(q)].due
  <2>1. q \in Queues
    BY <1>10, TopFrame DEF RunReadyReturns, Top
  <2>2. x \in MinusInfinity..PlusInfinity
    <3>1. delayed_tasks[q] # {} => FirstDelayed(q) \in Task
      BY <2>1, FirstDelayedIsFirst
    <3> QED
      BY <3>1 DEF MinusInfinity, Time
  <2>3. next_run_time' = [next_run_time EXCEPT ![q] = x]
    BY <1>10 DEF RunReadyReturns
  <2> HIDE DEF q, x
  <2>4. next_run_time' \in [Queues -> MinusInfinity..PlusInfinity]
    BY <2>2, <2>3
  <2> QED
    BY <1>1, <1>10, <2>4 DEF RunReadyReturns
<1>11. ASSUME NEW q \in Queues, PostTask(q) PROVE TypeOK'
  BY <1>1, <1>11, EnqueueTyped DEF PostTask
<1>12. ASSUME NEW q \in Queues, NEW d \in Delays, PostDelayedTask(q, d) PROVE TypeOK'
  <2> DEFINE p == [q |-> q, due |-> now + d, delayed |-> TRUE]
             P == [q : Current, due : Time, delayed : BOOLEAN]
  <2>1. posted + 1 \in Task /\ posted' = posted + 1 /\ now + d \in Time
    <3>1. posted < NumTasks /\ posted' = posted + 1 /\ now + d < PlusInfinity
      BY <1>12 DEF PostDelayedTask
    <3>2. d \in Nat /\ now \in Nat
      BY DEF Time
    <3> QED
      BY <3>1, <3>2 DEF Task, Time
  <2>2. p \in P /\ post \in [Task -> P] /\ post' = [post EXCEPT ![posted + 1] = p]
    BY <1>12, <2>1 DEF PostDelayedTask, Current
  <2>3. delayed_tasks[q] \cup {posted + 1} \in SUBSET Task
    BY <2>1
  <2>4. delayed_tasks' \in [Queues -> SUBSET Task]
    BY <1>12, <2>3 DEF PostDelayedTask
  <2>5. next_run_time' \in [Queues -> MinusInfinity..PlusInfinity]
    BY <1>12, <2>1 DEF PostDelayedTask, MinusInfinity, Time
  <2> HIDE DEF p, P
  <2>6. post' \in [Task -> P]
    BY <2>2
  <2> QED
    BY <1>1, <1>12, <2>1, <2>4, <2>5, <2>6 DEF PostDelayedTask, P, Task
<1>13. ASSUME NEW q \in Queues, SendTask(q) PROVE TypeOK'
  <2>1. Last(stack).q \in Current
    BY <1>13, TopFrame DEF SendTask, CodeRuns, Top, Frame
  <2>2. yielded' \subseteq Current
    BY <1>13, <2>1 DEF SendTask
  <2> QED
    BY <1>1, <1>13, <2>2, EnqueueTyped DEF SendTask
<1>14. CASE WaitReturns
  BY <1>1, <1>14 DEF WaitReturns, queueVars
<1>15. ASSUME NEW q \in Queues, CreateTaskQueue(q) PROVE TypeOK'
  <2>1. Append(runners, q) \in Seq(Queues)
    OBVIOUS
  <2> QED
    BY <1>1, <1>15, <2>1 DEF CreateTaskQueue, queueVars
<1>16. ASSUME NEW q \in Queues, DeleteTaskQueue(q) PROVE TypeOK'
  <2>1. runners' \in Seq(Queues)
    BY <1>16, RemoveAtFacts DEF DeleteTaskQueue
  <2>2. <<>> \in Seq(Task) /\ {} \in SUBSET Task /\ PlusInfinity \in MinusInfinity..PlusInfinity
    BY DEF MinusInfinity
  <2>3. /\ ready_tasks' \in [Queues -> Seq(Task)]
        /\ delayed_tasks' \in [Queues -> SUBSET Task]
        /\ next_run_time' \in [Queues -> MinusInfinity..PlusInfinity]
    BY <1>16, <2>2 DEF DeleteTaskQueue
  <2>4. dropped' \subseteq Task
    BY <1>16 DEF DeleteTaskQueue, ToSet
  <2> QED
    BY <1>1, <1>16, <2>1, <2>3, <2>4 DEF DeleteTaskQueue
<1>17. CASE SimulationOver \/ UNCHANGED vars
  BY <1>17 DEF SimulationOver, vars, queueVars
<1> QED
  BY <1>3, <1>4, <1>5, <1>6, <1>7, <1>8, <1>9, <1>10, <1>11, <1>12, <1>13, <1>14,
     <1>15, <1>16, <1>17
  DEF Next, Returns, CodeReturns, Calls, OnTaskTimer

LEMMA InitTyped == Init => TypeInv
<1>1. Init => /\ ready_tasks \in [Queues -> Seq(Task)]
              /\ post \in [Task -> [q : Current, due : Time, delayed : BOOLEAN]]
  BY SimConstants DEF Init, Current, Time
<1>2. Init => /\ delayed_tasks \in [Queues -> SUBSET Task]
              /\ next_run_time \in [Queues -> MinusInfinity..PlusInfinity]
  BY SimConstants DEF Init, MinusInfinity
<1>3. Init => stack \in Seq(Frame) /\ WellFormed(stack)
  BY DEF Init, WellFormed
<1> QED
  BY <1>1, <1>2, <1>3, SimConstants DEF Init, TypeInv, TypeOK, Time

\* Every variable keeps its type, with any queues, tasks and delays.
THEOREM SimTypeCorrect == Spec => []TypeOK
<1>1. TypeInv /\ [Next]_vars => TypeInv'
  BY TypeStep
<1>2. TypeInv => TypeOK
  BY DEF TypeInv
<1> QED
  BY InitTyped, <1>1, <1>2, PTL DEF Spec
------------------------------------------------------------------------------
(* How the calls nest.  RunReady of a queue that is not one of the two top *)
(* frames has been left by a SendTask, and its queue is yielded; yielded_  *)
(* has the queues of the Wait frames, each once.                           *)

IsRunReady(f) == f.fn \in {"MoveDue", "RunTasks"}
IsWait(f) == f.fn = "Wait"
AtWork(s, i) == i = Len(s) \/ (i = Len(s) - 1 /\ s[Len(s)].fn = "Task")

Nested(s, y) ==
  /\ \A i \in DOMAIN s : IsWait(s[i]) => s[i].q \in y
  /\ \A q \in y : \E i \in DOMAIN s : IsWait(s[i]) /\ s[i].q = q
  /\ \A i, j \in DOMAIN s : IsWait(s[i]) /\ IsWait(s[j]) /\ s[i].q = s[j].q => i = j
  /\ \A i, j \in DOMAIN s : IsRunReady(s[i]) /\ IsRunReady(s[j]) /\ s[i].q = s[j].q => i = j
  /\ \A i \in DOMAIN s : IsRunReady(s[i]) => AtWork(s, i) \/ s[i].q \in y
  /\ s # <<>> /\ s[Len(s)].fn \in {"MoveDue", "RunTasks", "Task", "Event"} => s[Len(s)].q \notin y

LEMMA PopNested ==
  ASSUME NEW s, NEW y, WellFormed(s), s # <<>>, Nested(s, y), ~IsWait(Last(s))
  PROVE  Nested(Front(s), y)
<1> DEFINE r == Front(s)
           n == Len(s)
<1>0. s \in Seq(Frame)
  BY DEF WellFormed
<1>1. /\ s \in Seq(Frame) /\ r \in Seq(Frame) /\ Len(r) = n - 1 /\ n \in Nat \ {0}
      /\ DOMAIN r = 1..(n - 1) /\ DOMAIN s = 1..n /\ \A i \in 1..(n - 1) : r[i] = s[i]
      /\ Last(s) = s[n]
  BY <1>0, FrontFacts
<1> HIDE DEF r, n
<1>2. CASE n = 1
  <2>1. DOMAIN r = {} /\ r = <<>>
    BY <1>1, <1>2
  <2>2. \A q \in y : FALSE
    <3>1. ~IsWait(s[1])
      BY <1>1, <1>2
    <3> QED
      BY <1>1, <1>2, <3>1 DEF Nested
  <2> QED
    BY <2>1, <2>2 DEF Nested, r
<1>3. CASE n > 1
  <2>1. n - 1 \in 1..n /\ r[n - 1] = s[n - 1] /\ Fits(s[n - 1], s[n])
    BY <1>1, <1>3 DEF WellFormed, n
  <2>2. ~IsWait(s[n])
    BY <1>1
  <2>3. \A q \in y : \E i \in DOMAIN r : IsWait(r[i]) /\ r[i].q = q
    <3>1. SUFFICES ASSUME NEW q \in y PROVE \E i \in DOMAIN r : IsWait(r[i]) /\ r[i].q = q
      OBVIOUS
    <3>2. PICK i \in DOMAIN s : IsWait(s[i]) /\ s[i].q = q
      BY DEF Nested
    <3>3. i \in 1..(n - 1)
      BY <1>1, <2>2, <3>2
    <3> QED
      BY <1>1, <3>2, <3>3
  <2>4. ASSUME NEW i \in DOMAIN r, IsRunReady(r[i]) PROVE AtWork(r, i) \/ r[i].q \in y
    <3>1. i \in DOMAIN s /\ r[i] = s[i] /\ IsRunReady(s[i]) /\ i # n
      BY <1>1, <2>4
    <3>2. AtWork(s, i) \/ s[i].q \in y
      BY <3>1 DEF Nested
    <3>3. AtWork(s, i) => i = Len(r)
      BY <1>1, <3>1 DEF AtWork, n
    <3> QED
      BY <3>1, <3>2, <3>3 DEF AtWork
  <2>5. r[n - 1].fn \in {"MoveDue", "RunTasks", "Task", "Event"} => r[n - 1].q \notin y
    <3>1. SUFFICES ASSUME s[n - 1].fn \in {"MoveDue", "RunTasks", "Task", "Event"}
                   PROVE  s[n - 1].q \notin y
      BY <2>1
    <3>2. s[n].fn = "Task" /\ s[n - 1].q = s[n].q
      BY <2>1, <2>2, <3>1 DEF Fits, IsWait
    <3> QED
      BY <3>2 DEF Nested, n
  <2>6. \A i \in DOMAIN r : i \in DOMAIN s /\ r[i] = s[i]
    BY <1>1
  <2>7. /\ \A i \in DOMAIN r : IsWait(r[i]) => r[i].q \in y
        /\ \A i, j \in DOMAIN r : IsWait(r[i]) /\ IsWait(r[j]) /\ r[i].q = r[j].q => i = j
        /\ \A i, j \in DOMAIN r : IsRunReady(r[i]) /\ IsRunReady(r[j]) /\ r[i].q = r[j].q => i = j
    BY <2>6 DEF Nested
  <2> QED
    BY <1>1, <1>3, <2>3, <2>4, <2>5, <2>7 DEF Nested, r
<1> QED
  BY <1>1, <1>2, <1>3 DEF r

LEMMA PushNested ==
  ASSUME NEW s, NEW y, WellFormed(s), s # <<>>, Nested(s, y),
         NEW f \in Frame, Fits(Last(s), f), ~IsWait(f), IsRunReady(f) => f.q \notin y
  PROVE  Nested(Append(s, f), y)
<1> DEFINE r == Append(s, f)
           n == Len(s)
<1>1. /\ s \in Seq(Frame) /\ r \in Seq(Frame) /\ Len(r) = n + 1 /\ n \in Nat \ {0}
      /\ DOMAIN r = 1..(n + 1) /\ DOMAIN s = 1..n /\ \A i \in 1..n : r[i] = s[i]
      /\ r[n + 1] = f /\ Last(s) = s[n] /\ r # <<>>
  BY DEF WellFormed, Last
<1> HIDE DEF r, n
<1>2. ASSUME NEW i \in 1..n, IsRunReady(s[i]), s[i].q \notin y PROVE i = n /\ f.fn = "Task"
  <2>1. AtWork(s, i)
    BY <1>1, <1>2 DEF Nested
  <2>2. s[n].fn \notin {"MoveDue", "RunTasks"} => s[n].fn \in {"OnTaskTimer", "Wait", "RunReadyRunners"}
    <3>1. Fits(s[n], f) /\ f.fn # "Wait"
      BY <1>1 DEF IsWait
    <3> QED
      BY <3>1 DEF Fits
  <2>3. i = n
    BY <1>1, <1>2, <2>1, <2>2 DEF AtWork, IsRunReady, n
  <2> QED
    BY <1>1, <1>2, <2>3 DEF Fits, IsRunReady, IsWait
<1>3. \A i \in DOMAIN r : IsWait(r[i]) => i \in DOMAIN s /\ r[i] = s[i]
  BY <1>1
<1>4. ASSUME NEW i \in DOMAIN r, IsRunReady(r[i]) PROVE AtWork(r, i) \/ r[i].q \in y
  <2>1. CASE i = n + 1
    BY <1>1, <2>1 DEF AtWork
  <2>2. CASE i \in 1..n
    <3>1. s[i].q \notin y => i = Len(r) - 1 /\ r[Len(r)].fn = "Task"
      BY <1>1, <1>2, <1>4, <2>2
    <3> QED
      BY <1>1, <2>2, <3>1 DEF AtWork
  <2> QED
    BY <1>1, <2>1, <2>2
<1>5. ASSUME NEW i \in DOMAIN r, NEW j \in DOMAIN r, IsRunReady(r[i]), IsRunReady(r[j]),
             r[i].q = r[j].q
      PROVE  i = j
  <2>1. CASE i \in 1..n /\ j \in 1..n
    BY <1>1, <1>5, <2>1 DEF Nested
  <2>2. CASE IsRunReady(f)
    <3>1. \A k \in 1..n : IsRunReady(s[k]) => s[k].q # f.q
      BY <1>1, <1>2, <2>2 DEF IsRunReady
    <3> QED
      BY <1>1, <1>5, <2>1, <3>1
  <2>3. CASE ~IsRunReady(f)
    BY <1>1, <1>5, <2>1, <2>3
  <2> QED
    BY <2>2, <2>3
<1>6. f.fn \in {"MoveDue", "RunTasks", "Task", "Event"} => f.q \notin y
  <2>1. CASE IsRunReady(f)
    BY <2>1
  <2>2. CASE f.fn = "Task"
    BY <1>1, <2>2 DEF Fits, Nested, n
  <2> QED
    BY <2>1, <2>2 DEF Fits, IsRunReady
<1>7. \A q \in y : \E i \in DOMAIN r : IsWait(r[i]) /\ r[i].q = q
  BY <1>1 DEF Nested
<1> QED
  BY <1>1, <1>3, <1>4, <1>5, <1>6, <1>7 DEF Nested, r

\* SendTask: the queue of the code that calls yields, once.
LEMMA WaitNested ==
  ASSUME NEW s, NEW y, WellFormed(s), s # <<>>, Nested(s, y),
         NEW f \in Frame, Fits(Last(s), f), IsWait(f)
  PROVE  Nested(Append(s, f), y \cup {f.q})
<1> DEFINE r == Append(s, f)
           z == y \cup {f.q}
           n == Len(s)
<1>1. /\ s \in Seq(Frame) /\ r \in Seq(Frame) /\ Len(r) = n + 1 /\ n \in Nat \ {0}
      /\ DOMAIN r = 1..(n + 1) /\ DOMAIN s = 1..n /\ \A i \in 1..n : r[i] = s[i]
      /\ r[n + 1] = f /\ Last(s) = s[n] /\ r # <<>>
  BY DEF WellFormed, Last
<1> HIDE DEF r, z, n
<1>2. s[n].fn \in {"Task", "Event"} /\ s[n].q = f.q /\ f.q \notin y
  <2>1. Fits(s[n], f) /\ f.fn = "Wait"
    BY <1>1 DEF IsWait
  <2>2. s[n].fn \in {"Task", "Event"} /\ s[n].q = f.q
    BY <2>1 DEF Fits
  <2> QED
    BY <2>2 DEF Nested, n
<1>3. \A i \in DOMAIN r : IsRunReady(r[i]) => i \in 1..n /\ r[i] = s[i]
  BY <1>1 DEF IsRunReady, IsWait
<1>4. ASSUME NEW i \in DOMAIN r, IsRunReady(r[i]) PROVE r[i].q \in z
  <2>1. i \in 1..n /\ r[i] = s[i] /\ IsRunReady(s[i])
    BY <1>3, <1>4
  <2>2. CASE s[i].q \in y
    BY <2>1, <2>2 DEF z
  <2>3. CASE AtWork(s, i)
    <3>1. i # n
      BY <1>2, <2>1 DEF IsRunReady
    <3>2. i = n - 1 /\ s[n].fn = "Task" /\ n \in 2..Len(s)
      BY <1>1, <2>1, <2>3, <3>1 DEF AtWork, n
    <3>3. Fits(s[n - 1], s[n])
      BY <3>2 DEF WellFormed
    <3>4. s[i].q = s[n].q
      BY <3>2, <3>3 DEF Fits
    <3> QED
      BY <1>2, <2>1, <3>4 DEF z
  <2> QED
    BY <1>1, <2>1, <2>2, <2>3 DEF Nested
<1>5. \A i, j \in DOMAIN r : IsRunReady(r[i]) /\ IsRunReady(r[j]) /\ r[i].q = r[j].q => i = j
  BY <1>1, <1>3 DEF Nested
<1>6. \A i \in DOMAIN s : IsWait(s[i]) => s[i].q \in y /\ s[i].q # f.q
  BY <1>2 DEF Nested
<1>7. /\ \A i \in DOMAIN r : IsWait(r[i]) => r[i].q \in z
      /\ \A i, j \in DOMAIN r : IsWait(r[i]) /\ IsWait(r[j]) /\ r[i].q = r[j].q => i = j
  <2>1. ASSUME NEW i \in DOMAIN r, i # n + 1 PROVE i \in DOMAIN s /\ r[i] = s[i]
    <3>1. i \in 1..n
      BY <1>1, <2>1
    <3> QED
      BY <1>1, <3>1
  <2> QED
    BY <1>1, <1>6, <2>1 DEF Nested, z
<1>8. \A q \in z : \E i \in DOMAIN r : IsWait(r[i]) /\ r[i].q = q
  <2>1. n + 1 \in DOMAIN r /\ DOMAIN s \subseteq DOMAIN r
    BY <1>1
  <2> QED
    BY <1>1, <2>1 DEF Nested, z
<1>9. r[Len(r)] = f
  BY <1>1
<1> QED
  BY <1>1, <1>4, <1>5, <1>7, <1>8, <1>9 DEF Nested, r, z, IsWait

\* The wait is over: the code that called goes on, and its queue with it.
LEMMA UnwaitNested ==
  ASSUME NEW s, NEW y, WellFormed(s), s # <<>>, Nested(s, y), IsWait(Last(s))
  PROVE  Nested(Front(s), y \ {Last(s).q})
<1> DEFINE r == Front(s)
           n == Len(s)
           w == Last(s)
           z == y \ {w.q}
<1>0. s \in Seq(Frame)
  BY DEF WellFormed
<1>1. /\ r \in Seq(Frame) /\ Len(r) = n - 1 /\ n \in Nat \ {0}
      /\ DOMAIN r = 1..(n - 1) /\ DOMAIN s = 1..n /\ \A i \in 1..(n - 1) : r[i] = s[i]
      /\ w = s[n]
  BY <1>0, FrontFacts
<1>2. /\ n > 1 /\ r[n - 1] = s[n - 1] /\ n - 1 \in 1..n
      /\ s[n - 1].fn \in {"Task", "Event"} /\ s[n - 1].q = w.q
  <2>1. n # 1
    <3>1. s[1].fn \in {"OnTaskTimer", "Event"}
      BY DEF WellFormed
    <3>2. s[n].fn = "Wait"
      BY <1>1 DEF IsWait
    <3> QED
      BY <3>1, <3>2
  <2>2. n > 1 /\ r[n - 1] = s[n - 1] /\ n - 1 \in 1..n /\ n \in 2..Len(s)
    BY <1>1, <2>1
  <2>3. Fits(s[n - 1], s[n]) /\ s[n].fn = "Wait"
    BY <1>1, <2>2 DEF WellFormed, IsWait
  <2> QED
    BY <1>1, <2>2, <2>3 DEF Fits
<1> HIDE DEF r, n, w, z
<1>3. \A i \in DOMAIN r : i \in DOMAIN s /\ i # n /\ r[i] = s[i]
  BY <1>1
<1>4. n \in DOMAIN s /\ IsWait(s[n]) /\ s[n].q = w.q
  BY <1>1 DEF w, IsWait
<1>5. \A i \in DOMAIN r : IsWait(r[i]) => r[i].q \in z
  BY <1>3, <1>4 DEF Nested, z
<1>6. \A q \in z : \E i \in DOMAIN r : IsWait(r[i]) /\ r[i].q = q
  <2>1. SUFFICES ASSUME NEW q \in y, q # w.q PROVE \E i \in DOMAIN r : IsWait(r[i]) /\ r[i].q = q
    BY DEF z
  <2>2. PICK i \in DOMAIN s : IsWait(s[i]) /\ s[i].q = q
    BY DEF Nested
  <2>3. i \in DOMAIN r
    BY <1>1, <1>4, <2>1, <2>2
  <2> QED
    BY <1>3, <2>2, <2>3
<1>7. ASSUME NEW i \in DOMAIN r, IsRunReady(r[i]) PROVE AtWork(r, i) \/ r[i].q \in z
  <2>1. i \in DOMAIN s /\ i # n /\ r[i] = s[i] /\ IsRunReady(s[i])
    BY <1>3, <1>7
  <2>2. ~AtWork(s, i)
    BY <1>4, <2>1 DEF AtWork, IsWait, n
  <2>3. s[i].q \in y
    BY <2>1, <2>2 DEF Nested
  <2>4. CASE s[i].q # w.q
    BY <2>1, <2>3, <2>4 DEF z
  <2>5. CASE s[i].q = w.q
    <3>1. i < n - 1
      BY <1>1, <1>2, <2>1 DEF IsRunReady
    <3>2. n - 1 \in 2..Len(s) /\ n - 1 - 1 \in DOMAIN s
      BY <1>1, <1>2, <2>1, <3>1 DEF n
    <3>3. Fits(s[n - 1 - 1], s[n - 1])
      BY <3>2 DEF WellFormed
    <3>4. s[n - 1].fn = "Task" /\ IsRunReady(s[n - 1 - 1]) /\ s[n - 1 - 1].q = w.q
      BY <1>2, <3>3 DEF Fits, IsRunReady
    <3>5. i = n - 1 - 1
      BY <2>1, <2>5, <3>2, <3>4 DEF Nested
    <3> QED
      BY <1>1, <1>2, <3>4, <3>5 DEF AtWork
  <2> QED
    BY <2>4, <2>5
<1>8. /\ \A i, j \in DOMAIN r : IsWait(r[i]) /\ IsWait(r[j]) /\ r[i].q = r[j].q => i = j
      /\ \A i, j \in DOMAIN r : IsRunReady(r[i]) /\ IsRunReady(r[j]) /\ r[i].q = r[j].q => i = j
  BY <1>3 DEF Nested
<1>9. r[Len(r)].q \notin z
  BY <1>1, <1>2 DEF z
<1> QED
  BY <1>5, <1>6, <1>7, <1>8, <1>9 DEF Nested, r, z, w

NestInv == Nested(stack, yielded) /\ ready_runners \cap yielded = {}

LEMMA NestStep == ASSUME TypeInv, NestInv, [Next]_vars PROVE NestInv'
<1> USE DEF NestInv
<1>1. WellFormed(stack) /\ stack \in Seq(Frame)
  BY DEF TypeInv, WellFormed
<1>2. stack # <<>> => Last(stack) = stack[Len(stack)]
  BY DEF Last
<1>3. ASSUME UNCHANGED <<stack, yielded>>, ready_runners' \subseteq ready_runners PROVE NestInv'
  BY <1>3
<1>4. ASSUME stack # <<>>, Last(stack).fn # "Wait", stack' = Front(stack),
             UNCHANGED <<yielded, ready_runners>>
      PROVE  NestInv'
  BY <1>1, <1>4, PopNested DEF IsWait
<1>5. \A fn \in {"OnTaskTimer", "RunReadyRunners", "MoveDue", "RunTasks", "Task", "Event", "Wait"},
         q \in Current, t \in 0..NumTasks : F(fn, q, t) \in Frame
  BY DEF F, Frame
<1>6. 0 \in 0..NumTasks /\ Main \in Current /\ Queues \subseteq Current
  BY SimConstants DEF Current
<1>7. ASSUME stack = <<>> PROVE yielded = {}
  BY <1>7 DEF Nested
<1>8. CASE FireTimer
  <2>1. /\ stack' = <<F("OnTaskTimer", Main, 0), F("RunReadyRunners", Main, 0)>>
        /\ yielded' = {} /\ ready_runners' = {}
    BY <1>7, <1>8 DEF FireTimer
  <2> QED
    BY <2>1 DEF Nested, F, IsWait, IsRunReady
<1>9. CASE FireEvent
  <2>1. stack' = <<F("Event", Main, 0)>> /\ yielded' = {} /\ ready_runners' = ready_runners
    BY <1>7, <1>9 DEF FireEvent
  <2> QED
    BY <2>1 DEF Nested, F, IsWait, IsRunReady
<1>10. CASE CollectReady
  <2>1. ready_runners' \cap yielded' = {} /\ yielded' = yielded
    BY <1>10 DEF CollectReady
  <2>2. Nested(stack', yielded)
    <3>1. stack' = stack \/ stack' = Front(stack)
      BY <1>10 DEF CollectReady, Return
    <3>2. stack # <<>> /\ ~IsWait(Last(stack))
      BY <1>10 DEF CollectReady, Top, IsWait
    <3> QED
      BY <1>1, <3>1, <3>2, PopNested
  <2> QED
    BY <2>1, <2>2
<1>11. ASSUME NEW q \in Queues, RunReady(q) PROVE NestInv'
  <2> DEFINE f == F("MoveDue", q, 0)
  <2>1. /\ stack # <<>> /\ Last(stack).fn = "RunReadyRunners" /\ stack' = Append(stack, f)
        /\ q \in ready_runners /\ ready_runners' \subseteq ready_runners /\ yielded' = yielded
    BY <1>11 DEF RunReady, Top
  <2>2. f \in Frame /\ Fits(Last(stack), f) /\ ~IsWait(f) /\ f.q \notin yielded
    BY <1>5, <1>6, <2>1 DEF Fits, F, IsWait
  <2> HIDE DEF f
  <2> QED
    BY <1>1, <2>1, <2>2, PushNested
<1>12. CASE TimerAgain
  <2> DEFINE f == F("RunReadyRunners", Main, 0)
  <2>1. /\ stack # <<>> /\ Last(stack).fn = "OnTaskTimer" /\ stack' = Append(stack, f)
        /\ ready_runners' = {} /\ yielded' = yielded
    BY <1>12 DEF TimerAgain, Top
  <2>2. f \in Frame /\ Fits(Last(stack), f) /\ ~IsWait(f) /\ ~IsRunReady(f)
    BY <1>5, <1>6, <2>1 DEF Fits, F, IsWait, IsRunReady
  <2> HIDE DEF f
  <2> QED
    BY <1>1, <2>1, <2>2, PushNested
<1>13. CASE AllMoved
  <2> DEFINE f == F("RunTasks", Last(stack).q, 0)
  <2>1. /\ stack # <<>> /\ Last(stack).fn = "MoveDue" /\ stack' = Append(Front(stack), f)
        /\ yielded' = yielded /\ ready_runners' = ready_runners
    BY <1>13 DEF AllMoved, Top, Return
  <2>2. Last(stack).q \in Queues /\ Last(stack).q \notin yielded
    BY <1>2, <2>1, TopFrame DEF Nested
  <2>3. /\ f \in Frame /\ ~IsWait(f) /\ f.q \notin yielded
        /\ Front(stack) # <<>> /\ WellFormed(Front(stack)) /\ Fits(Last(Front(stack)), f)
    BY <1>5, <1>6, <2>1, <2>2, TopFrame DEF F, IsWait
  <2>4. Nested(Front(stack), yielded)
    BY <1>1, <2>1, PopNested DEF IsWait
  <2> HIDE DEF f
  <2> QED
    BY <2>1, <2>3, <2>4, PushNested
<1>14. CASE RunTask
  <2> DEFINE t == Head(ready_tasks[Last(stack).q])
             f == F("Task", Last(stack).q, t)
  <2>1. /\ stack # <<>> /\ Last(stack).fn = "RunTasks" /\ stack' = Append(stack, f)
        /\ yielded' = yielded /\ ready_runners' = ready_runners
        /\ ready_tasks[Last(stack).q] # <<>>
    BY <1>14 DEF RunTask, Top
  <2>2. Last(stack).q \in Queues
    BY <2>1, TopFrame
  <2>3. t \in 0..NumTasks
    BY <2>1, <2>2, SimConstants DEF TypeInv, TypeOK, Task
  <2>4. f \in Frame /\ Fits(Last(stack), f) /\ ~IsWait(f) /\ ~IsRunReady(f)
    BY <1>5, <1>6, <2>1, <2>2, <2>3 DEF Fits, F, IsWait, IsRunReady
  <2> HIDE DEF f
  <2> QED
    BY <1>1, <2>1, <2>4, PushNested
<1>15. ASSUME NEW q \in Queues, SendTask(q) PROVE NestInv'
  <2> DEFINE w == F("Wait", Last(stack).q, posted + 1)
             r == F("RunReadyRunners", Main, 0)
             s == Append(stack, w)
  <2>1. /\ stack # <<>> /\ Last(stack).fn \in {"Task", "Event"}
        /\ stack' = stack \o <<w, r>> /\ posted < NumTasks
        /\ yielded' = yielded \cup {w.q} /\ ready_runners' = {}
    BY <1>15 DEF SendTask, CodeRuns, Top, Enqueue, F
  <2>2. posted + 1 \in 0..NumTasks
    BY <2>1, SimConstants DEF TypeInv, TypeOK
  <2>3. Last(stack).q \in Current
    BY <2>1, TopFrame DEF Frame
  <2>4. w \in Frame /\ r \in Frame
    BY <1>5, <1>6, <2>2, <2>3
  <2>5. /\ Fits(Last(stack), w) /\ Fits(w, r) /\ IsWait(w) /\ ~IsWait(r) /\ ~IsRunReady(r)
    BY <2>1 DEF Fits, F, IsWait, IsRunReady
  <2> HIDE DEF w, r
  <2>6. WellFormed(s) /\ Nested(s, yielded \cup {w.q})
    BY <1>1, <2>1, <2>4, <2>5, PushFits, WaitNested
  <2>7. s # <<>> /\ Last(s) = w
    BY <1>1, <2>4 DEF Last
  <2>8. stack' = Append(s, r)
    BY <1>1, <2>1, <2>4
  <2> HIDE DEF s
  <2>9. Nested(stack', yielded')
    BY <2>1, <2>4, <2>5, <2>6, <2>7, <2>8, PushNested
  <2> QED
    BY <2>1, <2>9
<1>16. CASE WaitReturns
  <2>1. /\ stack # <<>> /\ IsWait(Last(stack)) /\ stack' = Front(stack)
        /\ yielded' = yielded \ {Last(stack).q} /\ ready_runners' = ready_runners
    BY <1>16 DEF WaitReturns, Top, Return, IsWait
  <2> QED
    BY <1>1, <2>1, UnwaitNested
<1>17. CASE EventReturns \/ TimerReturns \/ TaskReturns \/ RunReadyReturns
  BY <1>4, <1>17 DEF EventReturns, TimerReturns, TaskReturns, RunReadyReturns, Top, Return
<1>18. CASE MoveDue \/ SimulationOver \/ UNCHANGED vars
  BY <1>3, <1>18 DEF MoveDue, SimulationOver, vars
<1>19. ASSUME NEW q \in Queues,
              \/ PostTask(q) \/ CreateTaskQueue(q) \/ DeleteTaskQueue(q)
              \/ \E d \in Delays : PostDelayedTask(q, d)
       PROVE  NestInv'
  BY <1>3, <1>19 DEF PostTask, CreateTaskQueue, DeleteTaskQueue, PostDelayedTask
<1> QED
  BY <1>8, <1>9, <1>10, <1>11, <1>12, <1>13, <1>14, <1>15, <1>16, <1>17, <1>18, <1>19
  DEF Next, Returns, CodeReturns, Calls, OnTaskTimer

\* Whatever tasks post and wait for, and however deep the calls nest: no queue runs
\* two tasks at once, and code that runs is never on a queue that has yielded (the
\* assertion in YieldExecution).
THEOREM OneTaskCorrect == Spec => []OneTaskAtATime
<1>1. Init => NestInv
  BY DEF Init, NestInv, Nested
<1>2. TypeInv /\ NestInv /\ [Next]_vars => (TypeInv /\ NestInv)'
  BY TypeStep, NestStep
<1>3. TypeInv /\ NestInv => OneTaskAtATime
  <2>1. SUFFICES ASSUME TypeInv, NestInv PROVE OneTaskAtATime
    OBVIOUS
  <2>2. CodeRuns => Last(stack).q \notin yielded
    BY <2>1 DEF CodeRuns, Top, Last, NestInv, Nested
  <2> QED
    BY <2>1, <2>2 DEF OneTaskAtATime, NestInv, Nested, IsRunReady
<1> QED
  BY InitTyped, <1>1, <1>2, <1>3, PTL DEF Spec
------------------------------------------------------------------------------
(* The next run time of a queue.  RunReady makes it exact when it returns; *)
(* while it is on the stack the time may only be too early.                *)

Early(q) ==
  /\ ready_tasks[q] # <<>> => next_run_time[q] <= now
  /\ \A t \in delayed_tasks[q] : next_run_time[q] <= post[t].due

\* The third conjunct of NextRunTimeProvided, without the minimum.
Exact(q) ==
  IF ready_tasks[q] # <<>> THEN next_run_time[q] = MinusInfinity
  ELSE \/ next_run_time[q] = PlusInfinity
       \/ \E t \in delayed_tasks[q] : next_run_time[q] = post[t].due

RunTimeInv ==
  /\ now <= timer
  /\ \A q \in Queues : /\ delayed_tasks[q] \subseteq 1..posted
                       /\ Early(q)
                       /\ OnStack(q) \/ Exact(q)

\* A frame that is pushed, or popped from above another of its queue, leaves every
\* queue on the stack that was there.
LEMMA OnStackPush ==
  ASSUME stack \in Seq(Frame), NEW f \in Frame, stack' = Append(stack, f), NEW q, OnStack(q)
  PROVE  OnStack(q)'
<1>1. PICK i \in DOMAIN stack : stack[i].fn # "Wait" /\ stack[i].q = q
  BY DEF OnStack
<1>2. i \in DOMAIN stack' /\ stack'[i] = stack[i]
  OBVIOUS
<1> QED
  BY <1>1, <1>2 DEF OnStack

LEMMA OnStackPop ==
  ASSUME stack \in Seq(Frame), stack # <<>>, stack' = Front(stack),
         NEW q, OnStack(q), Last(stack).fn = "Wait" \/ Last(stack).q # q
  PROVE  OnStack(q)'
<1>1. PICK i \in DOMAIN stack : stack[i].fn # "Wait" /\ stack[i].q = q
  BY DEF OnStack
<1>2. /\ DOMAIN stack' = 1..(Len(stack) - 1) /\ Last(stack) = stack[Len(stack)]
      /\ \A j \in 1..(Len(stack) - 1) : stack'[j] = stack[j]
  BY FrontFacts
<1>3. i # Len(stack)
  BY <1>1, <1>2
<1>4. i \in 1..(Len(stack) - 1)
  BY <1>3
<1> QED
  BY <1>1, <1>2, <1>4 DEF OnStack

LEMMA TopOnStack == ASSUME TypeInv, stack # <<>>, Last(stack).fn # "Wait" PROVE OnStack(Last(stack).q)
BY DEF TypeInv, TypeOK, OnStack, Last

\* No step but RunReadyReturns takes a queue off the stack.
LEMMA OnStackStep ==
  ASSUME TypeInv, [Next]_vars, NEW q \in Queues, OnStack(q)
  PROVE  OnStack(q)' \/ (RunReadyReturns /\ Last(stack).q = q)
<1>1. stack \in Seq(Frame) /\ stack' \in Seq(Frame) /\ q # Main /\ stack # <<>>
  BY TypeStep, SimConstants DEF TypeInv, TypeOK, OnStack
<1>2. ASSUME NEW f, stack' = Append(stack, f) PROVE OnStack(q)'
  <2>1. f \in Frame
    <3>1. Len(stack') = Len(stack) + 1 /\ stack'[Len(stack) + 1] = f
      BY <1>1, <1>2
    <3> QED
      BY <1>1, <3>1
  <2> QED
    BY <1>1, <1>2, <2>1, OnStackPush
<1>3. CASE FireTimer \/ FireEvent
  BY <1>1, <1>3 DEF FireTimer, FireEvent
<1>4. CASE CollectReady \/ TimerReturns \/ EventReturns \/ WaitReturns
  <2>1. stack' = stack \/ stack' = Front(stack)
    BY <1>4 DEF CollectReady, TimerReturns, EventReturns, WaitReturns, Return
  <2>2. Last(stack).fn \in {"RunReadyRunners", "OnTaskTimer", "Event", "Wait"}
    BY <1>4 DEF CollectReady, TimerReturns, EventReturns, WaitReturns, Top
  <2>3. Last(stack).fn = "Wait" \/ Last(stack).q = Main
    BY <1>1, <2>2, TopFits DEF TypeInv, Fits
  <2>4. CASE stack' = stack
    BY <2>4 DEF OnStack
  <2>5. CASE stack' = Front(stack)
    BY <1>1, <2>3, <2>5, OnStackPop
  <2> QED
    BY <2>1, <2>4, <2>5
<1>5. CASE TaskReturns
  <2>1. stack' = Front(stack) /\ Last(stack).fn = "Task"
    BY <1>5 DEF TaskReturns, Top, Return
  <2>2. Front(stack) # <<>> /\ Fits(Last(Front(stack)), Last(stack))
    BY <1>1, <2>1, TopFits DEF TypeInv
  <2>3. Last(stack').fn = "RunTasks" /\ Last(stack').q = Last(stack).q /\ stack' # <<>>
    BY <2>1, <2>2 DEF Fits
  <2>4. CASE Last(stack).q = q
    BY <1>1, <2>3, <2>4 DEF OnStack, Last
  <2>5. CASE Last(stack).q # q
    BY <1>1, <2>1, <2>5, OnStackPop
  <2> QED
    BY <2>4, <2>5
<1>6. CASE RunReadyReturns
  <2>1. stack' = Front(stack)
    BY <1>6 DEF RunReadyReturns, Return
  <2> QED
    BY <1>1, <1>6, <2>1, OnStackPop
<1>7. CASE AllMoved
  <2> DEFINE f == F("RunTasks", Last(stack).q, 0)
             r == Front(stack)
  <2>1. stack' = Append(r, f)
    BY <1>7 DEF AllMoved, Return
  <2>2. r \in Seq(Frame) /\ DOMAIN r = 1..(Len(stack) - 1) /\ Len(r) = Len(stack) - 1
        /\ \A i \in 1..(Len(stack) - 1) : r[i] = stack[i]
        /\ Last(stack) = stack[Len(stack)] /\ Len(stack) \in Nat \ {0}
    BY <1>1, FrontFacts
  <2> HIDE DEF f, r
  <2>3. /\ DOMAIN stack' = 1..Len(stack) /\ stack'[Len(stack)] = f
        /\ \A i \in 1..(Len(stack) - 1) : stack'[i] = stack[i]
    BY <2>1, <2>2
  <2>4. PICK i \in DOMAIN stack : stack[i].fn # "Wait" /\ stack[i].q = q
    BY DEF OnStack
  <2>5. i \in 1..Len(stack)
    BY <1>1
  <2>6. stack'[i].fn # "Wait" /\ stack'[i].q = q
    <3>1. CASE i = Len(stack)
      <4>1. f.fn = "RunTasks" /\ f.q = Last(stack).q
        BY DEF f, F
      <4>2. stack'[i] = f
        BY <2>3, <3>1
      <4>3. Last(stack).q = q
        BY <2>4, <3>1 DEF Last
      <4> QED
        BY <4>1, <4>2, <4>3
    <3>2. CASE i # Len(stack)
      BY <2>2, <2>3, <2>4, <2>5, <3>2
    <3> QED
      BY <3>1, <3>2
  <2> QED
    BY <2>3, <2>5, <2>6 DEF OnStack
<1>8. ASSUME NEW p \in Queues, SendTask(p) PROVE OnStack(q)'
  <2> DEFINE w == F("Wait", Last(stack).q, posted + 1)
             r == F("RunReadyRunners", Main, 0)
  <2>1. stack' = stack \o <<w, r>>
    BY <1>8 DEF SendTask
  <2> HIDE DEF w, r
  <2>2. DOMAIN stack \subseteq DOMAIN stack' /\ \A i \in DOMAIN stack : stack'[i] = stack[i]
    BY <1>1, <2>1
  <2> QED
    BY <2>2 DEF OnStack
<1>9. CASE TimerAgain \/ RunTask \/ \E p \in Queues : RunReady(p)
  BY <1>2, <1>9 DEF TimerAgain, RunTask, RunReady
<1>10. ASSUME UNCHANGED stack PROVE OnStack(q)'
  BY <1>10 DEF OnStack
<1>11. CASE MoveDue \/ SimulationOver \/ UNCHANGED vars
  BY <1>10, <1>11 DEF MoveDue, SimulationOver, vars
<1>12. ASSUME NEW p \in Queues,
              \/ PostTask(p) \/ CreateTaskQueue(p) \/ DeleteTaskQueue(p)
              \/ \E d \in Delays : PostDelayedTask(p, d)
       PROVE  OnStack(q)'
  BY <1>10, <1>12 DEF PostTask, CreateTaskQueue, DeleteTaskQueue, PostDelayedTask
<1> QED
  BY <1>3, <1>4, <1>5, <1>6, <1>7, <1>8, <1>9, <1>11, <1>12
  DEF Next, Returns, CodeReturns, Calls, OnTaskTimer

LEMMA RunTimeStep == ASSUME TypeInv, RunTimeInv, [Next]_vars PROVE RunTimeInv'
<1>1. /\ now \in Nat /\ timer \in Nat /\ now < PlusInfinity /\ PlusInfinity \in Nat /\ posted \in Nat
      /\ now' \in Nat /\ timer' \in Nat
      /\ \A q \in Queues : next_run_time[q] \in Int /\ delayed_tasks[q] \subseteq Task
      /\ \A t \in Task : post[t].due \in Nat
  BY TypeStep, SimConstants DEF TypeInv, TypeOK, Time, MinusInfinity
\* For a queue whose variables a step leaves alone.
<1>2. ASSUME NEW q \in Queues, now <= now', 1..posted \subseteq 1..posted',
             ready_tasks'[q] = ready_tasks[q], delayed_tasks'[q] = delayed_tasks[q],
             next_run_time'[q] = next_run_time[q],
             \A t \in delayed_tasks[q] : post'[t] = post[t],
             ~(RunReadyReturns /\ Last(stack).q = q)
      PROVE  delayed_tasks'[q] \subseteq 1..posted' /\ Early(q)' /\ (OnStack(q)' \/ Exact(q)')
  <2>1. delayed_tasks'[q] \subseteq 1..posted'
    BY <1>2 DEF RunTimeInv
  <2>2. Early(q)'
    BY <1>1, <1>2 DEF RunTimeInv, Early
  <2>3. Exact(q) => Exact(q)'
    BY <1>2 DEF Exact
  <2> QED
    BY <1>2, <2>1, <2>2, <2>3, OnStackStep DEF RunTimeInv
<1>3. ASSUME UNCHANGED queueVars, now <= now', now' <= timer', ~RunReadyReturns PROVE RunTimeInv'
  BY <1>1, <1>2, <1>3 DEF queueVars, RunTimeInv
<1>4. CASE FireTimer
  BY <1>1, <1>3, <1>4 DEF FireTimer, RunReadyReturns, Top, RunTimeInv
<1>5. CASE FireEvent
  BY <1>1, <1>3, <1>5 DEF FireEvent, RunReadyReturns, Top, RunTimeInv
<1>6. CASE TimerReturns
  <2>1. now' <= timer'
    BY <1>1, <1>6, NextRunTimeIsLeast DEF TimerReturns, TypeInv
  <2> QED
    BY <1>1, <1>3, <1>6, <2>1 DEF TimerReturns, RunReadyReturns, Top
<1>7. CASE EventReturns \/ CollectReady \/ TimerAgain \/ AllMoved \/ TaskReturns \/ WaitReturns
           \/ \E q \in Queues : RunReady(q)
  <2>1. UNCHANGED <<now, timer>> /\ UNCHANGED queueVars
    BY <1>7 DEF EventReturns, CollectReady, TimerAgain, AllMoved, TaskReturns, WaitReturns, RunReady
  <2>2. ~RunReadyReturns
    BY <1>7 DEF EventReturns, CollectReady, TimerAgain, AllMoved, TaskReturns, WaitReturns,
                RunReady, RunReadyReturns, Top
  <2> QED
    BY <1>1, <1>3, <2>1, <2>2 DEF RunTimeInv
<1>8. CASE SimulationOver \/ UNCHANGED vars
  <2>1. UNCHANGED <<now, timer, stack>> /\ UNCHANGED queueVars
    BY <1>8 DEF SimulationOver, vars, queueVars
  <2>2. \A q \in Queues : OnStack(q)' <=> OnStack(q)
    BY <2>1 DEF OnStack
  <2> QED
    BY <2>1, <2>2 DEF RunTimeInv, Early, Exact, queueVars
<1>9. ASSUME NEW q \in Queues, q = Last(stack).q, MoveDue PROVE RunTimeInv'
  <2>1. OnStack(q) /\ delayed_tasks[q] # {} /\ ~RunReadyReturns
    BY <1>9, TopOnStack DEF MoveDue, RunReadyReturns, Top
  <2>2. PICK u \in delayed_tasks[q] : post[u].due <= now
    BY <1>9 DEF MoveDue
  <2>3. PICK t : /\ ready_tasks' = [ready_tasks EXCEPT ![q] = Append(@, t)]
                 /\ delayed_tasks' = [delayed_tasks EXCEPT ![q] = @ \ {t}]
    BY <1>9 DEF MoveDue
  <2>4. /\ UNCHANGED <<now, timer, stack, next_run_time, posted, post>>
        /\ ready_tasks \in [Queues -> Seq(Task)] /\ delayed_tasks \in [Queues -> SUBSET Task]
    BY <1>9 DEF MoveDue, TypeInv, TypeOK
  <2>5. next_run_time[q] <= now
    <3>1. next_run_time[q] <= post[u].due /\ post[u].due \in Nat /\ next_run_time[q] \in Int
      BY <1>1, <2>2 DEF RunTimeInv, Early
    <3> QED
      BY <1>1, <2>2, <3>1
  <2>6. OnStack(q)'
    BY <2>1, <2>4 DEF OnStack
  <2>7. delayed_tasks'[q] = delayed_tasks[q] \ {t}
    BY <2>3, <2>4
  <2>8. delayed_tasks'[q] \subseteq 1..posted' /\ Early(q)'
    BY <2>4, <2>5, <2>7 DEF RunTimeInv, Early
  <2>9. ASSUME NEW p \in Queues, p # q
        PROVE  delayed_tasks'[p] \subseteq 1..posted' /\ Early(p)' /\ (OnStack(p)' \/ Exact(p)')
    BY <1>1, <1>2, <2>1, <2>3, <2>4, <2>9
  <2> QED
    BY <2>4, <2>6, <2>8, <2>9 DEF RunTimeInv
<1>10. ASSUME NEW q \in Queues, q = Last(stack).q, RunTask PROVE RunTimeInv'
  <2>1. OnStack(q) /\ ready_tasks[q] # <<>> /\ ~RunReadyReturns
    BY <1>10, TopOnStack DEF RunTask, RunReadyReturns, Top
  <2>2. /\ UNCHANGED <<now, timer, delayed_tasks, next_run_time, posted, post>>
        /\ ready_tasks' = [ready_tasks EXCEPT ![q] = Tail(@)]
        /\ ready_tasks \in [Queues -> Seq(Task)]
    BY <1>10 DEF RunTask, TypeInv, TypeOK
  <2>3. OnStack(q)'
    BY <2>1, OnStackStep
  <2>4. delayed_tasks'[q] \subseteq 1..posted' /\ Early(q)'
    BY <2>1, <2>2 DEF RunTimeInv, Early
  <2>5. ASSUME NEW p \in Queues, p # q
        PROVE  delayed_tasks'[p] \subseteq 1..posted' /\ Early(p)' /\ (OnStack(p)' \/ Exact(p)')
    BY <1>1, <1>2, <2>1, <2>2, <2>5
  <2> QED
    BY <2>2, <2>3, <2>4, <2>5 DEF RunTimeInv
<1>11. ASSUME NEW q \in Queues, q = Last(stack).q, RunReadyReturns PROVE RunTimeInv'
  <2> DEFINE x == IF delayed_tasks[q] = {} THEN PlusInfinity ELSE post[FirstDelayed(q)].due
  <2>1. /\ UNCHANGED <<now, timer, ready_tasks, delayed_tasks, posted, post>>
        /\ next_run_time' = [next_run_time EXCEPT ![q] = x] /\ ready_tasks[q] = <<>>
        /\ next_run_time \in [Queues -> MinusInfinity..PlusInfinity]
    BY <1>11 DEF RunReadyReturns, TypeInv, TypeOK
  <2>2. /\ \A t \in delayed_tasks[q] : x <= post[t].due
        /\ x = PlusInfinity \/ \E t \in delayed_tasks[q] : x = post[t].due
    BY FirstDelayedIsFirst DEF TypeInv
  <2>3. next_run_time'[q] = x
    BY <2>1
  <2> HIDE DEF x
  <2>4. delayed_tasks'[q] \subseteq 1..posted' /\ Early(q)' /\ Exact(q)'
    BY <2>1, <2>2, <2>3 DEF RunTimeInv, Early, Exact
  <2>5. ASSUME NEW p \in Queues, p # q
        PROVE  delayed_tasks'[p] \subseteq 1..posted' /\ Early(p)' /\ (OnStack(p)' \/ Exact(p)')
    BY <1>1, <1>2, <1>11, <2>1, <2>5
  <2> QED
    BY <2>1, <2>4, <2>5 DEF RunTimeInv
<1>12. ASSUME NEW q \in Queues, Enqueue(q), UNCHANGED <<now, timer>>, ~RunReadyReturns PROVE RunTimeInv'
  <2>1. /\ posted' = posted + 1 /\ delayed_tasks' = delayed_tasks
        /\ ready_tasks' = [ready_tasks EXCEPT ![q] = Append(@, posted + 1)]
        /\ next_run_time' = [next_run_time EXCEPT ![q] = MinusInfinity]
        /\ ready_tasks \in [Queues -> Seq(Task)] /\ posted + 1 \in Task
        /\ next_run_time \in [Queues -> MinusInfinity..PlusInfinity]
    <3>1. posted < NumTasks /\ posted \in Nat /\ NumTasks \in Nat
      BY <1>1, <1>12, SimConstants DEF Enqueue
    <3>2. posted + 1 \in Task
      BY <3>1 DEF Task
    <3> QED
      BY <1>12, <3>2 DEF Enqueue, TypeInv, TypeOK
  <2>2. \A t \in 1..posted : post'[t] = post[t]
    BY <1>1, <1>12 DEF Enqueue, TypeInv, TypeOK
  <2>3. \A p \in Queues : \A t \in delayed_tasks[p] : post'[t] = post[t]
    BY <2>2 DEF RunTimeInv
  <2>4. 1..posted \subseteq 1..posted'
    BY <1>1, <2>1
  <2>5. Early(q)'
    <3>1. next_run_time'[q] = MinusInfinity
      BY <2>1
    <3> QED
      <4>1. MinusInfinity <= now' /\ \A n \in Nat : MinusInfinity <= n
        BY <1>1 DEF MinusInfinity
      <4>2. \A t \in delayed_tasks'[q] : post'[t].due \in Nat
        BY <1>1, <2>1, <2>3
      <4> QED
        BY <3>1, <4>1, <4>2 DEF Early
  <2>6. ready_tasks'[q] # <<>> /\ next_run_time'[q] = MinusInfinity
    BY <2>1
  <2>7. delayed_tasks'[q] \subseteq 1..posted' /\ Exact(q)'
    BY <2>1, <2>4, <2>6 DEF RunTimeInv, Exact
  <2>8. ASSUME NEW p \in Queues, p # q
        PROVE  delayed_tasks'[p] \subseteq 1..posted' /\ Early(p)' /\ (OnStack(p)' \/ Exact(p)')
    <3>1. /\ ready_tasks'[p] = ready_tasks[p] /\ delayed_tasks'[p] = delayed_tasks[p]
          /\ next_run_time'[p] = next_run_time[p] /\ now <= now'
      BY <1>1, <1>12, <2>1, <2>8
    <3>2. \A t \in delayed_tasks[p] : post'[t] = post[t]
      BY <2>3
    <3> QED
      BY <1>2, <1>12, <2>4, <3>1, <3>2
  <2> QED
    BY <1>12, <2>5, <2>7, <2>8 DEF RunTimeInv
<1>13. ASSUME NEW q \in Queues, PostTask(q) \/ SendTask(q) PROVE RunTimeInv'
  <2>1. Enqueue(q) /\ UNCHANGED <<now, timer>>
    BY <1>13 DEF PostTask, SendTask
  <2>2. ~RunReadyReturns
    BY <1>13 DEF PostTask, SendTask, CodeRuns, Top, RunReadyReturns
  <2> QED
    BY <1>12, <2>1, <2>2
<1>14. ASSUME NEW q \in Queues, NEW d \in Delays, PostDelayedTask(q, d) PROVE RunTimeInv'
  <2> DEFINE u == posted + 1
  <2>1. /\ posted' = u /\ UNCHANGED <<now, timer, stack, ready_tasks>>
        /\ delayed_tasks' = [delayed_tasks EXCEPT ![q] = @ \cup {u}]
        /\ next_run_time' = [next_run_time EXCEPT ![q] = IF @ <= now + d THEN @ ELSE now + d]
        /\ post' = [post EXCEPT ![u] = [q |-> q, due |-> now + d, delayed |-> TRUE]]
        /\ delayed_tasks \in [Queues -> SUBSET Task]
        /\ next_run_time \in [Queues -> MinusInfinity..PlusInfinity]
        /\ now + d < PlusInfinity /\ posted < NumTasks /\ ~RunReadyReturns
    BY <1>14 DEF PostDelayedTask, TypeInv, TypeOK, CodeRuns, Top, RunReadyReturns
  <2>2. now + d \in Nat /\ u \in Task /\ u \notin 1..posted /\ 1..posted \subseteq 1..posted'
    BY <1>1, <2>1, SimConstants DEF Task
  <2>3. post'[u].due = now + d /\ \A t \in Task : t # u => post'[t] = post[t]
    BY <2>1, <2>2 DEF TypeInv, TypeOK
  <2> HIDE DEF u
  <2>4. \A p \in Queues : \A t \in delayed_tasks[p] : t \in Task /\ t # u /\ post'[t] = post[t]
    BY <1>1, <2>2, <2>3 DEF RunTimeInv
  <2>5. /\ delayed_tasks'[q] = delayed_tasks[q] \cup {u} /\ next_run_time[q] \in Int
        /\ next_run_time'[q] = IF next_run_time[q] <= now + d THEN next_run_time[q] ELSE now + d
    BY <1>1, <2>1
  <2>6. delayed_tasks'[q] \subseteq 1..posted'
    BY <1>1, <2>1, <2>2, <2>5 DEF RunTimeInv, u
  <2>7. /\ next_run_time'[q] \in Int
        /\ next_run_time'[q] <= next_run_time[q] /\ next_run_time'[q] <= now + d
    BY <2>2, <2>5
  <2>8. Early(q)'
    <3>1. ready_tasks'[q] # <<>> => next_run_time'[q] <= now'
      BY <1>1, <2>1, <2>5, <2>7 DEF RunTimeInv, Early
    <3>2. ASSUME NEW t \in delayed_tasks'[q] PROVE next_run_time'[q] <= post'[t].due
      <4>1. CASE t = u
        BY <2>3, <2>7, <4>1
      <4>2. CASE t \in delayed_tasks[q]
        <5>1. next_run_time[q] <= post[t].due /\ post[t].due \in Nat /\ post'[t] = post[t]
          BY <1>1, <2>4, <4>2 DEF RunTimeInv, Early
        <5> QED
          BY <2>5, <2>7, <5>1
      <4> QED
        BY <2>5, <3>2, <4>1, <4>2
    <3> QED
      BY <3>1, <3>2 DEF Early
  <2>9. OnStack(q)' \/ Exact(q)'
    <3>1. CASE OnStack(q)
      BY <2>1, <3>1 DEF OnStack
    <3>2. CASE Exact(q) /\ next_run_time[q] <= now + d
      <4>1. next_run_time'[q] = next_run_time[q] /\ next_run_time[q] # PlusInfinity
        BY <1>1, <2>1, <2>2, <2>5, <3>2
      <4> QED
        BY <2>1, <2>4, <2>5, <3>2, <4>1 DEF Exact
    <3>3. CASE Exact(q) /\ ~(next_run_time[q] <= now + d)
      <4>1. next_run_time'[q] = post'[u].due /\ u \in delayed_tasks'[q]
        BY <2>3, <2>5, <3>3
      <4>2. next_run_time[q] # MinusInfinity
        BY <2>2, <3>3 DEF MinusInfinity
      <4> QED
        BY <2>1, <3>3, <4>1, <4>2 DEF Exact
    <3> QED
      BY <3>1, <3>2, <3>3 DEF RunTimeInv
  <2>10. ASSUME NEW p \in Queues, p # q
         PROVE  delayed_tasks'[p] \subseteq 1..posted' /\ Early(p)' /\ (OnStack(p)' \/ Exact(p)')
    BY <1>1, <1>2, <2>1, <2>2, <2>4, <2>10
  <2> QED
    BY <2>1, <2>6, <2>8, <2>9, <2>10 DEF RunTimeInv
<1>15. ASSUME NEW q \in Queues, CreateTaskQueue(q) PROVE RunTimeInv'
  BY <1>1, <1>3, <1>15 DEF CreateTaskQueue, CodeRuns, RunReadyReturns, Top, RunTimeInv
<1>16. ASSUME NEW q \in Queues, DeleteTaskQueue(q) PROVE RunTimeInv'
  <2>1. /\ UNCHANGED <<now, timer, posted, post>> /\ ~RunReadyReturns
        /\ ready_tasks' = [ready_tasks EXCEPT ![q] = <<>>]
        /\ delayed_tasks' = [delayed_tasks EXCEPT ![q] = {}]
        /\ next_run_time' = [next_run_time EXCEPT ![q] = PlusInfinity]
        /\ ready_tasks \in [Queues -> Seq(Task)] /\ delayed_tasks \in [Queues -> SUBSET Task]
        /\ next_run_time \in [Queues -> MinusInfinity..PlusInfinity]
    BY <1>16 DEF DeleteTaskQueue, CodeRuns, Top, RunReadyReturns, TypeInv, TypeOK
  <2>2. delayed_tasks'[q] \subseteq 1..posted' /\ Early(q)' /\ Exact(q)'
    BY <2>1 DEF Early, Exact
  <2>3. ASSUME NEW p \in Queues, p # q
        PROVE  delayed_tasks'[p] \subseteq 1..posted' /\ Early(p)' /\ (OnStack(p)' \/ Exact(p)')
    BY <1>1, <1>2, <2>1, <2>3
  <2> QED
    BY <2>1, <2>2, <2>3 DEF RunTimeInv
<1>17. MoveDue \/ RunTask \/ RunReadyReturns => Last(stack).q \in Queues
  BY TopFrame DEF MoveDue, RunTask, RunReadyReturns, Top
<1> QED
  BY <1>4, <1>5, <1>6, <1>7, <1>8, <1>9, <1>10, <1>11, <1>13, <1>14, <1>15, <1>16, <1>17
  DEF Next, Returns, CodeReturns, Calls, OnTaskTimer

LEMMA InitRunTime == Init => RunTimeInv
BY SimConstants DEF Init, RunTimeInv, Early, Exact

\* The value Exact describes is the minimum, as there is only one.
LEMMA RunTimeGives == TypeInv /\ RunTimeInv => NextRunTimeProvided
<1>1. SUFFICES ASSUME TypeInv, RunTimeInv, NEW q \in Queues, ready_tasks[q] = <<>>, Exact(q)
               PROVE  next_run_time[q] = Min({post[t].due : t \in delayed_tasks[q]} \cup {PlusInfinity})
  BY DEF NextRunTimeProvided, RunTimeInv, Early, Exact
<1> DEFINE S == {post[t].due : t \in delayed_tasks[q]} \cup {PlusInfinity}
<1>2. /\ \A t \in delayed_tasks[q] : post[t].due \in Nat /\ next_run_time[q] <= post[t].due
      /\ PlusInfinity \in Nat /\ next_run_time[q] \in Int /\ next_run_time[q] <= PlusInfinity
  BY <1>1, SimConstants DEF TypeInv, TypeOK, RunTimeInv, Early, Time, MinusInfinity
<1>3. next_run_time[q] \in S /\ \A y \in S : next_run_time[q] <= y
  BY <1>1, <1>2 DEF Exact
<1>4. S \in SUBSET Nat /\ S # {}
  BY <1>2
<1> HIDE DEF S
<1>5. Min(S) \in S /\ \A y \in S : Min(S) <= y
  BY <1>4, MinIsLeast
<1>6. Min(S) \in Nat /\ next_run_time[q] \in Nat
  BY <1>3, <1>4, <1>5
<1>7. next_run_time[q] = Min(S)
  BY <1>3, <1>5, <1>6
<1> QED
  BY <1>7 DEF S

\* GetNextRunTime of a queue is never later than its earliest work, and is exactly
\* that work's time whenever its RunReady is not in progress: the contract between
\* SimulatedTaskQueue and the controller, for any program of posts and waits.
THEOREM NextRunTimeCorrect == Spec => []NextRunTimeProvided
<1>1. Init => TypeInv /\ RunTimeInv
  BY InitTyped, InitRunTime
<1>2. TypeInv /\ RunTimeInv /\ [Next]_vars => (TypeInv /\ RunTimeInv)'
  BY TypeStep, RunTimeStep
<1> QED
  BY <1>1, <1>2, RunTimeGives, PTL DEF Spec

\* The timer OnTaskTimer schedules before the stop time comes no later than any
\* delayed task, and no queue has ready tasks then: no work is forgotten.
THEOREM TimerCorrect == Spec => TimerCoversWork
<1>1. Init => TypeInv /\ RunTimeInv
  BY InitTyped, InitRunTime
<1>2. TypeInv /\ RunTimeInv /\ [Next]_vars => (TypeInv /\ RunTimeInv)'
  BY TypeStep, RunTimeStep
<1>3. ASSUME TypeInv, RunTimeInv, TimerReturns, now < StopTime, NEW q \in Registered
      PROVE  ready_tasks[q] = <<>> /\ \A t \in delayed_tasks[q] : timer' <= post[t].due
  <2>1. q \in Queues
    BY <1>3, RegisteredAreQueues DEF TypeInv
  <2>2. timer' = NextRunTime /\ NextRunTime > now
    BY <1>3 DEF TimerReturns
  <2>3. next_run_time[q] > now /\ NextRunTime <= next_run_time[q] /\ NextRunTime \in Nat
    BY <1>3, <2>2, NextRunTimeIsLeast DEF TypeInv
  <2>4. /\ next_run_time[q] \in Int /\ now \in Int
        /\ \A t \in delayed_tasks[q] : post[t].due \in Int
    BY <1>3, <2>1, SimConstants DEF TypeInv, TypeOK, Time, MinusInfinity
  <2>5. Early(q)
    BY <1>3, <2>1 DEF RunTimeInv
  <2>6. ready_tasks[q] = <<>>
    BY <2>3, <2>4, <2>5 DEF Early
  <2>7. \A t \in delayed_tasks[q] : NextRunTime <= post[t].due
    BY <2>3, <2>4, <2>5 DEF Early
  <2> QED
    BY <2>2, <2>6, <2>7
<1>4. TypeInv /\ RunTimeInv /\ [Next]_vars =>
        [TimerReturns /\ now < StopTime =>
           \A q \in Registered : /\ ready_tasks[q] = <<>>
                                 /\ \A t \in delayed_tasks[q] : timer' <= post[t].due]_vars
  BY <1>3
<1> QED
  BY <1>1, <1>2, <1>4, PTL DEF Spec, TimerCoversWork
------------------------------------------------------------------------------
(* What RunReadyRunners leaves behind *)

\* Only CollectReady gives control back to OnTaskTimer or to a wait.
LEMMA BackInCaller ==
  ASSUME TypeInv, [Next]_vars, ~(UNCHANGED vars), Top("OnTaskTimer")' \/ Top("Wait")'
  PROVE  CollectReady /\ stack' = Front(stack)
<1>1. WellFormed(stack) /\ stack \in Seq(Frame)
  BY DEF TypeInv, WellFormed
<1>2. stack' # <<>> /\ Last(stack').fn \in {"OnTaskTimer", "Wait"}
  BY DEF Top
<1>3. ASSUME NEW f, f.fn \notin {"OnTaskTimer", "Wait"}, NEW s \in Seq(Frame), stack' = Append(s, f)
      PROVE  FALSE
  <2>1. stack' \in Seq(Frame)
    BY TypeStep DEF TypeInv, TypeOK
  <2>2. Last(stack') = f
    BY <1>3 DEF Last
  <2> QED
    BY <1>2, <1>3, <2>2
<1>4. CASE FireTimer \/ FireEvent
  BY <1>2, <1>4 DEF FireTimer, FireEvent, F, Last
<1>5. CASE CollectReady
  BY <1>2, <1>5 DEF CollectReady, Top, Return
<1>6. ASSUME NEW q \in Queues, RunReady(q) PROVE FALSE
  BY <1>1, <1>3, <1>6 DEF RunReady, F
<1>7. CASE TimerAgain \/ RunTask
  BY <1>1, <1>3, <1>7 DEF TimerAgain, RunTask, F
<1>8. CASE AllMoved
  <2>1. Front(stack) \in Seq(Frame)
    BY <1>1, <1>8, FrontFacts DEF AllMoved, Top
  <2> QED
    BY <1>3, <1>8, <2>1 DEF AllMoved, Return, F
<1>9. ASSUME NEW q \in Queues, SendTask(q) PROVE FALSE
  <2> DEFINE w == F("Wait", Last(stack).q, posted + 1)
             r == F("RunReadyRunners", Main, 0)
  <2>1. stack' = stack \o <<w, r>> /\ r.fn = "RunReadyRunners"
    BY <1>9 DEF SendTask, F
  <2> HIDE DEF w, r
  <2>2. stack'[Len(stack')] = r
    BY <1>1, <2>1
  <2> QED
    BY <1>2, <2>1, <2>2 DEF Last
<1>10. CASE TimerReturns \/ EventReturns \/ TaskReturns \/ RunReadyReturns \/ WaitReturns
  <2>1. /\ stack # <<>> /\ stack' = Front(stack)
        /\ Last(stack).fn \in {"OnTaskTimer", "Event", "Task", "RunTasks", "Wait"}
    BY <1>10 DEF TimerReturns, EventReturns, TaskReturns, RunReadyReturns, WaitReturns, Top, Return
  <2>2. Len(stack) # 1
    <3>1. Len(stack) = 1 => Len(Front(stack)) = 0 /\ Front(stack) \in Seq(Frame)
      BY <1>1, <2>1, FrontFacts
    <3> QED
      BY <1>1, <1>2, <2>1, <3>1, TopFits
  <2>3. Fits(Last(stack'), Last(stack))
    <3>1. Fits(Last(Front(stack)), Last(stack))
      BY <1>1, <2>1, <2>2, TopFits
    <3> QED
      BY <2>1, <3>1
  <2> QED
    BY <1>2, <2>1, <2>3 DEF Fits
<1>11. CASE MoveDue \/ SimulationOver
  BY <1>2, <1>11 DEF MoveDue, SimulationOver, Top
<1>12. ASSUME NEW q \in Queues,
              \/ PostTask(q) \/ CreateTaskQueue(q) \/ DeleteTaskQueue(q)
              \/ \E d \in Delays : PostDelayedTask(q, d)
       PROVE  FALSE
  BY <1>2, <1>12 DEF PostTask, CreateTaskQueue, DeleteTaskQueue, PostDelayedTask, CodeRuns, Top
<1> QED
  BY <1>4, <1>5, <1>6, <1>7, <1>8, <1>9, <1>10, <1>11, <1>12
  DEF Next, Returns, CodeReturns, Calls, OnTaskTimer

\* RunReadyRunners returns to OnTaskTimer or to YieldExecution only when no queue
\* that has not yielded has anything due, however the calls nest.
THEOREM NothingDueCorrect == Spec => []NothingDueIsLeft
<1>1. Init => TypeInv /\ RunTimeInv /\ NothingDueIsLeft
  BY InitTyped, InitRunTime DEF Init, NothingDueIsLeft, Top
<1>2. ASSUME TypeInv, RunTimeInv, NothingDueIsLeft, [Next]_vars PROVE NothingDueIsLeft'
  <2>1. CASE UNCHANGED vars
    BY <1>2, <2>1 DEF vars, NothingDueIsLeft, Top, Registered, DueWork
  <2>2. CASE ~(UNCHANGED vars)
    <3>1. SUFFICES ASSUME Top("OnTaskTimer")' \/ Top("Wait")',
                          NEW q \in (Registered \ yielded)'
                   PROVE  ~DueWork(q)'
      BY DEF NothingDueIsLeft
    <3>2. CollectReady /\ stack' = Front(stack)
      BY <1>2, <2>2, <3>1, BackInCaller
    <3>3. /\ UNCHANGED <<now, runners, yielded, ready_tasks, delayed_tasks, post>>
          /\ stack' # stack => {p \in Registered \ yielded : next_run_time[p] <= now} = {}
      BY <3>2 DEF CollectReady, queueVars
    <3>4. stack' # stack
      <4>1. stack \in Seq(Frame) /\ stack # <<>>
        BY <1>2, <3>2 DEF CollectReady, Top, TypeInv, TypeOK
      <4>2. Len(Front(stack)) = Len(stack) - 1 /\ Len(stack) \in Nat
        BY <4>1, FrontFacts
      <4> QED
        BY <3>2, <4>2
    <3>5. q \in Registered \ yielded /\ q \in Queues
      BY <1>2, <3>3, RegisteredAreQueues DEF Registered, TypeInv
    <3>6. ~(next_run_time[q] <= now) /\ next_run_time[q] \in Int /\ now \in Int
      BY <1>2, <3>3, <3>4, <3>5, SimConstants DEF TypeInv, TypeOK, Time, MinusInfinity
    <3>7. Early(q) /\ \A t \in delayed_tasks[q] : post[t].due \in Int
      BY <1>2, <3>5, SimConstants DEF RunTimeInv, TypeInv, TypeOK, Time
    <3>8. ~DueWork(q)
      BY <3>6, <3>7 DEF Early, DueWork
    <3> QED
      BY <3>3, <3>8 DEF DueWork
  <2> QED
    BY <2>1, <2>2
<1>3. TypeInv /\ RunTimeInv /\ [Next]_vars => (TypeInv /\ RunTimeInv)'
  BY TypeStep, RunTimeStep
<1> QED
  BY <1>1, <1>2, <1>3, PTL DEF Spec
------------------------------------------------------------------------------
(* The implementation of TaskSequences, and waits.                            *)

(* The tasks of one queue: |s| its ready tasks, |d| its delayed tasks, |p| how *)
(* they were posted.                                                           *)

\* Task u has to run before task t.
Before(p, u, t) ==
  /\ p[u].q = p[t].q
  /\ \/ ~p[u].delayed /\ u < t
     \/ /\ p[u].delayed /\ p[t].delayed
        /\ \/ p[u].due < p[t].due
           \/ p[u].due = p[t].due /\ u < t

Held(s, d) == ToSet(s) \cup d

\* None is there twice, and those that are ready are in the order in which they
\* may run, none after a delayed one that has to run before it.
InOrder(s, d, p) ==
  /\ \A i, j \in DOMAIN s : i < j => s[i] # s[j] /\ ~Before(p, s[j], s[i])
  /\ \A i \in DOMAIN s : \A u \in d : u # s[i] /\ ~Before(p, u, s[i])

LEMMA BeforeKept ==
  ASSUME NEW p, NEW r, NEW t, NEW u, r[t] = p[t], r[u] = p[u]
  PROVE  Before(r, u, t) <=> Before(p, u, t)
BY DEF Before

LEMMA InOrderKept ==
  ASSUME NEW s, NEW d, NEW p, NEW r, InOrder(s, d, p), \A t \in Held(s, d) : r[t] = p[t]
  PROVE  InOrder(s, d, r)
<1>1. \A t, u \in Held(s, d) : Before(r, u, t) <=> Before(p, u, t)
  BY BeforeKept
<1>2. (\A i \in DOMAIN s : s[i] \in Held(s, d)) /\ d \subseteq Held(s, d)
  BY DEF Held, ToSet
<1> QED
  BY <1>1, <1>2 DEF InOrder

LEMMA InOrderAppend ==
  ASSUME NEW S, NEW s \in Seq(S), NEW d, NEW e \in SUBSET d, NEW p, NEW t \in S, InOrder(s, d, p),
         \A i \in DOMAIN s : s[i] # t /\ ~Before(p, t, s[i]),
         \A u \in e : u # t /\ ~Before(p, u, t)
  PROVE  InOrder(Append(s, t), e, p)
<1> DEFINE r == Append(s, t)
           n == Len(s)
<1>1. /\ n \in Nat /\ DOMAIN s = 1..n /\ DOMAIN r = 1..(n + 1)
      /\ r[n + 1] = t /\ \A i \in 1..n : r[i] = s[i]
  OBVIOUS
<1> HIDE DEF r, n
<1>2. ASSUME NEW i \in 1..(n + 1), NEW j \in 1..(n + 1), i < j
      PROVE  r[i] # r[j] /\ ~Before(p, r[j], r[i])
  <2>1. i \in 1..n /\ r[i] = s[i]
    BY <1>1, <1>2
  <2>2. CASE j = n + 1
    BY <1>1, <2>1, <2>2
  <2>3. CASE j \in 1..n
    BY <1>1, <1>2, <2>1, <2>3 DEF InOrder
  <2> QED
    BY <1>1, <2>2, <2>3
<1>3. ASSUME NEW i \in 1..(n + 1), NEW u \in e PROVE u # r[i] /\ ~Before(p, u, r[i])
  <2>1. CASE i = n + 1
    BY <1>1, <2>1
  <2>2. CASE i \in 1..n
    BY <1>1, <2>2 DEF InOrder
  <2> QED
    BY <1>1, <2>1, <2>2
<1>4. InOrder(r, e, p)
  BY <1>1, <1>2, <1>3 DEF InOrder
<1> QED
  BY <1>4 DEF r

LEMMA InOrderTail ==
  ASSUME NEW S, NEW s \in Seq(S), NEW d, NEW p, s # <<>>, InOrder(s, d, p)
  PROVE  InOrder(Tail(s), d, p)
<1> DEFINE r == Tail(s)
           n == Len(s)
<1>1. /\ n \in Nat \ {0} /\ DOMAIN s = 1..n /\ DOMAIN r = 1..(n - 1)
      /\ \A i \in 1..(n - 1) : r[i] = s[i + 1]
  OBVIOUS
<1> HIDE DEF r, n
<1>2. \A i \in DOMAIN r : i + 1 \in DOMAIN s /\ r[i] = s[i + 1]
  BY <1>1
<1>3. \A i, j \in DOMAIN r : i < j => i + 1 < j + 1
  BY <1>1
<1>4. InOrder(r, d, p)
  BY <1>2, <1>3 DEF InOrder
<1> QED
  BY <1>4 DEF r

LEMMA InOrderAdd ==
  ASSUME NEW s, NEW d, NEW p, NEW t, InOrder(s, d, p),
         \A i \in DOMAIN s : s[i] # t /\ ~Before(p, t, s[i])
  PROVE  InOrder(s, d \cup {t}, p)
BY DEF InOrder

LEMMA HeldAppend ==
  ASSUME NEW S, NEW s \in Seq(S), NEW d, NEW t \in S
  PROVE  ToSet(Append(s, t)) = ToSet(s) \cup {t}
<1>1. /\ Len(s) \in Nat /\ DOMAIN s = 1..Len(s) /\ DOMAIN Append(s, t) = 1..(Len(s) + 1)
      /\ Append(s, t)[Len(s) + 1] = t /\ \A i \in 1..Len(s) : Append(s, t)[i] = s[i]
  OBVIOUS
<1> QED
  BY <1>1 DEF ToSet

\* The head of the ready tasks is nowhere else.
LEMMA HeldTail ==
  ASSUME NEW S, NEW s \in Seq(S), NEW d, NEW p, s # <<>>, InOrder(s, d, p)
  PROVE  /\ Head(s) \in ToSet(s) /\ ToSet(Tail(s)) = ToSet(s) \ {Head(s)}
         /\ Held(Tail(s), d) = Held(s, d) \ {Head(s)}
         /\ \A u \in Held(s, d) \ {Head(s)} : ~Before(p, u, Head(s))
<1> DEFINE r == Tail(s)
           n == Len(s)
<1>1. /\ n \in Nat \ {0} /\ DOMAIN s = 1..n /\ DOMAIN r = 1..(n - 1)
      /\ \A i \in 1..(n - 1) : r[i] = s[i + 1]
      /\ Head(s) = s[1]
  OBVIOUS
<1> HIDE DEF r, n
<1>2. \A i \in 2..n : i - 1 \in DOMAIN r /\ s[i] = r[i - 1] /\ 1 < i /\ i \in DOMAIN s
  BY <1>1
<1>3. \A i \in DOMAIN r : i + 1 \in 2..n /\ r[i] = s[i + 1]
  BY <1>1
<1>4. 1 \in DOMAIN s /\ \A i \in DOMAIN s : i = 1 \/ i \in 2..n
  BY <1>1
<1>5. \A i \in 2..n : s[i] # s[1] /\ ~Before(p, s[i], s[1])
  BY <1>2, <1>4 DEF InOrder
<1>6. \A u \in d : u # s[1] /\ ~Before(p, u, s[1])
  BY <1>4 DEF InOrder
<1>7. ToSet(r) = ToSet(s) \ {s[1]}
  BY <1>2, <1>3, <1>4, <1>5 DEF ToSet
<1>8. \A u \in ToSet(s) \ {s[1]} : ~Before(p, u, s[1])
  BY <1>4, <1>5 DEF ToSet
<1> QED
  BY <1>1, <1>4, <1>6, <1>7, <1>8 DEF Held, r, ToSet
------------------------------------------------------------------------------
(* The tasks of all the queues *)

Has(q) == Held(ready_tasks[q], delayed_tasks[q])

Placed(q) ==
  /\ \A t \in Has(q) : t \in 1..posted /\ t \notin dropped /\ post[t].q = q
  /\ \A t \in ToSet(ready_tasks[q]) : post[t].due <= now
  /\ \A t \in delayed_tasks[q] : post[t].delayed
  /\ InOrder(ready_tasks[q], delayed_tasks[q], post)

QueueInv == (\A q \in Queues : Placed(q)) /\ dropped \subseteq 1..posted

LEMMA NowGrows == ASSUME TypeInv, RunTimeInv, [Next]_vars PROVE now <= now' /\ now \in Nat /\ now' \in Nat
<1>1. now \in Nat /\ timer \in Nat /\ now <= timer
  BY DEF TypeInv, TypeOK, Time, RunTimeInv
<1>2. now' \in Nat
  BY TypeStep DEF TypeInv, TypeOK, Time
<1>4. CASE FireTimer
  BY <1>1, <1>4 DEF FireTimer
<1>5. CASE FireEvent
  BY <1>1, <1>5, SimConstants DEF FireEvent
<1>6. CASE SimulationOver \/ UNCHANGED vars
  BY <1>1, <1>6 DEF SimulationOver, vars
<1>7. CASE Returns \/ CodeReturns
  <2>1. now' = now
    BY <1>7 DEF Returns, CodeReturns, CollectReady, OnTaskTimer, TimerAgain, TimerReturns, MoveDue,
       AllMoved, RunTask, RunReadyReturns, WaitReturns, RunReady, TaskReturns, EventReturns
  <2> QED
    BY <1>1, <2>1
<1>8. CASE Calls
  <2>1. now' = now
    BY <1>8 DEF Calls, PostTask, SendTask, CreateTaskQueue, DeleteTaskQueue, PostDelayedTask
  <2> QED
    BY <1>1, <2>1
<1> QED
  BY <1>1, <1>2, <1>4, <1>5, <1>6, <1>7, <1>8 DEF Next

\* A task that is posted takes the next number.
LEMMA PostKept ==
  ASSUME TypeInv, NEW q \in Queues, NEW r, posted < NumTasks,
         posted' = posted + 1, post' = [post EXCEPT ![posted + 1] = r]
  PROVE  /\ posted + 1 \in Task /\ posted + 1 \in 1..posted' /\ post'[posted + 1] = r
         /\ \A t \in 1..posted : post'[t] = post[t] /\ t \in 1..posted' /\ t \in Task /\ t < posted + 1
BY SimConstants DEF TypeInv, TypeOK, Task

\* Queues the step does not touch, while others change.
LEMMA QueueKept ==
  ASSUME TypeInv, NEW q \in Queues, Placed(q), now <= now', now \in Nat, now' \in Nat,
         ready_tasks'[q] = ready_tasks[q], delayed_tasks'[q] = delayed_tasks[q],
         \A t \in 1..posted : post'[t] = post[t] /\ t \in 1..posted',
         \A t \in 1..posted : t \notin dropped /\ post[t].q = q => t \notin dropped'
  PROVE  Placed(q)'
<1>1. \A t \in Has(q) : t \in 1..posted /\ post'[t] = post[t] /\ post[t].due \in Nat
  BY SimConstants DEF Placed, TypeInv, TypeOK, Task, Time
<1>2. InOrder(ready_tasks[q], delayed_tasks[q], post')
  BY <1>1, InOrderKept DEF Placed, Has
<1>3. Has(q)' = Has(q)
  BY DEF Has
<1>4. \A t \in ToSet(ready_tasks[q]) : post'[t].due <= now'
  BY <1>1 DEF Placed, Has, Held
<1>5. \A t \in delayed_tasks[q] : post'[t].delayed
  BY <1>1 DEF Placed, Has, Held
<1>6. \A t \in Has(q) : t \in 1..posted' /\ t \notin dropped' /\ post'[t].q = q
  BY <1>1 DEF Placed
<1> QED
  BY <1>2, <1>3, <1>4, <1>5, <1>6 DEF Placed

LEMMA QueueStep ==
  ASSUME TypeInv, RunTimeInv, QueueInv, [Next]_vars PROVE QueueInv'
<1>1. now <= now' /\ now \in Nat /\ now' \in Nat
  BY NowGrows
<1>2. /\ ready_tasks \in [Queues -> Seq(Task)] /\ delayed_tasks \in [Queues -> SUBSET Task]
      /\ posted \in Nat /\ \A t \in Task : t \in Nat /\ post[t].due \in Nat
  BY SimConstants DEF TypeInv, TypeOK, Time, Task
<1>3. ASSUME UNCHANGED <<ready_tasks, delayed_tasks, posted, post, dropped>> PROVE QueueInv'
  BY <1>1, <1>3, QueueKept DEF QueueInv
<1>4. CASE MoveDue
  <2>1. PICK q \in Queues : q = Last(stack).q
    BY <1>4, TopFrame DEF MoveDue, Top
  <2>2. PICK f : f = FirstDelayed(q)
    OBVIOUS
  <2>3. /\ ready_tasks' = [ready_tasks EXCEPT ![q] = Append(@, f)]
        /\ delayed_tasks' = [delayed_tasks EXCEPT ![q] = @ \ {f}]
        /\ \E t \in delayed_tasks[q] : post[t].due <= now
        /\ UNCHANGED <<now, posted, post, dropped>>
    BY <1>4, <2>1, <2>2 DEF MoveDue
  <2>4. /\ f \in delayed_tasks[q] /\ f \in Task /\ post[f].due <= now
        /\ \A u \in delayed_tasks[q] \ {f} : Precedes(f, u)
    BY <1>1, <1>2, <2>2, <2>3, FirstDelayedIsFirst DEF TypeInv
  <2>5. Placed(q)
    BY DEF QueueInv
  <2>6. ready_tasks'[q] = Append(ready_tasks[q], f) /\ delayed_tasks'[q] = delayed_tasks[q] \ {f}
    BY <1>2, <2>3
  <2>7. Has(q)' = Has(q) /\ ToSet(ready_tasks'[q]) = ToSet(ready_tasks[q]) \cup {f}
    BY <1>2, <2>4, <2>6, HeldAppend DEF Has, Held
  <2>8. \A u \in delayed_tasks[q] \ {f} : u # f /\ ~Before(post, u, f)
    <3>1. \A u \in delayed_tasks[q] : u \in Nat /\ f \in Nat /\ post[u].due \in Nat /\ post[f].due \in Nat
      BY <1>2, <2>4
    <3> QED
      BY <2>4, <2>5, <3>1 DEF Before, Precedes, Placed
  <2>9. \A i \in DOMAIN ready_tasks[q] : ready_tasks[q][i] # f /\ ~Before(post, f, ready_tasks[q][i])
    BY <2>4, <2>5 DEF Placed, InOrder
  <2>10. InOrder(ready_tasks'[q], delayed_tasks'[q], post)
    BY <1>2, <2>4, <2>5, <2>6, <2>8, <2>9, InOrderAppend DEF Placed
  <2>11. Placed(q)'
    BY <2>3, <2>4, <2>5, <2>6, <2>7, <2>10 DEF Placed
  <2>12. ASSUME NEW p \in Queues, p # q PROVE Placed(p)'
    BY <1>1, <1>2, <2>3, <2>12, QueueKept DEF QueueInv
  <2> QED
    BY <2>3, <2>11, <2>12 DEF QueueInv
<1>5. CASE RunTask
  <2>1. PICK q \in Queues : q = Last(stack).q
    BY <1>5, TopFrame DEF RunTask, Top
  <2>2. /\ ready_tasks' = [ready_tasks EXCEPT ![q] = Tail(@)] /\ ready_tasks[q] # <<>>
        /\ UNCHANGED <<now, delayed_tasks, posted, post, dropped>>
    BY <1>5, <2>1 DEF RunTask
  <2>3. Placed(q) /\ ready_tasks'[q] = Tail(ready_tasks[q]) /\ ready_tasks[q] \in Seq(Task)
    BY <1>2, <2>2 DEF QueueInv
  <2>4. InOrder(ready_tasks'[q], delayed_tasks[q], post)
    BY <2>2, <2>3, InOrderTail DEF Placed
  <2>5. Held(ready_tasks'[q], delayed_tasks[q]) \subseteq Has(q)
    BY <2>2, <2>3, HeldTail DEF Placed, Has
  <2>6. ToSet(ready_tasks'[q]) \subseteq ToSet(ready_tasks[q])
    BY <2>2, <2>3, HeldTail DEF Placed
  <2>7. Placed(q)'
    BY <2>2, <2>3, <2>4, <2>5, <2>6 DEF Placed, Has
  <2>8. ASSUME NEW p \in Queues, p # q PROVE Placed(p)'
    BY <1>1, <1>2, <2>2, <2>8, QueueKept DEF QueueInv
  <2> QED
    BY <2>2, <2>7, <2>8 DEF QueueInv
<1>6. ASSUME NEW q \in Queues, Enqueue(q), UNCHANGED <<now, dropped>> PROVE QueueInv'
  <2>1. PICK p \in Nat : p = posted + 1
    BY <1>2
  <2>2. /\ posted' = p /\ post' = [post EXCEPT ![p] = [q |-> q, due |-> now, delayed |-> FALSE]]
        /\ ready_tasks' = [ready_tasks EXCEPT ![q] = Append(@, p)]
        /\ delayed_tasks' = delayed_tasks /\ posted < NumTasks
    BY <1>6, <2>1 DEF Enqueue
  <2>3. /\ p \in Task /\ p \in 1..posted' /\ post'[p] = [q |-> q, due |-> now, delayed |-> FALSE]
        /\ \A t \in 1..posted : post'[t] = post[t] /\ t \in 1..posted' /\ t \in Task /\ t < p
    BY <2>1, <2>2, PostKept
  <2>4. Placed(q) /\ dropped \subseteq 1..posted /\ p \notin dropped
    BY <1>2, <2>1 DEF QueueInv
  <2>5. ready_tasks'[q] = Append(ready_tasks[q], p) /\ ready_tasks[q] \in Seq(Task)
    BY <1>2, <2>2
  <2>6. Has(q)' = Has(q) \cup {p} /\ ToSet(ready_tasks'[q]) = ToSet(ready_tasks[q]) \cup {p}
    BY <2>2, <2>3, <2>5, HeldAppend DEF Has, Held
  <2>7. \A t \in Has(q) : t \in 1..posted /\ t \in Nat /\ t < p /\ post'[t] = post[t]
    BY <1>2, <2>3, <2>4 DEF Placed
  <2>8. InOrder(ready_tasks[q], delayed_tasks[q], post')
    BY <2>4, <2>7, InOrderKept DEF Placed, Has
  <2>9. \A t \in Has(q) : t # p /\ ~Before(post', p, t)
    BY <2>1, <2>3, <2>7 DEF Before
  <2>10. \A u \in delayed_tasks[q] : u # p /\ ~Before(post', u, p)
    <3>1. \A u \in delayed_tasks[q] : u \in Has(q) /\ post'[u].delayed
      BY <2>4, <2>7 DEF Placed, Has, Held
    <3> QED
      BY <2>1, <2>3, <2>7, <3>1 DEF Before
  <2>11. \A i \in DOMAIN ready_tasks[q] :
           ready_tasks[q][i] # p /\ ~Before(post', p, ready_tasks[q][i])
    <3>1. \A i \in DOMAIN ready_tasks[q] : ready_tasks[q][i] \in Has(q)
      BY DEF Has, Held, ToSet
    <3> QED
      BY <2>9, <3>1
  <2>12. InOrder(ready_tasks'[q], delayed_tasks'[q], post')
    <3>1. InOrder(Append(ready_tasks[q], p), delayed_tasks[q], post')
      BY <2>3, <2>5, <2>8, <2>10, <2>11, InOrderAppend
    <3> QED
      BY <2>2, <2>5, <3>1
  <2>13. \A t \in Has(q)' : t \in 1..posted' /\ t \notin dropped' /\ post'[t].q = q
    BY <1>6, <2>3, <2>4, <2>6, <2>7 DEF Placed
  <2>14. \A t \in ToSet(ready_tasks'[q]) : post'[t].due <= now'
    BY <1>1, <1>6, <2>3, <2>4, <2>6, <2>7 DEF Placed, Has, Held
  <2>15. \A t \in delayed_tasks'[q] : post'[t].delayed
    BY <2>2, <2>4, <2>7 DEF Placed, Has, Held
  <2>16. Placed(q)'
    BY <2>12, <2>13, <2>14, <2>15 DEF Placed
  <2>17. ASSUME NEW o \in Queues, o # q PROVE Placed(o)'
    BY <1>1, <1>2, <1>6, <2>2, <2>3, <2>17, QueueKept DEF QueueInv
  <2> QED
    BY <1>2, <1>6, <2>3, <2>4, <2>16, <2>17 DEF QueueInv
<1>7. ASSUME NEW q \in Queues, NEW d \in Delays, PostDelayedTask(q, d) PROVE QueueInv'
  <2>1. PICK p \in Nat : p = posted + 1
    BY <1>2
  <2>2. /\ posted' = p /\ post' = [post EXCEPT ![p] = [q |-> q, due |-> now + d, delayed |-> TRUE]]
        /\ delayed_tasks' = [delayed_tasks EXCEPT ![q] = @ \cup {p}]
        /\ UNCHANGED <<now, dropped, ready_tasks>> /\ posted < NumTasks /\ d \in Nat
    BY <1>7, <2>1, SimConstants DEF PostDelayedTask
  <2>3. /\ p \in Task /\ p \in 1..posted' /\ post'[p] = [q |-> q, due |-> now + d, delayed |-> TRUE]
        /\ \A t \in 1..posted : post'[t] = post[t] /\ t \in 1..posted' /\ t \in Task /\ t < p
    BY <2>1, <2>2, PostKept
  <2>4. Placed(q) /\ dropped \subseteq 1..posted /\ p \notin dropped
    BY <1>2, <2>1 DEF QueueInv
  <2>5. Has(q)' = Has(q) \cup {p} /\ delayed_tasks'[q] = delayed_tasks[q] \cup {p}
    BY <1>2, <2>2 DEF Has, Held
  <2>6. \A t \in Has(q) : /\ t \in 1..posted /\ t \in Nat /\ t < p /\ post'[t] = post[t]
                          /\ post[t].due \in Nat
    BY <1>2, <2>3, <2>4 DEF Placed
  <2>7. InOrder(ready_tasks[q], delayed_tasks[q], post')
    BY <2>4, <2>6, InOrderKept DEF Placed, Has
  <2>8. \A i \in DOMAIN ready_tasks[q] :
          ready_tasks[q][i] # p /\ ~Before(post', p, ready_tasks[q][i])
    <3>1. \A i \in DOMAIN ready_tasks[q] :
            ready_tasks[q][i] \in Has(q) /\ ready_tasks[q][i] \in ToSet(ready_tasks[q])
      BY DEF Has, Held, ToSet
    <3>2. \A t \in ToSet(ready_tasks[q]) : post[t].due <= now
      BY <2>4 DEF Placed
    <3>3. ASSUME NEW t \in Has(q), post[t].due <= now PROVE t # p /\ ~Before(post', p, t)
      <4>1. post'[p].delayed /\ post'[p].due = now + d /\ post'[t] = post[t] /\ t < p
        BY <2>3, <2>6, <3>3
      <4> QED
        BY <1>1, <2>1, <2>2, <2>6, <3>3, <4>1 DEF Before
    <3> QED
      BY <3>1, <3>2, <3>3
  <2>9. InOrder(ready_tasks'[q], delayed_tasks'[q], post')
    <3>1. InOrder(ready_tasks[q], delayed_tasks[q] \cup {p}, post')
      BY <2>7, <2>8, InOrderAdd
    <3> QED
      BY <2>2, <2>5, <3>1
  <2>10. \A t \in Has(q)' : t \in 1..posted' /\ t \notin dropped' /\ post'[t].q = q
    BY <2>2, <2>3, <2>4, <2>5, <2>6 DEF Placed
  <2>11. \A t \in ToSet(ready_tasks'[q]) : post'[t].due <= now'
    BY <2>2, <2>4, <2>6 DEF Placed, Has, Held
  <2>12. \A t \in delayed_tasks'[q] : post'[t].delayed
    BY <2>3, <2>4, <2>5, <2>6 DEF Placed, Has, Held
  <2>13. Placed(q)'
    BY <2>9, <2>10, <2>11, <2>12 DEF Placed
  <2>14. ASSUME NEW o \in Queues, o # q PROVE Placed(o)'
    BY <1>1, <1>2, <2>2, <2>3, <2>14, QueueKept DEF QueueInv
  <2> QED
    BY <1>2, <2>2, <2>3, <2>4, <2>13, <2>14 DEF QueueInv
<1>8. ASSUME NEW q \in Queues, DeleteTaskQueue(q) PROVE QueueInv'
  <2>1. /\ ready_tasks' = [ready_tasks EXCEPT ![q] = <<>>]
        /\ delayed_tasks' = [delayed_tasks EXCEPT ![q] = {}]
        /\ dropped' = dropped \cup Has(q)
        /\ UNCHANGED <<now, posted, post>>
    BY <1>8 DEF DeleteTaskQueue, Has, Held
  <2>2. Placed(q) /\ dropped \subseteq 1..posted
    BY DEF QueueInv
  <2>3. Has(q)' = {} /\ ToSet(ready_tasks'[q]) = {} /\ ready_tasks'[q] = <<>> /\ delayed_tasks'[q] = {}
    BY <1>2, <2>1 DEF Has, Held, ToSet
  <2>4. Placed(q)'
    BY <2>3 DEF Placed, InOrder
  <2>5. ASSUME NEW o \in Queues, o # q PROVE Placed(o)'
    <3>1. \A t \in 1..posted : t \notin dropped /\ post[t].q = o => t \notin dropped'
      BY <2>1, <2>2, <2>5 DEF Placed
    <3> QED
      BY <1>1, <1>2, <2>1, <2>5, <3>1, QueueKept DEF QueueInv
  <2> QED
    BY <2>1, <2>2, <2>4, <2>5 DEF QueueInv, Placed
<1>9. ASSUME NEW q \in Queues, PostTask(q) \/ SendTask(q) PROVE QueueInv'
  BY <1>6, <1>9 DEF PostTask, SendTask
<1>10. CASE \/ FireTimer \/ FireEvent \/ SimulationOver \/ CollectReady \/ OnTaskTimer
            \/ AllMoved \/ RunReadyReturns \/ WaitReturns \/ CodeReturns \/ UNCHANGED vars
            \/ \E q \in Queues : RunReady(q) \/ CreateTaskQueue(q)
  <2>1. UNCHANGED <<ready_tasks, delayed_tasks, posted, post, dropped>>
    BY <1>10 DEF FireTimer, FireEvent, SimulationOver, CollectReady, OnTaskTimer, TimerAgain,
       TimerReturns, AllMoved, RunReadyReturns, WaitReturns, CodeReturns, TaskReturns, EventReturns,
       RunReady, CreateTaskQueue, vars, queueVars
  <2> QED
    BY <1>3, <2>1
<1> QED
  BY <1>4, <1>5, <1>7, <1>8, <1>9, <1>10 DEF Next, Returns, Calls
------------------------------------------------------------------------------
(* The tasks that run *)

TaskFrames(s) == {s[i] : i \in {j \in DOMAIN s : s[j].fn = "Task"}}

LEMMA FramesPush ==
  ASSUME NEW s \in Seq(Frame), NEW f \in Frame
  PROVE  TaskFrames(Append(s, f)) = TaskFrames(s) \cup (IF f.fn = "Task" THEN {f} ELSE {})
<1>1. /\ Len(s) \in Nat /\ DOMAIN s = 1..Len(s) /\ DOMAIN Append(s, f) = 1..(Len(s) + 1)
      /\ Append(s, f)[Len(s) + 1] = f /\ \A i \in 1..Len(s) : Append(s, f)[i] = s[i]
  OBVIOUS
<1>2. \A i \in 1..(Len(s) + 1) : i \in 1..Len(s) \/ i = Len(s) + 1
  BY <1>1
<1> QED
  BY <1>1, <1>2 DEF TaskFrames

\* A queue has one frame of a task at most: that of RunReady is below it.
LEMMA OneFrame ==
  ASSUME NEW s, NEW y, WellFormed(s), Nested(s, y),
         NEW i \in DOMAIN s, NEW j \in DOMAIN s,
         s[i].fn = "Task", s[j].fn \in {"Task", "RunTasks"}, s[i].q = s[j].q
  PROVE  IF s[j].fn = "Task" THEN i = j ELSE i = j + 1
<1>1. s \in Seq(Frame) /\ Len(s) \in Nat /\ DOMAIN s = 1..Len(s)
  BY DEF WellFormed
<1>2. ASSUME NEW k \in DOMAIN s, s[k].fn = "Task"
      PROVE  k - 1 \in DOMAIN s /\ s[k - 1].fn = "RunTasks" /\ s[k - 1].q = s[k].q /\ k \in Nat
  <2>1. k # 1
    BY <1>1, <1>2 DEF WellFormed
  <2>2. k \in 2..Len(s) /\ k - 1 \in 1..Len(s)
    BY <1>1, <2>1
  <2>3. Fits(s[k - 1], s[k])
    BY <2>2 DEF WellFormed
  <2> QED
    BY <1>1, <1>2, <2>2, <2>3 DEF Fits
<1>3. CASE s[j].fn = "Task"
  <2>1. i - 1 = j - 1
    BY <1>2, <1>3 DEF Nested, IsRunReady
  <2> QED
    BY <1>1, <1>2, <1>3, <2>1
<1>4. CASE s[j].fn = "RunTasks"
  <2>1. i - 1 = j
    BY <1>2, <1>4 DEF Nested, IsRunReady
  <2> QED
    BY <1>1, <1>2, <1>4, <2>1
<1> QED
  BY <1>3, <1>4

LEMMA FramesPop ==
  ASSUME NEW s, NEW y, WellFormed(s), Nested(s, y), s # <<>>
  PROVE  TaskFrames(Front(s)) = TaskFrames(s) \ {Last(s)}
<1> DEFINE n == Len(s)
<1>1. s \in Seq(Frame)
  BY DEF WellFormed
<1>2. /\ DOMAIN Front(s) = 1..(n - 1) /\ \A i \in 1..(n - 1) : Front(s)[i] = s[i]
      /\ Last(s) = s[n] /\ n \in Nat \ {0} /\ DOMAIN s = 1..n
  <2>1. /\ DOMAIN Front(s) = 1..(n - 1) /\ \A i \in 1..(n - 1) : Front(s)[i] = s[i]
        /\ Last(s) = s[n]
    BY <1>1, FrontFacts
  <2> QED
    BY <1>1, <2>1
<1> HIDE DEF n
<1>3. \A i \in 1..(n - 1) : s[i].fn = "Task" => s[i] # s[n]
  <2>1. SUFFICES ASSUME NEW i \in 1..(n - 1), s[i].fn = "Task", s[i] = s[n] PROVE FALSE
    OBVIOUS
  <2>2. i \in DOMAIN s /\ n \in DOMAIN s /\ i # n
    BY <1>2, <2>1
  <2> QED
    BY <2>1, <2>2, OneFrame
<1>4. \A i \in 1..n : i \in 1..(n - 1) \/ i = n
  BY <1>2
<1>5. \A i \in 1..(n - 1) : i \in 1..n
  BY <1>2
<1> QED
  BY <1>2, <1>3, <1>4, <1>5 DEF TaskFrames

\* Only RunTask and TaskReturns change the tasks that run.
LEMMA FramesStep ==
  ASSUME TypeInv, NestInv, [Next]_vars, ~RunTask, ~TaskReturns
  PROVE  TaskFrames(stack') = TaskFrames(stack)
<1>1. /\ WellFormed(stack) /\ stack \in Seq(Frame) /\ Nested(stack, yielded)
      /\ WellFormed(stack') /\ stack' \in Seq(Frame)
  BY TypeStep DEF TypeInv, WellFormed, NestInv
<1>2. ASSUME stack' = stack PROVE TaskFrames(stack') = TaskFrames(stack)
  BY <1>2
<1>3. ASSUME stack # <<>>, Last(stack).fn # "Task", stack' = Front(stack)
      PROVE  TaskFrames(stack') = TaskFrames(stack)
  <2>1. Last(stack) \notin TaskFrames(stack)
    BY <1>3 DEF TaskFrames
  <2> QED
    BY <1>1, <1>3, <2>1, FramesPop
<1>4. ASSUME NEW fn \in {"OnTaskTimer", "RunReadyRunners", "MoveDue", "RunTasks", "Event", "Wait"},
             NEW q \in Current, NEW t \in 0..NumTasks, NEW s \in Seq(Frame)
      PROVE  TaskFrames(Append(s, F(fn, q, t))) = TaskFrames(s)
  <2>1. F(fn, q, t) \in Frame /\ F(fn, q, t).fn # "Task"
    BY DEF F, Frame
  <2> QED
    BY <2>1, FramesPush
<1>5. 0 \in 0..NumTasks /\ Main \in Current /\ Queues \subseteq Current
  BY SimConstants DEF Current
<1>6. CASE FireTimer \/ FireEvent
  BY <1>6 DEF FireTimer, FireEvent, TaskFrames, F
<1>7. CASE SimulationOver \/ MoveDue \/ UNCHANGED vars
  BY <1>2, <1>7 DEF SimulationOver, MoveDue, vars
<1>8. CASE CollectReady
  BY <1>2, <1>3, <1>8 DEF CollectReady, Top, Return
<1>9. ASSUME NEW q \in Queues, RunReady(q) PROVE TaskFrames(stack') = TaskFrames(stack)
  BY <1>1, <1>4, <1>5, <1>9 DEF RunReady
<1>10. CASE TimerAgain
  BY <1>1, <1>4, <1>5, <1>10 DEF TimerAgain
<1>11. CASE AllMoved
  <2>1. /\ stack # <<>> /\ Last(stack).fn = "MoveDue" /\ Last(stack).q \in Queues
        /\ stack' = Append(Front(stack), F("RunTasks", Last(stack).q, 0))
    BY <1>11, TopFrame DEF AllMoved, Top, Return
  <2>2. Front(stack) \in Seq(Frame) /\ Last(stack) \notin TaskFrames(stack)
    BY <1>1, <2>1, FrontFacts DEF TaskFrames
  <2>3. TaskFrames(stack') = TaskFrames(Front(stack))
    BY <1>4, <1>5, <2>1, <2>2
  <2>4. TaskFrames(Front(stack)) = TaskFrames(stack) \ {Last(stack)}
    BY <1>1, <2>1, FramesPop
  <2> QED
    BY <2>2, <2>3, <2>4
<1>12. ASSUME NEW q \in Queues, SendTask(q) PROVE TaskFrames(stack') = TaskFrames(stack)
  <2> DEFINE w == F("Wait", Last(stack).q, posted + 1)
             r == F("RunReadyRunners", Main, 0)
  <2>1. stack # <<>> /\ stack' = stack \o <<w, r>> /\ posted + 1 \in 0..NumTasks
    BY <1>12, SimConstants DEF SendTask, CodeRuns, Top, Enqueue, TypeInv, TypeOK
  <2>2. Last(stack).q \in Current
    BY <2>1, TopFrame DEF Frame
  <2>3. w \in Frame /\ r \in Frame
    BY <1>5, <2>1, <2>2 DEF F, Frame
  <2>4. stack' = Append(Append(stack, w), r) /\ Append(stack, w) \in Seq(Frame)
    BY <1>1, <2>1, <2>3
  <2>5. TaskFrames(Append(stack, w)) = TaskFrames(stack)
    BY <1>1, <1>4, <2>1, <2>2
  <2>6. TaskFrames(Append(Append(stack, w), r)) = TaskFrames(Append(stack, w))
    <3> DEFINE u == Append(stack, w)
    <3>1. TaskFrames(Append(u, r)) = TaskFrames(u)
      <4>1. u \in Seq(Frame)
        BY <2>4
      <4> HIDE DEF u
      <4> QED BY <1>4, <1>5, <4>1
    <3> QED BY <3>1
  <2> QED
    BY <2>4, <2>5, <2>6
<1>13. CASE EventReturns \/ TimerReturns \/ RunReadyReturns \/ WaitReturns
  BY <1>3, <1>13 DEF EventReturns, TimerReturns, RunReadyReturns, WaitReturns, Top, Return
<1>14. ASSUME NEW q \in Queues,
              \/ PostTask(q) \/ CreateTaskQueue(q) \/ DeleteTaskQueue(q)
              \/ \E d \in Delays : PostDelayedTask(q, d)
       PROVE  TaskFrames(stack') = TaskFrames(stack)
  BY <1>2, <1>14 DEF PostTask, CreateTaskQueue, DeleteTaskQueue, PostDelayedTask
<1> QED
  BY <1>6, <1>7, <1>8, <1>9, <1>10, <1>11, <1>12, <1>13, <1>14
  DEF Next, Returns, CodeReturns, Calls, OnTaskTimer

FrameInv ==
  \A f \in TaskFrames(stack) :
    /\ f.t \in 1..posted /\ f.t \notin dropped
    /\ f.q \in Queues /\ post[f.t].q = f.q /\ f.t \notin Has(f.q)
------------------------------------------------------------------------------
(* What a step does to the tasks *)

LEMMA MoveEffect ==
  ASSUME TypeInv, MoveDue
  PROVE  /\ \A q \in Queues : Has(q)' = Has(q)
         /\ UNCHANGED <<now, stack, posted, post, dropped>>
<1>1. PICK q \in Queues : q = Last(stack).q
  BY TopFrame DEF MoveDue, Top
<1>2. PICK f : f = FirstDelayed(q)
  OBVIOUS
<1>3. /\ ready_tasks' = [ready_tasks EXCEPT ![q] = Append(@, f)]
      /\ delayed_tasks' = [delayed_tasks EXCEPT ![q] = @ \ {f}]
      /\ delayed_tasks[q] # {}
      /\ UNCHANGED <<now, stack, posted, post, dropped>>
  BY <1>1, <1>2 DEF MoveDue
<1>4. ready_tasks \in [Queues -> Seq(Task)] /\ delayed_tasks \in [Queues -> SUBSET Task]
  BY DEF TypeInv, TypeOK
<1>5. f \in delayed_tasks[q] /\ f \in Task
  BY <1>2, <1>3, <1>4, FirstDelayedIsFirst DEF TypeInv
<1>6. ready_tasks'[q] = Append(ready_tasks[q], f) /\ delayed_tasks'[q] = delayed_tasks[q] \ {f}
  BY <1>3, <1>4
<1>7. Has(q)' = Has(q)
  BY <1>4, <1>5, <1>6, HeldAppend DEF Has, Held
<1>8. \A o \in Queues : o # q => Has(o)' = Has(o)
  BY <1>3, <1>4 DEF Has
<1> QED
  BY <1>3, <1>7, <1>8

LEMMA RunEffect ==
  ASSUME TypeInv, NestInv, QueueInv, RunTask
  PROVE  \E q \in Queues : \E t \in Has(q) :
           /\ t \in Task /\ post[t].due <= now
           /\ \A u \in Has(q) \ {t} : ~Before(post, u, t)
           /\ Has(q)' = Has(q) \ {t} /\ \A o \in Queues \ {q} : Has(o)' = Has(o)
           /\ TaskFrames(stack') = TaskFrames(stack) \cup {F("Task", q, t)}
           /\ \A f \in TaskFrames(stack) : f.q # q
           /\ UNCHANGED <<now, posted, post, dropped>>
<1>1. PICK q \in Queues : q = Last(stack).q
  BY TopFrame DEF RunTask, Top
<1>2. PICK t : t = Head(ready_tasks[q])
  OBVIOUS
<1>3. /\ ready_tasks' = [ready_tasks EXCEPT ![q] = Tail(@)] /\ ready_tasks[q] # <<>>
      /\ stack # <<>> /\ Last(stack).fn = "RunTasks"
      /\ stack' = Append(stack, F("Task", q, t))
      /\ UNCHANGED <<now, delayed_tasks, posted, post, dropped>>
  BY <1>1, <1>2 DEF RunTask, Top
<1>4. ready_tasks \in [Queues -> Seq(Task)] /\ ready_tasks[q] \in Seq(Task)
  BY DEF TypeInv, TypeOK
<1>5. /\ t \in ToSet(ready_tasks[q]) /\ Held(Tail(ready_tasks[q]), delayed_tasks[q]) = Has(q) \ {t}
      /\ \A u \in Has(q) \ {t} : ~Before(post, u, t)
  BY <1>2, <1>3, <1>4, HeldTail DEF QueueInv, Placed, Has
<1>6. t \in Task /\ t \in Has(q) /\ post[t].due <= now
  BY <1>2, <1>3, <1>4, <1>5 DEF QueueInv, Placed, Has, Held
<1>7. Has(q)' = Has(q) \ {t} /\ \A o \in Queues \ {q} : Has(o)' = Has(o)
  BY <1>3, <1>4, <1>5 DEF Has
<1>8. stack \in Seq(Frame) /\ WellFormed(stack) /\ Nested(stack, yielded)
  BY DEF TypeInv, WellFormed, NestInv
<1>9. TaskFrames(stack') = TaskFrames(stack) \cup {F("Task", q, t)}
  <2>1. F("Task", q, t) \in Frame /\ F("Task", q, t).fn = "Task"
    BY <1>6 DEF F, Frame, Current, Task
  <2> QED
    BY <1>3, <1>8, <2>1, FramesPush
<1>10. ASSUME NEW f \in TaskFrames(stack) PROVE f.q # q
  <2>1. SUFFICES ASSUME f.q = q PROVE FALSE
    OBVIOUS
  <2>2. PICK i \in DOMAIN stack : stack[i].fn = "Task" /\ f = stack[i]
    BY DEF TaskFrames
  <2>3. /\ Len(stack) \in DOMAIN stack /\ stack[Len(stack)] = Last(stack)
        /\ DOMAIN stack = 1..Len(stack) /\ Len(stack) \in Nat
    BY <1>3, <1>8 DEF Last
  <2>4. i = Len(stack) + 1
    BY <1>1, <1>3, <1>8, <2>1, <2>2, <2>3, OneFrame
  <2> QED
    BY <2>2, <2>3, <2>4
<1> QED
  BY <1>3, <1>5, <1>6, <1>7, <1>9, <1>10

LEMMA PostEffect ==
  ASSUME TypeInv, NEW q \in Queues,
         PostTask(q) \/ SendTask(q) \/ \E d \in Delays : PostDelayedTask(q, d)
  PROVE  \E p \in Task, due \in Time, delayed \in BOOLEAN :
           /\ p = posted + 1 /\ posted' = p /\ posted < NumTasks
           /\ due >= now /\ (delayed \/ due = now)
           /\ post' = [post EXCEPT ![p] = [q |-> q, due |-> due, delayed |-> delayed]]
           /\ \A t \in 1..posted : post'[t] = post[t] /\ t \in 1..posted' /\ t # p
           /\ Has(q)' = Has(q) \cup {p} /\ \A o \in Queues \ {q} : Has(o)' = Has(o)
           /\ UNCHANGED <<now, dropped>>
<1>1. /\ ready_tasks \in [Queues -> Seq(Task)] /\ delayed_tasks \in [Queues -> SUBSET Task]
      /\ posted \in Nat /\ now \in Time /\ now \in Nat
  BY SimConstants DEF TypeInv, TypeOK, Time
<1>2. CASE PostTask(q) \/ SendTask(q)
  <2>1. PICK p \in Nat : p = posted + 1
    BY <1>1
  <2>2. /\ posted' = p /\ post' = [post EXCEPT ![p] = [q |-> q, due |-> now, delayed |-> FALSE]]
        /\ ready_tasks' = [ready_tasks EXCEPT ![q] = Append(@, p)]
        /\ delayed_tasks' = delayed_tasks /\ posted < NumTasks
        /\ UNCHANGED <<now, dropped>>
    BY <1>2, <2>1 DEF PostTask, SendTask, Enqueue
  <2>3. p \in Task /\ \A t \in 1..posted : post'[t] = post[t] /\ t \in 1..posted' /\ t < p
    BY <2>1, <2>2, PostKept
  <2>4. ready_tasks'[q] = Append(ready_tasks[q], p)
    BY <1>1, <2>2
  <2>5. Has(q)' = Has(q) \cup {p}
    BY <1>1, <2>2, <2>3, <2>4, HeldAppend DEF Has, Held
  <2>6. \A o \in Queues \ {q} : Has(o)' = Has(o)
    BY <1>1, <2>2 DEF Has
  <2>7. now >= now /\ \A t \in 1..posted : t # p
    BY <1>1, <2>1
  <2> QED
    BY <1>1, <2>1, <2>2, <2>3, <2>5, <2>6, <2>7
<1>3. ASSUME NEW d \in Delays, PostDelayedTask(q, d)
      PROVE  \E p \in Task, due \in Time, delayed \in BOOLEAN :
           /\ p = posted + 1 /\ posted' = p /\ posted < NumTasks
           /\ due >= now /\ (delayed \/ due = now)
           /\ post' = [post EXCEPT ![p] = [q |-> q, due |-> due, delayed |-> delayed]]
           /\ \A t \in 1..posted : post'[t] = post[t] /\ t \in 1..posted' /\ t # p
           /\ Has(q)' = Has(q) \cup {p} /\ \A o \in Queues \ {q} : Has(o)' = Has(o)
           /\ UNCHANGED <<now, dropped>>
  <2>1. PICK p \in Nat : p = posted + 1
    BY <1>1
  <2>2. /\ posted' = p /\ post' = [post EXCEPT ![p] = [q |-> q, due |-> now + d, delayed |-> TRUE]]
        /\ delayed_tasks' = [delayed_tasks EXCEPT ![q] = @ \cup {p}]
        /\ ready_tasks' = ready_tasks /\ posted < NumTasks /\ now + d < PlusInfinity /\ d \in Nat
        /\ UNCHANGED <<now, dropped>>
    BY <1>3, <2>1, SimConstants DEF PostDelayedTask
  <2>3. p \in Task /\ \A t \in 1..posted : post'[t] = post[t] /\ t \in 1..posted' /\ t < p
    BY <2>1, <2>2, PostKept
  <2>4. Has(q)' = Has(q) \cup {p}
    BY <1>1, <2>2 DEF Has, Held
  <2>5. \A o \in Queues \ {q} : Has(o)' = Has(o)
    BY <1>1, <2>2 DEF Has
  <2>6. now + d \in Time /\ now + d >= now /\ \A t \in 1..posted : t # p
    BY <1>1, <2>1, <2>2, SimConstants DEF Time
  <2> QED
    BY <2>1, <2>2, <2>3, <2>4, <2>5, <2>6
<1> QED
  BY <1>2, <1>3

LEMMA DeleteEffect ==
  ASSUME TypeInv, NEW q \in Queues, DeleteTaskQueue(q)
  PROVE  /\ Has(q)' = {} /\ \A o \in Queues \ {q} : Has(o)' = Has(o)
         /\ dropped' = dropped \cup Has(q)
         /\ \A f \in TaskFrames(stack) : f.q # q
         /\ UNCHANGED <<now, stack, posted, post>>
<1>1. ready_tasks \in [Queues -> Seq(Task)] /\ delayed_tasks \in [Queues -> SUBSET Task]
  BY DEF TypeInv, TypeOK
<1>2. /\ ready_tasks' = [ready_tasks EXCEPT ![q] = <<>>]
      /\ delayed_tasks' = [delayed_tasks EXCEPT ![q] = {}]
      /\ dropped' = dropped \cup Has(q) /\ \A i \in DOMAIN stack : stack[i].q # q
      /\ UNCHANGED <<now, stack, posted, post>>
  BY DEF DeleteTaskQueue, Has, Held
<1>3. Has(q)' = {}
  BY <1>1, <1>2 DEF Has, Held, ToSet
<1>4. \A o \in Queues \ {q} : Has(o)' = Has(o)
  BY <1>1, <1>2 DEF Has
<1>5. \A f \in TaskFrames(stack) : f.q # q
  BY <1>2 DEF TaskFrames
<1> QED
  BY <1>2, <1>3, <1>4, <1>5

LEMMA TaskReturnsEffect ==
  ASSUME TypeInv, NestInv, TaskReturns
  PROVE  /\ Last(stack) \in TaskFrames(stack)
         /\ TaskFrames(stack') = TaskFrames(stack) \ {Last(stack)}
         /\ \A q \in Queues : Has(q)' = Has(q)
         /\ UNCHANGED <<now, posted, post, dropped>>
<1>1. stack # <<>> /\ Last(stack).fn = "Task" /\ stack' = Front(stack)
  BY DEF TaskReturns, Top, Return
<1>2. WellFormed(stack) /\ Nested(stack, yielded) /\ stack \in Seq(Frame)
  BY DEF TypeInv, NestInv, WellFormed
<1>3. Len(stack) \in DOMAIN stack /\ stack[Len(stack)] = Last(stack)
  BY <1>1, <1>2 DEF Last
<1>4. Last(stack) \in TaskFrames(stack)
  BY <1>1, <1>3 DEF TaskFrames
<1>5. TaskFrames(stack') = TaskFrames(stack) \ {Last(stack)}
  BY <1>1, <1>2, FramesPop
<1> QED
  BY <1>4, <1>5 DEF TaskReturns, queueVars, Has

\* The steps that leave all the tasks where they are.
OtherStep ==
  \/ FireTimer \/ FireEvent \/ SimulationOver \/ CollectReady \/ OnTaskTimer
  \/ AllMoved \/ RunReadyReturns \/ WaitReturns \/ EventReturns \/ UNCHANGED vars
  \/ \E q \in Queues : RunReady(q) \/ CreateTaskQueue(q)

LEMMA OtherEffect ==
  ASSUME TypeInv, NestInv, OtherStep
  PROVE  /\ TaskFrames(stack') = TaskFrames(stack)
         /\ \A q \in Queues : Has(q)' = Has(q)
         /\ UNCHANGED <<posted, post, dropped>>
         /\ now' # now => FireTimer \/ FireEvent
<1>1. [Next]_vars
  BY DEF OtherStep, Next, Returns, CodeReturns, Calls, vars
<1>2. CASE FireTimer \/ FireEvent
  <2>1. ~RunTask /\ ~TaskReturns
    BY <1>2 DEF FireTimer, FireEvent, RunTask, TaskReturns, Top
  <2>2. UNCHANGED <<ready_tasks, delayed_tasks, posted, post, dropped>>
    BY <1>2 DEF FireTimer, FireEvent, queueVars
  <2> QED
    BY <1>1, <1>2, <2>1, <2>2, FramesStep DEF Has
<1>3. CASE ~FireTimer /\ ~FireEvent
  <2>1. UNCHANGED <<now, ready_tasks, delayed_tasks, posted, post, dropped>>
    BY <1>3 DEF OtherStep, SimulationOver, CollectReady, OnTaskTimer, TimerAgain, TimerReturns,
       AllMoved, RunReadyReturns, WaitReturns, EventReturns, RunReady, CreateTaskQueue, vars, queueVars
  <2>2. TaskFrames(stack') = TaskFrames(stack)
    <3>1. ~RunTask
      <4>1. SUFFICES ASSUME RunTask PROVE FALSE
        OBVIOUS
      <4>2. PICK q \in Queues : q = Last(stack).q
        BY <4>1, TopFrame DEF RunTask, Top
      <4>3. ready_tasks'[q] = Tail(ready_tasks[q]) /\ ready_tasks[q] # <<>> /\ ready_tasks[q] \in Seq(Task)
        BY <4>1, <4>2 DEF RunTask, TypeInv, TypeOK
      <4>4. Len(Tail(ready_tasks[q])) # Len(ready_tasks[q])
        BY <4>3
      <4> QED
        BY <2>1, <4>3, <4>4
    <3>2. CASE TaskReturns
      <4>1. stack # <<>> /\ Last(stack).fn = "Task"
        BY <3>2 DEF TaskReturns, Top
      <4> QED
        BY <1>3, <4>1 DEF OtherStep, SimulationOver, CollectReady, OnTaskTimer, TimerAgain, TimerReturns,
          AllMoved, RunReadyReturns, WaitReturns, EventReturns, RunReady, CreateTaskQueue, vars, Top
    <3>3. CASE ~TaskReturns
      BY <1>1, <3>1, <3>3, FramesStep
    <3> QED
      BY <3>2, <3>3
  <2> QED
    BY <1>3, <2>1, <2>2 DEF Has
<1> QED
  BY <1>2, <1>3

\* Every step is one of these.
LEMMA Steps ==
  ASSUME [Next]_vars
  PROVE  \/ MoveDue \/ RunTask \/ TaskReturns \/ OtherStep
         \/ \E q \in Queues : \/ PostTask(q) \/ SendTask(q) \/ DeleteTaskQueue(q)
                              \/ \E d \in Delays : PostDelayedTask(q, d)
BY DEF Next, Returns, CodeReturns, Calls, OtherStep

LEMMA FrameStep ==
  ASSUME TypeInv, NestInv, QueueInv, FrameInv, [Next]_vars PROVE FrameInv'
<1>1. CASE MoveDue \/ OtherStep \/ TaskReturns
  <2>1. /\ TaskFrames(stack') \subseteq TaskFrames(stack) /\ \A q \in Queues : Has(q)' = Has(q)
        /\ UNCHANGED <<posted, post, dropped>>
    BY <1>1, MoveEffect, OtherEffect, TaskReturnsEffect
  <2> QED
    BY <2>1 DEF FrameInv
<1>2. CASE RunTask
  <2>1. PICK q \in Queues : \E t \in Has(q) :
           /\ Has(q)' = Has(q) \ {t} /\ \A o \in Queues \ {q} : Has(o)' = Has(o)
           /\ TaskFrames(stack') = TaskFrames(stack) \cup {F("Task", q, t)}
           /\ UNCHANGED <<now, posted, post, dropped>>
    BY <1>2, RunEffect
  <2>2. PICK t \in Has(q) :
           /\ Has(q)' = Has(q) \ {t} /\ \A o \in Queues \ {q} : Has(o)' = Has(o)
           /\ TaskFrames(stack') = TaskFrames(stack) \cup {F("Task", q, t)}
           /\ UNCHANGED <<now, posted, post, dropped>>
    BY <2>1
  <2>3. t \in 1..posted /\ t \notin dropped /\ post[t].q = q
    BY DEF QueueInv, Placed
  <2>4. \A o \in Queues : Has(o)' \subseteq Has(o)
    BY <2>2
  <2>5. F("Task", q, t).t = t /\ F("Task", q, t).q = q
    BY DEF F
  <2>6. ASSUME NEW f \in TaskFrames(stack')
        PROVE  /\ f.t \in 1..posted' /\ f.t \notin dropped'
               /\ f.q \in Queues /\ post'[f.t].q = f.q /\ f.t \notin Has(f.q)'
    <3>1. CASE f \in TaskFrames(stack)
      BY <2>2, <2>4, <3>1 DEF FrameInv
    <3>2. CASE f = F("Task", q, t)
      BY <2>2, <2>3, <2>5, <3>2
    <3> QED
      BY <2>2, <3>1, <3>2
  <2> QED
    BY <2>6 DEF FrameInv
<1>3. ASSUME NEW q \in Queues,
             PostTask(q) \/ SendTask(q) \/ \E d \in Delays : PostDelayedTask(q, d)
      PROVE  FrameInv'
  <2>1. PICK p \in Task :
           /\ p = posted + 1 /\ posted' = p
           /\ \A t \in 1..posted : post'[t] = post[t] /\ t \in 1..posted' /\ t # p
           /\ Has(q)' = Has(q) \cup {p} /\ \A o \in Queues \ {q} : Has(o)' = Has(o)
           /\ UNCHANGED <<now, dropped>>
    BY <1>3, PostEffect
  <2>2. TaskFrames(stack') = TaskFrames(stack)
    <3>1. [Next]_vars
      BY <1>3 DEF Next, Calls
    <3>2. ~RunTask /\ ~TaskReturns
      <4>1. posted' # posted
        BY <2>1 DEF TypeInv, TypeOK
      <4> QED
        BY <4>1 DEF RunTask, TaskReturns, queueVars
    <3> QED
      BY <3>1, <3>2, FramesStep
  <2>3. \A o \in Queues : Has(o)' \subseteq Has(o) \cup {p}
    BY <2>1
  <2> QED
    BY <2>1, <2>2, <2>3 DEF FrameInv
<1>4. ASSUME NEW q \in Queues, DeleteTaskQueue(q) PROVE FrameInv'
  <2>1. /\ Has(q)' = {} /\ \A o \in Queues \ {q} : Has(o)' = Has(o)
        /\ dropped' = dropped \cup Has(q)
        /\ \A f \in TaskFrames(stack) : f.q # q
        /\ UNCHANGED <<now, stack, posted, post>>
    BY <1>4, DeleteEffect
  <2>2. \A t \in Has(q) : post[t].q = q
    BY DEF QueueInv, Placed
  <2> QED
    BY <2>1, <2>2 DEF FrameInv
<1> QED
  BY <1>1, <1>2, <1>3, <1>4, Steps
------------------------------------------------------------------------------
(* The status of every task, and the steps of TaskSequences *)

Waiting == UNION {Has(q) : q \in Queues}
InProgress == {f.t : f \in TaskFrames(stack)}

\* The status of a task, of |n| that are posted, when those in P, R and D are
\* pending, running and dropped.
StatusOf(t, n, P, R, D) ==
  CASE t > n -> "new"
    [] t <= n /\ t \in P -> "pending"
    [] t \in R -> "running"
    [] t \in D -> "dropped"
    [] OTHER -> "done"

Disjoint(n, P, R, D) ==
  /\ P \subseteq 1..n /\ R \subseteq 1..n /\ D \subseteq 1..n
  /\ P \cap R = {} /\ P \cap D = {} /\ R \cap D = {}

LEMMA StatusGives ==
  ASSUME NEW n \in Nat, NEW P, NEW R, NEW D, Disjoint(n, P, R, D), NEW t \in Nat
  PROVE  /\ t > n => StatusOf(t, n, P, R, D) = "new"
         /\ t \in P => StatusOf(t, n, P, R, D) = "pending"
         /\ t \in R => StatusOf(t, n, P, R, D) = "running"
         /\ t \in D => StatusOf(t, n, P, R, D) = "dropped"
         /\ t <= n /\ t \notin P /\ t \notin R /\ t \notin D => StatusOf(t, n, P, R, D) = "done"
<1> USE DEF Disjoint
<1>1. CASE t > n
  <2>1. t \notin P /\ t \notin R /\ t \notin D /\ ~(t <= n)
    BY <1>1
  <2> QED
    BY <1>1, <2>1 DEF StatusOf
<1>2. CASE t \in P
  <2>1. ~(t > n) /\ t <= n /\ t \notin R /\ t \notin D
    BY <1>2
  <2> QED
    BY <1>2, <2>1 DEF StatusOf
<1>3. CASE t \in R
  <2>1. ~(t > n) /\ t <= n /\ t \notin P /\ t \notin D
    BY <1>3
  <2> QED
    BY <1>3, <2>1 DEF StatusOf
<1>4. CASE t \in D
  <2>1. ~(t > n) /\ t <= n /\ t \notin P /\ t \notin R
    BY <1>4
  <2> QED
    BY <1>4, <2>1 DEF StatusOf
<1>5. CASE t <= n /\ t \notin P /\ t \notin R /\ t \notin D
  <2>1. ~(t > n)
    BY <1>5
  <2> QED
    BY <1>5, <2>1 DEF StatusOf
<1> QED
  BY <1>1, <1>2, <1>3, <1>4, <1>5

LEMMA StatusMeans ==
  ASSUME NEW n \in Nat, NEW P, NEW R, NEW D, Disjoint(n, P, R, D), NEW t \in Nat
  PROVE  /\ StatusOf(t, n, P, R, D) = "pending" <=> t \in P
         /\ StatusOf(t, n, P, R, D) = "running" <=> t \in R
<1>1. t > n \/ t \in P \/ t \in R \/ t \in D \/ (t <= n /\ t \notin P /\ t \notin R /\ t \notin D)
  OBVIOUS
<1>2. t \in P => t \notin R
  BY DEF Disjoint
<1> QED
  BY <1>1, <1>2, StatusGives

LEMMA PendingIsWaiting == (\A t : Pending(t) <=> t \in Waiting) /\ (\A t : Pending(t)' <=> t \in Waiting')
BY DEF Pending, Waiting, Has, Held

LEMMA RunningIsInProgress ==
  (\A t : Running(t) <=> t \in InProgress) /\ (\A t : Running(t)' <=> t \in InProgress')
BY DEF Running, InProgress, TaskFrames

LEMMA StatusIs ==
  /\ status = [t \in Task |-> StatusOf(t, posted, Waiting, InProgress, dropped)]
  /\ status' = [t \in Task |-> StatusOf(t, posted', Waiting', InProgress', dropped')]
BY PendingIsWaiting, RunningIsInProgress DEF status, StatusOf

LEMMA Apart ==
  ASSUME QueueInv, FrameInv
  PROVE  Disjoint(posted, Waiting, InProgress, dropped)
<1>1. ASSUME NEW t \in Waiting PROVE t \in 1..posted /\ t \notin dropped /\ t \notin InProgress
  <2>1. PICK q \in Queues : t \in Has(q)
    BY DEF Waiting
  <2>2. t \in 1..posted /\ t \notin dropped /\ post[t].q = q
    BY <2>1 DEF QueueInv, Placed
  <2> QED
    BY <2>1, <2>2 DEF FrameInv, InProgress
<1>2. \A t \in InProgress : t \in 1..posted /\ t \notin dropped
  BY DEF FrameInv, InProgress
<1> QED
  BY <1>1, <1>2 DEF Disjoint, QueueInv

LEMMA ApartNext ==
  ASSUME QueueInv', FrameInv'
  PROVE  Disjoint(posted', Waiting', InProgress', dropped')
<1>1. ASSUME NEW t \in Waiting' PROVE t \in 1..posted' /\ t \notin dropped' /\ t \notin InProgress'
  <2>1. PICK q \in Queues : t \in Has(q)'
    BY DEF Waiting
  <2>2. t \in 1..posted' /\ t \notin dropped' /\ post'[t].q = q
    BY <2>1 DEF QueueInv, Placed
  <2> QED
    BY <2>1, <2>2 DEF FrameInv, InProgress
<1>2. \A t \in InProgress' : t \in 1..posted' /\ t \notin dropped'
  BY DEF FrameInv, InProgress
<1> QED
  BY <1>1, <1>2 DEF Disjoint, QueueInv

SafeInv == TypeInv /\ RunTimeInv /\ NestInv /\ QueueInv /\ FrameInv

LEMMA SafeStep == SafeInv /\ [Next]_vars => SafeInv'
BY TypeStep, RunTimeStep, NestStep, QueueStep, FrameStep DEF SafeInv

LEMMA SafeInit == Init => SafeInv
<1>1. SUFFICES ASSUME Init PROVE NestInv /\ QueueInv /\ FrameInv
  BY InitTyped, InitRunTime DEF SafeInv
<1>2. NestInv
  BY <1>1 DEF Init, NestInv, Nested
<1>3. TaskFrames(stack) = {} /\ \A q \in Queues : Has(q) = {}
  BY <1>1 DEF Init, TaskFrames, Has, Held, ToSet
<1>4. \A q \in Queues : ready_tasks[q] = <<>> /\ delayed_tasks[q] = {}
  BY <1>1 DEF Init
<1> QED
  BY <1>1, <1>2, <1>3, <1>4 DEF Init, QueueInv, FrameInv, Placed, InOrder, ToSet

\* The status of the tasks from what the step did to the three sets.
LEMMA StatusOfAll ==
  ASSUME SafeInv, [Next]_vars
  PROVE  /\ posted \in Nat /\ posted' \in Nat /\ Task \subseteq Nat
         /\ status = [t \in Task |-> StatusOf(t, posted, Waiting, InProgress, dropped)]
         /\ status' = [t \in Task |-> StatusOf(t, posted', Waiting', InProgress', dropped')]
         /\ Disjoint(posted, Waiting, InProgress, dropped)
         /\ Disjoint(posted', Waiting', InProgress', dropped')
<1>1. SafeInv'
  BY SafeStep
<1>2. posted \in Nat /\ posted' \in Nat /\ Task \subseteq Nat
  BY <1>1 DEF SafeInv, TypeInv, TypeOK, Task
<1> QED
  BY <1>1, <1>2, StatusIs, Apart, ApartNext DEF SafeInv

LEMMA StartStep ==
  ASSUME SafeInv, [Next]_vars, RunTask
  PROVE  \E t \in Task : Promise!Start(t)
<1>1. PICK q \in Queues : \E t \in Has(q) :
           /\ t \in Task /\ post[t].due <= now
           /\ \A u \in Has(q) \ {t} : ~Before(post, u, t)
           /\ Has(q)' = Has(q) \ {t} /\ \A o \in Queues \ {q} : Has(o)' = Has(o)
           /\ TaskFrames(stack') = TaskFrames(stack) \cup {F("Task", q, t)}
           /\ \A f \in TaskFrames(stack) : f.q # q
           /\ UNCHANGED <<now, posted, post, dropped>>
  BY RunEffect DEF SafeInv
<1>2. PICK t \in Has(q) :
           /\ t \in Task /\ post[t].due <= now
           /\ \A u \in Has(q) \ {t} : ~Before(post, u, t)
           /\ Has(q)' = Has(q) \ {t} /\ \A o \in Queues \ {q} : Has(o)' = Has(o)
           /\ TaskFrames(stack') = TaskFrames(stack) \cup {F("Task", q, t)}
           /\ \A f \in TaskFrames(stack) : f.q # q
           /\ UNCHANGED <<now, posted, post, dropped>>
  BY <1>1
<1>3. \A o \in Queues : \A u \in Has(o) : post[u].q = o
  BY DEF SafeInv, QueueInv, Placed
<1>4. t \in Waiting /\ Waiting' = Waiting \ {t}
  BY <1>2, <1>3 DEF Waiting
<1>5. InProgress' = InProgress \cup {t}
  <2>1. F("Task", q, t).t = t
    BY DEF F
  <2> HIDE DEF F
  <2> QED
    BY <1>2, <2>1 DEF InProgress
<1>6. /\ posted \in Nat /\ Task \subseteq Nat
      /\ status = [u \in Task |-> StatusOf(u, posted, Waiting, InProgress, dropped)]
      /\ status' = [u \in Task |-> StatusOf(u, posted', Waiting', InProgress', dropped')]
      /\ Disjoint(posted, Waiting, InProgress, dropped)
      /\ Disjoint(posted', Waiting', InProgress', dropped')
  BY StatusOfAll
<1>7. status[t] = "pending" /\ status'[t] = "running"
  BY <1>2, <1>4, <1>5, <1>6, StatusGives
<1>8. ASSUME NEW u \in Task, u # t PROVE status'[u] = status[u]
  BY <1>2, <1>4, <1>5, <1>6, <1>8 DEF StatusOf
<1>9. status' = [status EXCEPT ![t] = "running"]
  BY <1>6, <1>7, <1>8
<1>10. ASSUME NEW u \in Task
       PROVE  /\ status[u] = "running" => u \in InProgress
              /\ status[u] = "pending" => u \in Waiting
  BY <1>6, StatusMeans
<1>11. ASSUME NEW u \in InProgress PROVE post[u].q # q
  BY <1>2 DEF InProgress, SafeInv, FrameInv
<1>12. ASSUME NEW u \in Waiting PROVE ~Promise!Before(u, t)
  <2>1. PICK o \in Queues : u \in Has(o)
    BY DEF Waiting
  <2>2. CASE o # q
    BY <1>2, <1>3, <2>1, <2>2 DEF Promise!Before
  <2>3. CASE o = q /\ u # t
    <3>1. ~Before(post, u, t)
      BY <1>2, <2>1, <2>3
    <3> QED
      BY <3>1 DEF Before, Promise!Before
  <2>4. CASE u = t
    <3>1. t \in Nat /\ post[t].due \in Nat
      BY <1>2, <1>6, SimConstants DEF SafeInv, TypeInv, TypeOK, Time
    <3> QED
      BY <2>4, <3>1 DEF Promise!Before
  <2> QED
    BY <2>2, <2>3, <2>4
<1>13. \A u \in Task : /\ status[u] = "running" => post[u].q # post[t].q
                       /\ status[u] = "pending" => ~Promise!Before(u, t)
  BY <1>2, <1>3, <1>10, <1>11, <1>12
<1> QED
  BY <1>2, <1>7, <1>9, <1>13 DEF Promise!Start, Promise!Task, Task

LEMMA FinishStep ==
  ASSUME SafeInv, [Next]_vars, TaskReturns
  PROVE  \E t \in Task : Promise!Finish(t)
<1>1. PICK f \in TaskFrames(stack) : TaskFrames(stack') = TaskFrames(stack) \ {f}
  BY TaskReturnsEffect DEF SafeInv
<1>2. (\A q \in Queues : Has(q)' = Has(q)) /\ UNCHANGED <<now, posted, post, dropped>>
  BY TaskReturnsEffect DEF SafeInv
<1>3. PICK t : t = f.t
  OBVIOUS
<1>4. t \in 1..posted /\ t \in Task
  <2>1. t \in 1..posted
    BY <1>3 DEF SafeInv, FrameInv
  <2>2. posted \in 0..NumTasks
    BY DEF SafeInv, TypeInv, TypeOK
  <2> QED
    BY <2>1, <2>2, SimConstants DEF Task
<1>5. Waiting' = Waiting /\ t \in InProgress
  BY <1>2, <1>3 DEF Waiting, InProgress
<1>6. InProgress' = InProgress \ {t}
  <2>1. ASSUME NEW g \in TaskFrames(stack), g.t = t PROVE g = f
    <3>1. g.q = f.q
      BY <1>3, <2>1 DEF SafeInv, FrameInv
    <3>2. PICK i \in DOMAIN stack : stack[i].fn = "Task" /\ g = stack[i]
      BY DEF TaskFrames
    <3>3. PICK j \in DOMAIN stack : stack[j].fn = "Task" /\ f = stack[j]
      BY DEF TaskFrames
    <3> QED
      BY <3>1, <3>2, <3>3, OneFrame DEF SafeInv, TypeInv, NestInv
  <2> QED
    BY <1>1, <1>3, <2>1 DEF InProgress
<1>7. /\ posted \in Nat /\ Task \subseteq Nat
      /\ status = [u \in Task |-> StatusOf(u, posted, Waiting, InProgress, dropped)]
      /\ status' = [u \in Task |-> StatusOf(u, posted', Waiting', InProgress', dropped')]
      /\ Disjoint(posted, Waiting, InProgress, dropped)
      /\ Disjoint(posted', Waiting', InProgress', dropped')
  BY StatusOfAll
<1>8. status[t] = "running"
  BY <1>4, <1>5, <1>7, StatusGives
<1>9. status'[t] = "done"
  <2>1. t \notin Waiting' /\ t \notin InProgress' /\ t \notin dropped' /\ t <= posted'
    BY <1>2, <1>4, <1>5, <1>6, <1>7 DEF Disjoint
  <2> QED
    BY <1>2, <1>4, <1>7, <2>1, StatusGives
<1>10. ASSUME NEW u \in Task, u # t PROVE status'[u] = status[u]
  BY <1>2, <1>5, <1>6, <1>7, <1>10 DEF StatusOf
<1>11. status' = [status EXCEPT ![t] = "done"]
  BY <1>7, <1>9, <1>10
<1> QED
  BY <1>2, <1>4, <1>8, <1>11 DEF Promise!Finish

LEMMA PostStep ==
  ASSUME SafeInv, [Next]_vars, NEW q \in Queues,
         PostTask(q) \/ SendTask(q) \/ \E d \in Delays : PostDelayedTask(q, d)
  PROVE  \E delayed \in BOOLEAN, due \in Time : Promise!Post(q, due, delayed)
<1>1. PICK p \in Task, due \in Time, delayed \in BOOLEAN :
           /\ p = posted + 1 /\ posted' = p /\ posted < NumTasks
           /\ due >= now /\ (delayed \/ due = now)
           /\ post' = [post EXCEPT ![p] = [q |-> q, due |-> due, delayed |-> delayed]]
           /\ Has(q)' = Has(q) \cup {p} /\ \A o \in Queues \ {q} : Has(o)' = Has(o)
           /\ UNCHANGED <<now, dropped>>
  BY PostEffect DEF SafeInv
<1>2. TaskFrames(stack') = TaskFrames(stack)
  <2>1. posted' # posted
    BY <1>1 DEF SafeInv, TypeInv, TypeOK
  <2>2. ~RunTask /\ ~TaskReturns
    BY <2>1 DEF RunTask, TaskReturns, queueVars
  <2> QED
    BY <2>2, FramesStep DEF SafeInv
<1>3. Waiting' = Waiting \cup {p} /\ InProgress' = InProgress
  BY <1>1, <1>2 DEF Waiting, InProgress
<1>4. /\ posted \in Nat /\ posted' \in Nat /\ Task \subseteq Nat
      /\ status = [u \in Task |-> StatusOf(u, posted, Waiting, InProgress, dropped)]
      /\ status' = [u \in Task |-> StatusOf(u, posted', Waiting', InProgress', dropped')]
      /\ Disjoint(posted, Waiting, InProgress, dropped)
      /\ Disjoint(posted', Waiting', InProgress', dropped')
  BY StatusOfAll
<1>5. status'[p] = "pending"
  BY <1>1, <1>3, <1>4, StatusGives
<1>6. ASSUME NEW u \in Task, u # p PROVE status'[u] = status[u]
  <2>1. (u > posted <=> u > posted') /\ (u <= posted <=> u <= posted')
    BY <1>1, <1>4, <1>6
  <2> QED
    BY <1>1, <1>3, <1>4, <1>6, <2>1 DEF StatusOf
<1>7. status' = [status EXCEPT ![p] = "pending"]
  BY <1>4, <1>5, <1>6
<1> QED
  BY <1>1, <1>7 DEF Promise!Post

LEMMA DeleteStep ==
  ASSUME SafeInv, [Next]_vars, NEW q \in Queues, DeleteTaskQueue(q)
  PROVE  Promise!Delete(q)
<1>1. /\ Has(q)' = {} /\ \A o \in Queues \ {q} : Has(o)' = Has(o)
      /\ dropped' = dropped \cup Has(q)
      /\ \A f \in TaskFrames(stack) : f.q # q
      /\ UNCHANGED <<now, stack, posted, post>>
  BY DeleteEffect DEF SafeInv
<1>2. \A o \in Queues : \A u \in Has(o) : post[u].q = o
  BY DEF SafeInv, QueueInv, Placed
<1>3. Has(q) = {u \in Waiting : post[u].q = q}
  BY <1>2 DEF Waiting
<1>4. Waiting' = Waiting \ Has(q) /\ InProgress' = InProgress
  BY <1>1, <1>2 DEF Waiting, InProgress
<1>5. \A u \in InProgress : post[u].q # q
  BY <1>1 DEF InProgress, SafeInv, FrameInv
<1>6. /\ posted \in Nat /\ Task \subseteq Nat
      /\ status = [u \in Task |-> StatusOf(u, posted, Waiting, InProgress, dropped)]
      /\ status' = [u \in Task |-> StatusOf(u, posted', Waiting', InProgress', dropped')]
      /\ Disjoint(posted, Waiting, InProgress, dropped)
      /\ Disjoint(posted', Waiting', InProgress', dropped')
  BY StatusOfAll
<1>7. ASSUME NEW u \in Task
      PROVE  /\ status[u] = "running" => u \in InProgress
             /\ status[u] = "pending" <=> u \in Waiting
  BY <1>6, StatusMeans
<1>8. ASSUME NEW u \in Has(q), u \in Task PROVE status'[u] = "dropped"
  BY <1>1, <1>6, <1>8, StatusGives
<1>9. ASSUME NEW u \in Task, u \notin Has(q) PROVE status'[u] = status[u]
  BY <1>1, <1>4, <1>6, <1>9 DEF StatusOf
<1>10. ASSUME NEW u \in Task
       PROVE  status'[u] = IF status[u] = "pending" /\ post[u].q = q THEN "dropped" ELSE status[u]
  BY <1>3, <1>7, <1>8, <1>9
<1>11. status' = [u \in Task |-> IF status[u] = "pending" /\ post[u].q = q
                                 THEN "dropped" ELSE status[u]]
  BY <1>6, <1>10
<1> QED
  BY <1>1, <1>5, <1>7, <1>11 DEF Promise!Delete, Promise!Task, Task

LEMMA StatusKept ==
  ASSUME SafeInv, [Next]_vars, TaskFrames(stack') = TaskFrames(stack),
         \A q \in Queues : Has(q)' = Has(q), UNCHANGED <<posted, dropped>>
  PROVE  status' = status
<1>1. Waiting' = Waiting /\ InProgress' = InProgress
  BY DEF Waiting, InProgress
<1> QED
  BY <1>1, StatusIs

\* Every step of the controller and its queues is a step of the promise, or is
\* not seen by the code that posts tasks.
LEMMA PromiseStep == SafeInv /\ [Next]_vars => [Promise!Next]_(Promise!vars)
<1>1. SUFFICES ASSUME SafeInv, [Next]_vars PROVE [Promise!Next]_(Promise!vars)
  OBVIOUS
<1>2. CASE MoveDue
  BY <1>1, <1>2, MoveEffect, StatusKept DEF SafeInv, Promise!vars
<1>3. CASE RunTask
  BY <1>1, <1>3, StartStep DEF Promise!Next, Promise!Task, Task
<1>4. CASE TaskReturns
  BY <1>1, <1>4, FinishStep DEF Promise!Next, Promise!Task, Task
<1>5. CASE OtherStep
  <2>1. /\ TaskFrames(stack') = TaskFrames(stack)
        /\ \A q \in Queues : Has(q)' = Has(q)
        /\ UNCHANGED <<posted, post, dropped>>
    BY <1>1, <1>5, OtherEffect DEF SafeInv
  <2>2. status' = status
    BY <1>1, <2>1, StatusKept
  <2>3. now <= now' /\ now \in Nat /\ now' \in Nat /\ now' \in Time
    BY <1>1, NowGrows, SafeStep DEF SafeInv, TypeInv, TypeOK
  <2>4. CASE now' = now
    BY <2>1, <2>2, <2>4 DEF Promise!vars
  <2>5. CASE now' > now
    BY <2>1, <2>2, <2>3, <2>5 DEF Promise!Next, Promise!TimePasses
  <2> QED
    BY <2>3, <2>4, <2>5
<1>6. ASSUME NEW q \in Queues,
             PostTask(q) \/ SendTask(q) \/ \E d \in Delays : PostDelayedTask(q, d)
      PROVE  Promise!Next
  BY <1>1, <1>6, PostStep DEF Promise!Next
<1>7. ASSUME NEW q \in Queues, DeleteTaskQueue(q) PROVE Promise!Next
  BY <1>1, <1>7, DeleteStep DEF Promise!Next
<1> QED
  BY <1>1, <1>2, <1>3, <1>4, <1>5, <1>6, <1>7, Steps

LEMMA PromiseInit == Init => Promise!Init
<1>1. SUFFICES ASSUME Init PROVE Promise!Init
  OBVIOUS
<1>2. posted = 0 /\ SafeInv
  BY <1>1, SafeInit DEF Init
<1>3. ASSUME NEW t \in Task PROVE StatusOf(t, posted, Waiting, InProgress, dropped) = "new"
  <2>1. t \in Nat /\ t > posted
    BY <1>2 DEF Task
  <2> QED
    BY <1>2, <2>1, StatusGives, Apart DEF SafeInv
<1>4. status = [t \in Task |-> "new"]
  BY <1>3, StatusIs
<1> QED
  BY <1>1, <1>4 DEF Init, Promise!Init, Promise!Task, Task

\* The queues keep what they promise to the code that posts tasks, for any queues,
\* any program and any nesting of waits: each task runs at most once, not before
\* it is due, in the order of posting and of due times, alone on its queue, and a
\* task that has not run is still there unless its queue was deleted.
THEOREM TasksCorrect == Spec => TasksRunInSequence
<1>1. Init => SafeInv /\ Promise!Init
  BY SafeInit, PromiseInit
<1>2. SafeInv /\ [Next]_vars => SafeInv' /\ [Promise!Next]_(Promise!vars)
  BY SafeStep, PromiseStep
<1> QED
  BY <1>1, <1>2, PTL DEF Spec, TasksRunInSequence, Promise!Spec
------------------------------------------------------------------------------
(* The tasks that code waits for *)

\* Other frames than those RunTask and SendTask push were there before the step.
LEMMA NoNewFrames ==
  ASSUME TypeInv, [Next]_vars, ~RunTask, \A q \in Queues : ~SendTask(q)
  PROVE  \A i \in DOMAIN stack' :
           stack'[i].fn \in {"Task", "Wait"} => i \in DOMAIN stack /\ stack[i] = stack'[i]
<1> DEFINE Kept(s) == \A i \in DOMAIN s :
                        s[i].fn \in {"Task", "Wait"} => i \in DOMAIN stack /\ stack[i] = s[i]
<1>1. stack \in Seq(Frame) /\ WellFormed(stack)
  BY DEF TypeInv, WellFormed
<1>2. ASSUME stack # <<>> PROVE Kept(Front(stack)) /\ Front(stack) \in Seq(Frame)
  BY <1>1, <1>2, FrontFacts
<1>3. ASSUME NEW s \in Seq(Frame), Kept(s), NEW f, f.fn \notin {"Task", "Wait"} PROVE Kept(Append(s, f))
  <2>1. /\ Len(s) \in Nat /\ DOMAIN s = 1..Len(s) /\ DOMAIN Append(s, f) = 1..(Len(s) + 1)
        /\ Append(s, f)[Len(s) + 1] = f /\ \A i \in 1..Len(s) : Append(s, f)[i] = s[i]
    OBVIOUS
  <2>2. \A i \in 1..(Len(s) + 1) : i \in 1..Len(s) \/ i = Len(s) + 1
    BY <2>1
  <2> QED
    BY <1>3, <2>1, <2>2
<1>4. Kept(stack)
  OBVIOUS
<1>5. CASE FireTimer \/ FireEvent
  BY <1>5 DEF FireTimer, FireEvent, F
<1>6. CASE SimulationOver \/ MoveDue \/ UNCHANGED vars
  BY <1>6 DEF SimulationOver, MoveDue, vars
<1>7. ASSUME stack' = stack \/ (stack # <<>> /\ stack' = Front(stack)) PROVE Kept(stack')
  BY <1>2, <1>4, <1>7
<1>8. CASE CollectReady \/ EventReturns \/ TimerReturns \/ TaskReturns \/ RunReadyReturns \/ WaitReturns
  <2>1. stack' = stack \/ (stack # <<>> /\ stack' = Front(stack))
    BY <1>8 DEF CollectReady, EventReturns, TimerReturns, TaskReturns, RunReadyReturns, WaitReturns,
                Top, Return
  <2> QED
    BY <1>7, <2>1
<1>9. ASSUME NEW q \in Queues, RunReady(q) PROVE Kept(stack')
  <2>1. stack' = Append(stack, F("MoveDue", q, 0)) /\ F("MoveDue", q, 0).fn \notin {"Task", "Wait"}
    BY <1>9 DEF RunReady, F
  <2> QED
    BY <1>1, <1>3, <1>4, <2>1
<1>10. CASE TimerAgain
  <2>1. /\ stack' = Append(stack, F("RunReadyRunners", Main, 0))
        /\ F("RunReadyRunners", Main, 0).fn \notin {"Task", "Wait"}
    BY <1>10 DEF TimerAgain, F
  <2> QED
    BY <1>1, <1>3, <1>4, <2>1
<1>11. CASE AllMoved
  <2>1. /\ stack' = Append(Front(stack), F("RunTasks", Last(stack).q, 0)) /\ stack # <<>>
        /\ F("RunTasks", Last(stack).q, 0).fn \notin {"Task", "Wait"}
    BY <1>11 DEF AllMoved, F, Top, Return
  <2> QED
    BY <1>2, <1>3, <2>1
<1>12. ASSUME NEW q \in Queues,
              \/ PostTask(q) \/ CreateTaskQueue(q) \/ DeleteTaskQueue(q)
              \/ \E d \in Delays : PostDelayedTask(q, d)
       PROVE  Kept(stack')
  <2>1. stack' = stack
    BY <1>12 DEF PostTask, CreateTaskQueue, DeleteTaskQueue, PostDelayedTask
  <2> QED
    BY <1>4, <2>1
<1> QED
  BY <1>5, <1>6, <1>8, <1>9, <1>10, <1>11, <1>12
  DEF Next, Returns, CodeReturns, Calls, OnTaskTimer

\* Who waits entered his task in the queue of another, as SendPairs allows; the task
\* was not delayed, and it runs, if it does, from inside the wait.
WaitInv ==
  \A i \in DOMAIN stack : stack[i].fn = "Wait" =>
    /\ stack[i].t \in 1..posted /\ ~post[stack[i].t].delayed
    /\ <<stack[i].q, post[stack[i].t].q>> \in SendPairs
    /\ \A j \in DOMAIN stack : stack[j].fn = "Task" /\ stack[j].t = stack[i].t => i < j

LEMMA WaitStep ==
  ASSUME SafeInv, WaitInv, [Next]_vars PROVE WaitInv'
<1>1. /\ stack \in Seq(Frame) /\ stack' \in Seq(Frame) /\ TypeInv /\ posted \in Nat
      /\ Len(stack) \in Nat /\ DOMAIN stack = 1..Len(stack)
  BY TypeStep DEF SafeInv, TypeInv, TypeOK
<1>2. \A t \in 1..posted : post'[t] = post[t] /\ t \in 1..posted'
  <2>1. CASE UNCHANGED <<posted, post>>
    BY <2>1
  <2>2. ASSUME NEW q \in Queues,
               PostTask(q) \/ SendTask(q) \/ \E d \in Delays : PostDelayedTask(q, d)
        PROVE  \A t \in 1..posted : post'[t] = post[t] /\ t \in 1..posted'
    BY <1>1, <2>2, PostEffect
  <2>3. CASE MoveDue \/ RunTask \/ TaskReturns \/ OtherStep \/ \E q \in Queues : DeleteTaskQueue(q)
    BY <1>1, <2>1, <2>3, MoveEffect, OtherEffect DEF RunTask, TaskReturns, DeleteTaskQueue, SafeInv, queueVars
  <2> QED
    BY <2>2, <2>3, Steps
<1>3. CASE ~RunTask /\ \A q \in Queues : ~SendTask(q)
  <2>1. \A i \in DOMAIN stack' :
          stack'[i].fn \in {"Task", "Wait"} => i \in DOMAIN stack /\ stack[i] = stack'[i]
    BY <1>1, <1>3, NoNewFrames
  <2> QED
    BY <1>2, <2>1 DEF WaitInv
<1>4. CASE RunTask
  <2>1. PICK q \in Queues : q = Last(stack).q
    BY <1>1, <1>4, TopFrame DEF RunTask, Top
  <2>2. PICK f : f = F("Task", q, Head(ready_tasks[q]))
    OBVIOUS
  <2>3. stack' = Append(stack, f) /\ f.fn = "Task" /\ UNCHANGED <<posted, post>>
    BY <1>4, <2>1, <2>2 DEF RunTask, F
  <2>4. /\ DOMAIN stack' = 1..(Len(stack) + 1) /\ stack'[Len(stack) + 1] = f
        /\ \A i \in 1..Len(stack) : stack'[i] = stack[i]
    BY <1>1, <2>3
  <2>5. ASSUME NEW i \in DOMAIN stack', stack'[i].fn = "Wait" PROVE i \in DOMAIN stack /\ stack'[i] = stack[i]
    BY <1>1, <2>3, <2>4, <2>5
  <2>6. ASSUME NEW i \in DOMAIN stack, NEW j \in DOMAIN stack', stack[i].fn = "Wait",
               stack'[j].fn = "Task", stack'[j].t = stack[i].t
        PROVE  i < j
    <3>1. CASE j \in DOMAIN stack
      <4>1. stack'[j] = stack[j]
        BY <1>1, <2>4, <3>1
      <4> QED
        BY <2>6, <3>1, <4>1 DEF WaitInv
    <3>2. CASE j = Len(stack) + 1
      BY <1>1, <2>6, <3>2
    <3> QED
      BY <1>1, <2>4, <3>1, <3>2
  <2> QED
    BY <2>3, <2>5, <2>6 DEF WaitInv
<1>5. ASSUME NEW q \in Queues, SendTask(q) PROVE WaitInv'
  <2>1. PICK from : from = Last(stack).q
    OBVIOUS
  <2>2. PICK w, r : w = F("Wait", from, posted + 1) /\ r = F("RunReadyRunners", Main, 0)
    OBVIOUS
  <2>3. /\ stack' = stack \o <<w, r>> /\ <<from, q>> \in SendPairs
        /\ posted' = posted + 1 /\ posted < NumTasks
        /\ post' = [post EXCEPT ![posted + 1] = [q |-> q, due |-> now, delayed |-> FALSE]]
    BY <1>5, <2>1, <2>2 DEF SendTask, Enqueue
  <2>4. posted + 1 \in 1..posted' /\ post'[posted + 1] = [q |-> q, due |-> now, delayed |-> FALSE]
    BY <1>1, <2>3, PostKept
  <2>5. w.fn = "Wait" /\ w.q = from /\ w.t = posted + 1 /\ r.fn = "RunReadyRunners"
    BY <2>2 DEF F
  <2>6. /\ DOMAIN stack' = 1..(Len(stack) + 2)
        /\ stack'[Len(stack) + 1] = w /\ stack'[Len(stack) + 2] = r
        /\ \A i \in 1..Len(stack) : stack'[i] = stack[i]
    BY <1>1, <2>3
  <2>7. \A i \in DOMAIN stack' : i \in DOMAIN stack \/ i = Len(stack) + 1 \/ i = Len(stack) + 2
    BY <1>1, <2>6
  <2>8. ASSUME NEW j \in DOMAIN stack', stack'[j].fn = "Task"
        PROVE  j \in DOMAIN stack /\ stack'[j] = stack[j] /\ stack[j].t \in 1..posted
    <3>1. j \in DOMAIN stack /\ stack'[j] = stack[j]
      BY <1>1, <2>5, <2>6, <2>7, <2>8
    <3>2. stack[j] \in TaskFrames(stack)
      BY <2>8, <3>1 DEF TaskFrames
    <3> QED
      BY <3>1, <3>2 DEF SafeInv, FrameInv
  <2>9. ASSUME NEW i \in DOMAIN stack', stack'[i].fn = "Wait"
        PROVE  /\ stack'[i].t \in 1..posted' /\ ~post'[stack'[i].t].delayed
               /\ <<stack'[i].q, post'[stack'[i].t].q>> \in SendPairs
               /\ \A j \in DOMAIN stack' : stack'[j].fn = "Task" /\ stack'[j].t = stack'[i].t => i < j
    <3>1. CASE i = Len(stack) + 1
      <4>1. stack'[i] = w
        BY <2>6, <3>1
      <4>2. \A j \in DOMAIN stack' : stack'[j].fn = "Task" => stack'[j].t # posted + 1
        BY <1>1, <2>8
      <4> QED
        <5>1. /\ stack'[i].t = posted + 1 /\ stack'[i].q = from
              /\ post'[posted + 1].q = q /\ ~post'[posted + 1].delayed
          BY <2>4, <2>5, <4>1
        <5> QED
          BY <2>3, <2>4, <4>2, <5>1
    <3>2. CASE i \in DOMAIN stack
      <4>1. stack'[i] = stack[i] /\ stack[i].fn = "Wait"
        BY <1>1, <2>6, <2>9, <3>2
      <4>2. \A j \in DOMAIN stack' : stack'[j].fn = "Task" /\ stack'[j].t = stack[i].t => i < j
        BY <2>8, <3>2, <4>1 DEF WaitInv
      <4> QED
        BY <1>2, <3>2, <4>1, <4>2 DEF WaitInv
    <3> QED
      BY <2>5, <2>6, <2>7, <2>9, <3>1, <3>2
  <2> QED
    BY <2>9 DEF WaitInv
<1> QED
  BY <1>3, <1>4, <1>5

\* What is not registered has no tasks.
RegisteredInv == \A q \in Queues : q \notin Registered => Has(q) = {}

LEMMA RemoveAtKeeps ==
  ASSUME NEW S, NEW s \in Seq(S), NEW i \in 1..Len(s), NEW j \in 1..Len(s), s[j] # s[i]
  PROVE  s[j] \in ToSet(RemoveAt(s, i))
<1>1. PICK n \in Nat : n = Len(s)
  OBVIOUS
<1>2. PICK a : a = SubSeq(s, 1, i - 1)
  OBVIOUS
<1>3. PICK b : b = SubSeq(s, i + 1, n)
  OBVIOUS
<1>4. i \in 1..n /\ j \in 1..n /\ i # j /\ i - 1 \in Nat /\ n - i \in Nat /\ \A k \in 1..n : s[k] \in S
  BY <1>1
<1>5. a \in Seq(S) /\ Len(a) = i - 1 /\ \A k \in 1..(i - 1) : a[k] = s[k]
  <2>1. 1 \in Int /\ i - 1 \in Int /\ \A k \in 1..(i - 1) : s[k] \in S
    BY <1>4
  <2>2. /\ SubSeq(s, 1, i - 1) \in Seq(S)
        /\ Len(SubSeq(s, 1, i - 1)) = IF 1 <= i - 1 THEN (i - 1) - 1 + 1 ELSE 0
        /\ \A k \in 1..((i - 1) - 1 + 1) : SubSeq(s, 1, i - 1)[k] = s[1 + k - 1]
    BY <2>1, SubSeqProperties
  <2> QED
    BY <1>2, <1>4, <2>2
<1>6. b \in Seq(S) /\ Len(b) = n - i /\ \A k \in 1..(n - i) : b[k] = s[i + k]
  <2>1. i + 1 \in Int /\ n \in Int /\ \A k \in (i + 1)..n : s[k] \in S
    BY <1>4
  <2>2. /\ SubSeq(s, i + 1, n) \in Seq(S)
        /\ Len(SubSeq(s, i + 1, n)) = IF i + 1 <= n THEN n - (i + 1) + 1 ELSE 0
        /\ \A k \in 1..(n - (i + 1) + 1) : SubSeq(s, i + 1, n)[k] = s[(i + 1) + k - 1]
    BY <2>1, SubSeqProperties
  <2> QED
    BY <1>3, <1>4, <2>2
<1>7. PICK c : c = a \o b
  OBVIOUS
<1>8. /\ DOMAIN c = 1..(n - 1)
      /\ \A k \in 1..(i - 1) : c[k] = a[k]
      /\ \A k \in i..(n - 1) : c[k] = b[k - (i - 1)]
  <2>1. a \in Seq(S) /\ b \in Seq(S)
    BY <1>5, <1>6
  <2>2. /\ c \in Seq(S) /\ Len(c) = Len(a) + Len(b)
        /\ \A k \in 1..(Len(a) + Len(b)) : c[k] = IF k <= Len(a) THEN a[k] ELSE b[k - Len(a)]
    BY <1>7, <2>1, ConcatProperties
  <2>3. Len(a) = i - 1 /\ Len(a) + Len(b) = n - 1
    BY <1>4, <1>5, <1>6
  <2>4. DOMAIN c = 1..(n - 1)
    BY <2>2, <2>3
  <2>5. ASSUME NEW k \in 1..(i - 1) PROVE c[k] = a[k]
    <3>1. k \in 1..(n - 1) /\ k <= i - 1
      BY <1>4
    <3> QED
      BY <2>2, <2>3, <3>1
  <2>6. ASSUME NEW k \in i..(n - 1) PROVE c[k] = b[k - (i - 1)]
    <3>1. k \in 1..(n - 1) /\ ~(k <= i - 1)
      BY <1>4
    <3> QED
      BY <2>2, <2>3, <3>1
  <2> QED
    BY <2>4, <2>5, <2>6
<1>9. \E k \in DOMAIN c : c[k] = s[j]
  <2>1. CASE j < i
    <3>1. j \in 1..(i - 1) /\ j \in 1..(n - 1)
      BY <1>4, <2>1
    <3> QED
      BY <1>5, <1>8, <3>1
  <2>2. CASE j > i
    <3>1. j - 1 \in i..(n - 1) /\ j - 1 \in 1..(n - 1)
      BY <1>4, <2>2
    <3>2. (j - 1) - (i - 1) \in 1..(n - i) /\ i + ((j - 1) - (i - 1)) = j
      BY <1>4, <2>2
    <3>3. c[j - 1] = s[j]
      BY <1>6, <1>8, <3>1, <3>2
    <3> QED
      BY <1>8, <3>1, <3>3
  <2> QED
    BY <1>4, <2>1, <2>2
<1> QED
  BY <1>1, <1>2, <1>3, <1>7, <1>9 DEF RemoveAt, ToSet

LEMMA RegisteredStep ==
  ASSUME SafeInv, RegisteredInv, [Next]_vars PROVE RegisteredInv'
<1>1. runners \in Seq(Queues)
  BY DEF SafeInv, TypeInv, TypeOK
<1>2. CASE MoveDue \/ RunTask \/ TaskReturns
  <2>1. \A q \in Queues : Has(q)' \subseteq Has(q)
    BY <1>2, MoveEffect, RunEffect, TaskReturnsEffect DEF SafeInv
  <2>2. runners' = runners
    BY <1>2 DEF MoveDue, RunTask, TaskReturns
  <2> QED
    BY <2>1, <2>2 DEF RegisteredInv, Registered
<1>3. CASE OtherStep
  <2>1. \A q \in Queues : Has(q)' = Has(q)
    BY <1>3, OtherEffect DEF SafeInv
  <2>2. Registered \subseteq Registered'
    <3>1. CASE \E q \in Queues : CreateTaskQueue(q)
      <4>1. PICK q \in Queues : runners' = Append(runners, q)
        BY <3>1 DEF CreateTaskQueue
      <4> QED
        BY <1>1, <4>1, HeldAppend DEF Registered
    <3>2. CASE ~\E q \in Queues : CreateTaskQueue(q)
      <4>1. runners' = runners
        BY <1>3, <3>2 DEF OtherStep, FireTimer, FireEvent, SimulationOver, CollectReady, OnTaskTimer,
          TimerAgain, TimerReturns, AllMoved, RunReadyReturns, WaitReturns, EventReturns, RunReady, vars
      <4> QED
        BY <4>1 DEF Registered
    <3> QED
      BY <3>1, <3>2
  <2> QED
    BY <2>1, <2>2 DEF RegisteredInv
<1>4. ASSUME NEW q \in Queues,
             PostTask(q) \/ SendTask(q) \/ \E d \in Delays : PostDelayedTask(q, d)
      PROVE  RegisteredInv'
  <2>1. \A o \in Queues \ {q} : Has(o)' = Has(o)
    BY <1>4, PostEffect DEF SafeInv
  <2>2. q \in Registered /\ runners' = runners
    BY <1>4 DEF PostTask, SendTask, Enqueue, PostDelayedTask
  <2> QED
    BY <2>1, <2>2 DEF RegisteredInv, Registered
<1>5. ASSUME NEW q \in Queues, DeleteTaskQueue(q) PROVE RegisteredInv'
  <2>1. Has(q)' = {} /\ \A o \in Queues \ {q} : Has(o)' = Has(o)
    BY <1>5, DeleteEffect DEF SafeInv
  <2>2. PICK i \in DOMAIN runners : runners[i] = q /\ runners' = RemoveAt(runners, i)
    BY <1>5 DEF DeleteTaskQueue
  <2>3. ASSUME NEW o \in Registered, o # q PROVE o \in Registered'
    <3>1. PICK j \in DOMAIN runners : runners[j] = o
      BY <2>3 DEF Registered, ToSet
    <3> QED
      BY <1>1, <2>2, <2>3, <3>1, RemoveAtKeeps DEF Registered
  <2> QED
    BY <2>1, <2>3 DEF RegisteredInv
<1> QED
  BY <1>2, <1>3, <1>4, <1>5, Steps

LEMMA ReadyStep ==
  ASSUME TypeInv, ReadyRunnersExist, [Next]_vars PROVE ReadyRunnersExist'
<1>1. runners \in Seq(Queues)
  BY DEF TypeInv, TypeOK
<1>2. ASSUME UNCHANGED runners, ready_runners' \subseteq ready_runners \cup Registered
      PROVE  ReadyRunnersExist'
  BY <1>2 DEF ReadyRunnersExist, Registered
<1>3. CASE FireTimer \/ FireEvent \/ SimulationOver \/ CodeReturns \/ UNCHANGED vars
  BY <1>2, <1>3 DEF FireTimer, FireEvent, SimulationOver, CodeReturns, TaskReturns, EventReturns, vars
<1>4. CASE Returns
  <2>1. CASE CollectReady
    BY <1>2, <2>1 DEF CollectReady
  <2>2. CASE ~CollectReady
    BY <1>2, <1>4, <2>2 DEF Returns, OnTaskTimer, TimerAgain, TimerReturns, MoveDue, AllMoved,
      RunTask, RunReadyReturns, WaitReturns, RunReady
  <2> QED
    BY <2>1, <2>2
<1>5. ASSUME NEW q \in Queues,
             PostTask(q) \/ SendTask(q) \/ \E d \in Delays : PostDelayedTask(q, d)
      PROVE  ReadyRunnersExist'
  BY <1>2, <1>5 DEF PostTask, SendTask, PostDelayedTask
<1>6. ASSUME NEW q \in Queues, CreateTaskQueue(q) PROVE ReadyRunnersExist'
  <2>1. runners' = Append(runners, q) /\ ready_runners' = ready_runners
    BY <1>6 DEF CreateTaskQueue
  <2>2. Registered \subseteq Registered'
    BY <1>1, <2>1, HeldAppend DEF Registered
  <2> QED
    BY <2>1, <2>2 DEF ReadyRunnersExist
<1>7. ASSUME NEW q \in Queues, DeleteTaskQueue(q) PROVE ReadyRunnersExist'
  <2>1. PICK i \in DOMAIN runners : runners[i] = q /\ runners' = RemoveAt(runners, i)
    BY <1>7 DEF DeleteTaskQueue
  <2>2. ASSUME NEW o \in Registered, o # q PROVE o \in Registered'
    <3>1. PICK j \in DOMAIN runners : runners[j] = o
      BY <2>2 DEF Registered, ToSet
    <3> QED
      BY <1>1, <2>1, <2>2, <3>1, RemoveAtKeeps DEF Registered
  <2>3. ready_runners' = ready_runners \ {q}
    BY <1>7 DEF DeleteTaskQueue
  <2> QED
    BY <2>2, <2>3 DEF ReadyRunnersExist
<1> QED
  BY <1>3, <1>4, <1>5, <1>6, <1>7 DEF Next, Calls

\* RunReadyRunners runs no queue that has been freed, whatever tasks delete while it
\* works and however its calls nest.
THEOREM ReadyCorrect == Spec => []ReadyRunnersExist
<1>1. Init => TypeInv /\ ReadyRunnersExist
  BY InitTyped DEF Init, ReadyRunnersExist
<1> QED
  BY <1>1, TypeStep, ReadyStep, PTL DEF Spec

\* Queues use SendTask only towards queues that do not use it themselves; ns-3
\* events may use it towards any.
QueuesWaitForLeaves ==
  \A x, y \in SendPairs : x[1] # Main => x[2] # y[1]

\* A wait of an ns-3 event is the only one when it is on top.
LEMMA EventWaitsAlone ==
  ASSUME TypeInv, NestInv, Top("Wait"), Last(stack).q = Main
  PROVE  yielded = {Main}
<1>1. /\ WellFormed(stack) /\ stack \in Seq(Frame) /\ Len(stack) \in Nat \ {0}
      /\ DOMAIN stack = 1..Len(stack) /\ Last(stack) = stack[Len(stack)]
      /\ stack # <<>> /\ Last(stack).fn = "Wait"
  BY FrontFacts DEF TypeInv, WellFormed, Top, Last
<1>2. Len(stack) = 2
  <2>1. SUFFICES ASSUME Len(stack) # 2 PROVE FALSE
    OBVIOUS
  <2>2. Len(stack) # 1
    BY <1>1 DEF WellFormed
  <2>3. Len(stack) \in 2..Len(stack) /\ Len(stack) - 1 \in 2..Len(stack)
    BY <1>1, <2>1, <2>2
  <2>4. \A i \in 2..Len(stack) : Fits(stack[i - 1], stack[i])
    BY <1>1 DEF WellFormed
  <2>5. /\ Fits(stack[Len(stack) - 1], stack[Len(stack)])
        /\ Fits(stack[Len(stack) - 1 - 1], stack[Len(stack) - 1])
    BY <2>3, <2>4
  <2> QED
    BY <1>1, <2>5, SimConstants DEF Fits
<1>3. \A i \in DOMAIN stack : IsWait(stack[i]) => stack[i] = Last(stack)
  <2>1. stack[1].fn # "Wait"
    BY <1>1 DEF WellFormed
  <2> QED
    BY <1>1, <1>2, <2>1 DEF IsWait
<1>4. \A q \in yielded : q = Main
  BY <1>3 DEF NestInv, Nested
<1>5. Main \in yielded
  BY <1>1 DEF NestInv, Nested, IsWait
<1> QED
  BY <1>4, <1>5

\* SendTask returns, however the waits nest, if the queues that are waited for by
\* other queues wait for nobody: Event::Wait finds that its task has run or was
\* destroyed when the queues have run, and the simulation does not hang.
THEOREM SendTaskCorrect == QueuesWaitForLeaves /\ Spec => []SendTaskReturns
<1> SUFFICES ASSUME QueuesWaitForLeaves PROVE Spec => []SendTaskReturns
  OBVIOUS
<1>1. Init => SafeInv /\ WaitInv /\ RegisteredInv
  <2>1. Init => \A q \in Queues : Has(q) = {}
    BY DEF Init, Has, Held, ToSet
  <2> QED
    BY <2>1, SafeInit DEF Init, WaitInv, RegisteredInv
<1>2. SafeInv /\ WaitInv /\ RegisteredInv /\ [Next]_vars => (SafeInv /\ WaitInv /\ RegisteredInv)'
  BY SafeStep, WaitStep, RegisteredStep
<1>3. ASSUME SafeInv, WaitInv, RegisteredInv, NothingDueIsLeft PROVE SendTaskReturns
  <2>1. SUFFICES ASSUME Top("Wait") PROVE Over(Last(stack).t)
    BY DEF SendTaskReturns
  <2>2. PICK q, t : q = Last(stack).q /\ t = Last(stack).t
    OBVIOUS
  <2>3. /\ stack \in Seq(Frame) /\ stack # <<>> /\ Len(stack) \in DOMAIN stack
        /\ DOMAIN stack = 1..Len(stack) /\ Len(stack) \in Nat
        /\ stack[Len(stack)] = Last(stack) /\ Last(stack).fn = "Wait"
    BY <1>3, <2>1 DEF SafeInv, TypeInv, TypeOK, Top, Last
  <2>4. /\ t \in 1..posted /\ ~post[t].delayed /\ <<q, post[t].q>> \in SendPairs
        /\ \A j \in DOMAIN stack : stack[j].fn = "Task" /\ stack[j].t = t => Len(stack) < j
    BY <1>3, <2>2, <2>3 DEF WaitInv
  <2>5. ~Running(t)
    BY <2>3, <2>4 DEF Running
  <2>6. post[t].q \in Queues /\ post[t].q # Main
    BY <2>4, SimConstants
  <2>7. post[t].q \notin yielded
    <3>1. CASE q = Main
      BY <1>3, <2>1, <2>2, <2>6, <3>1, EventWaitsAlone DEF SafeInv
    <3>2. CASE q # Main
      <4>1. ASSUME NEW o \in yielded PROVE o # post[t].q
        <5>1. PICK i \in DOMAIN stack : stack[i].fn = "Wait" /\ stack[i].q = o
          BY <1>3 DEF SafeInv, NestInv, Nested, IsWait
        <5>2. <<o, post[stack[i].t].q>> \in SendPairs
          BY <1>3, <5>1 DEF WaitInv
        <5>3. <<q, post[t].q>>[1] # Main => <<q, post[t].q>>[2] # <<o, post[stack[i].t].q>>[1]
          BY <1>3, <2>4, <5>2 DEF QueuesWaitForLeaves
        <5> QED
          BY <3>2, <5>3
      <4> QED
        BY <4>1
    <3> QED
      BY <3>1, <3>2
  <2>8. ~Pending(t)
    <3>1. SUFFICES ASSUME NEW o \in Queues, t \in Has(o) PROVE FALSE
      BY DEF Pending, Has, Held
    <3>2. o = post[t].q /\ o \in Registered
      BY <1>3, <3>1 DEF SafeInv, QueueInv, Placed, RegisteredInv
    <3>3. t \in ToSet(ready_tasks[o])
      BY <1>3, <2>4, <3>1 DEF SafeInv, QueueInv, Placed, Has, Held
    <3>4. ready_tasks[o] # <<>>
      BY <3>3 DEF ToSet
    <3> QED
      BY <1>3, <2>1, <2>7, <3>2, <3>4 DEF NothingDueIsLeft, DueWork
  <2> QED
    BY <2>2, <2>5, <2>8 DEF Over
<1> QED
  BY <1>1, <1>2, <1>3, NothingDueCorrect, PTL DEF Spec
==============================================================================
