---------------------------- MODULE ProcessThread ----------------------------
(***************************************************************************)
(* SimulatedProcessThread (model/simulated-process-thread.cc): a runner of *)
(* the simulated time controller that calls Process of its modules when    *)
(* they ask for it, and runs posted tasks.  Everything happens on the one  *)
(* thread of the simulation; lock_ is recursive, so what Process calls may *)
(* enter the object again.  The controller calls RunReady once             *)
(* GetNextRunTime has passed, and only then.                               *)
(***************************************************************************)
EXTENDS SequencesExt, Integers

CONSTANTS
  Modules,
  Periods,      \* what Module::TimeUntilNextProcess returns (external code)
  NumTasks,     \* bound: number of tasks posted in a behaviour
  Delays,       \* delays given to PostDelayedTask
  MaxTime,      \* bound: simulated time stops there
  MaxEntries,   \* bound: the lists hold no more entries of modules than that
  Uses,         \* the ways of the clients that only some runs allow:
                \*   "StartWithDelayed": Start while delayed tasks wait
                \*   "WakeUpStopped": WakeUp while stopped
                \*   "CallFromProcess": Process calls back, not only PostTask
  None          \* no module

ASSUME ProcessThreadConstants ==
  /\ None \notin Modules
  /\ Periods \subseteq Nat /\ Delays \subseteq Nat
  /\ \E d \in Periods \cup Delays : \A e \in Periods \cup Delays : e <= d
  /\ NumTasks \in Nat /\ MaxTime \in Nat /\ MaxEntries \in Nat
  /\ Uses \subseteq {"StartWithDelayed", "WakeUpStopped", "CallFromProcess"}

VARIABLES
  now,              \* handler_->CurrentTime()
  running,          \* process_thread_running_
  stopped_modules,  \* stopped_modules_
  delayed_modules,  \* delayed_modules_: a map from timestamps to lists
  queue,            \* queue_
  delayed_tasks,    \* delayed_tasks_: ordered by <<due, id>>
  next_run_time,    \* next_run_time_
  pc,               \* where RunReady is; "idle": it is not running
  ready_modules,    \* ready_modules of RunReady, those still to be processed
  current,          \* the module whose Process runs
  in_start,         \* Start is calling ProcessThreadAttached
  starting,         \* starting of Start
  posted,           \* number of tasks posted; ids are in posting order
  due,              \* when each posted task is due
  registered,       \* history: modules registered and not deregistered
  missed            \* history: how often RemoveByValue found nothing, per module

moduleVars == <<running, stopped_modules, delayed_modules, ready_modules, current,
                in_start, starting, registered, missed>>
taskVars == <<queue, delayed_tasks, posted, due>>
vars == <<now, next_run_time, pc, moduleVars, taskVars>>

Task == 1..NumTasks
MaxDue == MaxTime + Max(Periods \cup Delays)
Timestamp == 0..MaxDue
PlusInfinity == MaxDue + 1
MinusInfinity == -1

TypeOK ==
  /\ now \in 0..MaxTime
  /\ running \in BOOLEAN /\ in_start \in BOOLEAN
  /\ stopped_modules \in Seq(Modules) /\ starting \in Seq(Modules)
  /\ DOMAIN delayed_modules \subseteq Timestamp
  /\ delayed_modules \in [DOMAIN delayed_modules -> Seq(Modules)]
  /\ ready_modules \in Seq(Modules)
  /\ queue \in Seq(Task) /\ delayed_tasks \subseteq Task
  /\ next_run_time \in MinusInfinity..PlusInfinity
  /\ pc \in {"idle", "modules", "process", "move", "tasks", "task"}
  /\ current \in Modules \cup {None}
  /\ posted \in 0..NumTasks /\ due \in [Task -> Timestamp]
  /\ registered \subseteq Modules
  /\ missed \in [Modules -> Nat]

Earlier(a, b) == IF a <= b THEN a ELSE b
FirstKey(map) == Min(DOMAIN map \cup {PlusInfinity})
FirstDue == Min({due[t] : t \in delayed_tasks} \cup {PlusInfinity})
FirstDelayed == Min({t \in delayed_tasks : due[t] = FirstDue})

NoModules == [at \in {} |-> <<>>]
ListAt(map, at) == IF at \in DOMAIN map THEN map[at] ELSE <<>>

\* delayed_modules_[at].push_back(m)
Schedule(map, at, m) ==
  [k \in DOMAIN map \cup {at} |-> IF k = at THEN Append(ListAt(map, at), m) ELSE map[k]]

\* RemoveByValue on the lists of delayed_modules_, up to the first that has it.  A
\* list that has become empty stays in the map, under its key.
Holds(map, m) == \E k \in DOMAIN map : m \in ToSet(map[k])
Unschedule(map, m) ==
  LET holding == {k \in DOMAIN map : m \in ToSet(map[k])}
  IN  IF holding = {} THEN map ELSE [map EXCEPT ![Min(holding)] = RemoveFirst(@, m)]

\* The modules of the lists up to a timestamp, in the order of the map.
Listed(map, last) ==
  LET before[n \in 0..(last + 1)] ==
        IF n = 0 THEN <<>> ELSE before[n - 1] \o ListAt(map, n - 1)
  IN  before[last + 1]

Init ==
  /\ now = 0
  /\ running = FALSE
  /\ stopped_modules = <<>> /\ delayed_modules = NoModules
  /\ queue = <<>> /\ delayed_tasks = {}
  /\ next_run_time = PlusInfinity
  /\ pc = "idle" /\ ready_modules = <<>> /\ current = None
  /\ in_start = FALSE /\ starting = <<>>
  /\ posted = 0 /\ due = [t \in Task |-> 0]
  /\ registered = {} /\ missed = [m \in Modules |-> 0]
------------------------------------------------------------------------------
(* RunReady *)

RunReady ==
  /\ pc = "idle" /\ ~in_start /\ next_run_time <= now
  /\ ready_modules' = Listed(delayed_modules, now)
  /\ delayed_modules' = Restrict(delayed_modules, {k \in DOMAIN delayed_modules : k > now})
  /\ pc' = "modules"
  /\ UNCHANGED <<now, next_run_time, running, stopped_modules, current, in_start,
                 starting, registered, missed, taskVars>>

Process ==
  /\ pc = "modules" /\ ready_modules # <<>>
  /\ current' = Head(ready_modules)
  /\ ready_modules' = Tail(ready_modules)
  /\ pc' = "process"
  /\ UNCHANGED <<now, next_run_time, running, stopped_modules, delayed_modules,
                 in_start, starting, registered, missed, taskVars>>

\* Mutant: the current time is added twice.
ProcessReturnsLate(period) ==
  /\ pc = "process" /\ ~in_start
  /\ delayed_modules' = Schedule(delayed_modules, now + now + period, current)
  /\ current' = None
  /\ pc' = "modules"
  /\ UNCHANGED <<now, next_run_time, running, stopped_modules, ready_modules,
                 in_start, starting, registered, missed, taskVars>>

ProcessReturns(period) ==
  /\ pc = "process" /\ ~in_start
  /\ delayed_modules' = Schedule(delayed_modules, now + period, current)
  /\ current' = None
  /\ pc' = "modules"
  /\ UNCHANGED <<now, next_run_time, running, stopped_modules, ready_modules,
                 in_start, starting, registered, missed, taskVars>>

AllProcessed ==
  /\ pc = "modules" /\ ready_modules = <<>>
  /\ pc' = "move"
  /\ UNCHANGED <<now, next_run_time, moduleVars, taskVars>>

MoveDue ==
  /\ pc = "move" /\ FirstDue <= now
  /\ queue' = Append(queue, FirstDelayed)
  /\ delayed_tasks' = delayed_tasks \ {FirstDelayed}
  /\ UNCHANGED <<now, next_run_time, pc, moduleVars, posted, due>>

AllMoved ==
  /\ pc = "move" /\ FirstDue > now
  /\ pc' = "tasks"
  /\ UNCHANGED <<now, next_run_time, moduleVars, taskVars>>

RunTask ==
  /\ pc = "tasks" /\ queue # <<>>
  /\ queue' = Tail(queue)
  /\ pc' = "task"
  /\ UNCHANGED <<now, next_run_time, moduleVars, delayed_tasks, posted, due>>

TaskReturns ==
  /\ pc = "task" /\ ~in_start
  /\ pc' = "tasks"
  /\ UNCHANGED <<now, next_run_time, moduleVars, taskVars>>

RunReadyReturns ==
  /\ pc = "tasks" /\ queue = <<>>
  /\ next_run_time' = Earlier(FirstKey(delayed_modules), FirstDue)
  /\ pc' = "idle"
  /\ UNCHANGED <<now, moduleVars, taskVars>>
------------------------------------------------------------------------------
(* Calls: by other queues while RunReady is idle, by a task, by Process, *)
(* by ProcessThreadAttached in Start                                     *)

Posts == pc \in {"idle", "process", "task"}
Calls == /\ pc \in {"idle", "task"} \cup
                   (IF "CallFromProcess" \in Uses THEN {"process"} ELSE {})
         /\ ~in_start

Entries == UNION {{k} \X DOMAIN delayed_modules[k] : k \in DOMAIN delayed_modules}
Load == Cardinality(Entries) + Len(stopped_modules) + Len(ready_modules) + Len(starting)
        + (IF current = None THEN 0 ELSE 1)

PostTask ==
  /\ Posts /\ posted < NumTasks
  /\ posted' = posted + 1
  /\ due' = [due EXCEPT ![posted + 1] = now]
  /\ queue' = Append(queue, posted + 1)
  /\ next_run_time' = MinusInfinity
  /\ UNCHANGED <<now, pc, moduleVars, delayed_tasks>>

\* Mutant: the next run time does not take the task into account.
PostDelayedKeepsTime(d) ==
  /\ Posts /\ posted < NumTasks
  /\ ~in_start \/ "StartWithDelayed" \in Uses
  /\ posted' = posted + 1
  /\ due' = [due EXCEPT ![posted + 1] = now + d]
  /\ delayed_tasks' = delayed_tasks \cup {posted + 1}
  /\ UNCHANGED <<now, next_run_time, pc, moduleVars, queue>>

PostDelayedTask(d) ==
  /\ Posts /\ posted < NumTasks
  /\ ~in_start \/ "StartWithDelayed" \in Uses
  /\ posted' = posted + 1
  /\ due' = [due EXCEPT ![posted + 1] = now + d]
  /\ delayed_tasks' = delayed_tasks \cup {posted + 1}
  /\ next_run_time' = Earlier(next_run_time, now + d)
  /\ UNCHANGED <<now, pc, moduleVars, queue>>

\* Mutant: the starting modules are copied, not moved, from stopped_modules_.
StartCopies ==
  /\ Calls /\ ~running
  /\ delayed_tasks = {} \/ "StartWithDelayed" \in Uses
  /\ running' = TRUE
  /\ starting' = stopped_modules
  /\ in_start' = TRUE
  /\ UNCHANGED <<now, next_run_time, pc, stopped_modules, delayed_modules, ready_modules,
                 current, registered, missed, taskVars>>

\* Start up to the callbacks: a second call returns at once.
Start ==
  /\ Calls /\ ~running
  /\ delayed_tasks = {} \/ "StartWithDelayed" \in Uses
  /\ running' = TRUE
  /\ starting' = stopped_modules /\ stopped_modules' = <<>>
  /\ in_start' = TRUE
  /\ UNCHANGED <<now, next_run_time, pc, delayed_modules, ready_modules, current,
                 registered, missed, taskVars>>

\* After the ProcessThreadAttached of every starting module, Start asks each of them
\* for its period, ...
StartModule(period) ==
  /\ in_start /\ starting # <<>>
  /\ delayed_modules' = Schedule(delayed_modules, now + period, Head(starting))
  /\ starting' = Tail(starting)
  /\ UNCHANGED <<now, next_run_time, pc, running, stopped_modules, ready_modules, current,
                 in_start, registered, missed, taskVars>>

\* ... and then for the next run time looks at queue_ and delayed_modules_ only.
StartReturns ==
  /\ in_start /\ starting = <<>>
  /\ next_run_time' = IF queue # <<>> THEN MinusInfinity ELSE FirstKey(delayed_modules)
  /\ in_start' = FALSE
  /\ UNCHANGED <<now, pc, running, stopped_modules, delayed_modules, ready_modules,
                 current, starting, registered, missed, taskVars>>

\* Mutant: the scheduled modules are dropped.
StopForgets ==
  /\ Calls
  /\ running' = FALSE
  /\ delayed_modules' = NoModules
  /\ UNCHANGED <<now, next_run_time, pc, stopped_modules, ready_modules, current, in_start,
                 starting, registered, missed, taskVars>>

\* Mutant: the scheduled modules stay scheduled.
StopKeepsSchedule ==
  /\ Calls
  /\ running' = FALSE
  /\ stopped_modules' = stopped_modules \o Listed(delayed_modules, MaxDue)
  /\ UNCHANGED <<now, next_run_time, pc, delayed_modules, ready_modules, current, in_start,
                 starting, registered, missed, taskVars>>

Stop ==
  /\ Calls
  /\ running' = FALSE
  /\ stopped_modules' = stopped_modules \o Listed(delayed_modules, MaxDue)
  /\ delayed_modules' = NoModules
  /\ UNCHANGED <<now, next_run_time, pc, ready_modules, current, in_start,
                 starting, registered, missed, taskVars>>

\* Neither WakeUp nor DeRegisterModule asks whether RemoveByValue has found the module.
LooksFor(m, found) == missed' = IF found THEN missed ELSE [missed EXCEPT ![m] = @ + 1]

\* A module is woken when its TimeUntilNextProcess has become smaller.
WakeUp(m, period) ==
  /\ Calls /\ m \in registered
  /\ running \/ "WakeUpStopped" \in Uses
  /\ Load < MaxEntries
  /\ delayed_modules' = Schedule(Unschedule(delayed_modules, m), now + period, m)
  /\ next_run_time' = Earlier(next_run_time, now + period)
  /\ LooksFor(m, Holds(delayed_modules, m))
  /\ UNCHANGED <<now, pc, running, stopped_modules, ready_modules, current,
                 in_start, starting, registered, taskVars>>

\* Mutant: the next run time does not take the module into account.
RegisterKeepsTime(m, period) ==
  /\ Calls /\ m \notin registered /\ Load < MaxEntries
  /\ registered' = registered \cup {m}
  /\ IF running
     THEN /\ delayed_modules' = Schedule(delayed_modules, now + period, m)
          /\ UNCHANGED stopped_modules
     ELSE /\ stopped_modules' = Append(stopped_modules, m)
          /\ UNCHANGED delayed_modules
  /\ UNCHANGED <<now, next_run_time, pc, running, ready_modules, current, in_start,
                 starting, missed, taskVars>>

RegisterModule(m, period) ==
  /\ Calls /\ m \notin registered /\ Load < MaxEntries
  /\ registered' = registered \cup {m}
  /\ IF running
     THEN /\ delayed_modules' = Schedule(delayed_modules, now + period, m)
          /\ next_run_time' = Earlier(next_run_time, now + period)
          /\ UNCHANGED stopped_modules
     ELSE /\ stopped_modules' = Append(stopped_modules, m)
          /\ UNCHANGED <<delayed_modules, next_run_time>>
  /\ UNCHANGED <<now, pc, running, ready_modules, current, in_start, starting, missed,
                 taskVars>>

DeRegisterModule(m) ==
  /\ Calls /\ m \in registered
  /\ registered' = registered \ {m}
  /\ IF running
     THEN /\ delayed_modules' = Unschedule(delayed_modules, m)
          /\ LooksFor(m, Holds(delayed_modules, m))
          /\ UNCHANGED stopped_modules
     ELSE /\ stopped_modules' = RemoveFirst(stopped_modules, m)
          /\ LooksFor(m, m \in ToSet(stopped_modules))
          /\ UNCHANGED delayed_modules
  /\ UNCHANGED <<now, next_run_time, pc, running, ready_modules, current, in_start,
                 starting, taskVars>>
------------------------------------------------------------------------------
TimePasses ==
  /\ pc = "idle" /\ ~in_start /\ now < MaxTime
  /\ now' = now + 1
  /\ UNCHANGED <<next_run_time, pc, moduleVars, taskVars>>

RunReadySteps == \/ RunReady \/ Process \/ AllProcessed \/ MoveDue \/ AllMoved
                 \/ RunTask \/ TaskReturns \/ RunReadyReturns
                 \/ \E p \in Periods : ProcessReturns(p)
StartSteps == StartReturns \/ \E p \in Periods : StartModule(p)

Next ==
  \/ RunReadySteps \/ StartSteps \/ TimePasses
  \/ PostTask \/ \E d \in Delays : PostDelayedTask(d)
  \/ Start \/ Stop
  \/ \E m \in Modules : \/ DeRegisterModule(m)
                        \/ \E p \in Periods : WakeUp(m, p) \/ RegisterModule(m, p)

Spec == Init /\ [][Next]_vars

\* Calls return, time passes, and the controller runs what is due.
FairSpec == Spec /\ SF_vars(RunReadySteps) /\ SF_vars(StartSteps) /\ WF_vars(TimePasses)
------------------------------------------------------------------------------
\* Where a module is: its places in the lists, and being processed.
In(m, name, list) == {<<name, i>> : i \in {j \in DOMAIN list : list[j] = m}}
Places(m) ==
  {<<"delayed", e[1], e[2]>> : e \in {f \in Entries : delayed_modules[f[1]][f[2]] = m}}
  \cup In(m, "ready", ready_modules) \cup In(m, "stopped", stopped_modules)
  \cup In(m, "starting", starting) \cup (IF current = m THEN {<<"current">>} ELSE {})

\* Whenever RunReady and Start are not in progress, the next run time is not later
\* than any module's or task's: otherwise the controller does not come back for it.
NextRunTimeProvided ==
  pc = "idle" /\ ~in_start =>
    /\ queue # <<>> => next_run_time <= now
    /\ \A e \in Entries : next_run_time <= e[1]
    /\ \A t \in delayed_tasks : next_run_time <= due[t]

\* A registered module is never forgotten, whatever Process, tasks and owners call
\* and in whatever state: it is scheduled, being processed or kept for Start.
RegisteredModuleIsKept == \A m \in registered : Places(m) # {}

\* ... and of what the code does nothing but a RemoveByValue that finds nothing, whose
\* result WakeUp and DeRegisterModule ignore, gives a module one place too many, so
\* that its Process runs twice as often or a pointer to it stays when it is gone.
PlacesAddUp ==
  \A m \in Modules :
    Cardinality(Places(m)) = missed[m] + (IF m \in registered THEN 1 ELSE 0)

\* No Process call of a stopped thread, and only of registered modules.
ProcessOnlyWhileStarted ==
  pc = "process" => running /\ current \in registered

\* A task runs once it is due, while the thread runs or not.
TasksRun ==
  \A t \in Task :
    (t <= posted /\ due[t] <= MaxTime) ~> (t \notin ToSet(queue) \cup delayed_tasks)
==============================================================================
