---------------------------- MODULE TaskSequences ----------------------------
(***************************************************************************)
(* What a set of task queues promises to the code that posts to them:      *)
(* every task runs at most once and never before it is due, the tasks of   *)
(* a queue run one at a time and in order, and a task that has not run is  *)
(* still there unless its queue was deleted.  SimController implements it. *)
(***************************************************************************)
EXTENDS Integers

CONSTANTS Queues, Main, NumTasks,
          Times  \* natural numbers

VARIABLES
  now,     \* the time
  posted,  \* the number of tasks posted; task ids are in posting order
  post,    \* for each posted task its queue, when it is due, delayed or not
  status   \* "new", "pending", "running", "done" or "dropped"

vars == <<now, posted, post, status>>

Task == 1..NumTasks

Init ==
  /\ now = 0
  /\ posted = 0
  /\ post = [t \in Task |-> [q |-> Main, due |-> 0, delayed |-> FALSE]]
  /\ status = [t \in Task |-> "new"]

TimePasses ==
  /\ now' \in Times /\ now' > now
  /\ UNCHANGED <<posted, post, status>>

\* A task is posted: delayed and due at some time from now on, or due at once.
Post(q, due, delayed) ==
  /\ posted < NumTasks
  /\ due >= now /\ (delayed \/ due = now)
  /\ posted' = posted + 1
  /\ post' = [post EXCEPT ![posted + 1] = [q |-> q, due |-> due, delayed |-> delayed]]
  /\ status' = [status EXCEPT ![posted + 1] = "pending"]
  /\ now' = now

\* Task u has to run before task t of the same queue: it was posted first and due
\* at once, or both are delayed and u is due first (posted first if due together).
Before(u, t) ==
  /\ post[u].q = post[t].q
  /\ \/ ~post[u].delayed /\ u < t
     \/ /\ post[u].delayed /\ post[t].delayed
        /\ \/ post[u].due < post[t].due
           \/ post[u].due = post[t].due /\ u < t

Start(t) ==
  /\ status[t] = "pending" /\ post[t].due <= now
  /\ \A u \in Task : /\ status[u] = "running" => post[u].q # post[t].q
                     /\ status[u] = "pending" => ~Before(u, t)
  /\ status' = [status EXCEPT ![t] = "running"]
  /\ UNCHANGED <<now, posted, post>>

Finish(t) ==
  /\ status[t] = "running"
  /\ status' = [status EXCEPT ![t] = "done"]
  /\ UNCHANGED <<now, posted, post>>

\* A queue is deleted, with the tasks it has; none of them is running.
Delete(q) ==
  /\ \A t \in Task : post[t].q = q => status[t] # "running"
  /\ status' = [t \in Task |-> IF status[t] = "pending" /\ post[t].q = q
                               THEN "dropped" ELSE status[t]]
  /\ UNCHANGED <<now, posted, post>>

Next ==
  \/ TimePasses
  \/ \E t \in Task : Start(t) \/ Finish(t)
  \/ \E q \in Queues : \/ Delete(q)
                       \/ \E delayed \in BOOLEAN, due \in Times : Post(q, due, delayed)

Spec == Init /\ [][Next]_vars
==============================================================================
