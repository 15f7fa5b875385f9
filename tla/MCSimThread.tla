----------------------------- MODULE MCSimThread -----------------------------
(* SimThread on small instances: queues qa and qb, thread th. *)
EXTENDS SimThread

CONSTANTS qa, qb, th

Runners == <<qa, th, qb>>

\* Two queues and the event handlers use a thread that waits for nobody.
LeafSends == {<<Main, th>>, <<qa, th>>, <<qb, th>>}
LeafPairs == {<<Main, qa>>, <<Main, th>>, <<qa, th>>, <<qb, th>>}
==============================================================================
