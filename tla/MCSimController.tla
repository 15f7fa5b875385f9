--------------------------- MODULE MCSimController ---------------------------
(* SimController on small instances. *)
EXTENDS SimController

CONSTANTS qa, qb, qc

TwoRunners == <<qa, qb>>
ThreeRunners == <<qa, qb, qc>>

\* SendTask is used from ns-3 events towards any queue, and from the queues of
\* two clients towards a worker queue, which waits for nobody.
TwoQueuePairs == {<<Main, qa>>, <<Main, qb>>, <<qa, qb>>}
WorkerPairs == ({Main} \X {qa, qb, qc}) \cup {<<qa, qb>>, <<qc, qb>>}
\* ... or down a chain of queues: still nobody waits in a circle.
ChainPairs == ({Main} \X {qa, qb, qc}) \cup {<<qa, qb>>, <<qb, qc>>}
==============================================================================
