----------------------- MODULE WebrtcTransportProofs -----------------------
(***************************************************************************)
(* Theorems about WebrtcTransport for any sets of threads and any bounds.  *)
(***************************************************************************)
EXTENDS WebrtcTransport, SequenceTheorems, Recursion, TLAPS

\* A call that has begun has a packet.
CallHasPacket == \A t \in Threads : pc[t] # "idle" => packet[t] \in 1..MaxPackets

TypeInv == TypeOK /\ CallHasPacket

LEMMA TypeStep == ASSUME TypeInv, [Next]_vars PROVE TypeInv'
<1> USE TransportConstants DEF TypeInv, TypeOK, CallHasPacket, Kinds
<1>1. ASSUME NEW t \in Threads, Send(t) PROVE TypeInv'
  BY <1>1 DEF Send, Step
<1>2. ASSUME NEW t \in Threads, EnterLock(t) PROVE TypeInv'
  BY <1>2 DEF EnterLock, Step, Enter, Kind
<1>3. ASSUME NEW t \in Threads, Push(t) PROVE TypeInv'
  <2> DEFINE p == [id |-> packet[t], kind |-> Kind(t)]
  <2>1. Kind(t) \in Kinds /\ p \in Packets
    BY <1>3 DEF Push, Step, Kind, Packets
  <2>2. Append(queue[Kind(t)], p) \in Seq(Packets)
    BY <2>1
  <2>3. queue' \in [Kinds -> Seq(Packets)]
    BY <1>3, <2>1, <2>2 DEF Push
  <2> QED
    BY <1>3, <2>3 DEF Push, Step
<1>4. ASSUME NEW t \in Threads, LeaveLock(t) PROVE TypeInv'
  BY <1>4 DEF LeaveLock, Step, Leave, Kind
<1>5. ASSUME NEW t \in Threads, TraceBw(t) PROVE TypeInv'
  <2>1. /\ pc' = [pc EXCEPT ![t] = "schedule"] /\ pc[t] = "trace"
        /\ UNCHANGED <<now, queue, lock, app, events, m_seq, packet, ns3, sendQ,
                       wire, made, missed>>
    BY <1>5 DEF TraceBw, Step
  <2>2. lastTraceTime' \in 0..MaxTime /\ traces' \in Seq(0..MaxTime)
    <3>1. CASE lastTraceTime' = now /\ traces' = Append(traces, now)
      <4>1. Append(traces, now) \in Seq(0..MaxTime)
        OBVIOUS
      <4> QED
        BY <3>1, <4>1
    <3>2. CASE UNCHANGED <<lastTraceTime, traces>>
      BY <3>2
    <3> QED
      BY <1>5, <3>1, <3>2 DEF TraceBw
  <2>3. CallHasPacket'
    BY <2>1
  <2> QED
    BY <2>1, <2>2, <2>3
<1>6. ASSUME NEW t \in Threads, Schedule(t) PROVE TypeInv'
  <2>1. /\ pc' = [pc EXCEPT ![t] = "idle"] /\ pc[t] = "schedule"
        /\ UNCHANGED <<now, queue, lock, app, m_seq, lastTraceTime, packet, ns3,
                       sendQ, wire, made, traces>>
    BY <1>6 DEF Schedule, Step
  <2>2. events' \in Nat /\ missed' \subseteq Kinds
    <3>1. CASE m_running
      <4>1. events' = events + 1 /\ missed' = missed
        BY <1>6, <3>1 DEF Schedule, m_running
      <4> QED
        BY <4>1
    <3>2. CASE ~m_running
      BY <1>6, <3>2 DEF Schedule, Kind, m_running
    <3> QED
      BY <3>1, <3>2
  <2>3. CallHasPacket'
    BY <2>1
  <2>4. TypeOK'
    BY <2>1, <2>2
  <2> QED
    BY <2>3, <2>4
<1>7. CASE DeliveryPacket
  BY <1>7 DEF DeliveryPacket, Ns3Step
<1>8. CASE SendToNetwork
  BY <1>8 DEF SendToNetwork
<1>9. CASE DeliveryReturns
  BY <1>9 DEF DeliveryReturns, Ns3Step
<1>10. ASSUME NEW k \in Kinds, EnterQueue(k) PROVE TypeInv'
  BY <1>10 DEF EnterQueue, Ns3Step, Enter, Entering, Draining
<1>11. ASSUME NEW k \in Kinds, Drain(k) PROVE TypeInv'
  BY <1>11 DEF Drain
<1>12. ASSUME NEW k \in Kinds, LeaveQueue(k) PROVE TypeInv'
  BY <1>12 DEF LeaveQueue, Ns3Step, Leave, Draining
<1>13. CASE StartApplication
  BY <1>13 DEF StartApplication
<1>14. CASE StopApplication
  BY <1>14 DEF StopApplication
<1>15. CASE TimePasses
  BY <1>15 DEF TimePasses
<1>16. CASE UNCHANGED vars
  BY <1>16 DEF vars
<1> QED
  BY <1>1, <1>2, <1>3, <1>4, <1>5, <1>6, <1>7, <1>8, <1>9, <1>10, <1>11, <1>12,
     <1>13, <1>14, <1>15, <1>16
  DEF Next, CallStep, Delivery, SimulationOver

LEMMA InitTyped == Init => TypeInv
BY TransportConstants DEF Init, TypeInv, TypeOK, CallHasPacket, Kinds, Threads

\* Every variable keeps its type, with any number of threads and packets.
THEOREM TypeCorrect == Spec => []TypeOK
<1>1. Init => TypeInv
  BY InitTyped
<1>2. TypeInv /\ [Next]_vars => TypeInv'
  BY TypeStep
<1>3. TypeInv => TypeOK
  BY DEF TypeInv
<1> QED
  BY <1>1, <1>2, <1>3, PTL DEF Spec
------------------------------------------------------------------------------
LEMMA MutexStep ==
  ASSUME TypeInv, MutualExclusion, [Next]_vars PROVE MutualExclusion'
<1> USE DEF TypeInv, TypeOK, Kinds
\* The steps that keep the lock and do not enter or leave the guarded code.
<1>1. ASSUME UNCHANGED lock, \A k \in Kinds : InDrain(k)' <=> InDrain(k),
             \A k \in Kinds, t \in Threads : InCall(t, k)' <=> InCall(t, k)
      PROVE  MutualExclusion'
  BY <1>1 DEF MutualExclusion
<1>2. ASSUME NEW t \in Threads, Send(t) \/ Push(t) \/ TraceBw(t) \/ Schedule(t)
      PROVE  MutualExclusion'
  <2>1. UNCHANGED <<lock, ns3>>
    BY <1>2 DEF Send, Push, TraceBw, Schedule
  <2>2. \A k \in Kinds, s \in Threads : InCall(s, k)' <=> InCall(s, k)
    BY <1>2 DEF Send, Push, TraceBw, Schedule, Step, InCall
  <2> QED
    BY <1>1, <2>1, <2>2 DEF InDrain
<1>3. ASSUME NEW t \in Threads, EnterLock(t) PROVE MutualExclusion'
  <2>1. /\ lock[Kind(t)] = 0 /\ lock' = [lock EXCEPT ![Kind(t)] = 1]
        /\ pc[t] = "enter" /\ pc' = [pc EXCEPT ![t] = "push"] /\ ns3' = ns3
    BY <1>3 DEF EnterLock, Enter, Step
  <2>2. SUFFICES ASSUME NEW k \in Kinds
                 PROVE  /\ \A s, u \in Threads : InCall(s, k)' /\ InCall(u, k)' => s = u
                        /\ \A s \in Threads : ~(InCall(s, k)' /\ InDrain(k)')
                        /\ lock'[k] = 1 <=> InDrain(k)' \/ \E s \in Threads : InCall(s, k)'
    BY DEF MutualExclusion
  <2>3. \A s \in Threads : InCall(s, k)' <=> InCall(s, k) \/ (s = t /\ k = Kind(t))
    BY <2>1 DEF InCall
  <2>4. InDrain(k)' <=> InDrain(k)
    BY <2>1 DEF InDrain
  <2>5. CASE k = Kind(t)
    <3>1. ~InDrain(k) /\ \A s \in Threads : ~InCall(s, k)
      BY <2>1, <2>5 DEF MutualExclusion
    <3>2. lock'[k] = 1
      BY <2>1, <2>5
    <3> QED
      BY <2>3, <2>4, <2>5, <3>1, <3>2
  <2>6. CASE k # Kind(t)
    <3>1. lock'[k] = lock[k]
      BY <2>1, <2>6
    <3> QED
      BY <2>3, <2>4, <2>6, <3>1 DEF MutualExclusion
  <2> QED
    BY <2>5, <2>6
<1>4. ASSUME NEW t \in Threads, LeaveLock(t) PROVE MutualExclusion'
  <2>1. /\ lock' = [lock EXCEPT ![Kind(t)] = 0] /\ ns3' = ns3 /\ pc[t] = "leave"
        /\ pc' = [pc EXCEPT ![t] = IF Sender /\ Kind(t) = "rtp" THEN "trace" ELSE "schedule"]
    BY <1>4 DEF LeaveLock, Leave, Step
  <2>2. SUFFICES ASSUME NEW k \in Kinds
                 PROVE  /\ \A s, u \in Threads : InCall(s, k)' /\ InCall(u, k)' => s = u
                        /\ \A s \in Threads : ~(InCall(s, k)' /\ InDrain(k)')
                        /\ lock'[k] = 1 <=> InDrain(k)' \/ \E s \in Threads : InCall(s, k)'
    BY DEF MutualExclusion
  <2>3. \A s \in Threads : InCall(s, k)' <=> InCall(s, k) /\ s # t
    BY <2>1 DEF InCall
  <2>4. InDrain(k)' <=> InDrain(k)
    BY <2>1 DEF InDrain
  <2>5. CASE k = Kind(t)
    <3>1. InCall(t, k)
      BY <2>1, <2>5 DEF InCall
    <3>2. lock'[k] = 0
      BY <2>1, <2>5
    <3> QED
      BY <2>3, <2>4, <3>1, <3>2 DEF MutualExclusion
  <2>6. CASE k # Kind(t)
    <3>1. lock'[k] = lock[k] /\ ~InCall(t, k)
      BY <2>1, <2>6 DEF InCall
    <3> QED
      BY <2>3, <2>4, <3>1 DEF MutualExclusion
  <2> QED
    BY <2>5, <2>6
<1>5. ASSUME NEW j \in Kinds, EnterQueue(j) PROVE MutualExclusion'
  <2>1. /\ lock[j] = 0 /\ lock' = [lock EXCEPT ![j] = 1] /\ pc' = pc
        /\ ns3 = Entering(j) /\ ns3' = Draining(j)
    BY <1>5 DEF EnterQueue, Enter, Ns3Step
  <2>2. \A k \in Kinds, s \in Threads : InCall(s, k)' <=> InCall(s, k)
    BY <2>1 DEF InCall
  <2>3. \A k \in Kinds : ~InDrain(k) /\ (InDrain(k)' <=> k = j)
    BY <2>1 DEF InDrain, Entering, Draining
  <2>4. \A k \in Kinds : lock'[k] = IF k = j THEN 1 ELSE lock[k]
    BY <2>1
  <2> QED
    BY <2>1, <2>2, <2>3, <2>4 DEF MutualExclusion
<1>6. ASSUME NEW j \in Kinds, LeaveQueue(j) PROVE MutualExclusion'
  <2>1. /\ lock' = [lock EXCEPT ![j] = 0] /\ pc' = pc
        /\ ns3 = Draining(j) /\ ns3' = IF j = "rtp" THEN "enter_rtcp" ELSE "send"
    BY <1>6 DEF LeaveQueue, Leave, Ns3Step
  <2>2. \A k \in Kinds, s \in Threads : InCall(s, k)' <=> InCall(s, k)
    BY <2>1 DEF InCall
  <2>3. \A k \in Kinds : ~InDrain(k)' /\ (InDrain(k) <=> k = j)
    BY <2>1 DEF InDrain, Draining
  <2>4. \A k \in Kinds : lock'[k] = IF k = j THEN 0 ELSE lock[k]
    BY <2>1
  <2> QED
    BY <2>1, <2>2, <2>3, <2>4 DEF MutualExclusion
<1>7. ASSUME \/ DeliveryPacket \/ SendToNetwork \/ DeliveryReturns \/ StartApplication
             \/ StopApplication \/ TimePasses \/ UNCHANGED vars
             \/ \E k \in Kinds : Drain(k)
      PROVE  MutualExclusion'
  <2>1. UNCHANGED <<lock, pc>>
    BY <1>7 DEF DeliveryPacket, SendToNetwork, DeliveryReturns, StartApplication,
                StopApplication, TimePasses, Drain, vars
  <2>2. \A k \in Kinds : InDrain(k)' <=> InDrain(k)
    BY <1>7 DEF DeliveryPacket, SendToNetwork, DeliveryReturns, StartApplication,
                StopApplication, TimePasses, Drain, vars, Ns3Step, InDrain, Draining
  <2> QED
    BY <1>1, <2>1, <2>2 DEF InCall
<1> QED
  BY <1>2, <1>3, <1>4, <1>5, <1>6, <1>7
  DEF Next, CallStep, Delivery, SimulationOver

\* Calls and drains exclude each other on each queue, with any number of threads:
\* the guarantee of AtomicLock and LockScope (MutualExclusion is inductive once the
\* types are known).
THEOREM MutexCorrect == Spec => []MutualExclusion
<1>1. Init => TypeInv /\ MutualExclusion
  BY InitTyped DEF Init, MutualExclusion, InCall, InDrain, Draining, Kinds
<1>2. TypeInv /\ MutualExclusion /\ [Next]_vars => (TypeInv /\ MutualExclusion)'
  BY TypeStep, MutexStep
<1> QED
  BY <1>1, <1>2, PTL DEF Spec
------------------------------------------------------------------------------
\* What keeps the packets of kind k covered, apart from a call of thread t.
Awaited(k) ==
  \/ events > 0
  \/ ns3 \in {"enter_rtp", "drain_rtp"}
  \/ k = "rtcp" /\ ns3 \in {"enter_rtcp", "drain_rtcp"}
  \/ k \in missed
Pushed(t, k) == Kind(t) = k /\ pc[t] \in {"leave", "trace", "schedule"}

LEMMA CoveredForm ==
  PacketsCovered <=>
    \A k \in Kinds : queue[k] # <<>> => Awaited(k) \/ \E t \in Threads : Pushed(t, k)
BY DEF PacketsCovered, Awaited, Pushed

LEMMA CoveredStep ==
  ASSUME TypeInv, PacketsCovered, [Next]_vars PROVE PacketsCovered'
<1> USE DEF TypeInv, TypeOK, Kinds
<1>0. SUFFICES ASSUME NEW k \in Kinds, queue'[k] # <<>>
               PROVE  Awaited(k)' \/ \E t \in Threads : Pushed(t, k)'
  BY DEF PacketsCovered, Awaited, Pushed
\* A queue that has been filled before was covered, and stays so unless the
\* step itself ends what covered it.
<1>1. ASSUME queue[k] # <<>>, Awaited(k) => Awaited(k)',
             \A t \in Threads : Pushed(t, k) => Pushed(t, k)' \/ Awaited(k)'
      PROVE  Awaited(k)' \/ \E t \in Threads : Pushed(t, k)'
  BY <1>1, CoveredForm
<1>2. ASSUME NEW t \in Threads, Send(t) \/ EnterLock(t) \/ LeaveLock(t) \/ TraceBw(t)
      PROVE  Awaited(k)' \/ \E s \in Threads : Pushed(s, k)'
  <2>1. UNCHANGED <<queue, events, ns3, missed>>
    BY <1>2 DEF Send, EnterLock, LeaveLock, TraceBw
  <2>2. \A s \in Threads : Pushed(s, k) => Pushed(s, k)'
    BY <1>2 DEF Send, EnterLock, LeaveLock, TraceBw, Step, Pushed
  <2> QED
    BY <1>0, <1>1, <2>1, <2>2 DEF Awaited
<1>3. ASSUME NEW t \in Threads, Push(t)
      PROVE  Awaited(k)' \/ \E s \in Threads : Pushed(s, k)'
  <2>1. \A s \in Threads : Pushed(s, k) => Pushed(s, k)'
    BY <1>3 DEF Push, Step, Pushed
  <2>2. CASE Kind(t) = k
    BY <1>3, <2>2 DEF Push, Step, Pushed
  <2>3. CASE Kind(t) # k
    <3>1. queue'[k] = queue[k]
      BY <1>3, <2>3 DEF Push
    <3> QED
      BY <1>0, <1>1, <1>3, <2>1, <3>1 DEF Push, Awaited
  <2> QED
    BY <2>2, <2>3
<1>4. ASSUME NEW t \in Threads, Schedule(t)
      PROVE  Awaited(k)' \/ \E s \in Threads : Pushed(s, k)'
  <2>1. pc' = [pc EXCEPT ![t] = "idle"] /\ UNCHANGED <<queue, ns3>>
    BY <1>4 DEF Schedule, Step
  <2>2. \/ events' = events + 1 /\ missed' = missed
        \/ events' = events /\ missed' = missed \cup {Kind(t)}
    BY <1>4 DEF Schedule, m_running
  <2>3. Awaited(k) => Awaited(k)'
    BY <2>1, <2>2 DEF Awaited
  <2>4. Kind(t) = k => Awaited(k)'
    BY <2>2 DEF Awaited
  <2>5. \A s \in Threads : Pushed(s, k) => Pushed(s, k)' \/ Awaited(k)'
    BY <2>1, <2>4 DEF Pushed
  <2> QED
    BY <1>0, <1>1, <2>1, <2>3, <2>5
<1>5. CASE DeliveryPacket
  BY <1>0, <1>1, <1>5 DEF DeliveryPacket, Ns3Step, Awaited, Pushed
<1>6. ASSUME NEW j \in Kinds, EnterQueue(j)
      PROVE  Awaited(k)' \/ \E s \in Threads : Pushed(s, k)'
  BY <1>0, <1>1, <1>6 DEF EnterQueue, Ns3Step, Entering, Draining, Awaited, Pushed
<1>7. ASSUME NEW j \in Kinds, Drain(j)
      PROVE  Awaited(k)' \/ \E s \in Threads : Pushed(s, k)'
  <2>1. queue[k] # <<>>
    BY <1>0, <1>7 DEF Drain
  <2> QED
    BY <1>1, <1>7, <2>1 DEF Drain, Awaited, Pushed
<1>8. ASSUME NEW j \in Kinds, LeaveQueue(j)
      PROVE  Awaited(k)' \/ \E s \in Threads : Pushed(s, k)'
  <2>1. j # k /\ queue[k] # <<>>
    BY <1>0, <1>8 DEF LeaveQueue
  <2>2. Awaited(k) => Awaited(k)'
    BY <1>8, <2>1 DEF LeaveQueue, Ns3Step, Draining, Awaited
  <2> QED
    BY <1>1, <1>8, <2>1, <2>2 DEF LeaveQueue, Pushed
<1>9. CASE \/ SendToNetwork \/ DeliveryReturns \/ StartApplication
           \/ StopApplication \/ TimePasses \/ UNCHANGED vars
  <2>1. UNCHANGED <<queue, events, pc, missed>>
    BY <1>9 DEF SendToNetwork, DeliveryReturns, StartApplication, StopApplication,
                TimePasses, vars
  <2>2. Awaited(k) => Awaited(k)'
    BY <1>9 DEF SendToNetwork, DeliveryReturns, StartApplication, StopApplication,
                TimePasses, vars, Ns3Step, Awaited
  <2> QED
    BY <1>0, <1>1, <2>1, <2>2 DEF Pushed
<1> QED
  BY <1>2, <1>3, <1>4, <1>5, <1>6, <1>7, <1>8, <1>9
  DEF Next, CallStep, Delivery, SimulationOver

\* No packet is left behind in m_rtpQ or m_rtcpQ without a DeliveryPacket that is
\* scheduled or under way, unless a call found the application not running.
THEOREM CoveredCorrect == Spec => []PacketsCovered
<1>1. Init => TypeInv /\ PacketsCovered
  BY InitTyped DEF Init, PacketsCovered, Kinds
<1>2. TypeInv /\ PacketsCovered /\ [Next]_vars => (TypeInv /\ PacketsCovered)'
  BY TypeStep, CoveredStep
<1> QED
  BY <1>1, <1>2, PTL DEF Spec
------------------------------------------------------------------------------
(* The packets of one kind in a sequence *)

Selection(f, s, k, n) ==
  f = [i \in 0..n |-> IF i = 0 THEN <<>>
                      ELSE IF s[i].kind = k THEN Append(f[i - 1], s[i])
                      ELSE f[i - 1]]

LEMMA SelectionUnfolds ==
  ASSUME NEW f, NEW s, NEW k, NEW n \in Nat, Selection(f, s, k, n)
  PROVE  /\ f[0] = <<>>
         /\ \A i \in 1..n : f[i] = IF s[i].kind = k THEN Append(f[i - 1], s[i]) ELSE f[i - 1]
<1>1. 0 \in 0..n /\ \A i \in 1..n : i \in 0..n /\ i # 0
  OBVIOUS
<1> QED
  BY <1>1 DEF Selection

LEMMA SelectionExists ==
  ASSUME NEW s, NEW k
  PROVE  \A n \in Nat : \E f : Selection(f, s, k, n)
<1> DEFINE Bad == {n \in Nat : ~\E f : Selection(f, s, k, n)}
<1>1. SUFFICES ASSUME Bad # {} PROVE FALSE
  OBVIOUS
<1>2. PICK n \in Bad : \A m \in Bad : n <= m
  BY <1>1, FirstNumber
<1>3. n \in Nat /\ ~\E f : Selection(f, s, k, n)
  OBVIOUS
<1>4. CASE n = 0
  <2> DEFINE f == [i \in 0..0 |-> <<>>]
  <2>1. f = [i \in 0..0 |-> IF i = 0 THEN <<>>
                            ELSE IF s[i].kind = k THEN Append(f[i - 1], s[i]) ELSE f[i - 1]]
    OBVIOUS
  <2> HIDE DEF f
  <2> QED
    BY <1>3, <1>4, <2>1 DEF Selection
<1>5. CASE n # 0
  <2>1. n - 1 \in Nat /\ ~(n <= n - 1)
    BY <1>3, <1>5
  <2>2. PICK f : Selection(f, s, k, n - 1)
    BY <1>2, <2>1
  <2>3. /\ f[0] = <<>>
        /\ \A i \in 1..(n - 1) : f[i] = IF s[i].kind = k THEN Append(f[i - 1], s[i]) ELSE f[i - 1]
    BY <2>1, <2>2, SelectionUnfolds
  <2> DEFINE x == IF s[n].kind = k THEN Append(f[n - 1], s[n]) ELSE f[n - 1]
             g == [i \in 0..n |-> IF i = n THEN x ELSE f[i]]
             h == [i \in 0..n |-> IF i = 0 THEN <<>>
                                  ELSE IF s[i].kind = k THEN Append(g[i - 1], s[i]) ELSE g[i - 1]]
  <2>4. \A i \in 0..(n - 1) : i \in 0..n /\ i # n
    BY <1>3
  <2>5. \A i \in 0..(n - 1) : g[i] = f[i]
    BY <2>4
  <2>6. g[n] = x
    BY <1>3
  <2>7. ASSUME NEW i \in 0..n PROVE g[i] = h[i]
    <3>1. CASE i = 0
      <4>1. 0 \in 0..(n - 1)
        BY <2>1
      <4> QED
        BY <2>3, <2>5, <3>1, <4>1
    <3>2. CASE i \in 1..(n - 1)
      <4>1. i \in 0..(n - 1) /\ i - 1 \in 0..(n - 1) /\ i # 0
        BY <1>3, <3>2
      <4>2. h[i] = IF s[i].kind = k THEN Append(f[i - 1], s[i]) ELSE f[i - 1]
        BY <2>5, <4>1
      <4> QED
        BY <2>3, <2>5, <3>2, <4>1, <4>2
    <3>3. CASE i = n
      <4>1. n - 1 \in 0..(n - 1) /\ n # 0
        BY <1>3, <1>5
      <4> QED
        BY <2>5, <2>6, <3>3, <4>1
    <3> QED
      BY <1>3, <1>5, <3>1, <3>2, <3>3
  <2>8. g = h
    <3> HIDE DEF x
    <3> QED
      BY <2>7
  <2> HIDE DEF x, g
  <2> QED
    BY <1>3, <2>8 DEF Selection
<1> QED
  BY <1>4, <1>5

LEMMA OfKindIs ==
  ASSUME NEW s, Len(s) \in Nat, NEW k
  PROVE  \E f : Selection(f, s, k, Len(s)) /\ OfKind(s, k) = f[Len(s)]
<1> DEFINE f == CHOOSE f : Selection(f, s, k, Len(s))
<1>1. Selection(f, s, k, Len(s))
  BY SelectionExists
<1>2. OfKind(s, k) = f[Len(s)]
  BY DEF OfKind, Selection
<1> QED
  BY <1>1, <1>2

\* Two selections agree as long as the sequences do.
LEMMA SelectionsAgree ==
  ASSUME NEW s, NEW t, NEW k, NEW m \in Nat, NEW n \in Nat, NEW j \in Nat, j <= m, j <= n,
         NEW f, NEW g, Selection(f, s, k, m), Selection(g, t, k, n),
         \A i \in 1..j : s[i] = t[i]
  PROVE  f[j] = g[j]
<1> DEFINE Bad == {i \in Nat : i <= j /\ f[i] # g[i]}
<1>1. SUFFICES ASSUME Bad # {} PROVE FALSE
  OBVIOUS
<1>2. PICK i \in Bad : \A l \in Bad : i <= l
  BY <1>1, FirstNumber
<1>3. i \in Nat /\ i <= j /\ f[i] # g[i]
  OBVIOUS
<1>4. i # 0
  BY <1>3, SelectionUnfolds
<1>5. i \in 1..m /\ i \in 1..n /\ i \in 1..j /\ i - 1 \in Nat /\ ~(i <= i - 1) /\ i - 1 <= j
  BY <1>3, <1>4
<1>6. f[i - 1] = g[i - 1]
  BY <1>2, <1>5
<1>7. /\ f[i] = IF s[i].kind = k THEN Append(f[i - 1], s[i]) ELSE f[i - 1]
      /\ g[i] = IF t[i].kind = k THEN Append(g[i - 1], t[i]) ELSE g[i - 1]
      /\ s[i] = t[i]
  BY <1>5, SelectionUnfolds
<1> QED
  BY <1>3, <1>6, <1>7

LEMMA SelectionTyped ==
  ASSUME NEW S, NEW s \in Seq(S), NEW k, NEW f, Selection(f, s, k, Len(s)),
         NEW j \in 0..Len(s)
  PROVE  f[j] \in Seq(S)
<1> DEFINE Bad == {i \in Nat : i <= Len(s) /\ f[i] \notin Seq(S)}
<1>1. SUFFICES ASSUME Bad # {} PROVE FALSE
  OBVIOUS
<1>2. PICK i \in Bad : \A l \in Bad : i <= l
  BY <1>1, FirstNumber
<1>3. i \in Nat /\ i <= Len(s) /\ f[i] \notin Seq(S) /\ Len(s) \in Nat
  OBVIOUS
<1>4. i # 0
  <2>1. f[0] = <<>>
    BY <1>3, SelectionUnfolds
  <2>2. <<>> \in Seq(S)
    OBVIOUS
  <2> QED
    BY <1>3, <2>1, <2>2
<1>5. i \in 1..Len(s) /\ i - 1 \in Nat /\ ~(i <= i - 1) /\ i - 1 <= Len(s)
  BY <1>3, <1>4
<1>6. f[i - 1] \in Seq(S) /\ s[i] \in S
  BY <1>2, <1>5
<1>7. f[i] = IF s[i].kind = k THEN Append(f[i - 1], s[i]) ELSE f[i - 1]
  BY <1>3, <1>5, SelectionUnfolds
<1> QED
  BY <1>3, <1>6, <1>7

LEMMA OfKindTyped == ASSUME NEW S, NEW s \in Seq(S), NEW k PROVE OfKind(s, k) \in Seq(S)
<1>1. Len(s) \in Nat /\ Len(s) \in 0..Len(s)
  OBVIOUS
<1> QED
  BY <1>1, OfKindIs, SelectionTyped

LEMMA OfKindEmpty == ASSUME NEW k PROVE OfKind(<<>>, k) = <<>>
<1>1. Len(<<>>) = 0
  OBVIOUS
<1>2. PICK f : Selection(f, <<>>, k, 0) /\ OfKind(<<>>, k) = f[0]
  BY <1>1, OfKindIs
<1> QED
  BY <1>2, SelectionUnfolds

\* A packet that is appended comes last, if it is of the kind.
LEMMA OfKindAppend ==
  ASSUME NEW S, NEW s \in Seq(S), NEW p \in S, NEW k
  PROVE  OfKind(Append(s, p), k) = IF p.kind = k THEN Append(OfKind(s, k), p) ELSE OfKind(s, k)
<1>1. PICK n \in Nat : n = Len(s)
  OBVIOUS
<1>2. PICK r : r = Append(s, p)
  OBVIOUS
<1>3. Len(r) = n + 1 /\ r[n + 1] = p /\ \A i \in 1..n : r[i] = s[i]
  BY <1>1, <1>2
<1>4. PICK f : Selection(f, s, k, n) /\ OfKind(s, k) = f[n]
  BY <1>1, OfKindIs
<1>5. PICK g : Selection(g, r, k, n + 1) /\ OfKind(r, k) = g[n + 1]
  BY <1>3, OfKindIs
<1>6. f[n] = g[n]
  <2>1. PICK m \in Nat : m = n + 1
    OBVIOUS
  <2>2. n <= n /\ n <= m /\ \A i \in 1..n : s[i] = r[i]
    BY <1>3, <2>1
  <2>3. Selection(f, s, k, n) /\ Selection(g, r, k, m)
    BY <1>4, <1>5, <2>1
  <2> QED
    BY <2>2, <2>3, SelectionsAgree
<1>7. n + 1 \in 1..(n + 1) /\ (n + 1) - 1 = n
  OBVIOUS
<1>8. g[n + 1] = IF r[n + 1].kind = k THEN Append(g[n], r[n + 1]) ELSE g[n]
  BY <1>5, <1>7, SelectionUnfolds
<1> QED
  BY <1>2, <1>3, <1>4, <1>5, <1>6, <1>8

LEMMA ConcatThenAppend ==
  ASSUME NEW S, NEW s \in Seq(S), NEW t \in Seq(S), NEW p \in S
  PROVE  s \o Append(t, p) = Append(s \o t, p)
<1>1. Append(t, p) = t \o <<p>> /\ <<p>> \in Seq(S) /\ s \o t \in Seq(S)
  BY AppendIsConcat
<1>2. Append(s \o t, p) = (s \o t) \o <<p>>
  BY <1>1, AppendIsConcat
<1>3. (s \o t) \o <<p>> = s \o (t \o <<p>>)
  BY <1>1, ConcatAssociative
<1> QED
  BY <1>1, <1>2, <1>3

LEMMA FirstThenRest ==
  ASSUME NEW S, NEW p \in S, NEW s \in Seq(S)
  PROVE  /\ <<p>> \o s # <<>>
         /\ Head(<<p>> \o s) = p
         /\ Tail(<<p>> \o s) = s
<1>1. <<p>> \in Seq(S) /\ Len(<<p>>) = 1 /\ <<p>>[1] = p
  OBVIOUS
<1>2. PICK r \in Seq(S) : r = <<p>> \o s
  BY <1>1, ConcatProperties
<1>3. Len(r) = Len(s) + 1 /\ r[1] = p /\ \A i \in 1..Len(s) : r[i + 1] = s[i]
  BY <1>1, <1>2
<1>4. r # <<>> /\ Head(r) = p
  BY <1>3
<1>5. Tail(r) \in Seq(S) /\ Len(Tail(r)) = Len(s) /\ \A i \in 1..Len(s) : Tail(r)[i] = s[i]
  BY <1>3, <1>4
<1>6. Tail(r) = s
  BY <1>5, SeqEqual
<1> QED
  BY <1>2, <1>4, <1>6

\* Moving the first of what follows to the end of what precedes it.
LEMMA MoveFirst ==
  ASSUME NEW S, NEW s \in Seq(S), NEW q \in Seq(S), q # <<>>
  PROVE  Append(s, Head(q)) \o Tail(q) = s \o q
<1>1. Head(q) \in S /\ Tail(q) \in Seq(S)
  BY HeadTailProperties
<1>2. Append(s, Head(q)) = s \o <<Head(q)>> /\ <<Head(q)>> \in Seq(S)
  BY <1>1, AppendIsConcat
<1>3. (s \o <<Head(q)>>) \o Tail(q) = s \o (<<Head(q)>> \o Tail(q))
  BY <1>1, <1>2, ConcatAssociative
<1>4. <<Head(q)>> \o Tail(q) = q
  OBVIOUS
<1> QED
  BY <1>2, <1>3, <1>4

\* The first packet comes first, if it is of the kind.
LEMMA OfKindTail ==
  ASSUME NEW S, NEW s \in Seq(S), s # <<>>, NEW k
  PROVE  OfKind(s, k) = (IF Head(s).kind = k THEN <<Head(s)>> ELSE <<>>) \o OfKind(Tail(s), k)
<1>1. PICK n \in Nat : n + 1 = Len(s)
  <2>1. Len(s) - 1 \in Nat /\ (Len(s) - 1) + 1 = Len(s)
    OBVIOUS
  <2> QED
    BY <2>1
<1>2. PICK r \in Seq(S) : r = Tail(s)
  <2>1. Tail(s) \in Seq(S)
    BY HeadTailProperties
  <2> QED
    BY <2>1
<1>3. PICK h \in Seq(S) : h = IF Head(s).kind = k THEN <<Head(s)>> ELSE <<>>
  <2>1. Head(s) \in S
    BY HeadTailProperties
  <2>2. <<Head(s)>> \in Seq(S) /\ <<>> \in Seq(S)
    BY <2>1
  <2> QED
    BY <2>2
<1>4. Len(r) = n /\ Head(s) = s[1] /\ \A i \in 1..n : r[i] = s[i + 1]
  BY <1>1, <1>2
<1>5. PICK f : Selection(f, s, k, n + 1) /\ OfKind(s, k) = f[n + 1]
  BY <1>1, OfKindIs
<1>6. PICK g : Selection(g, r, k, n) /\ OfKind(r, k) = g[n]
  BY <1>4, OfKindIs
<1> DEFINE Bad == {i \in Nat : i <= n /\ f[i + 1] # h \o g[i]}
<1>7. ASSUME Bad # {} PROVE FALSE
  <2>1. PICK i \in Bad : \A l \in Bad : i <= l
    BY <1>7, FirstNumber
  <2>2. i \in Nat /\ i <= n /\ f[i + 1] # h \o g[i]
    OBVIOUS
  <2>3. i + 1 \in 1..(n + 1) /\ (i + 1) - 1 = i
    BY <2>2
  <2>4. f[i + 1] = IF s[i + 1].kind = k THEN Append(f[i], s[i + 1]) ELSE f[i]
    BY <1>5, <2>3, SelectionUnfolds
  <2>5. f[0] = <<>> /\ g[0] = <<>>
    BY <1>5, <1>6, SelectionUnfolds
  <2>6. i # 0
    <3>1. SUFFICES ASSUME i = 0 PROVE FALSE
      OBVIOUS
    <3>2. f[0 + 1] = IF s[0 + 1].kind = k THEN Append(<<>>, s[0 + 1]) ELSE <<>>
      BY <2>4, <2>5, <3>1
    <3>3. Append(<<>>, s[1]) = <<s[1]>> /\ 0 + 1 = 1
      OBVIOUS
    <3>4. f[0 + 1] = h
      BY <1>3, <1>4, <3>2, <3>3
    <3>5. h \o <<>> = h
      BY ConcatEmptySeq
    <3> QED
      BY <2>2, <2>5, <3>1, <3>4, <3>5
  <2>7. i \in 1..n /\ i - 1 \in Nat /\ i - 1 <= n /\ ~(i <= i - 1) /\ (i - 1) + 1 = i /\ i - 1 \in 0..n
    BY <2>2, <2>6
  <2>8. f[i] = h \o g[i - 1]
    BY <2>1, <2>7
  <2>9. g[i] = IF r[i].kind = k THEN Append(g[i - 1], r[i]) ELSE g[i - 1]
    BY <1>6, <2>7, SelectionUnfolds
  <2>10. r[i] = s[i + 1] /\ r[i] \in S
    BY <1>4, <2>7
  <2>11. g[i - 1] \in Seq(S)
    BY <1>4, <1>6, <2>7, SelectionTyped
  <2>12. h \o Append(g[i - 1], r[i]) = Append(h \o g[i - 1], r[i])
    <3>1. PICK a \in Seq(S), p \in S : a = g[i - 1] /\ p = r[i]
      BY <2>10, <2>11
    <3>2. h \o Append(a, p) = Append(h \o a, p)
      BY ConcatThenAppend
    <3> QED
      BY <3>1, <3>2
  <2> QED
    BY <2>2, <2>4, <2>8, <2>9, <2>10, <2>12
<1>8. f[n + 1] = h \o g[n]
  <2>1. n \notin Bad
    BY <1>7
  <2>2. n \in Nat /\ n <= n
    OBVIOUS
  <2> QED
    BY <2>1, <2>2
<1> QED
  BY <1>2, <1>3, <1>5, <1>6, <1>8
------------------------------------------------------------------------------
(* The application is a FIFO channel for each kind of packet *)

\* A queue has packets of its kind only.
KindInv == \A k \in Kinds : \A i \in DOMAIN queue[k] : queue[k][i].kind = k

LEMMA QueueSteps ==
  ASSUME [Next]_vars
  PROVE  \/ \E t \in Threads : Push(t)
         \/ \E k \in Kinds : Drain(k)
         \/ SendToNetwork
         \/ UNCHANGED <<queue, sendQ, wire>>
<1>1. CASE \E t \in Threads : Send(t) \/ EnterLock(t) \/ LeaveLock(t) \/ TraceBw(t) \/ Schedule(t)
  BY <1>1 DEF Send, EnterLock, LeaveLock, TraceBw, Schedule
<1>2. CASE \/ DeliveryPacket \/ DeliveryReturns \/ \E k \in Kinds : EnterQueue(k) \/ LeaveQueue(k)
  BY <1>2 DEF DeliveryPacket, DeliveryReturns, EnterQueue, LeaveQueue
<1>3. CASE StartApplication \/ StopApplication \/ TimePasses \/ SimulationOver \/ UNCHANGED vars
  BY <1>3 DEF StartApplication, StopApplication, TimePasses, SimulationOver, vars
<1> QED
  BY <1>1, <1>2, <1>3 DEF Next, CallStep, Delivery

LEMMA KindStep == ASSUME TypeInv, KindInv, [Next]_vars PROVE KindInv'
<1> USE DEF KindInv
<1>1. ASSUME NEW t \in Threads, Push(t) PROVE KindInv'
  <2>1. Kind(t) \in Kinds /\ queue \in [Kinds -> Seq(Packets)]
    BY DEF Kind, Kinds, TypeInv, TypeOK
  <2>2. PICK p : p = [id |-> packet[t], kind |-> Kind(t)] /\ p \in Packets
    BY <1>1, <2>1 DEF Push, Step, Packets, TypeInv, CallHasPacket
  <2>3. queue' = [queue EXCEPT ![Kind(t)] = Append(@, p)] /\ p.kind = Kind(t)
    BY <1>1, <2>2 DEF Push
  <2>4. ASSUME NEW i \in DOMAIN Append(queue[Kind(t)], p)
        PROVE  Append(queue[Kind(t)], p)[i].kind = Kind(t)
    BY <2>1, <2>2, <2>3
  <2> QED
    BY <2>1, <2>3, <2>4
<1>2. ASSUME NEW l \in Kinds, Drain(l) PROVE KindInv'
  <2>1. /\ queue \in [Kinds -> Seq(Packets)] /\ queue[l] # <<>>
        /\ queue' = [queue EXCEPT ![l] = Tail(@)]
    BY <1>2 DEF Drain, TypeInv, TypeOK
  <2>2. ASSUME NEW i \in DOMAIN Tail(queue[l]) PROVE Tail(queue[l])[i].kind = l
    BY <2>1
  <2> QED
    BY <2>1, <2>2
<1>3. CASE UNCHANGED <<queue, sendQ, wire>>
  BY <1>3
<1>4. CASE SendToNetwork
  BY <1>4 DEF SendToNetwork
<1> HIDE DEF KindInv
<1> QED
  BY <1>1, <1>2, <1>3, <1>4, QueueSteps

\* What a step does to the channels: a call's push accepts a packet, a packet put
\* on the wire was the first of its channel, and DeliveryPacket's drain of the
\* queues, which moves packets between the two parts of a channel, is invisible.
LEMMA ChannelStep == ASSUME TypeInv, KindInv, [Next]_vars PROVE [Channel!Next]_(Channel!vars)
<1> DEFINE ch(k) == OfKind(sendQ, k) \o queue[k]
<1>1. /\ queue \in [Kinds -> Seq(Packets)] /\ sendQ \in Seq(Packets)
      /\ wire \in Seq([seq : Nat, packet : Packets])
  BY DEF TypeInv, TypeOK
<1>2. \A k \in Kinds : OfKind(sendQ, k) \in Seq(Packets)
  BY <1>1, OfKindTyped
<1>3. ASSUME NEW t \in Threads, Push(t) PROVE Channel!Next
  <2>1. Kind(t) \in Kinds
    BY DEF Kind, Kinds
  <2>2. PICK p : p = [id |-> packet[t], kind |-> Kind(t)] /\ p \in Packets
    BY <1>3, <2>1 DEF Push, Step, Packets, TypeInv, CallHasPacket
  <2>3. queue' = [queue EXCEPT ![Kind(t)] = Append(@, p)] /\ UNCHANGED <<sendQ, wire>>
    BY <1>3, <2>2 DEF Push
  <2>4. \A k \in Kinds : OfKind(sendQ', k) = OfKind(sendQ, k)
    BY <2>3
  <2>5. ASSUME NEW k \in Kinds
        PROVE  OfKind(sendQ', k) \o queue'[k] = IF k = Kind(t) THEN Append(ch(k), p) ELSE ch(k)
    <3>1. CASE k = Kind(t)
      <4>1. queue'[k] = Append(queue[k], p)
        BY <1>1, <2>3, <3>1
      <4>2. OfKind(sendQ, k) \o Append(queue[k], p) = Append(OfKind(sendQ, k) \o queue[k], p)
        BY <1>1, <1>2, <2>2, ConcatThenAppend
      <4> QED
        BY <2>4, <3>1, <4>1, <4>2
    <3>2. CASE k # Kind(t)
      <4>1. queue'[k] = queue[k]
        BY <1>1, <2>3, <3>2
      <4> QED
        BY <2>4, <3>2, <4>1
    <3> QED
      BY <3>1, <3>2
  <2> DEFINE c == [k \in Kinds |-> ch(k)]
  <2>6. [k \in Kinds |-> OfKind(sendQ', k) \o queue'[k]]
        = [c EXCEPT ![Kind(t)] = Append(@, p)]
    <3> HIDE DEF ch
    <3> QED
      BY <2>1, <2>5
  <2>7. [i \in DOMAIN wire' |-> wire'[i].packet] = [i \in DOMAIN wire |-> wire[i].packet]
    BY <2>3
  <2> QED
    BY <2>1, <2>2, <2>6, <2>7 DEF Channel!Next, Channel!Accept
<1>4. ASSUME NEW l \in Kinds, Drain(l) PROVE UNCHANGED Channel!vars
  <2>1. /\ queue[l] # <<>> /\ queue[l] \in Seq(Packets)
        /\ sendQ' = Append(sendQ, Head(queue[l]))
        /\ queue' = [queue EXCEPT ![l] = Tail(@)] /\ wire' = wire
    BY <1>1, <1>4 DEF Drain
  <2>2. PICK p \in Packets : p = Head(queue[l])
    BY <2>1, HeadTailProperties
  <2>3. p.kind = l
    <3>1. 1 \in DOMAIN queue[l] /\ Head(queue[l]) = queue[l][1]
      BY <2>1
    <3> QED
      BY <2>2, <3>1 DEF KindInv
  <2>4. ASSUME NEW k \in Kinds PROVE OfKind(sendQ', k) \o queue'[k] = ch(k)
    <3>1. OfKind(sendQ', k) = IF p.kind = k THEN Append(OfKind(sendQ, k), p) ELSE OfKind(sendQ, k)
      <4>1. OfKind(Append(sendQ, p), k)
            = IF p.kind = k THEN Append(OfKind(sendQ, k), p) ELSE OfKind(sendQ, k)
        BY <1>1, OfKindAppend
      <4> QED
        BY <2>1, <2>2, <4>1
    <3>2. CASE k = l
      <4>1. queue'[k] = Tail(queue[k]) /\ OfKind(sendQ', k) = Append(OfKind(sendQ, k), p)
        BY <1>1, <2>1, <2>3, <3>1, <3>2
      <4>2. Append(OfKind(sendQ, k), p) \o Tail(queue[k]) = OfKind(sendQ, k) \o queue[k]
        BY <1>2, <2>1, <2>2, <3>2, MoveFirst
      <4> QED
        BY <4>1, <4>2
    <3>3. CASE k # l
      <4>1. queue'[k] = queue[k]
        BY <1>1, <2>1, <3>3
      <4> QED
        BY <2>3, <3>1, <3>3, <4>1
    <3> QED
      BY <3>2, <3>3
  <2> HIDE DEF ch
  <2>5. [k \in Kinds |-> OfKind(sendQ', k) \o queue'[k]] = [k \in Kinds |-> ch(k)]
    BY <2>4
  <2> USE DEF ch
  <2>6. [i \in DOMAIN wire' |-> wire'[i].packet] = [i \in DOMAIN wire |-> wire[i].packet]
    BY <2>1
  <2> QED
    BY <2>5, <2>6 DEF Channel!vars
<1>5. CASE SendToNetwork
  <2>1. PICK p \in Packets : p = Head(sendQ)
    BY <1>1, <1>5, HeadTailProperties DEF SendToNetwork
  <2>2. PICK n : /\ wire' = Append(wire, [seq |-> n, packet |-> p])
                 /\ sendQ # <<>> /\ sendQ' = Tail(sendQ) /\ queue' = queue
    BY <1>5, <2>1 DEF SendToNetwork
  <2>3. p.kind \in Kinds
    BY DEF Packets
  <2>4. \A k \in Kinds : OfKind(sendQ', k) \in Seq(Packets)
    <3>1. sendQ' \in Seq(Packets)
      BY <1>1, <2>2, HeadTailProperties
    <3> QED
      BY <3>1, OfKindTyped
  <2>5. ASSUME NEW k \in Kinds
        PROVE  ch(k) = IF k = p.kind THEN <<p>> \o (OfKind(sendQ', k) \o queue'[k])
                       ELSE OfKind(sendQ', k) \o queue'[k]
    <3>1. OfKind(sendQ, k) = (IF p.kind = k THEN <<p>> ELSE <<>>) \o OfKind(sendQ', k)
      BY <1>1, <2>1, <2>2, OfKindTail
    <3>2. CASE k = p.kind
      <4>1. PICK h \in Seq(Packets), a \in Seq(Packets), q \in Seq(Packets) :
                   h = <<p>> /\ a = OfKind(sendQ', k) /\ q = queue[k]
        <5>1. <<p>> \in Seq(Packets) /\ queue[k] \in Seq(Packets)
          BY <1>1
        <5> QED
          BY <2>4, <5>1
      <4>2. (h \o a) \o q = h \o (a \o q)
        BY ConcatAssociative
      <4>3. (<<p>> \o OfKind(sendQ', k)) \o queue[k] = <<p>> \o (OfKind(sendQ', k) \o queue[k])
        BY <4>1, <4>2
      <4> QED
        BY <2>2, <3>1, <3>2, <4>3
    <3>3. CASE k # p.kind
      <4>1. <<>> \o OfKind(sendQ', k) = OfKind(sendQ', k)
        BY <2>4, ConcatEmptySeq
      <4> QED
        BY <2>2, <3>1, <3>3, <4>1
    <3> QED
      BY <3>2, <3>3
  <2>6. \A k \in Kinds : OfKind(sendQ', k) \o queue'[k] \in Seq(Packets)
    <3>1. \A k \in Kinds : queue'[k] \in Seq(Packets)
      BY <1>1, <2>2
    <3> QED
      BY <2>4, <3>1, ConcatProperties
  <2>7. /\ ch(p.kind) # <<>> /\ Head(ch(p.kind)) = p
        /\ Tail(ch(p.kind)) = OfKind(sendQ', p.kind) \o queue'[p.kind]
    <3>1. PICK rest \in Seq(Packets) : rest = OfKind(sendQ', p.kind) \o queue'[p.kind]
      BY <2>3, <2>6
    <3>2. ch(p.kind) = <<p>> \o rest
      BY <2>3, <2>5, <3>1
    <3>3. <<p>> \o rest # <<>> /\ Head(<<p>> \o rest) = p /\ Tail(<<p>> \o rest) = rest
      BY FirstThenRest
    <3> QED
      BY <3>1, <3>2, <3>3
  <2> DEFINE c == [k \in Kinds |-> ch(k)]
  <2> HIDE DEF ch
  <2>8. [k \in Kinds |-> OfKind(sendQ', k) \o queue'[k]] = [c EXCEPT ![p.kind] = Tail(@)]
    BY <2>3, <2>5, <2>7
  <2>9. c[p.kind] # <<>> /\ Head(c[p.kind]) = p
    BY <2>3, <2>7
  <2> USE DEF ch
  <2>10. [i \in DOMAIN wire' |-> wire'[i].packet]
         = Append([i \in DOMAIN wire |-> wire[i].packet], p)
    BY <1>1, <2>2
  <2> QED
    BY <2>3, <2>8, <2>9, <2>10 DEF Channel!Next, Channel!Transmit
<1>6. CASE UNCHANGED <<queue, sendQ, wire>>
  BY <1>6 DEF Channel!vars
<1> QED
  BY <1>3, <1>4, <1>5, <1>6, QueueSteps

\* The queues, DeliveryPacket's list and the wire behave as a FIFO channel for each
\* kind of packet: no call of SendRtp or SendRtcp, no drain and no number of scheduled
\* DeliveryPackets, in whatever order they interleave, loses, repeats or reorders one.
THEOREM InOrderCorrect == Spec => PacketsInOrder
<1>1. Init => TypeInv /\ KindInv /\ Channel!Init
  <2>1. ASSUME Init PROVE Channel!Init
    <3>1. queue = [k \in Kinds |-> <<>>] /\ sendQ = <<>> /\ wire = <<>>
      BY <2>1 DEF Init
    <3>2. \A k \in Kinds : OfKind(sendQ, k) \o queue[k] = <<>>
      BY <3>1, OfKindEmpty
    <3> QED
      BY <3>1, <3>2 DEF Channel!Init
  <2> QED
    BY <2>1, InitTyped DEF Init, KindInv
<1> QED
  BY <1>1, TypeStep, KindStep, ChannelStep, PTL DEF Spec, PacketsInOrder, Channel!Spec

==============================================================================
