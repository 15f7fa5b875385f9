-------------------------- MODULE WebrtcStaticProofs --------------------------
(***************************************************************************)
(* Theorems about BandwidthChanger and the program, for every schedule,    *)
(* every number of clients, any path of the traces and all times.          *)
(***************************************************************************)
EXTENDS WebrtcStatic, Recursion, FiniteSetTheorems, TLAPS

\* Where the chain of events stands: the change under way is the last one that was
\* due, the next one is scheduled for its own time, which has not passed.
ChangerInv ==
  /\ now \in Nat
  /\ m_info \in {<<>>, Schedule}
  /\ m_index \in 0..Len(m_info)
  /\ m_timer = IF m_index < Len(m_info) THEN m_info[m_index + 1].first ELSE Never
  /\ m_index < Len(m_info) => now <= m_timer
  /\ m_index > 0 => m_info[m_index].first <= now
  /\ rate = IF m_index = 0 THEN InitialRate ELSE m_info[m_index].second

\* The types of the schedule, and that each change comes after the ones before.
LEMMA ScheduleIncreases ==
  /\ Len(Schedule) \in Nat
  /\ DOMAIN Schedule = 1..Len(Schedule)
  /\ \A i \in 1..Len(Schedule) : Schedule[i].first \in Nat \ {0}
  /\ \A i, j \in 1..Len(Schedule) : i < j => Schedule[i].first < Schedule[j].first
<1> DEFINE Change == [first : Nat \ {0}, second : Nat]
<1>1. Schedule \in Seq(Change)
  BY ChangerConstants DEF ChangerConstants
<1>2. Len(Schedule) \in Nat /\ DOMAIN Schedule = 1..Len(Schedule)
  <2> HIDE DEF Change
  <2> QED BY <1>1
<1>3. \A i \in 1..Len(Schedule) : Schedule[i] \in Change
  <2> HIDE DEF Change
  <2> QED BY <1>1
<1>4. \A i \in 1..Len(Schedule) : Schedule[i].first \in Nat \ {0}
  BY <1>3
<1>5. \A i, j \in DOMAIN Schedule : i < j => Schedule[i].first < Schedule[j].first
  BY ChangerConstants DEF ChangerConstants
<1> QED BY <1>2, <1>4, <1>5

LEMMA ChangerInitInv == ChangerInit => ChangerInv
BY DEF ChangerInit, ChangerInv, Never

\* One step of the changer, or of anything that leaves it alone.
LEMMA ChangerStep ==
  ASSUME ChangerInv, [Configure \/ ResetBandwidth \/ Tick]_changerVars
  PROVE  ChangerInv'
<1>1. CASE Configure
  <2>1. /\ m_info = <<>> /\ m_index = 0 /\ now = 0 /\ now' = 0 /\ m_index' = 0
        /\ m_info' = Schedule /\ rate' = rate /\ m_timer' = Schedule[1].first
        /\ Len(Schedule) > 0
    BY <1>1, ScheduleIncreases DEF Configure, ChangerInv
  <2> QED BY <2>1, ScheduleIncreases DEF ChangerInv
<1>2. CASE ResetBandwidth
  <2>1. m_index < Len(m_info) /\ now = m_info[m_index + 1].first /\ m_info = Schedule
    BY <1>2 DEF ResetBandwidth, ChangerInv, Never
  <2>2. m_index \in Nat
    BY <2>1, ScheduleIncreases DEF ChangerInv
  <2>3. m_index + 1 \in 1..Len(Schedule)
    BY <2>2, <2>1, ScheduleIncreases
  <2>4. /\ m_index' = m_index + 1 /\ m_info' = Schedule /\ now' = now
        /\ rate' = Schedule[m_index'].second
    BY <1>2, <2>1 DEF ResetBandwidth
  <2>5. CASE m_index + 1 < Len(Schedule)
    <3>1. m_index + 2 \in 1..Len(Schedule)
      BY <2>2, <2>5, ScheduleIncreases
    <3>2. m_timer' = now + (Schedule[m_index + 2].first - Schedule[m_index + 1].first)
      BY <1>2, <2>1, <2>5 DEF ResetBandwidth
    <3>3. /\ Schedule[m_index + 1].first < Schedule[m_index + 2].first
          /\ Schedule[m_index + 1].first \in Nat /\ Schedule[m_index + 2].first \in Nat
      BY <2>2, <2>3, <3>1, ScheduleIncreases
    <3>4. m_timer' = Schedule[m_index + 2].first /\ now <= m_timer'
      BY <2>1, <3>2, <3>3
    <3>5. m_index' + 1 = m_index + 2 /\ m_index' > 0 /\ m_index' \in 0..Len(Schedule)
      BY <2>2, <2>3, <2>4, ScheduleIncreases
    <3> QED BY <2>1, <2>4, <2>5, <3>4, <3>5 DEF ChangerInv
  <2>6. CASE ~(m_index + 1 < Len(Schedule))
    <3>1. m_timer' = Never /\ ~(m_index' < Len(m_info'))
      BY <1>2, <2>1, <2>4, <2>6 DEF ResetBandwidth
    <3>2. m_index' > 0 /\ m_index' \in 0..Len(Schedule)
      BY <2>2, <2>3, <2>4, ScheduleIncreases
    <3> QED BY <2>1, <2>4, <3>1, <3>2 DEF ChangerInv
  <2> QED BY <2>5, <2>6
<1>3. CASE Tick
  <2>1. /\ now' = now + 1 /\ m_timer # now
        /\ UNCHANGED <<m_info, m_index, m_timer, rate>>
    BY <1>3 DEF Tick
  <2>2. m_index < Len(m_info) => now + 1 <= m_timer
    <3>1. m_index < Len(m_info) => m_info[m_index + 1].first \in Nat
      BY ScheduleIncreases DEF ChangerInv
    <3> QED BY <2>1, <3>1 DEF ChangerInv
  <2>3. m_index > 0 => m_info[m_index].first \in Nat
    BY ScheduleIncreases DEF ChangerInv
  <2> QED BY <2>1, <2>2, <2>3 DEF ChangerInv
<1>4. CASE UNCHANGED changerVars
  BY <1>4 DEF changerVars, ChangerInv
<1> QED BY <1>1, <1>2, <1>3, <1>4

\* The change that is in force at a moment is the only one it can be.
LEMMA ChangerInvRate == ChangerInv => RateAsConfigured
<1> SUFFICES ASSUME ChangerInv, m_timer # now
             PROVE  /\ (\A i \in DOMAIN m_info : now < m_info[i].first) => rate = InitialRate
                    /\ \A i \in DOMAIN m_info :
                         m_info[i].first <= now /\ (i < Len(m_info) => now < m_info[i + 1].first)
                           => rate = m_info[i].second
  BY DEF RateAsConfigured
<1>1. /\ DOMAIN m_info = 1..Len(m_info) /\ Len(m_info) \in Nat
      /\ \A i \in 1..Len(m_info) : m_info[i].first \in Nat
      /\ \A i, j \in 1..Len(m_info) : i < j => m_info[i].first < m_info[j].first
  BY ScheduleIncreases DEF ChangerInv
<1>2. m_index < Len(m_info) => now < m_info[m_index + 1].first
  BY <1>1 DEF ChangerInv
<1>3. ASSUME \A i \in DOMAIN m_info : now < m_info[i].first
      PROVE  rate = InitialRate
  BY <1>1, <1>3 DEF ChangerInv
<1>4. ASSUME NEW i \in DOMAIN m_info, m_info[i].first <= now,
             i < Len(m_info) => now < m_info[i + 1].first
      PROVE  rate = m_info[i].second
  <2>1. i \in 1..Len(m_info) /\ now \in Nat /\ m_index \in 0..Len(m_info)
    BY <1>1, <1>4 DEF ChangerInv
  <2>2. ~(i < m_index)
    <3> SUFFICES ASSUME i < m_index PROVE FALSE
      OBVIOUS
    <3>1. i + 1 \in 1..Len(m_info) /\ m_index \in 1..Len(m_info) /\ i + 1 <= m_index
      BY <1>1, <2>1
    <3>2. m_info[i + 1].first <= m_info[m_index].first
      BY <1>1, <3>1
    <3>3. m_info[m_index].first <= now /\ now < m_info[i + 1].first
      BY <1>4, <2>1, <3>1 DEF ChangerInv
    <3> QED BY <1>1, <2>1, <3>1, <3>2, <3>3
  <2>3. ~(m_index < i)
    <3> SUFFICES ASSUME m_index < i PROVE FALSE
      OBVIOUS
    <3>1. m_index + 1 \in 1..Len(m_info) /\ m_index + 1 <= i /\ m_index < Len(m_info)
      BY <1>1, <2>1
    <3>2. m_info[m_index + 1].first <= m_info[i].first
      BY <1>1, <2>1, <3>1
    <3> QED BY <1>1, <1>2, <1>4, <2>1, <3>1, <3>2
  <2>4. i = m_index
    BY <1>1, <2>1, <2>2, <2>3
  <2> QED BY <2>1, <2>4 DEF ChangerInv
<1> QED BY <1>3, <1>4

\* Whatever the schedule, the device has the configured rate at every moment.
THEOREM ChangerCorrect == ChangerSpec => []RateAsConfigured
<1>1. ChangerInit => ChangerInv
  BY ChangerInitInv
<1>2. ChangerInv /\ [Configure \/ ResetBandwidth \/ Tick]_changerVars => ChangerInv'
  BY ChangerStep
<1>3. ChangerInv => RateAsConfigured
  BY ChangerInvRate
<1> QED BY <1>1, <1>2, <1>3, PTL DEF ChangerSpec
------------------------------------------------------------------------------
(* The program *)

\* The program does nothing to the changer but configure it, run its event and let
\* time pass: it implements ChangerSpec.
THEOREM ProgramImplementsChanger == Spec => ChangerSpec
<1>1. Init => ChangerInit
  BY DEF Init
<1>2. [Next]_vars => [Configure \/ ResetBandwidth \/ Tick]_changerVars
  <2> SUFFICES ASSUME [Next]_vars
               PROVE  [Configure \/ ResetBandwidth \/ Tick]_changerVars
    OBVIOUS
  <2>1. CASE SetTraceFolder \/ RunReturns \/ Report \/ DeleteTraces
    BY <2>1 DEF SetTraceFolder, RunReturns, Report, DeleteTraces
  <2>2. CASE CreateSessions
    BY <2>2 DEF CreateSessions
  <2>3. CASE ChangeBandwidth
    BY <2>3 DEF ChangeBandwidth
  <2>4. CASE TimePasses
    BY <2>4 DEF TimePasses
  <2>5. ASSUME NEW c \in Clients, InstallWebrtcApplication(c)
        PROVE  UNCHANGED changerVars
    BY <2>5 DEF InstallWebrtcApplication
  <2>6. ASSUME NEW c \in Clients, NEW size \in 1..capacity, RecvPacket(c, size)
        PROVE  UNCHANGED changerVars
    BY <2>6 DEF RecvPacket
  <2>7. ASSUME NEW a \in Apps, ApplicationEvent(a)
        PROVE  UNCHANGED changerVars
    BY <2>7 DEF ApplicationEvent
  <2>8. CASE Exited \/ UNCHANGED vars
    BY <2>8 DEF Exited, vars
  <2> QED BY <2>1, <2>2, <2>3, <2>4, <2>5, <2>6, <2>7, <2>8 DEF Next
<1> QED BY <1>1, <1>2, PTL DEF Spec, ChangerSpec

\* So the link of the program has the rate its schedule gives, at every moment.
THEOREM RateCorrect == Spec => []RateAsConfigured
BY ProgramImplementsChanger, ChangerCorrect, PTL
------------------------------------------------------------------------------
(* The ports *)

\* What is bound is bound as configured, and the peer's port is the right one, be
\* it from the configuration or from the first packet.
PortsInv ==
  /\ now \in Nat
  /\ app \in [Apps -> {"none", "new", "running", "stopped"}]
  /\ m_bindPort \in [Apps -> Nat] /\ m_peerPort \in [Apps -> Nat]
  /\ \A c \in Clients :
       IF app[Sender(c)] = "none"
       THEN m_bindPort[Sender(c)] = None /\ m_bindPort[Receiver(c)] = None
       ELSE /\ m_bindPort[Sender(c)] = SendPort(c) /\ m_bindPort[Receiver(c)] = RecvPort(c)
            /\ m_peerPort[Sender(c)] = RecvPort(c) /\ m_peerPort[Receiver(c)] = SendPort(c)

LEMMA AppsOfClients ==
  /\ Clients \subseteq Nat
  /\ \A c \in Clients : Sender(c) \in Apps /\ Receiver(c) \in Apps
  /\ \A b, c \in Clients : Sender(b) # Receiver(c)
  /\ \A b, c \in Clients : Sender(b) = Sender(c) => b = c
  /\ \A b, c \in Clients : Receiver(b) = Receiver(c) => b = c
<1>1. Clients = 1..Len(Starts) /\ Len(Starts) \in Nat
  BY StaticConstants DEF StaticConstants, Clients
<1>2. \A c \in Clients : Sender(c) \in Apps /\ Receiver(c) \in Apps
  BY DEF Sender, Receiver, Apps
<1>3. \A b, c \in Clients : Sender(b) # Receiver(c)
  BY DEF Sender, Receiver
<1>4. /\ \A b, c \in Clients : Sender(b) = Sender(c) => b = c
      /\ \A b, c \in Clients : Receiver(b) = Receiver(c) => b = c
  BY DEF Sender, Receiver
<1> QED BY <1>1, <1>2, <1>3, <1>4

LEMMA PortsInit == Init => PortsInv
BY AppsOfClients DEF Init, ChangerInit, PortsInv, None

\* StepFunctions that install nothing and receive nothing.
LEMMA PortsKept ==
  ASSUME PortsInv, now' \in Nat, UNCHANGED <<app, m_bindPort, m_peerPort>>
  PROVE  PortsInv'
BY DEF PortsInv

LEMMA TimeKept == ASSUME now \in Nat, Tick PROVE now' \in Nat
BY DEF Tick

LEMMA PortsInstalled ==
  ASSUME PortsInv, NEW c \in Clients, InstallWebrtcApplication(c)
  PROVE  PortsInv'
<1>1. /\ app' = [app EXCEPT ![Sender(c)] = "new", ![Receiver(c)] = "new"]
      /\ m_bindPort' = [m_bindPort EXCEPT ![Sender(c)] = SendPort(c),
                                          ![Receiver(c)] = RecvPort(c)]
      /\ m_peerPort' = [m_peerPort EXCEPT ![Sender(c)] = RecvPort(c),
                                          ![Receiver(c)] = SendPort(c)]
      /\ now' = now
  BY DEF InstallWebrtcApplication, Bind, ConfigurePeer, changerVars
<1>2. SendPort(c) \in Nat /\ RecvPort(c) \in Nat
  BY AppsOfClients DEF SendPort, RecvPort
<1>3. now' \in Nat /\ app' \in [Apps -> {"none", "new", "running", "stopped"}]
  BY <1>1 DEF PortsInv
<1>4. m_bindPort' \in [Apps -> Nat] /\ m_peerPort' \in [Apps -> Nat]
  BY <1>1, <1>2 DEF PortsInv
<1>5. /\ app'[Sender(c)] # "none"
      /\ m_bindPort'[Sender(c)] = SendPort(c) /\ m_bindPort'[Receiver(c)] = RecvPort(c)
      /\ m_peerPort'[Sender(c)] = RecvPort(c) /\ m_peerPort'[Receiver(c)] = SendPort(c)
  BY <1>1, AppsOfClients DEF PortsInv
<1>6. ASSUME NEW b \in Clients, b # c
      PROVE  /\ app'[Sender(b)] = app[Sender(b)]
             /\ m_bindPort'[Sender(b)] = m_bindPort[Sender(b)]
             /\ m_bindPort'[Receiver(b)] = m_bindPort[Receiver(b)]
             /\ m_peerPort'[Sender(b)] = m_peerPort[Sender(b)]
             /\ m_peerPort'[Receiver(b)] = m_peerPort[Receiver(b)]
  <2>1. /\ Sender(b) \in Apps /\ Receiver(b) \in Apps
        /\ Sender(b) # Sender(c) /\ Sender(b) # Receiver(c)
        /\ Receiver(b) # Sender(c) /\ Receiver(b) # Receiver(c)
    BY <1>6, AppsOfClients
  <2> QED BY <1>1, <2>1 DEF PortsInv
<1> QED BY <1>3, <1>4, <1>5, <1>6 DEF PortsInv

LEMMA PortsAtEvent ==
  ASSUME PortsInv, NEW a \in Apps, ApplicationEvent(a)
  PROVE  PortsInv'
<1>1. /\ app' = [app EXCEPT ![a] = IF @ = "new" THEN "running" ELSE "stopped"]
      /\ UNCHANGED <<now, m_bindPort, m_peerPort>>
  BY DEF ApplicationEvent, changerVars
<1>2. app[a] # "none"
  BY DEF ApplicationEvent, EventTime, Never, PortsInv
<1>3. \A c \in Clients : app'[Sender(c)] = "none" <=> app[Sender(c)] = "none"
  BY <1>1, <1>2, AppsOfClients DEF PortsInv
<1>4. app' \in [Apps -> {"none", "new", "running", "stopped"}]
  BY <1>1 DEF PortsInv
<1> QED BY <1>1, <1>3, <1>4 DEF PortsInv

\* The receiver that gets a packet is the one its sender is configured for, and
\* what it learns is what it knew.
LEMMA PortsAtReceipt ==
  ASSUME PortsInv, NEW from \in Clients, NEW size, RecvPacket(from, size)
  PROVE  PortsInv'
<1>1. PICK c \in Clients :
        /\ m_bindPort[Receiver(c)] = m_peerPort[Sender(from)]
        /\ m_peerPort' = IF c \in m_knowPeer THEN m_peerPort
                         ELSE [m_peerPort EXCEPT ![Receiver(c)] = m_bindPort[Sender(from)]]
  BY DEF RecvPacket
<1>2. app[Sender(from)] # "none" /\ UNCHANGED <<now, app, m_bindPort>>
  BY DEF RecvPacket, changerVars
<1>3. m_bindPort[Sender(from)] = SendPort(from) /\ m_bindPort[Receiver(c)] = RecvPort(from)
  BY <1>1, <1>2 DEF PortsInv
<1>4. app[Sender(c)] # "none" /\ c = from
  <2>1. from \in Nat /\ c \in Nat
    BY AppsOfClients
  <2>2. app[Sender(c)] # "none"
    BY <1>3, <2>1 DEF PortsInv, None, RecvPort
  <2>3. RecvPort(c) = RecvPort(from)
    BY <1>3, <2>2 DEF PortsInv
  <2> QED BY <2>1, <2>2, <2>3 DEF RecvPort
<1>5. m_peerPort[Receiver(c)] = SendPort(from)
  BY <1>4 DEF PortsInv
<1>6. m_peerPort' = m_peerPort
  BY <1>1, <1>3, <1>5 DEF PortsInv
<1> QED BY <1>2, <1>6, PortsKept DEF PortsInv

LEMMA PortsStep == PortsInv /\ [Next]_vars => PortsInv'
<1> SUFFICES ASSUME PortsInv, [Next]_vars PROVE PortsInv'
  OBVIOUS
<1>1. CASE SetTraceFolder \/ RunReturns \/ Report \/ DeleteTraces
  BY <1>1, PortsKept DEF SetTraceFolder, RunReturns, Report, DeleteTraces, changerVars,
     PortsInv
<1>2. CASE CreateSessions
  BY <1>2, PortsKept DEF CreateSessions, Configure, changerVars, PortsInv
<1>3. CASE ChangeBandwidth
  BY <1>3, PortsKept DEF ChangeBandwidth, ResetBandwidth, programVars, PortsInv
<1>4. CASE TimePasses
  BY <1>4, PortsKept, TimeKept DEF TimePasses, programVars, PortsInv
<1>5. ASSUME NEW c \in Clients, InstallWebrtcApplication(c) PROVE PortsInv'
  BY <1>5, PortsInstalled
<1>6. ASSUME NEW c \in Clients, NEW size \in 1..capacity, RecvPacket(c, size)
      PROVE  PortsInv'
  BY <1>6, PortsAtReceipt
<1>7. ASSUME NEW a \in Apps, ApplicationEvent(a) PROVE PortsInv'
  BY <1>7, PortsAtEvent
<1>8. CASE Exited \/ UNCHANGED vars
  BY <1>8, PortsKept DEF Exited, vars, programVars, changerVars, PortsInv
<1> QED BY <1>1, <1>2, <1>3, <1>4, <1>5, <1>6, <1>7, <1>8 DEF Next

LEMMA PortsInvApart == PortsInv => ClientsApart
<1> SUFFICES ASSUME PortsInv, NEW c \in Clients, app[Sender(c)] # "none"
             PROVE  /\ m_peerPort[Receiver(c)] = m_bindPort[Sender(c)]
                    /\ m_peerPort[Sender(c)] = m_bindPort[Receiver(c)]
                    /\ \A b \in Clients \ {c} :
                         /\ m_bindPort[Sender(b)] # m_bindPort[Sender(c)]
                         /\ m_bindPort[Receiver(b)] # m_bindPort[Receiver(c)]
  BY DEF ClientsApart
<1>1. /\ m_bindPort[Sender(c)] = SendPort(c) /\ m_bindPort[Receiver(c)] = RecvPort(c)
      /\ m_peerPort[Sender(c)] = RecvPort(c) /\ m_peerPort[Receiver(c)] = SendPort(c)
  BY DEF PortsInv
<1>2. ASSUME NEW b \in Clients \ {c}
      PROVE  /\ m_bindPort[Sender(b)] # SendPort(c)
             /\ m_bindPort[Receiver(b)] # RecvPort(c)
  <2>1. b \in Nat /\ c \in Nat /\ b # c
    BY AppsOfClients
  <2>2. CASE app[Sender(b)] = "none"
    BY <2>1, <2>2 DEF PortsInv, None, SendPort, RecvPort
  <2>3. CASE app[Sender(b)] # "none"
    <3>1. m_bindPort[Sender(b)] = SendPort(b) /\ m_bindPort[Receiver(b)] = RecvPort(b)
      BY <2>3 DEF PortsInv
    <3> QED BY <2>1, <3>1 DEF SendPort, RecvPort
  <2> QED BY <2>2, <2>3
<1> QED BY <1>1, <1>2

\* However many clients share the two nodes: their ports never clash, and no
\* receiver learns another port than the one it was configured with.
THEOREM PortsCorrect == Spec => []ClientsApart
<1>1. Init => PortsInv
  BY PortsInit
<1>2. PortsInv /\ [Next]_vars => PortsInv'
  BY PortsStep
<1>3. PortsInv => ClientsApart
  BY PortsInvApart
<1> QED BY <1>1, <1>2, <1>3, PTL DEF Spec
------------------------------------------------------------------------------
(* The utilisation *)

Changes == Len(Schedule)
TimeOf(i) == IF i = 0 THEN 0 ELSE Schedule[i].first
RateOf(i) == IF i = 0 THEN InitialRate ELSE Schedule[i].second

\* What BitsUpTo computes for a program that has a changer.
Bits[i \in 0..Changes] ==
  IF i = 0 THEN 0
  ELSE Bits[i - 1] + RateOf(i - 1) * WholeSeconds(TimeOf(i) - TimeOf(i - 1))

\* A rate times whole seconds is what it carries in that time, but for the last one.
LEMMA WholeSecondsCarry ==
  ASSUME NEW r \in Nat, NEW ms \in Nat
  PROVE  /\ WholeSeconds(ms) \in Nat
         /\ r * WholeSeconds(ms) \in Nat
         /\ (r * WholeSeconds(ms)) * Second <= r * ms
         /\ r * ms - (r * WholeSeconds(ms)) * Second <= r * (Second - 1)
         /\ ms % Second = 0 => (r * WholeSeconds(ms)) * Second = r * ms
         /\ ms >= Second => WholeSeconds(ms) > 0
<1> DEFINE q == ms \div Second
           m == ms % Second
<1>1. Second \in Nat /\ Second > 0
  BY ChangerConstants DEF ChangerConstants
<1>2. q \in Nat /\ m \in 0..(Second - 1) /\ ms = Second * q + m
  BY <1>1
<1>3. WholeSeconds(ms) = q
  BY DEF WholeSeconds
<1> HIDE DEF q, m
<1>4. /\ r * q \in Nat /\ r * m \in Nat
      /\ r * ms = (r * q) * Second + r * m
  BY <1>1, <1>2
<1>5. 0 <= r * m /\ r * m <= r * (Second - 1)
  BY <1>1, <1>2
<1>6. ms >= Second => q > 0
  BY <1>1, <1>2
<1>7. m = 0 => r * m = 0
  OBVIOUS
<1>8. (r * q) * Second \in Nat
  BY <1>1, <1>4
<1> QED BY <1>3, <1>4, <1>5, <1>6, <1>7, <1>8, <1>2 DEF m

LEMMA ScheduleTypes ==
  /\ Changes \in Nat
  /\ \A i \in 0..Changes : TimeOf(i) \in Nat /\ RateOf(i) \in Nat
  /\ \A i \in 1..Changes : TimeOf(i) - TimeOf(i - 1) \in Nat /\ TimeOf(i) > TimeOf(i - 1)
  /\ InitialRate \in Nat \ {0}
<1>1. \A i \in 0..Changes : TimeOf(i) \in Nat
  BY ScheduleIncreases DEF TimeOf, Changes
<1>2. \A i \in 1..Changes : Schedule[i].second \in Nat
  <2> DEFINE Change == [first : Nat \ {0}, second : Nat]
  <2>1. Schedule \in Seq(Change)
    BY ChangerConstants DEF ChangerConstants
  <2>2. \A i \in 1..Changes : Schedule[i] \in Change
    <3> HIDE DEF Change
    <3> QED BY <2>1 DEF Changes
  <2> QED BY <2>2
<1>3. InitialRate \in Nat \ {0}
  BY ChangerConstants DEF ChangerConstants
<1>4. \A i \in 1..Changes : TimeOf(i) > TimeOf(i - 1)
  BY ScheduleIncreases DEF TimeOf, Changes
<1>5. \A i \in 1..Changes : TimeOf(i) - TimeOf(i - 1) \in Nat
  <2> TAKE i \in 1..Changes
  <2>1. i - 1 \in 0..Changes /\ i \in 0..Changes
    BY ScheduleIncreases DEF Changes
  <2> QED BY <1>1, <1>4, <2>1
<1> QED BY <1>1, <1>2, <1>3, <1>4, <1>5, ScheduleIncreases DEF Changes, RateOf

LEMMA ScheduledBits ==
  /\ Bits[0] = 0
  /\ \A i \in 1..Changes :
       Bits[i] = Bits[i - 1] + RateOf(i - 1) * WholeSeconds(TimeOf(i) - TimeOf(i - 1))
  /\ \A i \in 0..Changes : Bits[i] \in Nat
  /\ m_info = Schedule => \A i \in 0..Changes : BitsUpTo(i) = Bits[i]
<1> DEFINE Segment(i) == RateOf(i - 1) * WholeSeconds(TimeOf(i) - TimeOf(i - 1))
           t == [i \in 1..Changes |-> [x \in Nat |-> x + Segment(i)]]
           Sums(f) == f = [i \in 0..Changes |-> IF i = 0 THEN 0 ELSE f[i - 1] + Segment(i)]
<1>1. \A i \in 1..Changes : Segment(i) \in Nat
  <2> TAKE i \in 1..Changes
  <2>1. i - 1 \in 0..Changes
    BY ScheduleTypes
  <2> QED BY <2>1, ScheduleTypes, WholeSecondsCarry
<1> HIDE DEF Segment
<1>2. PICK f \in [0..Changes -> Nat] :
        f[0] = 0 /\ \A i \in 1..Changes : f[i] = t[i][f[i - 1]]
  <2>1. t \in [1..Changes -> [Nat -> Nat]]
    BY <1>1
  <2>2. Changes \in Nat
    BY ScheduleTypes
  <2>3. \E f : Iterates(f, Nat, 0, Changes, t)
    <3>1. t \in StepFunctions(Nat, Changes)
      BY <2>1 DEF StepFunctions
    <3> HIDE DEF t
    <3> QED BY <2>2, <3>1, Iteration
  <2> HIDE DEF t
  <2> QED BY <2>3 DEF Iterates
<1>3. \A i \in 1..Changes : f[i] = f[i - 1] + Segment(i)
  <2> TAKE i \in 1..Changes
  <2>1. i - 1 \in 0..Changes
    BY ScheduleTypes
  <2>2. f[i - 1] \in Nat
    BY <2>1
  <2> QED BY <1>2, <2>2
<1> HIDE DEF t
<1>4. Sums(f)
  <2> DEFINE g == [i \in 0..Changes |-> IF i = 0 THEN 0 ELSE f[i - 1] + Segment(i)]
  <2>1. \A i \in 0..Changes : f[i] = g[i]
    BY <1>2, <1>3, ScheduleTypes
  <2>2. f = [i \in 0..Changes |-> f[i]] /\ g = [i \in 0..Changes |-> g[i]]
    BY <1>2
  <2> QED BY <2>1, <2>2
<1>5. \A g : Sums(g) => /\ g[0] = 0
                        /\ \A i \in 1..Changes : g[i] = g[i - 1] + Segment(i)
                        /\ \A i \in 0..Changes : g[i] = f[i]
  <2> SUFFICES ASSUME NEW g, Sums(g)
               PROVE  /\ g[0] = 0
                      /\ \A i \in 1..Changes : g[i] = g[i - 1] + Segment(i)
                      /\ \A i \in 0..Changes : g[i] = f[i]
    OBVIOUS
  <2>1. g[0] = 0 /\ \A i \in 1..Changes : g[i] = g[i - 1] + Segment(i)
    <3>1. Changes \in Nat
      BY ScheduleTypes
    <3>2. 0 \in 0..Changes /\ \A i \in 1..Changes : i \in 0..Changes /\ i # 0
      BY <3>1
    <3>3. \A i \in 0..Changes : g[i] = IF i = 0 THEN 0 ELSE g[i - 1] + Segment(i)
      OBVIOUS
    <3> HIDE DEF Sums
    <3> QED BY <3>2, <3>3
  <2> DEFINE Bad == {i \in 0..Changes : g[i] # f[i]}
  <2>2. SUFFICES ASSUME Bad # {} PROVE FALSE
    BY <2>1
  <2>3. PICK i \in Bad : \A j \in Bad : i <= j
    <3>1. Bad \in SUBSET Nat
      OBVIOUS
    <3> HIDE DEF Bad
    <3> QED BY <2>2, <3>1, FirstNumber
  <2>4. i \in 1..Changes /\ i - 1 \in 0..Changes /\ ~(i <= i - 1)
    <3>1. i \in 0..Changes /\ g[i] # f[i]
      OBVIOUS
    <3>2. i # 0 /\ Changes \in Nat
      BY <1>2, <2>1, <3>1, ScheduleTypes
    <3> HIDE DEF Bad, Sums
    <3> QED BY <3>1, <3>2
  <2>5. g[i - 1] = f[i - 1]
    BY <2>3, <2>4
  <2> QED BY <1>3, <2>1, <2>4, <2>5
<1>6. Bits = CHOOSE g : Sums(g)
  BY DEF Bits, Segment
<1>7. Sums(Bits)
  <2> HIDE DEF Sums
  <2> QED BY <1>4, <1>6
<1>8. ASSUME m_info = Schedule, NEW i \in 0..Changes PROVE BitsUpTo(i) = Bits[i]
  <2> DEFINE Own(g) == g = [j \in 0..Len(m_info) |-> IF j = 0 THEN 0 ELSE g[j - 1] + SegmentBits(j)]
  <2>1. \A j \in 1..Changes : SegmentBits(j) = Segment(j)
    BY <1>8, ScheduleTypes DEF SegmentBits, Segment, TimeOf, RateOf
  <2>2. \A g : Own(g) <=> Sums(g)
    <3> TAKE g
    <3>1. [j \in 0..Len(m_info) |-> IF j = 0 THEN 0 ELSE g[j - 1] + SegmentBits(j)]
            = [j \in 0..Changes |-> IF j = 0 THEN 0 ELSE g[j - 1] + Segment(j)]
      <4>1. \A j \in 0..Changes : j # 0 => SegmentBits(j) = Segment(j)
        BY <2>1, ScheduleTypes
      <4>2. Len(m_info) = Changes
        BY <1>8 DEF Changes
      <4> QED BY <4>1, <4>2
    <3> QED BY <3>1
  <2>3. BitsUpTo(i) = (CHOOSE g : Own(g))[i]
    BY DEF BitsUpTo
  <2>4. Own(CHOOSE g : Own(g))
    <3>1. Own(f)
      BY <1>4, <2>2
    <3> HIDE DEF Own
    <3> QED BY <3>1
  <2>5. (CHOOSE g : Own(g))[i] = f[i]
    <3> HIDE DEF Own, Sums
    <3> QED BY <1>5, <2>2, <2>4
  <2> QED BY <1>5, <1>7, <2>3, <2>5
<1> HIDE DEF Sums
<1>9. \A i \in 0..Changes : Bits[i] = f[i]
  BY <1>5, <1>7
<1>10. \A i \in 0..Changes : Bits[i] \in Nat
  BY <1>9
<1>11. Bits[0] = 0 /\ \A i \in 1..Changes : Bits[i] = Bits[i - 1] + Segment(i)
  BY <1>5, <1>7
<1> QED BY <1>8, <1>10, <1>11 DEF Segment

LEMMA BitsGrow ==
  /\ \A k \in 1..Changes : Bits[k - 1] <= Bits[k]
  /\ \A k \in 1..Changes : Bits[1] <= Bits[k]
<1>1. ASSUME NEW k \in 1..Changes PROVE Bits[k - 1] <= Bits[k]
  <2>1. k - 1 \in 0..Changes
    BY ScheduleTypes
  <2>2. RateOf(k - 1) * WholeSeconds(TimeOf(k) - TimeOf(k - 1)) \in Nat
    BY <2>1, ScheduleTypes, WholeSecondsCarry
  <2>3. Bits[k - 1] \in Nat
    BY <2>1, ScheduledBits
  <2> QED BY <2>2, <2>3, ScheduledBits
<1> DEFINE Bad == {k \in 1..Changes : ~(Bits[1] <= Bits[k])}
<1>2. ASSUME Bad # {} PROVE FALSE
  <2>1. PICK k \in Bad : \A j \in Bad : k <= j
    <3>1. Bad \in SUBSET Nat
      OBVIOUS
    <3> HIDE DEF Bad
    <3> QED BY <1>2, <3>1, FirstNumber
  <2>2. k \in 1..Changes /\ ~(Bits[1] <= Bits[k]) /\ Changes \in Nat
    BY ScheduleTypes
  <2>3. /\ 1 \in 0..Changes /\ k \in 0..Changes /\ k - 1 \in 0..Changes
        /\ ~(k <= k - 1) /\ (k # 1 => k - 1 \in 1..Changes)
    BY <2>2
  <2>4. Bits[1] \in Nat /\ Bits[k] \in Nat /\ Bits[k - 1] \in Nat
    BY <2>3, ScheduledBits
  <2>5. k # 1
    BY <2>2, <2>4
  <2>6. Bits[1] <= Bits[k - 1]
    BY <2>1, <2>3, <2>5
  <2> QED BY <1>1, <2>2, <2>4, <2>6
<1> QED BY <1>1, <1>2
------------------------------------------------------------------------------
\* How many changes are due before a moment, and what TotalThroughput then gives.
Due(k, t) ==
  /\ k \in 0..Changes
  /\ \A i \in 1..k : TimeOf(i) < t
  /\ \A i \in (k + 1)..Changes : t <= TimeOf(i)
TotalBits(k, t) ==
  IF k = 0 THEN 0
  ELSE Bits[k] + (IF t > TimeOf(Changes)
                  THEN RateOf(Changes) * WholeSeconds(t - TimeOf(Changes)) ELSE 0)

LEMMA Later == \A i, j \in 1..Changes : i < j => TimeOf(i) < TimeOf(j)
BY ScheduleIncreases DEF TimeOf, Changes

LEMMA SomeDue == ASSUME NEW t \in Nat PROVE \E k : Due(k, t)
<1> DEFINE S == {k \in 0..Changes : k = Changes \/ t <= TimeOf(k + 1)}
<1>1. PICK k \in S : \A j \in S : k <= j
  <2>1. S \in SUBSET Nat
    OBVIOUS
  <2>2. Changes \in S
    BY ScheduleTypes
  <2> HIDE DEF S
  <2> QED BY <2>1, <2>2, FirstNumber
<1>2. k \in 0..Changes /\ Changes \in Nat
  BY ScheduleTypes
<1>3. ASSUME NEW i \in 1..k PROVE TimeOf(i) < t
  <2>1. i - 1 \in 0..Changes /\ ~(k <= i - 1) /\ i - 1 # Changes /\ (i - 1) + 1 = i
    BY <1>2
  <2>2. ~(t <= TimeOf(i))
    BY <1>1, <2>1
  <2>3. TimeOf(i) \in Nat
    BY <1>2, ScheduleTypes
  <2> QED BY <2>2, <2>3
<1>4. ASSUME NEW i \in (k + 1)..Changes PROVE t <= TimeOf(i)
  <2>1. k # Changes /\ k + 1 \in 1..Changes /\ i \in 1..Changes /\ (i = k + 1 \/ k + 1 < i)
    BY <1>2
  <2>2. t <= TimeOf(k + 1)
    BY <2>1
  <2>3. TimeOf(i) \in Nat /\ TimeOf(k + 1) \in Nat
    BY <2>1, ScheduleTypes
  <2> QED BY <2>1, <2>2, <2>3, Later
<1> HIDE DEF S
<1>5. Due(k, t)
  BY <1>2, <1>3, <1>4 DEF Due
<1> QED BY <1>5

LEMMA TotalIs ==
  ASSUME m_info = Schedule, NEW t \in Nat, NEW k, Due(k, t)
  PROVE  TotalThroughput(t) = TotalBits(k, t)
<1>1. k \in 0..Changes /\ Changes \in Nat
  BY ScheduleTypes DEF Due
<1>2. {i \in DOMAIN m_info : m_info[i].first < t} = 1..k
  <2>1. DOMAIN m_info = 1..Changes
    BY ScheduleIncreases DEF Changes
  <2>2. \A i \in 1..Changes : m_info[i].first = TimeOf(i) /\ TimeOf(i) \in Nat
    BY ScheduleTypes DEF TimeOf
  <2>3. \A i \in 1..Changes : TimeOf(i) < t <=> i \in 1..k
    <3> TAKE i \in 1..Changes
    <3>1. i \in 1..k \/ i \in (k + 1)..Changes
      BY <1>1
    <3> QED BY <1>1, <2>2, <3>1 DEF Due
  <2> QED BY <1>1, <2>1, <2>2, <2>3
<1>3. LowerBoundIndex(t) = k
  <2>1. Cardinality(1..k) = k
    <3>1. 1 \in Int /\ k \in Int
      BY <1>1
    <3>2. Cardinality(1..k) = IF 1 > k THEN 0 ELSE k - 1 + 1
      BY <3>1, FS_Interval
    <3> QED BY <1>1, <3>2
  <2> QED BY <1>2, <2>1 DEF LowerBoundIndex
<1>4. CASE k = 0
  BY <1>3, <1>4 DEF TotalThroughput, TotalBits
<1>5. CASE k # 0
  <2>1. BitsUpTo(k) = Bits[k]
    BY <1>1, ScheduledBits
  <2>2. Last(m_info).first = TimeOf(Changes) /\ Last(m_info).second = RateOf(Changes)
    BY <1>1, <1>5 DEF Last, TimeOf, RateOf, Changes
  <2> QED BY <1>3, <1>5, <2>1, <2>2 DEF TotalThroughput, TotalBits
<1> QED BY <1>4, <1>5
------------------------------------------------------------------------------
WholeChanges == \A i \in 1..Changes : TimeOf(i) % Second = 0

\* What the link carried until the last change was carried in whole segments, and
\* what it has carried since then goes by the rate in force.
CapacityInv ==
  \E base \in Nat :
    /\ capacity = base + RateOf(m_index) * (now - TimeOf(m_index))
    /\ Bits[m_index] * Second <= base
    /\ WholeChanges => Bits[m_index] * Second = base
    /\ m_index = 0 => base = 0

\* The same facts of the changer, in terms of the whole schedule.
LEMMA ChangerInvTimes ==
  ASSUME ChangerInv
  PROVE  /\ m_index \in 0..Changes /\ now \in Nat
         /\ m_info = Schedule \/ (m_info = <<>> /\ m_index = 0)
         /\ TimeOf(m_index) <= now
         /\ rate = RateOf(m_index) /\ rate \in Nat
         /\ m_info = Schedule /\ m_index < Changes
              => m_timer = TimeOf(m_index + 1) /\ now <= TimeOf(m_index + 1)
<1>1. m_info = Schedule \/ (m_info = <<>> /\ m_index = 0)
  BY DEF ChangerInv
<1>2. m_index \in 0..Changes /\ now \in Nat
  BY <1>1, ScheduleTypes DEF ChangerInv, Changes
<1>3. TimeOf(m_index) <= now
  BY <1>1, <1>2 DEF ChangerInv, TimeOf
<1>4. rate = RateOf(m_index) /\ rate \in Nat
  BY <1>1, <1>2, ScheduleTypes DEF ChangerInv, RateOf
<1>5. m_info = Schedule /\ m_index < Changes
        => m_timer = TimeOf(m_index + 1) /\ now <= TimeOf(m_index + 1)
  BY <1>2 DEF ChangerInv, TimeOf, Changes
<1> QED BY <1>1, <1>2, <1>3, <1>4, <1>5

LEMMA SegmentEnds ==
  ASSUME NEW k \in 0..Changes, k + 1 \in 1..Changes, NEW base \in Nat,
         Bits[k] * Second <= base, WholeChanges => Bits[k] * Second = base
  PROVE  LET next == base + RateOf(k) * (TimeOf(k + 1) - TimeOf(k))
         IN  /\ next \in Nat
             /\ Bits[k + 1] * Second <= next
             /\ WholeChanges => Bits[k + 1] * Second = next
<1> DEFINE ms == TimeOf(k + 1) - TimeOf(k)
           bits == RateOf(k) * WholeSeconds(ms)
<1>1. (k + 1) - 1 = k /\ Second \in Nat \ {0} /\ k \in Nat
  BY ScheduleTypes, ChangerConstants DEF ChangerConstants
<1>2. ms \in Nat /\ RateOf(k) \in Nat /\ TimeOf(k) \in Nat /\ TimeOf(k + 1) \in Nat
  BY <1>1, ScheduleTypes
<1>3. Bits[k + 1] = Bits[k] + bits /\ Bits[k] \in Nat
  BY <1>1, ScheduledBits
<1>4. /\ bits \in Nat /\ bits * Second <= RateOf(k) * ms
      /\ ms % Second = 0 => bits * Second = RateOf(k) * ms
  <2> HIDE DEF ms
  <2> QED BY <1>2, WholeSecondsCarry
<1>5. WholeChanges => ms % Second = 0
  <2> SUFFICES ASSUME WholeChanges PROVE ms % Second = 0
    OBVIOUS
  <2>1. TimeOf(k + 1) % Second = 0
    BY DEF WholeChanges
  <2>2. TimeOf(k) % Second = 0
    <3>1. CASE k = 0
      BY <1>1, <3>1 DEF TimeOf
    <3>2. CASE k # 0
      BY <1>1, <3>2, ScheduleTypes DEF WholeChanges
    <3> QED BY <3>1, <3>2
  <2>3. PICK a, b \in Nat : TimeOf(k + 1) = Second * a /\ TimeOf(k) = Second * b
    <3>1. TimeOf(k + 1) \div Second \in Nat /\ TimeOf(k) \div Second \in Nat
      BY <1>1, <1>2
    <3>2. /\ TimeOf(k + 1) = Second * (TimeOf(k + 1) \div Second)
          /\ TimeOf(k) = Second * (TimeOf(k) \div Second)
      <4>1. \A x \in Nat : x % Second = 0 => x = Second * (x \div Second)
        BY <1>1
      <4> QED BY <1>2, <2>1, <2>2, <4>1
    <3> QED BY <3>1, <3>2
  <2>4. ms = Second * (a - b)
    BY <1>1, <2>3
  <2> QED BY <1>1, <2>4
<1>6. (Bits[k] + bits) * Second = Bits[k] * Second + bits * Second
  BY <1>1, <1>3, <1>4
<1>7. RateOf(k) * ms \in Nat /\ bits * Second \in Nat /\ Bits[k] * Second \in Nat
  BY <1>1, <1>2, <1>3, <1>4
<1> HIDE DEF bits, ms
<1>8. /\ base + RateOf(k) * ms \in Nat
      /\ Bits[k + 1] * Second <= base + RateOf(k) * ms
      /\ WholeChanges => Bits[k + 1] * Second = base + RateOf(k) * ms
  BY <1>3, <1>4, <1>5, <1>6, <1>7
<1> QED BY <1>8 DEF ms

\* Whatever has been due by now, and whether the change that is due now has been made
\* or not: the calculation for this moment does not exceed what has been carried.
LEMMA CarriedNow ==
  ASSUME ChangerInv, CapacityInv, m_info = Schedule, NEW k, Due(k, now)
  PROVE  /\ capacity \in Nat
         /\ TotalBits(k, now) * Second <= capacity
         /\ Changes # 0 /\ now > TimeOf(Changes) /\ WholeChanges =>
              capacity - TotalBits(k, now) * Second <= RateOf(Changes) * (Second - 1)
<1> DEFINE i == m_index
<1>1. /\ i \in 0..Changes /\ now \in Nat /\ TimeOf(i) <= now
      /\ i < Changes => now <= TimeOf(i + 1)
      /\ k \in 0..Changes /\ Changes \in Nat /\ Second \in Nat \ {0}
  BY ChangerInvTimes, ScheduleTypes, ChangerConstants DEF Due, ChangerConstants
<1>2. PICK base \in Nat :
        /\ capacity = base + RateOf(i) * (now - TimeOf(i))
        /\ Bits[i] * Second <= base
        /\ WholeChanges => Bits[i] * Second = base
        /\ i = 0 => base = 0
  BY DEF CapacityInv
<1>3. now - TimeOf(i) \in Nat /\ RateOf(i) * (now - TimeOf(i)) \in Nat
  BY <1>1, ScheduleTypes
<1>4. capacity \in Nat
  BY <1>2, <1>3
<1>5. Bits[i] \in Nat /\ Bits[k] \in Nat
  BY <1>1, ScheduledBits
<1> HIDE DEF i
<1>6. CASE k = i
  <2>1. CASE k # 0 /\ now > TimeOf(Changes)
    <3>1. k = Changes
      <4> SUFFICES ASSUME k # Changes PROVE FALSE
        OBVIOUS
      <4>1. Changes \in (k + 1)..Changes
        BY <1>1
      <4>2. now <= TimeOf(Changes) /\ TimeOf(Changes) \in Nat
        BY <4>1, <1>1, ScheduleTypes DEF Due
      <4> QED BY <1>1, <2>1, <4>2
    <3> DEFINE ms == now - TimeOf(k)
               bits == RateOf(k) * WholeSeconds(ms)
    <3>2. TotalBits(k, now) = Bits[k] + bits
      BY <2>1, <3>1 DEF TotalBits
    <3>3. /\ bits \in Nat /\ bits * Second <= RateOf(k) * ms
          /\ RateOf(k) * ms - bits * Second <= RateOf(k) * (Second - 1)
      <4>1. ms \in Nat /\ RateOf(k) \in Nat
        BY <1>1, <1>3, <1>6, ScheduleTypes
      <4> HIDE DEF ms
      <4> QED BY <4>1, WholeSecondsCarry
    <3>4. (Bits[k] + bits) * Second = Bits[k] * Second + bits * Second
      BY <1>1, <1>5, <3>3
    <3>5. /\ capacity = base + RateOf(k) * ms /\ Bits[k] * Second <= base
          /\ WholeChanges => Bits[k] * Second = base
      BY <1>2, <1>6
    <3>6. RateOf(k) * ms \in Nat /\ bits * Second \in Nat /\ Bits[k] * Second \in Nat
          /\ RateOf(k) * (Second - 1) \in Nat
      <4>1. RateOf(k) \in Nat
        BY <1>1, ScheduleTypes
      <4> QED BY <1>1, <1>3, <1>5, <1>6, <3>3, <4>1
    <3> HIDE DEF bits, ms
    <3>7. TotalBits(k, now) * Second <= capacity
      BY <3>2, <3>3, <3>4, <3>5, <3>6
    <3>8. WholeChanges => capacity - TotalBits(k, now) * Second <= RateOf(k) * (Second - 1)
      BY <3>2, <3>3, <3>4, <3>5, <3>6
    <3> QED BY <1>4, <3>1, <3>7, <3>8
  <2>2. CASE k # 0 /\ ~(now > TimeOf(Changes))
    <3>1. TotalBits(k, now) = Bits[k]
      BY <1>5, <2>2 DEF TotalBits
    <3>2. Bits[k] * Second \in Nat
      BY <1>1, <1>5
    <3> QED BY <1>2, <1>3, <1>4, <1>6, <2>2, <3>1, <3>2
  <2>3. CASE k = 0
    <3>1. TotalBits(k, now) * Second = 0
      BY <1>1, <2>3 DEF TotalBits
    <3>2. Changes # 0 => ~(now > TimeOf(Changes))
      <4> SUFFICES ASSUME Changes # 0 PROVE ~(now > TimeOf(Changes))
        OBVIOUS
      <4>1. Changes \in (k + 1)..Changes
        BY <1>1, <2>3
      <4>2. now <= TimeOf(Changes) /\ TimeOf(Changes) \in Nat
        BY <4>1, <1>1, ScheduleTypes DEF Due
      <4> QED BY <1>1, <4>2
    <3> QED BY <1>4, <3>1, <3>2
  <2> QED BY <2>1, <2>2, <2>3
<1>7. CASE k # i
  <2>1. ~(i < k)
    <3> SUFFICES ASSUME i < k PROVE FALSE
      OBVIOUS
    <3>1. i + 1 \in 1..k /\ i < Changes /\ i + 1 \in 0..Changes
      BY <1>1
    <3>2. TimeOf(i + 1) < now /\ TimeOf(i + 1) \in Nat
      BY <3>1, ScheduleTypes DEF Due
    <3> QED BY <1>1, <3>1, <3>2
  <2>2. k < i /\ i \in (k + 1)..Changes /\ i \in 1..Changes /\ k + 1 \in 1..Changes
    BY <1>1, <1>7, <2>1
  <2>3. now = TimeOf(i)
    <3>1. now <= TimeOf(i) /\ TimeOf(i) \in Nat
      BY <1>1, <2>2, ScheduleTypes DEF Due
    <3> QED BY <1>1, <3>1
  <2>4. k = i - 1
    <3> SUFFICES ASSUME k + 1 < i PROVE FALSE
      BY <1>1, <2>2
    <3>1. k + 1 \in (k + 1)..Changes
      BY <1>1, <2>2
    <3>2. TimeOf(k + 1) < TimeOf(i) /\ now <= TimeOf(k + 1)
      BY <2>2, <3>1, Later DEF Due
    <3>3. TimeOf(k + 1) \in Nat
      BY <1>1, <2>2, ScheduleTypes
    <3> QED BY <1>1, <2>3, <3>2, <3>3
  <2>5. ~(now > TimeOf(Changes))
    <3>1. i = Changes \/ TimeOf(i) < TimeOf(Changes)
      BY <1>1, <2>2, Later
    <3>2. TimeOf(Changes) \in Nat
      BY <1>1, ScheduleTypes
    <3> QED BY <1>1, <2>3, <3>1, <3>2
  <2>6. TotalBits(k, now) = 0 \/ TotalBits(k, now) = Bits[k]
    BY <1>5, <2>5 DEF TotalBits
  <2>7. Bits[k] <= Bits[i]
    BY <2>2, <2>4, BitsGrow
  <2>8. Bits[k] * Second <= Bits[i] * Second /\ Bits[k] * Second \in Nat /\ 0 * Second = 0
    BY <1>1, <1>5, <2>7
  <2>9. Bits[i] * Second <= capacity /\ Bits[i] * Second \in Nat
    BY <1>1, <1>2, <1>3, <1>5
  <2> QED BY <1>4, <2>5, <2>6, <2>8, <2>9
<1> QED BY <1>6, <1>7

LEMMA CapacityInit == ChangerInit => CapacityInv
<1> SUFFICES ASSUME ChangerInit PROVE CapacityInv
  OBVIOUS
<1>1. capacity = 0 + RateOf(m_index) * (now - TimeOf(m_index))
  BY ScheduleTypes DEF ChangerInit, TimeOf, RateOf
<1>2. Bits[m_index] * Second = 0 /\ 0 \in Nat
  BY ScheduledBits, ChangerConstants DEF ChangerInit, ChangerConstants
<1>3. PICK base \in Nat : base = 0
  OBVIOUS
<1> QED BY <1>1, <1>2, <1>3 DEF CapacityInv

LEMMA CapacityStep ==
  ASSUME ChangerInv, CapacityInv, [Configure \/ ResetBandwidth \/ Tick]_changerVars
  PROVE  CapacityInv'
<1>1. CASE Configure \/ UNCHANGED changerVars
  <2>1. UNCHANGED <<now, m_index, capacity>>
    BY <1>1 DEF Configure, changerVars
  <2> QED BY <2>1 DEF CapacityInv
<1>2. PICK k \in 0..Changes : k = m_index
  BY ChangerInvTimes
<1>3. PICK base \in Nat :
        /\ capacity = base + RateOf(k) * (now - TimeOf(k))
        /\ Bits[k] * Second <= base
        /\ WholeChanges => Bits[k] * Second = base
        /\ k = 0 => base = 0
  BY <1>2 DEF CapacityInv
<1>4. now \in Nat /\ TimeOf(k) \in Nat /\ RateOf(k) \in Nat /\ k \in Nat
  BY <1>2, ChangerInvTimes, ScheduleTypes
<1>5. CASE ResetBandwidth
  <2>1. m_info = Schedule /\ k < Changes
    BY <1>2, <1>5, <1>4 DEF ResetBandwidth, ChangerInv, Never, Changes
  <2>2. /\ now' = TimeOf(k + 1) /\ m_index' = k + 1 /\ capacity' = capacity
        /\ now = TimeOf(k + 1)
    BY <1>2, <1>5, <2>1, ChangerInvTimes DEF ResetBandwidth
  <2>3. k + 1 \in 1..Changes /\ k + 1 \in 0..Changes /\ k + 1 # 0
    BY <1>4, <2>1, ScheduleTypes
  <2> DEFINE next == base + RateOf(k) * (TimeOf(k + 1) - TimeOf(k))
  <2>4. /\ next \in Nat /\ Bits[k + 1] * Second <= next
        /\ WholeChanges => Bits[k + 1] * Second = next
    BY <1>2, <1>3, <2>3, SegmentEnds
  <2>5. capacity' = next
    BY <1>3, <2>2
  <2>6. RateOf(k + 1) * (now' - TimeOf(k + 1)) = 0 /\ TimeOf(k + 1) \in Nat
    BY <2>2, <2>3, ScheduleTypes
  <2> HIDE DEF next
  <2>7. capacity' = next + RateOf(k + 1) * (now' - TimeOf(k + 1))
    BY <2>4, <2>5, <2>6
  <2> QED BY <2>2, <2>3, <2>4, <2>7 DEF CapacityInv
<1>6. CASE Tick
  <2>1. now' = now + 1 /\ m_index' = k /\ capacity' = capacity + RateOf(k)
    BY <1>2, <1>6, ChangerInvTimes DEF Tick
  <2>2. RateOf(k) * ((now + 1) - TimeOf(k)) = RateOf(k) * (now - TimeOf(k)) + RateOf(k)
    BY <1>4
  <2>3. RateOf(k) * (now - TimeOf(k)) \in Int
    BY <1>4
  <2>4. capacity' = base + RateOf(k) * (now' - TimeOf(k))
    BY <1>3, <1>4, <2>1, <2>2, <2>3
  <2> QED BY <1>3, <2>1, <2>4 DEF CapacityInv
<1> QED BY <1>1, <1>5, <1>6
------------------------------------------------------------------------------
\* What the calculator knows: nothing before the event loop; then the last receipt,
\* before which no more was received than the link had carried since the start.
Before == {"main", "folder", "install"}

ReceiptInv ==
  /\ stage \in Before \cup {"run", "over", "reported", "exit"}
  /\ stage \in Before => m_receiptMillis = 0 /\ carried = 0 /\ m_readBytes = 0
  /\ changer \in BOOLEAN /\ (~changer => m_info = <<>>)
  /\ m_receiptMillis \in Nat /\ carried \in Nat /\ m_readBytes \in Nat
  /\ m_receiptMillis <= now
  /\ m_readBytes > 0 => m_readBytes <= carried - InitialRate * AppStart
  /\ m_info = <<>> => carried = InitialRate * m_receiptMillis
  /\ m_info # <<>> => \A k : Due(k, m_receiptMillis) =>
       /\ TotalBits(k, m_receiptMillis) * Second <= carried
       /\ m_receiptMillis > TimeOf(Changes) /\ WholeChanges =>
            carried - TotalBits(k, m_receiptMillis) * Second <= RateOf(Changes) * (Second - 1)

LEMMA ReceiptInit == Init => ReceiptInv
<1> SUFFICES ASSUME Init PROVE ReceiptInv
  OBVIOUS
<1>1. InitialRate * m_receiptMillis = 0
  BY ScheduleTypes DEF Init
<1> QED BY <1>1 DEF Init, ChangerInit, ReceiptInv, Before

\* StepFunctions that configure nothing and receive nothing.
LEMMA ReceiptKept ==
  ASSUME ReceiptInv, now \in Nat, now' \in Nat, now <= now',
         UNCHANGED <<m_info, changer, m_receiptMillis, carried, m_readBytes>>,
         stage' \in Before \cup {"run", "over", "reported", "exit"},
         stage' \in Before => stage \in Before
  PROVE  ReceiptInv'
<1>1. m_receiptMillis \in Nat /\ m_receiptMillis <= now
  BY DEF ReceiptInv
<1>2. m_receiptMillis' <= now'
  BY <1>1
<1> QED BY <1>2 DEF ReceiptInv

LEMMA ReceiptAtCreation ==
  ASSUME ChangerInv, ReceiptInv, CreateSessions
  PROVE  ReceiptInv'
<1>1. /\ stage = "folder" /\ stage' = "install"
      /\ UNCHANGED <<now, changer, m_receiptMillis, carried, m_readBytes>>
  BY DEF CreateSessions, Configure, changerVars
<1>2. now \in Nat
  BY DEF ChangerInv
<1>3. CASE m_info' = m_info
  BY <1>1, <1>2, <1>3, ReceiptKept DEF Before
<1>4. CASE changer /\ Configure
  <2>1. m_info' = Schedule /\ Schedule # <<>>
    BY <1>4 DEF Configure
  <2>2. m_receiptMillis = 0 /\ carried = 0 /\ m_readBytes = 0
    BY <1>1 DEF ReceiptInv, Before
  <2>3. Changes \in Nat \ {0} /\ TimeOf(1) \in Nat /\ TimeOf(Changes) \in Nat
    BY <2>1, ScheduleIncreases, ScheduleTypes DEF Changes
  <2>4. ASSUME NEW k, Due(k, 0)
        PROVE  TotalBits(k, 0) * Second <= 0 /\ ~(0 > TimeOf(Changes))
    <3>1. k = 0
      <4> SUFFICES ASSUME k # 0 PROVE FALSE
        OBVIOUS
      <4>1. 1 \in 1..k
        BY <2>3, <2>4 DEF Due
      <4> QED BY <2>3, <2>4, <4>1 DEF Due
    <3> QED BY <2>3, <3>1, ChangerConstants DEF TotalBits, ChangerConstants
  <2> QED BY <1>1, <1>4, <2>1, <2>2, <2>4 DEF ReceiptInv, Before
<1> QED BY <1>3, <1>4 DEF CreateSessions, changerVars

LEMMA ReceiptAtReceipt ==
  ASSUME ChangerInv, CapacityInv, ReceiptInv,
         NEW from \in Clients, NEW size \in 1..capacity, RecvPacket(from, size)
  PROVE  ReceiptInv'
<1>1. /\ stage = "run" /\ stage' = stage /\ now' = now /\ now \in Nat
      /\ UNCHANGED <<m_info, changer>>
  BY DEF RecvPacket, changerVars, ChangerInv
<1>2. CASE UNCHANGED <<m_readBytes, m_receiptMillis, carried>>
  BY <1>1, <1>2, ReceiptKept DEF Before
<1>3. CASE OnPacketInfo(size)
  <2>1. m_receiptMillis' = now /\ carried' = capacity /\ m_readBytes' = m_readBytes + size
    BY <1>3 DEF OnPacketInfo
  <2>2. size <= capacity - InitialRate * AppStart - m_readBytes
    BY DEF RecvPacket
  <2>3. capacity \in Nat /\ (m_info = <<>> => capacity = InitialRate * now)
    <3>1. m_index \in 0..Changes /\ TimeOf(m_index) <= now
      BY ChangerInvTimes
    <3>2. TimeOf(m_index) \in Nat /\ RateOf(m_index) \in Nat
      BY <3>1, ScheduleTypes
    <3>3. RateOf(m_index) * (now - TimeOf(m_index)) \in Nat
      BY <1>1, <3>1, <3>2
    <3>4. m_info = <<>> => m_index = 0
      BY DEF ChangerInv
    <3>5. m_index = 0 => RateOf(m_index) = InitialRate /\ now - TimeOf(m_index) = now
      BY <1>1 DEF RateOf, TimeOf
    <3>6. PICK base \in Nat : /\ capacity = base + RateOf(m_index) * (now - TimeOf(m_index))
                              /\ m_index = 0 => base = 0
      BY DEF CapacityInv
    <3>7. capacity \in Nat
      BY <3>3, <3>6
    <3>8. m_index = 0 => capacity = RateOf(m_index) * (now - TimeOf(m_index))
      BY <3>3, <3>6
    <3> QED BY <3>4, <3>5, <3>7, <3>8
  <2>4. InitialRate * AppStart \in Nat
    <3>1. AppStart \in Nat
      BY StaticConstants DEF StaticConstants, AppStart
    <3> QED BY <3>1, ScheduleTypes
  <2>5. m_readBytes' \in Nat /\ m_readBytes' <= carried' - InitialRate * AppStart
    BY <2>1, <2>2, <2>3, <2>4 DEF ReceiptInv
  <2>6. ASSUME m_info # <<>>, NEW k, Due(k, now)
        PROVE  /\ TotalBits(k, now) * Second <= capacity
               /\ now > TimeOf(Changes) /\ WholeChanges =>
                    capacity - TotalBits(k, now) * Second <= RateOf(Changes) * (Second - 1)
    <3>1. m_info = Schedule /\ Schedule # <<>>
      BY <2>6 DEF ChangerInv
    <3>2. Changes # 0
      BY <3>1, ScheduleIncreases, ChangerConstants DEF Changes, ChangerConstants
    <3> QED BY <2>6, <3>1, <3>2, CarriedNow
  <2> QED BY <1>1, <2>1, <2>3, <2>5, <2>6 DEF ReceiptInv, Before
<1> QED BY <1>2, <1>3 DEF RecvPacket

LEMMA ReceiptStep ==
  ASSUME ChangerInv, CapacityInv, ReceiptInv, [Next]_vars
  PROVE  ReceiptInv'
<1>0. now \in Nat /\ now <= now
  BY DEF ChangerInv
<1>1. CASE SetTraceFolder \/ RunReturns \/ Report \/ DeleteTraces
  BY <1>0, <1>1, ReceiptKept DEF SetTraceFolder, RunReturns, Report, DeleteTraces, changerVars,
     Before
<1>2. CASE CreateSessions
  BY <1>2, ReceiptAtCreation
<1>3. CASE ChangeBandwidth
  BY <1>0, <1>3, ReceiptKept DEF ChangeBandwidth, ResetBandwidth, programVars, Before
<1>4. CASE TimePasses
  <2>1. now' \in Nat /\ now <= now'
    BY <1>0, <1>4 DEF TimePasses, Tick
  <2> QED BY <1>0, <1>4, <2>1, ReceiptKept DEF TimePasses, Tick, programVars, Before
<1>5. ASSUME NEW c \in Clients, InstallWebrtcApplication(c) PROVE ReceiptInv'
  BY <1>0, <1>5, ReceiptKept DEF InstallWebrtcApplication, changerVars, Before
<1>6. ASSUME NEW c \in Clients, NEW size \in 1..capacity, RecvPacket(c, size)
      PROVE  ReceiptInv'
  BY <1>6, ReceiptAtReceipt
<1>7. ASSUME NEW a \in Apps, ApplicationEvent(a) PROVE ReceiptInv'
  BY <1>0, <1>7, ReceiptKept DEF ApplicationEvent, changerVars, Before
<1>8. CASE Exited \/ UNCHANGED vars
  BY <1>0, <1>8, ReceiptKept DEF Exited, vars, programVars, changerVars, Before, ReceiptInv
<1> QED BY <1>1, <1>2, <1>3, <1>4, <1>5, <1>6, <1>7, <1>8 DEF Next
------------------------------------------------------------------------------
\* What is reported for a last receipt at a moment.
ReportedBits(info, ch, t) ==
  IF info # <<>> THEN TotalBits(CHOOSE k : Due(k, t), t)
  ELSE IF ~ch /\ t > AppStart THEN InitialRate * WholeSeconds(t - AppStart) ELSE 0

ReportInv ==
  /\ Reported => channel_bit = ReportedBits(m_info, changer, m_receiptMillis)
  /\ UtilFile \in written => Reported /\ channel_bit > 0

LEMMA LinkBitsReported ==
  ASSUME ChangerInv, ReceiptInv
  PROVE  LinkBits = ReportedBits(m_info, changer, m_receiptMillis)
<1>1. m_receiptMillis \in Nat
  BY DEF ReceiptInv
<1>2. CASE m_info # <<>>
  <2>1. m_info = Schedule /\ changer
    BY <1>2 DEF ChangerInv, ReceiptInv
  <2> DEFINE k == CHOOSE k : Due(k, m_receiptMillis)
  <2>2. Due(k, m_receiptMillis)
    BY <1>1, SomeDue
  <2> HIDE DEF k
  <2>3. TotalThroughput(m_receiptMillis) = TotalBits(k, m_receiptMillis)
    BY <1>1, <2>1, <2>2, TotalIs
  <2> QED BY <1>2, <2>1, <2>3 DEF LinkBits, ReportedBits, k
<1>3. CASE m_info = <<>>
  <2>1. LowerBoundIndex(m_receiptMillis) = 0
    <3>1. {i \in DOMAIN m_info : m_info[i].first < m_receiptMillis} = {}
      BY <1>3
    <3> QED BY <3>1, FS_EmptySet DEF LowerBoundIndex
  <2>2. TotalThroughput(m_receiptMillis) = 0
    BY <2>1 DEF TotalThroughput
  <2> QED BY <1>3, <2>2 DEF LinkBits, ReportedBits
<1> QED BY <1>2, <1>3

LEMMA ReportInit == Init => ReportInv
BY DEF Init, ReportInv, Reported

LEMMA ReportStep ==
  ASSUME ChangerInv, ReceiptInv, ReportInv, [Next]_vars
  PROVE  ReportInv'
<1>1. CASE UNCHANGED <<m_info, changer, m_receiptMillis, channel_bit, written, stage>>
  BY <1>1 DEF ReportInv, Reported
<1>2. CASE SetTraceFolder \/ RunReturns \/ CreateSessions
  BY <1>2 DEF SetTraceFolder, RunReturns, CreateSessions, ReportInv, Reported
<1>3. ASSUME NEW c \in Clients, InstallWebrtcApplication(c) PROVE ReportInv'
  BY <1>3 DEF InstallWebrtcApplication, ReportInv, Reported
<1>4. ASSUME NEW c \in Clients, NEW size \in 1..capacity, RecvPacket(c, size)
      PROVE  ReportInv'
  BY <1>4 DEF RecvPacket, ReportInv, Reported
<1>5. CASE Report
  <2>1. /\ stage = "over" /\ stage' = "reported" /\ channel_bit' = LinkBits
        /\ UNCHANGED <<m_info, changer, m_receiptMillis>>
        /\ UtilFile \in written' => UtilFile \in written \/ LinkBits > 0
    BY <1>5 DEF Report, changerVars
  <2> QED BY <2>1, LinkBitsReported DEF ReportInv, Reported
<1>6. CASE DeleteTraces
  <2>1. UtilFile \notin CloseTraceLossFile
    BY DEF UtilFile, CloseTraceLossFile
  <2> QED BY <1>6, <2>1 DEF DeleteTraces, changerVars, ReportInv, Reported
<1>7. CASE ChangeBandwidth \/ TimePasses
  <2>1. UNCHANGED <<m_info, programVars>>
    BY <1>7 DEF ChangeBandwidth, ResetBandwidth, TimePasses, Tick
  <2> QED BY <1>1, <2>1 DEF programVars
<1>8. ASSUME NEW a \in Apps, ApplicationEvent(a) PROVE ReportInv'
  BY <1>1, <1>8 DEF ApplicationEvent, changerVars
<1>9. CASE Exited \/ UNCHANGED vars
  BY <1>1, <1>9 DEF Exited, vars, programVars, changerVars
<1> QED BY <1>2, <1>3, <1>4, <1>5, <1>6, <1>7, <1>8, <1>9 DEF Next

\* The answer is right by what the calculator knows.
LEMMA ReportAccounted ==
  ASSUME ChangerInv, ReceiptInv, ReportInv
  PROVE  /\ ThroughputAccounted
         /\ UtilAtMostFull
<1> SUFFICES ASSUME Reported PROVE ThroughputAccounted /\ UtilAtMostFull
  BY DEF ThroughputAccounted, UtilAtMostFull, ReportInv
<1> DEFINE r == m_receiptMillis
<1>1. /\ channel_bit = ReportedBits(m_info, changer, r) /\ r \in Nat /\ r <= now /\ now \in Nat
      /\ carried \in Nat /\ m_readBytes \in Nat /\ Second \in Nat \ {0}
      /\ InitialRate \in Nat /\ AppStart \in Nat /\ rate \in Nat
      /\ m_readBytes > 0 => m_readBytes <= carried - InitialRate * AppStart
  <2>1. AppStart \in Nat
    BY StaticConstants DEF StaticConstants, AppStart
  <2>2. Second \in Nat \ {0} /\ InitialRate \in Nat
    BY ChangerConstants DEF ChangerConstants
  <2>3. now \in Nat /\ rate \in Nat
    BY ChangerInvTimes
  <2> QED BY <2>1, <2>2, <2>3 DEF ReceiptInv, ReportInv
<1>2. InitialRate * AppStart \in Nat /\ rate * (Second - 1) \in Nat
  BY <1>1
<1>3. CASE m_info # <<>>
  <2>1. m_info = Schedule /\ Schedule # <<>> /\ changer
    BY <1>3 DEF ChangerInv, ReceiptInv
  <2>2. Changes \in Nat \ {0}
    BY <2>1, ScheduleIncreases, ChangerConstants DEF Changes, ChangerConstants
  <2>3. PICK k : k = CHOOSE i : Due(i, r)
    OBVIOUS
  <2>4. Due(k, r)
    BY <1>1, <2>3, SomeDue
  <2>5. channel_bit = TotalBits(k, r)
    BY <1>1, <1>3, <2>3 DEF ReportedBits
  <2>6. /\ channel_bit * Second <= carried
        /\ r > TimeOf(Changes) /\ WholeChanges =>
             carried - channel_bit * Second <= RateOf(Changes) * (Second - 1)
    BY <1>3, <2>4, <2>5 DEF ReceiptInv
  <2>7. ScheduleOver <=> r > TimeOf(Changes)
    BY <2>1, <2>2 DEF ScheduleOver, Last, TimeOf, Changes
  <2>8. WholeSecondChanges <=> WholeChanges
    BY <2>1, ScheduleIncreases DEF WholeSecondChanges, WholeChanges, TimeOf, Changes
  <2>9. r > TimeOf(Changes) => rate = RateOf(Changes)
    <3> SUFFICES ASSUME r > TimeOf(Changes) PROVE m_index = Changes
      BY ChangerInvTimes
    <3> SUFFICES ASSUME m_index # Changes PROVE FALSE
      OBVIOUS
    <3>1. m_index < Changes /\ now <= TimeOf(m_index + 1) /\ m_index + 1 \in 1..Changes
      BY <2>1, <2>2, ChangerInvTimes
    <3>2. m_index + 1 = Changes \/ TimeOf(m_index + 1) < TimeOf(Changes)
      BY <2>2, <3>1, Later
    <3>3. TimeOf(m_index + 1) \in Nat /\ TimeOf(Changes) \in Nat
      BY <2>2, <3>1, ScheduleTypes
    <3> QED BY <1>1, <3>1, <3>2, <3>3
  <2>10. ThroughputAccounted
    BY <2>6, <2>7, <2>8, <2>9 DEF ThroughputAccounted
  <2>11. channel_bit * Second \in Nat
    <3>1. TotalBits(k, r) \in Nat
      <4>1. k \in 0..Changes
        BY <2>4 DEF Due
      <4>2. Bits[k] \in Nat
        BY <4>1, ScheduledBits
      <4>3. r > TimeOf(Changes) => r - TimeOf(Changes) \in Nat
        BY <1>1, <2>2, ScheduleTypes
      <4>4. r > TimeOf(Changes) => RateOf(Changes) * WholeSeconds(r - TimeOf(Changes)) \in Nat
        BY <2>2, <4>3, ScheduleTypes, WholeSecondsCarry
      <4> QED BY <4>2, <4>4 DEF TotalBits
    <3> QED BY <1>1, <2>5, <3>1
  <2>12. UtilAtMostFull
    <3> SUFFICES ASSUME ScheduleOver, WholeSecondChanges
                 PROVE  m_readBytes <= channel_bit * Second + rate * (Second - 1)
      BY <2>1 DEF UtilAtMostFull
    <3>1. carried - channel_bit * Second <= rate * (Second - 1)
      BY <2>6, <2>7, <2>8, <2>9
    <3> QED BY <1>1, <1>2, <2>11, <3>1
  <2> QED BY <2>10, <2>12
<1>4. CASE m_info = <<>>
  <2>1. carried = InitialRate * r /\ rate = InitialRate
    BY <1>4 DEF ReceiptInv, ChangerInv
  <2>2. CASE ~changer /\ r > AppStart
    <3> DEFINE ms == r - AppStart
    <3>1. channel_bit = InitialRate * WholeSeconds(ms)
      BY <1>1, <1>4, <2>2 DEF ReportedBits
    <3>2. ms \in Nat
      BY <1>1, <2>2
    <3>3. InitialRate * r = InitialRate * ms + InitialRate * AppStart
      BY <1>1
    <3> HIDE DEF ms
    <3>4. /\ channel_bit * Second <= InitialRate * ms
          /\ InitialRate * ms - channel_bit * Second <= InitialRate * (Second - 1)
          /\ channel_bit \in Nat
      BY <1>1, <3>1, <3>2, WholeSecondsCarry
    <3>5. InitialRate * ms \in Nat /\ channel_bit * Second \in Nat
      BY <1>1, <3>2, <3>4
    <3>6. ThroughputAccounted
      BY <1>1, <1>2, <1>4, <2>1, <3>3, <3>4, <3>5 DEF ThroughputAccounted, ScheduleOver
    <3>7. UtilAtMostFull
      BY <1>1, <1>2, <2>1, <3>3, <3>4, <3>5 DEF UtilAtMostFull
    <3> QED BY <3>6, <3>7
  <2>3. CASE ~(~changer /\ r > AppStart)
    <3>1. channel_bit = 0
      BY <1>1, <1>4, <2>3 DEF ReportedBits
    <3> QED BY <1>1, <1>4, <3>1 DEF ThroughputAccounted, ScheduleOver, UtilAtMostFull, ReportInv
  <2> QED BY <2>2, <2>3
<1> QED BY <1>3, <1>4

LEMMA AccountsInvariant == Spec => [](ChangerInv /\ CapacityInv /\ ReceiptInv /\ ReportInv)
<1>1. Init => ChangerInv /\ CapacityInv /\ ReceiptInv /\ ReportInv
  BY ChangerInitInv, CapacityInit, ReceiptInit, ReportInit DEF Init
<1>2. ASSUME ChangerInv, CapacityInv, ReceiptInv, ReportInv, [Next]_vars,
             [Configure \/ ResetBandwidth \/ Tick]_changerVars
      PROVE  ChangerInv' /\ CapacityInv' /\ ReceiptInv' /\ ReportInv'
  BY <1>2, ChangerStep, CapacityStep, ReceiptStep, ReportStep
<1> QED BY <1>1, <1>2, ProgramImplementsChanger, PTL DEF Spec, ChangerSpec

\* However many changes there are, and whenever the last packet comes: the bits the
\* program relates the received bytes to are what the link could carry until then,
\* up to the whole seconds of the calculation.
THEOREM ThroughputCorrect == Spec => []ThroughputAccounted
<1>1. ChangerInv /\ CapacityInv /\ ReceiptInv /\ ReportInv => ThroughputAccounted
  BY ReportAccounted
<1> QED BY <1>1, AccountsInvariant, PTL

\* No utilisation above 100 per cent is reported but by those whole seconds.
THEOREM UtilCorrect == Spec => []UtilAtMostFull
<1>1. ChangerInv /\ CapacityInv /\ ReceiptInv /\ ReportInv => UtilAtMostFull
  BY ReportAccounted
<1> QED BY <1>1, AccountsInvariant, PTL
------------------------------------------------------------------------------
(* The results *)

LEMMA DirectoriesIs ==
  /\ \A p \in 0..PathLength : Directories(p) = p
  /\ Directories(PathLength + 1) = PathLength
  /\ PathLength \in Nat \ {0}
<1>1. PathLength \in Nat \ {0}
  BY StaticConstants DEF StaticConstants
<1>2. ASSUME NEW a \in Nat, NEW b \in Nat, a <= b PROVE Min({a, b}) = a /\ Min({b, a}) = a
  <2>1. \A x \in {a, b} : (\A y \in {a, b} : x <= y) => x = a
    BY <1>2
  <2>2. a \in {a, b} /\ \A y \in {a, b} : a <= y
    BY <1>2
  <2>3. Min({a, b}) = a
    BY <2>1, <2>2 DEF Min
  <2>4. {a, b} = {b, a}
    OBVIOUS
  <2> QED BY <2>3, <2>4
<1>3. ASSUME NEW p \in 0..PathLength PROVE Directories(p) = p
  BY <1>1, <1>2 DEF Directories
<1>4. Directories(PathLength + 1) = PathLength
  BY <1>1, <1>2 DEF Directories
<1> QED BY <1>1, <1>3, <1>4

FolderTypes ==
  /\ depth \in 0..PathLength /\ blocked \in (depth + 1)..(PathLength + 1)
  /\ taken \in BOOLEAN /\ (taken => blocked = depth + 1 /\ blocked <= PathLength)

\* What mkdir returns for each prefix of the path.
LEMMA MkdirReturns ==
  ASSUME FolderTypes, NEW p \in 0..(PathLength + 1), NEW d \in depth..(blocked - 1)
  PROVE  /\ Directories(p) <= d => Mkdir(p, d) = "EEXIST"
         /\ Directories(p) = d + 1 /\ Directories(p) < blocked => Mkdir(p, d) = "none"
         /\ Directories(p) = d + 1 /\ Directories(p) = blocked => Mkdir(p, d) # "none"
         /\ Directories(p) > d + 1 => Mkdir(p, d) = IF taken THEN "ENOTDIR" ELSE "ENOENT"
<1>1. PICK l \in Nat : l = Directories(p)
  <2>1. Directories(p) \in Nat
    <3>1. p \in 0..PathLength \/ p = PathLength + 1
      BY DirectoriesIs
    <3> QED BY <3>1, DirectoriesIs
  <2> QED BY <2>1
<1>2. d \in Nat /\ blocked \in Nat /\ d < blocked
  BY DirectoriesIs DEF FolderTypes
<1>3. CASE l <= d
  BY <1>1, <1>3 DEF Mkdir, IsDirExist
<1>4. CASE l = d + 1 /\ l # blocked
  BY <1>1, <1>2, <1>4 DEF Mkdir, IsDirExist
<1>5. CASE l = d + 1 /\ l = blocked
  BY <1>1, <1>2, <1>5 DEF Mkdir, IsDirExist
<1>6. CASE l > d + 1
  BY <1>1, <1>2, <1>6 DEF Mkdir, IsDirExist
<1> QED BY <1>1, <1>2, <1>3, <1>4, <1>5, <1>6

\* However many of the directories are missing, MakePath makes those that can be made,
\* even where it reports a failure.
LEMMA MakePathMakes ==
  ASSUME FolderTypes
  PROVE  MakePath(PathLength + 1, depth).depth = blocked - 1
<1> DEFINE n == PathLength + 1
           d == depth
           Result == [ok : BOOLEAN, depth : Int]
           Again(p, parent) == parent.ok /\ Mkdir(p, parent.depth) = "none"
           Make(p, parent) ==
             CASE p = 0 -> [ok |-> FALSE, depth |-> d]
               [] p > 0 /\ Mkdir(p, d) = "none" -> [ok |-> TRUE, depth |-> d + 1]
               [] p > 0 /\ Mkdir(p, d) = "ENOENT" ->
                    [ok |-> Again(p, parent),
                     depth |-> IF Again(p, parent) THEN parent.depth + 1 ELSE parent.depth]
               [] OTHER -> [ok |-> Mkdir(p, d) = "EEXIST" /\ IsDirExist(p, d), depth |-> d]
           Makes(f) == f = [p \in 0..n |-> Make(p, f[p - 1])]
           first == [ok |-> FALSE, depth |-> d]
           t == [p \in 1..n |-> [parent \in Result |-> Make(p, parent)]]
<1>1. /\ n \in Nat /\ d \in Nat /\ d < blocked /\ blocked <= n /\ blocked \in Nat
      /\ PathLength \in Nat /\ PathLength > 0
  BY DirectoriesIs DEF FolderTypes
<1>2. first \in Result
  BY <1>1
<1>3. ASSUME NEW p \in Nat, NEW parent \in Result PROVE Make(p, parent) \in Result
  <2>1. Again(p, parent) \in BOOLEAN /\ parent.depth \in Int
    BY <1>3
  <2> HIDE DEF Again
  <2>2. CASE p = 0
    BY <1>1, <2>2
  <2>3. CASE p > 0 /\ Mkdir(p, d) = "none"
    BY <1>1, <2>3
  <2>4. CASE p > 0 /\ Mkdir(p, d) = "ENOENT"
    BY <1>1, <2>1, <2>4
  <2>5. CASE ~(p = 0) /\ ~(p > 0 /\ Mkdir(p, d) = "none") /\ ~(p > 0 /\ Mkdir(p, d) = "ENOENT")
    <3>1. PICK r \in BOOLEAN : r = (Mkdir(p, d) = "EEXIST" /\ IsDirExist(p, d))
      OBVIOUS
    <3>2. Make(p, parent) = [ok |-> r, depth |-> d]
      BY <2>5, <3>1
    <3> QED BY <1>1, <3>2
  <2> QED BY <2>2, <2>3, <2>4, <2>5
<1>4. \A parent : Make(0, parent) = first
  <2>1. ~(0 > 0)
    OBVIOUS
  <2> QED BY <2>1
<1> HIDE DEF Result, Make, first
<1>5. PICK f : Iterates(f, Result, first, n, t)
  <2>1. t \in StepFunctions(Result, n)
    BY <1>1, <1>3 DEF StepFunctions
  <2> HIDE DEF t, n
  <2> QED BY <1>1, <1>2, <2>1, Iteration
<1>6. f \in [0..n -> Result] /\ f[0] = first /\ \A p \in 1..n : f[p] = t[p][f[p - 1]]
  BY <1>5 DEF Iterates
<1>7. Makes(f)
  <2>1. \A p \in 1..n : f[p] = Make(p, f[p - 1])
    <3> TAKE p \in 1..n
    <3>1. p - 1 \in 0..n
      BY <1>1
    <3>2. f[p - 1] \in Result
      BY <1>6, <3>1
    <3> QED BY <1>6, <3>2
  <2>2. \A p \in 0..n : p = 0 \/ p \in 1..n
    BY <1>1
  <2>3. \A p \in 0..n : f[p] = Make(p, f[p - 1])
    BY <1>4, <1>6, <2>1, <2>2
  <2> HIDE DEF n
  <2> QED BY <1>6, <2>3
<1> DEFINE make == CHOOSE f1 : Makes(f1)
<1>8. Makes(make)
  <2> HIDE DEF Makes
  <2> QED BY <1>7
<1>9. \A p \in 0..n : make[p] = Make(p, make[p - 1])
  <2> HIDE DEF make
  <2> QED BY <1>8
<1>10. MakePath(n, d) = make[n]
  BY DEF MakePath, Make
<1> HIDE DEF make, Makes, t
<1> DEFINE Made(p) == IF p < blocked THEN [ok |-> TRUE, depth |-> p]
                      ELSE [ok |-> FALSE, depth |-> blocked - 1]
\* A prefix longer than what exists: what can be made of it is made.
<1>11. ASSUME NEW p \in (d + 1)..PathLength, p > d + 1 => make[p - 1] = Made(p - 1)
       PROVE  make[p] = Made(p)
  <2>1. p \in 0..n /\ p \in 0..PathLength /\ p > 0 /\ p \in Nat
    BY <1>1
  <2>2. make[p] = Make(p, make[p - 1]) /\ Directories(p) = p
    BY <1>9, <2>1, DirectoriesIs
  <2>3. CASE p = d + 1 /\ p < blocked
    <3>1. Mkdir(p, d) = "none"
      BY <1>1, <2>1, <2>2, <2>3, MkdirReturns
    <3> QED BY <2>1, <2>2, <2>3, <3>1 DEF Make
  <2>4. CASE p = d + 1 /\ p = blocked
    <3>1. Mkdir(p, d) \in {"EEXIST", "EACCES"} /\ ~IsDirExist(p, d)
      BY <1>1, <2>1, <2>2, <2>4 DEF Mkdir, IsDirExist
    <3>2. (Mkdir(p, d) = "EEXIST" /\ IsDirExist(p, d)) = FALSE
      BY <3>1
    <3>3. make[p] = [ok |-> FALSE, depth |-> d]
      BY <2>1, <2>2, <3>1, <3>2 DEF Make
    <3>4. ~(p < blocked) /\ blocked - 1 = d
      BY <1>1, <2>1, <2>4
    <3>5. Made(p) = [ok |-> FALSE, depth |-> blocked - 1]
      BY <3>4
    <3> QED BY <3>3, <3>4, <3>5
  <2>5. CASE p > d + 1 /\ taken
    <3>1. Mkdir(p, d) = "ENOTDIR"
      BY <1>1, <2>1, <2>2, <2>5, MkdirReturns
    <3>2. make[p] = [ok |-> FALSE, depth |-> d] /\ blocked = d + 1
      BY <2>1, <2>2, <2>5, <3>1 DEF Make, FolderTypes
    <3> QED BY <1>1, <2>1, <2>5, <3>2
  <2>6. CASE p > d + 1 /\ ~taken
    <3>1. Mkdir(p, d) = "ENOENT"
      BY <1>1, <2>1, <2>2, <2>6, MkdirReturns
    <3>2. PICK parent : parent = make[p - 1] /\ parent = Made(p - 1)
      BY <1>11, <2>6
    <3>3. make[p] = [ok |-> Again(p, parent),
                     depth |-> IF Again(p, parent) THEN parent.depth + 1 ELSE parent.depth]
      BY <2>1, <2>2, <3>1, <3>2 DEF Make
    <3>4. CASE p < blocked
      <4>1. parent = [ok |-> TRUE, depth |-> p - 1]
        BY <1>1, <2>1, <3>2, <3>4
      <4>2. p - 1 \in depth..(blocked - 1) /\ p = (p - 1) + 1
        BY <1>1, <2>1, <2>6, <3>4
      <4>3. Mkdir(p, p - 1) = "none"
        BY <2>1, <2>2, <3>4, <4>2, MkdirReturns
      <4> QED BY <2>1, <3>3, <3>4, <4>1, <4>2, <4>3
    <3>5. CASE p = blocked
      <4>1. parent = [ok |-> TRUE, depth |-> p - 1]
        BY <1>1, <2>1, <3>2, <3>5
      <4>2. p - 1 \in depth..(blocked - 1) /\ p = (p - 1) + 1
        BY <1>1, <2>1, <2>6, <3>5
      <4>3. Mkdir(p, p - 1) # "none"
        BY <2>1, <2>2, <3>5, <4>2, MkdirReturns
      <4>4. Again(p, parent) = FALSE
        BY <4>1, <4>3
      <4>5. make[p] = [ok |-> FALSE, depth |-> parent.depth]
        <5> HIDE DEF Again
        <5> QED BY <3>3, <4>4
      <4>6. Made(p) = [ok |-> FALSE, depth |-> blocked - 1] /\ parent.depth = blocked - 1
        BY <1>1, <2>1, <3>5, <4>1
      <4> QED BY <4>5, <4>6
    <3>6. CASE p > blocked
      <4>1. parent = [ok |-> FALSE, depth |-> blocked - 1]
        BY <1>1, <2>1, <3>2, <3>6
      <4>2. Again(p, parent) = FALSE
        BY <4>1
      <4>3. make[p] = [ok |-> FALSE, depth |-> parent.depth]
        <5> HIDE DEF Again
        <5> QED BY <3>3, <4>2
      <4>4. Made(p) = [ok |-> FALSE, depth |-> blocked - 1] /\ parent.depth = blocked - 1
        BY <1>1, <2>1, <3>6, <4>1
      <4> QED BY <4>3, <4>4
    <3> QED BY <1>1, <2>1, <3>4, <3>5, <3>6
  <2> QED BY <1>1, <2>1, <2>3, <2>4, <2>5, <2>6
<1> DEFINE Bad == {p \in (d + 1)..PathLength : make[p] # Made(p)}
<1>12. Bad = {}
  <2> SUFFICES ASSUME Bad # {} PROVE FALSE
    OBVIOUS
  <2>1. PICK p \in Bad : \A q \in Bad : p <= q
    <3>1. Bad \in SUBSET Nat
      BY <1>1
    <3> HIDE DEF Bad
    <3> QED BY <3>1, FirstNumber
  <2>2. p \in (d + 1)..PathLength /\ make[p] # Made(p)
    OBVIOUS
  <2>3. p > d + 1 => make[p - 1] = Made(p - 1)
    <3> SUFFICES ASSUME p > d + 1 PROVE make[p - 1] = Made(p - 1)
      OBVIOUS
    <3>1. p - 1 \in (d + 1)..PathLength /\ ~(p <= p - 1)
      BY <1>1, <2>2
    <3> HIDE DEF Made
    <3> QED BY <2>1, <3>1
  <2> HIDE DEF Made, Bad
  <2> QED BY <1>11, <2>2, <2>3
\* The whole path, with its trailing slash.
<1>13. make[n] = Make(n, make[PathLength]) /\ Directories(n) = PathLength /\ n > 0
  <2>1. n \in 0..n /\ n - 1 = PathLength
    BY <1>1
  <2> QED BY <1>1, <1>9, <2>1, DirectoriesIs
<1>14. n \in 0..(PathLength + 1) /\ d \in depth..(blocked - 1)
  BY <1>1
<1>15. CASE d = PathLength
  <2>1. Mkdir(n, d) = "EEXIST" /\ blocked = PathLength + 1
    BY <1>1, <1>13, <1>14, <1>15, MkdirReturns
  <2> QED BY <1>1, <1>10, <1>13, <1>15, <2>1 DEF Make
<1>16. CASE d + 1 = PathLength
  <2>1. CASE blocked = PathLength
    <3>1. Mkdir(n, d) \in {"EEXIST", "EACCES"}
      BY <1>1, <1>13, <1>16, <2>1 DEF Mkdir, IsDirExist
    <3> QED BY <1>1, <1>10, <1>13, <1>16, <2>1, <3>1 DEF Make
  <2>2. CASE blocked = PathLength + 1
    <3>1. Mkdir(n, d) = "none"
      BY <1>1, <1>13, <1>14, <1>16, <2>2, MkdirReturns
    <3> QED BY <1>1, <1>10, <1>13, <1>16, <2>2, <3>1 DEF Make
  <2> QED BY <1>1, <1>16, <2>1, <2>2
<1>17. CASE d + 1 < PathLength
  <2>1. make[PathLength] = Made(PathLength)
    <3>1. PathLength \in (d + 1)..PathLength
      BY <1>1, <1>17
    <3> HIDE DEF Made
    <3> QED BY <1>12, <3>1
  <2>2. CASE taken
    <3>1. Mkdir(n, d) = "ENOTDIR"
      BY <1>1, <1>13, <1>14, <1>17, <2>2, MkdirReturns
    <3>2. make[n] = [ok |-> FALSE, depth |-> d] /\ blocked = d + 1
      BY <1>13, <2>2, <3>1 DEF Make, FolderTypes
    <3> QED BY <1>1, <1>10, <3>2
  <2>3. CASE ~taken
    <3>1. Mkdir(n, d) = "ENOENT"
      BY <1>1, <1>13, <1>14, <1>17, <2>3, MkdirReturns
    <3>2. PICK parent : parent = make[PathLength] /\ parent = Made(PathLength)
      BY <2>1
    <3>3. make[n] = [ok |-> Again(n, parent),
                     depth |-> IF Again(n, parent) THEN parent.depth + 1 ELSE parent.depth]
      BY <1>13, <3>1, <3>2 DEF Make
    <3>4. CASE blocked = PathLength + 1
      <4>1. parent = [ok |-> TRUE, depth |-> PathLength]
        BY <1>1, <3>2, <3>4
      <4>2. Mkdir(n, PathLength) = "EEXIST"
        BY <1>1, <1>13 DEF Mkdir, IsDirExist
      <4> QED BY <1>1, <1>10, <3>3, <3>4, <4>1, <4>2
    <3>5. CASE blocked <= PathLength
      <4>1. parent = [ok |-> FALSE, depth |-> blocked - 1]
        BY <1>1, <3>2, <3>5
      <4> QED BY <1>1, <1>10, <3>3, <4>1
    <3> QED BY <1>1, <3>4, <3>5
  <2> QED BY <2>2, <2>3 DEF FolderTypes
<1> QED BY <1>1, <1>15, <1>16, <1>17

\* What may be missing when: the files of a client that can be are open from its set-up
\* to the end, and all clients are set up before the event loop.
ResultsInv ==
  /\ FolderTypes
  /\ stage # "main" => depth = blocked - 1
  /\ heard \subseteq Clients
  /\ stage # "exit" =>
       \A c \in Clients :
         /\ <<c, "loss">> \notin written
         /\ <<c, "loss">> \in open <=> app[Sender(c)] # "none" /\ Openable(<<c, "loss">>)
  /\ stage \notin Before => \A c \in Clients : app[Sender(c)] # "none"
  /\ stage = "exit" =>
       \A c \in Clients : <<c, "loss">> \in written <=> c \in heard /\ Openable(<<c, "loss">>)
  /\ UtilFile \in written => Openable(UtilFile)
  /\ Reported /\ channel_bit > 0 /\ m_readBytes > 0 /\ Openable(UtilFile) => UtilFile \in written

LEMMA ResultsInit == Init => ResultsInv
<1> SUFFICES ASSUME Init PROVE ResultsInv
  OBVIOUS
<1>1. stage = "main" /\ open = {} /\ written = {} /\ heard = {} /\ FolderTypes
  BY DEF Init, FolderTypes
<1>2. \A c \in Clients : app[Sender(c)] = "none"
  BY DEF Init, Apps, Sender
<1> QED BY <1>1, <1>2 DEF ResultsInv, Before, Reported

LEMMA ResultsInstalled ==
  ASSUME PortsInv, ResultsInv, NEW c \in Clients, InstallWebrtcApplication(c)
  PROVE  ResultsInv'
<1>1. /\ stage = "install" /\ stage' \in {"install", "run"}
      /\ stage' = "run" => c = Len(Starts)
      /\ \A b \in Clients : (app[Sender(b)] = "none") = (b >= c)
      /\ open' = open \cup Log(c)
      /\ app' = [app EXCEPT ![Sender(c)] = "new", ![Receiver(c)] = "new"]
      /\ UNCHANGED <<depth, heard, written, channel_bit, blocked, taken, unopenable>>
  BY DEF InstallWebrtcApplication, folderVars
<1>2. \A f : Openable(f)' = Openable(f)
  BY <1>1 DEF Openable
<1>3. \A b \in Clients : <<b, "loss">> \in Log(c) <=> b = c /\ Openable(<<b, "loss">>)
  <2>1. depth = blocked - 1 /\ blocked \in Int /\ PathLength \in Int /\ blocked <= PathLength + 1
    BY <1>1, DirectoriesIs DEF ResultsInv, FolderTypes
  <2>2. depth = PathLength <=> blocked > PathLength
    BY <2>1
  <2>3. \A b \in Clients : <<b, "loss">> \in TraceFiles /\ <<b, "loss">>[1] = b
    BY DEF TraceFiles
  <2> QED BY <2>2, <2>3 DEF Log, Openable
<1>4. app'[Sender(c)] # "none"
  BY <1>1, AppsOfClients DEF PortsInv
<1>5. ASSUME NEW b \in Clients, b # c
      PROVE  app'[Sender(b)] = app[Sender(b)]
  BY <1>1, <1>5, AppsOfClients DEF PortsInv
<1>6. stage' = "run" => \A b \in Clients : app'[Sender(b)] # "none"
  <2> SUFFICES ASSUME stage' = "run", NEW b \in Clients PROVE app'[Sender(b)] # "none"
    OBVIOUS
  <2>1. Clients = 1..Len(Starts) /\ Len(Starts) \in Nat
    BY StaticConstants DEF StaticConstants, Clients
  <2>2. b # c => ~(b >= c)
    BY <1>1, <2>1
  <2> QED BY <1>1, <1>4, <1>5, <2>2
<1>7. \A b \in Clients : /\ <<b, "loss">> \notin written
                         /\ <<b, "loss">> \in open <=> app[Sender(b)] # "none" /\ Openable(<<b, "loss">>)
  BY <1>1 DEF ResultsInv
<1>8. app[Sender(c)] = "none"
  <2>1. c >= c
    BY StaticConstants DEF StaticConstants, Clients
  <2> QED BY <1>1, <2>1
<1>9. \A b \in Clients :
        /\ <<b, "loss">> \notin written'
        /\ <<b, "loss">> \in open' <=> app'[Sender(b)] # "none" /\ Openable(<<b, "loss">>)
  <2> TAKE b \in Clients
  <2>1. CASE b = c
    BY <1>1, <1>3, <1>4, <1>7, <1>8, <2>1
  <2>2. CASE b # c
    BY <1>1, <1>3, <1>5, <1>7, <2>2
  <2> QED BY <2>1, <2>2
<1>10. FolderTypes' /\ depth' = blocked' - 1
  BY <1>1 DEF ResultsInv, FolderTypes
<1> QED BY <1>1, <1>2, <1>6, <1>9, <1>10 DEF ResultsInv, Before, Reported

\* Every step keeps it.
LEMMA ResultsStep ==
  ASSUME ChangerInv, PortsInv, ReceiptInv, ReportInv, ResultsInv, [Next]_vars
  PROVE  ResultsInv'
<1>1. ASSUME UNCHANGED <<depth, heard, open, written, app, stage, channel_bit, m_readBytes,
                         blocked, taken, unopenable>>
      PROVE  ResultsInv'
  BY <1>1 DEF ResultsInv, FolderTypes, Openable, Before, Reported
<1>a. ASSUME UNCHANGED <<blocked, taken, unopenable>>
      PROVE  (\A f : Openable(f)' = Openable(f)) /\ (UNCHANGED depth => FolderTypes')
  BY <1>a DEF Openable, ResultsInv, FolderTypes
<1>2. CASE SetTraceFolder
  <2>1. /\ depth' = blocked - 1 /\ stage = "main" /\ stage' = "folder"
        /\ UNCHANGED <<heard, open, written, app, channel_bit, m_readBytes, blocked, taken, unopenable>>
    BY <1>2, MakePathMakes DEF SetTraceFolder, ResultsInv, folderVars
  <2>2. FolderTypes'
    <3>1. blocked \in Nat /\ depth \in Nat /\ PathLength \in Nat /\ depth < blocked
          /\ blocked <= PathLength + 1
      BY DirectoriesIs DEF ResultsInv, FolderTypes
    <3>2. taken => blocked = depth + 1
      BY DEF ResultsInv, FolderTypes
    <3> QED BY <2>1, <3>1, <3>2 DEF ResultsInv, FolderTypes
  <2> QED BY <1>a, <2>1, <2>2 DEF ResultsInv, Before, Reported
<1>3. CASE CreateSessions \/ RunReturns
  <2>1. /\ UNCHANGED <<depth, heard, open, written, app, channel_bit, m_readBytes, blocked, taken,
                       unopenable>>
        /\ \/ stage = "folder" /\ stage' = "install"
           \/ stage = "run" /\ stage' = "over"
    BY <1>3 DEF CreateSessions, RunReturns, folderVars
  <2> QED BY <1>a, <2>1 DEF ResultsInv, Before, Reported
<1>4. ASSUME NEW c \in Clients, InstallWebrtcApplication(c) PROVE ResultsInv'
  BY <1>4, ResultsInstalled
<1>5. ASSUME NEW from \in Clients, NEW size \in 1..capacity, RecvPacket(from, size)
      PROVE  ResultsInv'
  <2>1. /\ stage = "run" /\ heard' \subseteq heard \cup Clients
        /\ UNCHANGED <<stage, depth, open, written, app, channel_bit, blocked, taken, unopenable>>
    BY <1>5 DEF RecvPacket, folderVars
  <2> QED BY <1>a, <2>1 DEF ResultsInv, Before, Reported
<1>6. ASSUME NEW a \in Apps, ApplicationEvent(a) PROVE ResultsInv'
  <2>1. /\ stage = "run"
        /\ UNCHANGED <<stage, depth, heard, open, written, channel_bit, blocked, taken, unopenable>>
        /\ app' = [app EXCEPT ![a] = IF @ = "new" THEN "running" ELSE "stopped"]
    BY <1>6 DEF ApplicationEvent, folderVars
  <2>2. \A c \in Clients : app[Sender(c)] # "none"
    BY <2>1 DEF ResultsInv, Before
  <2>3. \A c \in Clients : app'[Sender(c)] # "none"
    BY <2>1, <2>2, AppsOfClients DEF PortsInv
  <2> QED BY <1>a, <2>1, <2>2, <2>3 DEF ResultsInv, Before, Reported
<1>7. CASE Report
  <2>1. /\ stage = "over" /\ stage' = "reported" /\ channel_bit' = LinkBits
        /\ UNCHANGED <<depth, heard, open, app, m_readBytes, blocked, taken, unopenable>>
        /\ written' = IF /\ LinkBits > 0 /\ m_readBytes > 0
                         /\ depth = PathLength /\ UtilFile \notin unopenable
                      THEN written \cup {UtilFile} ELSE written
    BY <1>7 DEF Report, folderVars
  <2>2. depth = PathLength <=> blocked > PathLength
    <3>1. depth = blocked - 1 /\ blocked \in Int /\ PathLength \in Int /\ blocked <= PathLength + 1
      BY <2>1, DirectoriesIs DEF ResultsInv, FolderTypes
    <3> QED BY <3>1
  <2>3. \A c \in Clients : <<c, "loss">> # UtilFile
    BY DEF UtilFile
  <2>4. /\ UtilFile \in written' => Openable(UtilFile)
        /\ channel_bit' > 0 /\ m_readBytes > 0 /\ Openable(UtilFile) => UtilFile \in written'
        /\ \A c \in Clients : <<c, "loss">> \notin written'
    BY <2>1, <2>2, <2>3 DEF ResultsInv, Openable
  <2> QED BY <1>a, <2>1, <2>4 DEF ResultsInv, Before, Reported
<1>8. CASE DeleteTraces
  <2>1. /\ stage = "reported" /\ stage' = "exit" /\ written' = written \cup CloseTraceLossFile
        /\ UNCHANGED <<depth, heard, app, m_readBytes, channel_bit, blocked, taken, unopenable>>
    BY <1>8 DEF DeleteTraces, folderVars
  <2>2. /\ \A c \in Clients : <<c, "loss">> \in CloseTraceLossFile
                                <=> c \in heard /\ Openable(<<c, "loss">>)
        /\ UtilFile \notin CloseTraceLossFile
    <3>1. \A c \in Clients : <<c, "loss">> \in open <=> Openable(<<c, "loss">>)
      BY <2>1 DEF ResultsInv, Before
    <3>2. \A c : <<c, "loss">>[1] = c /\ <<c, "loss">>[2] = "loss"
      OBVIOUS
    <3>3. UtilFile[2] # "loss"
      BY DEF UtilFile
    <3> QED BY <3>1, <3>2, <3>3 DEF CloseTraceLossFile
  <2>3. \A c \in Clients : <<c, "loss">> \notin written
    BY <2>1 DEF ResultsInv
  <2> QED BY <1>a, <2>1, <2>2, <2>3 DEF ResultsInv, Before, Reported
<1>9. CASE ChangeBandwidth \/ TimePasses
  BY <1>1, <1>9 DEF ChangeBandwidth, TimePasses, programVars, folderVars
<1>10. CASE Exited \/ UNCHANGED vars
  BY <1>1, <1>10 DEF Exited, vars, programVars, folderVars
<1> QED BY <1>2, <1>3, <1>4, <1>5, <1>6, <1>7, <1>8, <1>9, <1>10 DEF Next

\* The link carried something by a second after the start, and so by the first change.
LEMMA SomeBits ==
  ASSUME ChangerInv, ReceiptInv, ReportInv, Reported,
         IF changer THEN /\ m_info # <<>> /\ m_info[1].first >= Second
                         /\ m_receiptMillis > m_info[1].first
         ELSE m_receiptMillis >= AppStart + Second
  PROVE  channel_bit > 0
<1> DEFINE r == m_receiptMillis
<1>1. /\ channel_bit = ReportedBits(m_info, changer, r) /\ r \in Nat
      /\ InitialRate \in Nat \ {0} /\ Second \in Nat \ {0} /\ Changes \in Nat
  BY ScheduleTypes, ChangerConstants DEF ReceiptInv, ReportInv, ChangerConstants
<1>2. ASSUME NEW ms \in Nat, ms >= Second
      PROVE  InitialRate * WholeSeconds(ms) \in Nat \ {0}
  <2>1. WholeSeconds(ms) \in Nat /\ WholeSeconds(ms) > 0
    BY <1>2, WholeSecondsCarry
  <2> QED BY <1>1, <2>1
<1>3. CASE changer
  <2>1. m_info = Schedule /\ Schedule # <<>>
    BY <1>3 DEF ChangerInv
  <2>2. Changes \in Nat \ {0} /\ 1 \in 1..Changes
    BY <2>1, ScheduleIncreases, ChangerConstants DEF Changes, ChangerConstants
  <2>3. TimeOf(1) \in Nat /\ TimeOf(1) >= Second /\ r > TimeOf(1)
    BY <1>3, <2>1, <2>2, ScheduleTypes DEF TimeOf
  <2>4. PICK k : k = CHOOSE i : Due(i, r)
    OBVIOUS
  <2>5. Due(k, r)
    BY <1>1, <2>4, SomeDue
  <2>6. k \in 1..Changes
    <3> SUFFICES ASSUME k = 0 PROVE FALSE
      BY <1>1, <2>5 DEF Due
    <3> QED BY <1>1, <2>2, <2>3, <2>5 DEF Due
  <2>7. Bits[1] > 0 /\ Bits[1] <= Bits[k] /\ Bits[1] \in Nat /\ Bits[k] \in Nat
    <3>1. Bits[1] = Bits[0] + RateOf(0) * WholeSeconds(TimeOf(1) - TimeOf(0)) /\ Bits[0] = 0
      BY <2>2, ScheduledBits
    <3>2. RateOf(0) = InitialRate /\ TimeOf(1) - TimeOf(0) = TimeOf(1)
      BY <2>3 DEF RateOf, TimeOf
    <3>3. InitialRate * WholeSeconds(TimeOf(1)) \in Nat \ {0}
      BY <1>2, <2>3
    <3>4. Bits[1] \in Nat \ {0}
      BY <3>1, <3>2, <3>3
    <3>5. k \in 0..Changes
      BY <1>1, <2>6
    <3> QED BY <2>6, <3>4, <3>5, BitsGrow, ScheduledBits
  <2>8. TotalBits(k, r) \in Int /\ TotalBits(k, r) >= Bits[k]
    <3>1. Changes \in 0..Changes /\ TimeOf(Changes) \in Nat /\ RateOf(Changes) \in Nat
      BY <2>2, ScheduleTypes
    <3>2. r > TimeOf(Changes) => r - TimeOf(Changes) \in Nat
      BY <1>1, <3>1
    <3>3. r > TimeOf(Changes) => RateOf(Changes) * WholeSeconds(r - TimeOf(Changes)) \in Nat
      BY <3>1, <3>2, WholeSecondsCarry
    <3> QED BY <1>1, <2>6, <2>7, <3>3 DEF TotalBits
  <2>9. channel_bit = TotalBits(k, r)
    BY <1>1, <1>3, <2>1, <2>4 DEF ReportedBits
  <2> QED BY <2>7, <2>8, <2>9
<1>4. CASE ~changer
  <2>1. m_info = <<>> /\ AppStart \in Nat
    BY <1>4, StaticConstants DEF ReceiptInv, StaticConstants, AppStart
  <2>2. r > AppStart /\ r - AppStart \in Nat /\ r - AppStart >= Second
    BY <1>1, <1>4, <2>1
  <2>3. channel_bit = InitialRate * WholeSeconds(r - AppStart)
    BY <1>1, <1>4, <2>1, <2>2 DEF ReportedBits
  <2> QED BY <1>2, <2>2, <2>3
<1> QED BY <1>3, <1>4 DEF ReceiptInv

\* Whatever part of the path of the traces existed before, wherever mkdir fails and
\* whichever files cannot be opened: every result whose file can be written is, and no
\* other.
THEOREM ResultsCorrect == Spec => []ResultsReported
<1>1. Init => PortsInv /\ ResultsInv
  BY PortsInit, ResultsInit
<1>2. ASSUME ChangerInv, ReceiptInv, ReportInv, PortsInv, ResultsInv, [Next]_vars
      PROVE  PortsInv' /\ ResultsInv'
  BY <1>2, PortsStep, ResultsStep
<1>3. ASSUME ChangerInv, ReceiptInv, ReportInv, ResultsInv PROVE ResultsReported
  BY <1>3, SomeBits DEF ResultsInv, ResultsReported, Reported
<1> QED BY <1>1, <1>2, <1>3, AccountsInvariant, PTL DEF Spec
==============================================================================
