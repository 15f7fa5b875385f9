--------------------------- MODULE BandwidthChanger ---------------------------
(***************************************************************************)
(* BandwidthChanger of the simulation program (scratch/webrtc-static.cc):  *)
(* a chain of ns-3 events that sets the data rate of the bottleneck device *)
(* at configured times, and the calculation of what the link could have    *)
(* carried up to a given moment, which the reported utilisation is         *)
(* relative to.  Each event schedules the next one by a difference of two  *)
(* configured times, so every later change depends on the earlier ones     *)
(* having been on time.                                                    *)
(***************************************************************************)
EXTENDS SequencesExt, Integers

CONSTANTS
  Schedule,     \* the bw_info the program passes to Config
  InitialRate,  \* bps: the rate the device is built with, per second
  Second,       \* milliseconds in a second (1000)
  MaxTime       \* bound: the simulation ends there, in ms

ASSUME ChangerConstants ==
  /\ Schedule \in Seq([first : Nat \ {0}, second : Nat])
  /\ \A i, j \in DOMAIN Schedule : i < j => Schedule[i].first < Schedule[j].first
  /\ InitialRate \in Nat \ {0} /\ Second \in Nat \ {0} /\ MaxTime \in Nat

VARIABLES
  now,       \* Simulator::Now(), in ms
  m_info,    \* m_info
  m_index,   \* m_index
  m_timer,   \* when the event of m_timer is due, or Never
  rate,      \* the data rate of m_dev
  capacity   \* history: the integral of rate over the time so far

changerVars == <<now, m_info, m_index, m_timer, rate, capacity>>

Never == -1

ChangerInit ==
  /\ now = 0 /\ m_info = <<>> /\ m_index = 0 /\ m_timer = Never
  /\ rate = InitialRate /\ capacity = 0

\* Config and Start, before the simulation runs.
Configure ==
  /\ now = 0 /\ m_info = <<>> /\ Schedule # <<>>
  /\ m_info' = Schedule
  /\ m_timer' = now + Schedule[m_index + 1].first
  /\ UNCHANGED <<now, m_index, rate, capacity>>

\* Mutant: the next change is scheduled at its time, as if that were a delay.
ResetBandwidthAbsolute ==
  /\ m_timer = now
  /\ rate' = m_info[m_index + 1].second
  /\ m_index' = m_index + 1
  /\ m_timer' = IF m_index + 1 < Len(m_info) THEN now + m_info[m_index + 2].first
                ELSE Never
  /\ UNCHANGED <<now, m_info, capacity>>

ResetBandwidth ==
  /\ m_timer = now
  /\ rate' = m_info[m_index + 1].second
  /\ m_index' = m_index + 1
  /\ m_timer' = IF m_index + 1 < Len(m_info)
                THEN now + (m_info[m_index + 2].first - m_info[m_index + 1].first)
                ELSE Never
  /\ UNCHANGED <<now, m_info, capacity>>

\* ns-3 runs every event of a moment before time moves on.
Tick ==
  /\ m_timer # now /\ now < MaxTime
  /\ now' = now + 1
  /\ capacity' = capacity + rate
  /\ UNCHANGED <<m_info, m_index, m_timer, rate>>

ChangerSpec == ChangerInit /\ [][Configure \/ ResetBandwidth \/ Tick]_changerVars
------------------------------------------------------------------------------
(* TotalThroughput *)

\* std::lower_bound: how many changes come before the moment |point|.
LowerBoundIndex(point) == Cardinality({i \in DOMAIN m_info : m_info[i].first < point})

WholeSeconds(ms) == ms \div Second

\* The bits of the segment that ends with change i.
SegmentBits(i) ==
  IF i = 1 THEN InitialRate * WholeSeconds(m_info[1].first)
  ELSE m_info[i - 1].second * WholeSeconds(m_info[i].first - m_info[i - 1].first)

BitsUpTo(index) ==
  LET bits[i \in 0..Len(m_info)] == IF i = 0 THEN 0 ELSE bits[i - 1] + SegmentBits(i)
  IN  bits[index]

\* Mutant: the sum goes one segment too far.
ThroughputOneMore(stop) ==
  IF LowerBoundIndex(stop) = 0 THEN 0
  ELSE BitsUpTo(Min({LowerBoundIndex(stop) + 1, Len(m_info)}))
       + (IF stop > Last(m_info).first
          THEN Last(m_info).second * WholeSeconds(stop - Last(m_info).first) ELSE 0)

\* The segments that ended before |stop|, and what follows the last change.  A
\* segment that has begun but not ended at |stop| is not counted.
TotalThroughput(stop) ==
  IF LowerBoundIndex(stop) = 0 THEN 0
  ELSE BitsUpTo(LowerBoundIndex(stop))
       + (IF stop > Last(m_info).first
          THEN Last(m_info).second * WholeSeconds(stop - Last(m_info).first) ELSE 0)
------------------------------------------------------------------------------
\* Whenever time moves on, the device has the rate the schedule gives for that
\* moment: no event of the chain comes early, late, twice or out of order.
RateAsConfigured ==
  m_timer # now =>
    /\ (\A i \in DOMAIN m_info : now < m_info[i].first) => rate = InitialRate
    /\ \A i \in DOMAIN m_info :
         m_info[i].first <= now /\ (i < Len(m_info) => now < m_info[i + 1].first)
           => rate = m_info[i].second
==============================================================================
