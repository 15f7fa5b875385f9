----------------------------- MODULE WebrtcTrace -----------------------------
(***************************************************************************)
(* WebrtcTrace (model/webrtc-trace.cc): what the receiver writes down of   *)
(* every packet, its one-way delay and the losses.  A packet is known by   *)
(* the sequence number in its tag, which counts from 1; 0 is the number of *)
(* a packet without a tag.                                                 *)
(***************************************************************************)
EXTENDS Sequences, FiniteSets, Integers

CONSTANTS
  Flag,        \* m_flag: which of "owd", "bw" and "loss" are traced
  OwdInterval  \* kTraceOwdInterval, in ms

ASSUME TraceConstants == Flag \subseteq {"owd", "bw", "loss"} /\ OwdInterval \in Nat

VARIABLES
  m_lastOutTime,
  m_maxSeq,
  m_expectSeq,
  m_lossPkts,
  m_owd,     \* the lines of the delay file, with the packet they are about
  m_loss,    \* the line of the loss file: <<lost, of>>; <<>> before Close
  received   \* history: the sequence numbers received, in order of arrival

lossVars == <<m_maxSeq, m_expectSeq, m_lossPkts, m_loss, received>>
traceVars == <<m_lastOutTime, m_owd, lossVars>>

TraceInit ==
  /\ m_lastOutTime = 0 /\ m_owd = <<>>
  /\ m_maxSeq = 0 /\ m_expectSeq = 1 /\ m_lossPkts = 0
  /\ m_loss = <<>> /\ received = <<>>

\* A line of the delay file, unless one was written shortly before.
TraceOwd(now, seq, owd) ==
  IF "owd" \in Flag /\ (m_lastOutTime = 0 \/ now - m_lastOutTime >= OwdInterval)
  THEN /\ m_owd' = Append(m_owd, [time |-> now, owd |-> owd, seq |-> seq])
       /\ m_lastOutTime' = now
  ELSE UNCHANGED <<m_owd, m_lastOutTime>>

\* Mutant: the gap is taken from the greatest number seen.
LossFromMax(seq) ==
  /\ m_maxSeq' = IF seq > m_maxSeq THEN seq ELSE m_maxSeq
  /\ IF seq >= m_expectSeq
     THEN m_lossPkts' = m_lossPkts + (seq - m_maxSeq) /\ m_expectSeq' = seq + 1
     ELSE UNCHANGED <<m_lossPkts, m_expectSeq>>

\* Mutant: a late packet is taken for the next one.
LossFromLate(seq) ==
  /\ m_maxSeq' = IF seq > m_maxSeq THEN seq ELSE m_maxSeq
  /\ m_lossPkts' = IF seq >= m_expectSeq THEN m_lossPkts + (seq - m_expectSeq)
                   ELSE m_lossPkts
  /\ m_expectSeq' = seq + 1

\* The numbers skipped are lost; a packet that comes late changes nothing.
TraceLoss(seq) ==
  /\ m_maxSeq' = IF seq > m_maxSeq THEN seq ELSE m_maxSeq
  /\ IF seq >= m_expectSeq
     THEN m_lossPkts' = m_lossPkts + (seq - m_expectSeq) /\ m_expectSeq' = seq + 1
     ELSE UNCHANGED <<m_lossPkts, m_expectSeq>>

OnReceiptPktInfo(now, seq, owd) ==
  /\ TraceOwd(now, seq, owd)
  /\ TraceLoss(seq)
  /\ received' = Append(received, seq)
  /\ UNCHANGED m_loss

\* The percentage is 100 * lost / of; there is no line if nothing was received.
Close ==
  /\ m_loss' = IF m_maxSeq # 0 /\ "loss" \in Flag THEN <<m_lossPkts, m_maxSeq>>
               ELSE m_loss
  /\ UNCHANGED <<m_lastOutTime, m_owd, m_maxSeq, m_expectSeq, m_lossPkts, received>>

TraceNext == Close \/ \E now, seq, owd \in Nat : OnReceiptPktInfo(now, seq, owd)

TraceSpec == TraceInit /\ [][TraceNext]_traceVars
------------------------------------------------------------------------------
\* The numbers of the packets that came before all greater ones.
InOrder == {received[i] : i \in {i \in DOMAIN received :
                                   \A j \in 1..(i - 1) : received[j] < received[i]}}

\* Every number up to the greatest one seen either came in order or is counted as
\* lost, exactly once: the packets that never came, and also those that came late.
LossAccounting == m_lossPkts = Cardinality((1..m_maxSeq) \ InOrder)

\* The losses are related to the number of packets that could have come, and are
\* fewer: never 100 percent, nor the underflow of a gap taken backwards, whatever
\* the order of arrival.
LossBelowAll ==
  /\ m_expectSeq = m_maxSeq + 1
  /\ m_maxSeq > 0 => m_lossPkts < m_maxSeq
  /\ m_loss # <<>> => m_loss[1] < m_loss[2]
==============================================================================
