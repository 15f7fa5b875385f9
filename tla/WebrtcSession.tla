---------------------------- MODULE WebrtcSession ----------------------------
(***************************************************************************)
(* A session between a WebrtcSender and a WebrtcReceiver: how its parts    *)
(* start and stop (scratch/webrtc-static.cc, model/webrtc-config.cc), and  *)
(* what becomes of the packets the network delivers                        *)
(* (model/webrtc-sender.cc, model/webrtc-receiver.cc): the sender's media, *)
(* tagged and traced by the receiver, and the receiver's feedback.  How    *)
(* the stack's packets come to the socket is WebrtcTransport's business.   *)
(* Every action is an event on the ns-3 thread.  The network is external:  *)
(* it may keep a packet for ever and deliver in any order, never twice.    *)
(***************************************************************************)
EXTENDS WebrtcTrace, WebrtcTag

CONSTANTS
  Times,       \* the moments of ns-3 events, in ms
  MaxPackets,  \* bound: number of packets the sender puts on the wire
  MaxFeedback  \* bound: number of packets the receiver puts on the wire

\* The program starts its applications after time 0, which a tag cannot carry.
ASSUME SessionConstants ==
  /\ Times \subseteq Nat \ {0}
  /\ MaxPackets \in Nat /\ MaxFeedback \in Nat

VARIABLES
  now,              \* Simulator::Now(), in ms
  sender,           \* the sending application: "new", "running" or "stopped"
  receiver,         \* the receiving application
  over,             \* Simulator::Run has returned, the traces are deleted
  m_seq,            \* m_seq of the sender
  media,            \* the sender's packets in the network
  feedback,         \* the receiver's packets in the network
  m_knowPeer,       \* m_knowPeer of the receiver
  sender_socket,    \* received by the sender's socket and not read
  sender_client,    \* given to the sender's call client
  receiver_client,  \* given to the receiver's call client
  m_readBytes,      \* m_readBytes of the utilisation, in packets
  m_receiptMillis,  \* m_receiptMillis of the utilisation
  sent_at,          \* history: when each packet of the sender was sent
  arrived           \* history: the feedback in the order it came

appVars == <<sender, receiver, over>>
mediaVars == <<m_seq, media, sent_at>>
receiverVars == <<m_knowPeer, receiver_client, m_readBytes, m_receiptMillis, traceVars>>
senderVars == <<sender_socket, sender_client, arrived>>
vars == <<now, appVars, mediaVars, feedback, receiverVars, senderVars>>

Seqs == 1..MaxPackets
Feedbacks == 1..MaxFeedback
Phase == {"new", "running", "stopped"}

TypeOK ==
  /\ now \in Times \cup {0}
  /\ sender \in Phase /\ receiver \in Phase /\ over \in BOOLEAN
  /\ m_seq \in 1..(MaxPackets + 1)
  /\ media \subseteq [tag : Seq(Byte)]
  /\ feedback \subseteq Feedbacks
  /\ m_knowPeer \in BOOLEAN
  /\ sender_socket \in Seq(Feedbacks) /\ sender_client \in Seq(Feedbacks)
  /\ receiver_client \in Seq(Seqs)
  /\ m_readBytes \in 0..MaxPackets /\ m_receiptMillis \in Times \cup {0}
  /\ sent_at \in [Seqs -> Times \cup {0}] /\ arrived \in Seq(Feedbacks)
  /\ m_lastOutTime \in Times \cup {0} /\ m_maxSeq \in 0..MaxPackets
  /\ m_expectSeq \in 1..(MaxPackets + 1) /\ m_lossPkts \in 0..MaxPackets
  /\ m_owd \in Seq([time : Times, owd : Nat, seq : Seqs])
  /\ m_loss \in {<<>>} \cup (Nat \X Seqs) /\ received \in Seq(Seqs)

Init ==
  /\ now = 0
  /\ sender = "new" /\ receiver = "new" /\ over = FALSE
  /\ m_seq = 1 /\ media = {} /\ feedback = {}
  /\ m_knowPeer = FALSE
  /\ sender_socket = <<>> /\ sender_client = <<>> /\ receiver_client = <<>>
  /\ m_readBytes = 0 /\ m_receiptMillis = 0
  /\ sent_at = [s \in Seqs |-> 0] /\ arrived = <<>>
  /\ TraceInit

\* An ns-3 event at some time.
Event == ~over /\ now' \in Times /\ now' >= now

\* Mutant: the receiving application starts the session.
StartedByReceiver == receiver # "new"

\* The session has had a stream pair: the manager is started by the sender.
SessionStarted == sender # "new"
------------------------------------------------------------------------------
(* Starting and stopping *)

\* StartApplication also creates the stream pair and starts the session.
StartSender ==
  /\ Event /\ sender = "new"
  /\ sender' = "running"
  /\ UNCHANGED <<receiver, over, mediaVars, feedback, receiverVars, senderVars>>

StopSender ==
  /\ Event /\ sender = "running"
  /\ sender' = "stopped"
  /\ UNCHANGED <<receiver, over, mediaVars, feedback, receiverVars, senderVars>>

StartReceiver ==
  /\ Event /\ receiver = "new"
  /\ receiver' = "running"
  /\ UNCHANGED <<sender, over, mediaVars, feedback, receiverVars, senderVars>>

\* The receiver's stop time is one second after the sender's.
StopReceiver ==
  /\ Event /\ receiver = "running" /\ sender = "stopped"
  /\ receiver' = "stopped"
  /\ UNCHANGED <<sender, over, mediaVars, feedback, receiverVars, senderVars>>

\* The simulation ends some time after the stop times; the traces are deleted then.
CloseTrace ==
  /\ receiver = "stopped" /\ ~over
  /\ over' = TRUE
  /\ Close
  /\ UNCHANGED <<now, sender, receiver, mediaVars, feedback, m_knowPeer, receiver_client,
                 m_readBytes, m_receiptMillis, senderVars>>
------------------------------------------------------------------------------
(* Packets *)

\* SendToNetwork of the sender: also for a DeliveryPacket that comes after the stop.
SendMedia ==
  /\ Event /\ sender # "new" /\ m_seq \in Seqs
  /\ media' = media \cup {[tag |-> Serialize(m_seq, now')]}
  /\ sent_at' = [sent_at EXCEPT ![m_seq] = now']
  /\ m_seq' = m_seq + 1
  /\ UNCHANGED <<appVars, feedback, receiverVars, senderVars>>

\* The stack sends feedback once the session has streams to report on.
SendFeedback(id) ==
  /\ Event /\ receiver # "new" /\ SessionStarted
  /\ id = Cardinality(feedback) + Len(arrived) + 1
  /\ feedback' = feedback \cup {id}
  /\ UNCHANGED <<appVars, mediaVars, receiverVars, senderVars>>

\* RecvPacket of the receiver: traced whether or not the application runs, if the
\* program has given it the callback.
ReceiverRecvPacket(p) ==
  /\ Event /\ p \in media
  /\ media' = media \ {p}
  /\ m_knowPeer' = TRUE
  /\ LET tag == Deserialize(p.tag)
     IN  /\ IF Flag \cap {"owd", "loss"} # {}
            THEN OnReceiptPktInfo(now', tag.seq, now' - tag.time)
            ELSE UNCHANGED traceVars
         /\ IF receiver = "running"
            THEN /\ m_readBytes' = m_readBytes + 1 /\ m_receiptMillis' = now'
                 /\ receiver_client' = Append(receiver_client, tag.seq)
            ELSE UNCHANGED <<m_readBytes, m_receiptMillis, receiver_client>>
  /\ UNCHANGED <<appVars, m_seq, sent_at, feedback, senderVars>>

\* The socket has a packet and calls RecvPacket of the sender, which reads one.
SenderRecvPacket(id) ==
  /\ Event /\ id \in feedback
  /\ feedback' = feedback \ {id}
  /\ arrived' = Append(arrived, id)
  /\ LET unread == Append(sender_socket, id)
     IN  IF sender = "running"
         THEN /\ sender_client' = Append(sender_client, Head(unread))
              /\ sender_socket' = Tail(unread)
         ELSE sender_socket' = unread /\ UNCHANGED sender_client
  /\ UNCHANGED <<appVars, mediaVars, receiverVars>>
------------------------------------------------------------------------------
Next ==
  \/ StartSender \/ StopSender \/ StartReceiver \/ StopReceiver \/ CloseTrace
  \/ SendMedia \/ \E id \in Feedbacks : SendFeedback(id) \/ SenderRecvPacket(id)
  \/ \E p \in media : ReceiverRecvPacket(p)

Spec == Init /\ [][Next]_vars
------------------------------------------------------------------------------
\* A delay that is written down is the one the packet really had, through the tag's
\* code and whatever was sent and received in between; and lines are as far apart as
\* the interval.
OwdTraced ==
  \A i \in DOMAIN m_owd :
    /\ m_owd[i].owd = m_owd[i].time - sent_at[m_owd[i].seq]
    /\ i > 1 => m_owd[i].time - m_owd[i - 1].time >= OwdInterval

\* Feedback reaches the sender's client in the order it came, none skipped, and
\* without lag: as long as the application runs nothing waits in the socket, since
\* none can have come before it was started.
FeedbackInOrder ==
  /\ sender_client \o sender_socket = arrived
  /\ sender = "running" => sender_socket = <<>>
==============================================================================
