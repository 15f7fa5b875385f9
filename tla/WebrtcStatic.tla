----------------------------- MODULE WebrtcStatic -----------------------------
(***************************************************************************)
(* The simulation program (scratch/webrtc-static.cc) from main to exit:    *)
(* it makes the folder of the traces, builds the link, installs several    *)
(* sessions on the same two nodes (model/webrtc-config.cc, the set-up of   *)
(* model/webrtc-sender.cc and model/webrtc-receiver.cc), runs the ns-3     *)
(* event loop, and reports loss and utilisation (model/webrtc-trace.cc).   *)
(* Applications start and stop, packets arrive and the rate of the link    *)
(* changes in any order the times allow.                                   *)
(***************************************************************************)
EXTENDS BandwidthChanger

CONSTANTS
  Starts,        \* config[i].start of each client, in ms; the first is app_start
  AppStop,       \* app_stop, and config[i].stop of every client, in ms
  PathLength,    \* bound: directories in the path given to set_webrtc_trace_folder
  Unopenable     \* sets of result files that cannot be opened for writing

ASSUME StaticConstants ==
  /\ Starts \in Seq(Nat) /\ Starts # <<>>
  /\ \A f \in DOMAIN Starts : Starts[1] <= Starts[f] /\ Starts[f] < AppStop
  /\ \A i \in DOMAIN Schedule : Starts[1] <= Schedule[i].first
  /\ AppStop \in Nat /\ AppStop + Second < MaxTime
  /\ PathLength \in Nat \ {0}

VARIABLES
  stage,         \* how far the program has got
  changer,       \* changer: does the program have a BandwidthChanger?
  depth,         \* how many of the directories of WebrtcTracePath exist
  blocked,       \* the first of its directories that mkdir cannot make, or
                 \* PathLength + 1
  taken,         \* blocked: is there a file, but no directory, of that name?
  unopenable,    \* the result files that cannot be opened even so
  open,          \* the trace files that are open
  written,       \* history: the result files with a result in them
  app,           \* the state of each application
  session,       \* the WebrtcSessionManager of each client
  m_bindPort,    \* m_bindPort of each application, or None
  m_peerPort,    \* m_peerPort of each application, or None
  m_knowPeer,    \* the clients whose receiver has m_knowPeer
  heard,         \* the clients whose trace has m_maxSeq # 0
  m_readBytes,   \* m_readBytes of the UtilCalculator, in the units of capacity
  m_receiptMillis,
  channel_bit,   \* channnel_bit, once it is calculated
  carried        \* history: capacity at the last receipt

folderVars == <<blocked, taken, unopenable>>
programVars == <<stage, changer, folderVars, depth, open, written, app, session,
                 m_bindPort, m_peerPort, m_knowPeer, heard, m_readBytes,
                 m_receiptMillis, channel_bit, carried>>
vars == <<changerVars, programVars>>

Clients == DOMAIN Starts
AppStart == Starts[1]
Apps == Clients \X {"send", "recv"}
Sender(c) == <<c, "send">>
Receiver(c) == <<c, "recv">>
TraceFiles == Clients \X {"owd", "bw", "loss"}
None == 0
UtilFile == <<None, "util">>

Init ==
  /\ ChangerInit
  /\ stage = "main" /\ changer \in BOOLEAN /\ depth \in 0..PathLength
  /\ blocked \in (depth + 1)..(PathLength + 1) /\ unopenable \in Unopenable
  /\ taken \in BOOLEAN /\ (taken => blocked = depth + 1 /\ blocked <= PathLength)
  /\ open = {} /\ written = {}
  /\ app = [a \in Apps |-> "none"] /\ session = [c \in Clients |-> "none"]
  /\ m_bindPort = [a \in Apps |-> None] /\ m_peerPort = [a \in Apps |-> None]
  /\ m_knowPeer = {} /\ heard = {}
  /\ m_readBytes = 0 /\ m_receiptMillis = 0 /\ channel_bit = 0 /\ carried = 0
------------------------------------------------------------------------------
(* The folder of the traces.  A prefix of the path is the number of its     *)
(* directories; PathLength + 1 is the whole path with its trailing slash,    *)
(* which names the same directory.                                           *)

Directories(prefix) == Min({prefix, PathLength})
IsDirExist(prefix, d) == Directories(prefix) <= d

\* mkdir: the error if d directories exist, or "none".
Mkdir(prefix, d) ==
  LET last == Directories(prefix)
  IN  CASE IsDirExist(prefix, d) -> "EEXIST"
        [] last = d + 1 /\ last # blocked -> "none"
        [] last = d + 1 /\ last = blocked -> IF taken THEN "EEXIST" ELSE "EACCES"
        [] OTHER -> IF taken THEN "ENOTDIR" ELSE "ENOENT"

\* Mutant: a missing parent is not created.
MakePathOnce(path, d) ==
  [ok |-> Mkdir(path, d) = "none" \/ IsDirExist(path, d),
   depth |-> IF Mkdir(path, d) = "none" THEN d + 1 ELSE d]

\* MakePath: its result, and the directories that exist afterwards, if d existed.
\* Only ENOENT has it make the parent and try again; it fails at EEXIST if that is no
\* directory, and at any other error.  (It also fails where it had to create the
\* parent of the trailing slash, although that is the directory.)
MakePath(path, d) ==
  LET make[p \in 0..path] ==
        LET error == Mkdir(p, d)
            parent == make[p - 1]
            again == parent.ok /\ Mkdir(p, parent.depth) = "none"
        IN  CASE p = 0 -> [ok |-> FALSE, depth |-> d]  \* no parent left
              [] p > 0 /\ error = "none" -> [ok |-> TRUE, depth |-> d + 1]
              [] p > 0 /\ error = "ENOENT" ->
                   [ok |-> again, depth |-> IF again THEN parent.depth + 1
                                            ELSE parent.depth]
              [] OTHER -> [ok |-> error = "EEXIST" /\ IsDirExist(p, d), depth |-> d]
  IN  make[path]

\* main calls set_webrtc_trace_folder, which ignores the result of MakePath.
SetTraceFolder ==
  /\ stage = "main" /\ stage' = "folder"
  /\ depth' = MakePath(PathLength + 1, depth).depth
  /\ UNCHANGED <<changerVars, changer, folderVars, open, written, app, session,
                 m_bindPort, m_peerPort, m_knowPeer, heard, m_readBytes,
                 m_receiptMillis, channel_bit, carried>>
------------------------------------------------------------------------------
(* test_app_on_p2p until Simulator::Run *)

\* The time controller, the link and the session managers with their clients are
\* created; only instance 11 configures and starts the changer.
CreateSessions ==
  /\ stage = "folder" /\ stage' = "install"
  /\ (changer /\ Configure) \/ UNCHANGED changerVars
  /\ session' = [c \in Clients |-> "created"]  \* CreateClients
  /\ UNCHANGED <<changer, folderVars, depth, open, written, app, m_bindPort,
                 m_peerPort, m_knowPeer, heard, m_readBytes, m_receiptMillis,
                 channel_bit, carried>>

SendPort(c) == 100 + c

\* Mutant: recvPort is not advanced.
RecvPortOfFirst(c) == 201

RecvPort(c) == 200 + c

\* The two applications of a client are bound, and each is told the other's port.
Bind(c) == m_bindPort' = [m_bindPort EXCEPT ![Sender(c)] = SendPort(c),
                                            ![Receiver(c)] = RecvPort(c)]
ConfigurePeer(c) == m_peerPort' = [m_peerPort EXCEPT ![Sender(c)] = RecvPort(c),
                                                     ![Receiver(c)] = SendPort(c)]

\* The files of a client that can be opened.
Log(c) ==
  IF depth = PathLength THEN {f \in TraceFiles : f[1] = c} \ unopenable ELSE {}

\* The traces and the applications of the clients are set up in order.
InstallWebrtcApplication(c) ==
  /\ stage = "install" /\ \A b \in Clients : (app[Sender(b)] = "none") = (b >= c)
  /\ stage' = IF c = Len(Starts) THEN "run" ELSE stage
  /\ open' = open \cup Log(c)
  /\ app' = [app EXCEPT ![Sender(c)] = "new", ![Receiver(c)] = "new"]
  /\ Bind(c) /\ ConfigurePeer(c)
  /\ UNCHANGED <<changerVars, changer, folderVars, depth, written, session,
                 m_knowPeer, heard, m_readBytes, m_receiptMillis, channel_bit,
                 carried>>
------------------------------------------------------------------------------
(* Simulator::Run *)

StopTime(a) == IF a[2] = "recv" THEN AppStop + Second ELSE AppStop
EventTime(a) == CASE app[a] = "new" -> Starts[a[1]]
                  [] app[a] = "running" -> StopTime(a)
                  [] OTHER -> Never

\* StartApplication and StopApplication; the sender's make the session manager
\* create a stream pair and start it, or stop it.
ApplicationEvent(a) ==
  /\ stage = "run" /\ EventTime(a) = now
  /\ app' = [app EXCEPT ![a] = IF @ = "new" THEN "running" ELSE "stopped"]
  /\ session' = IF a[2] = "recv" THEN session
                ELSE [session EXCEPT ![a[1]] = IF @ = "created" THEN "running" ELSE "stopped"]
  /\ UNCHANGED <<changerVars, stage, changer, folderVars, depth, open, written,
                 m_bindPort, m_peerPort, m_knowPeer, heard, m_readBytes,
                 m_receiptMillis, channel_bit, carried>>

ChangeBandwidth == stage = "run" /\ ResetBandwidth /\ UNCHANGED programVars

TimePasses ==
  /\ stage = "run" /\ \A a \in Apps : EventTime(a) # now
  /\ Tick
  /\ UNCHANGED programVars

\* What the utilisation counts.
OnPacketInfo(size) ==
  m_readBytes' = m_readBytes + size /\ m_receiptMillis' = now /\ carried' = capacity

\* A packet of a client arrives at the receiver that is bound to its peer's port:
\* RecvPacket.  All that is received fits into what the link has carried since the
\* first application started.
RecvPacket(from, size) ==
  /\ stage = "run" /\ app[Sender(from)] \in {"running", "stopped"}
  /\ size <= capacity - InitialRate * AppStart - m_readBytes
  /\ \E c \in Clients :
       /\ m_bindPort[Receiver(c)] = m_peerPort[Sender(from)]
       /\ heard' = heard \cup {c}
       /\ m_knowPeer' = m_knowPeer \cup {c}
       /\ m_peerPort' = IF c \in m_knowPeer THEN m_peerPort
                        ELSE [m_peerPort EXCEPT ![Receiver(c)] = m_bindPort[Sender(from)]]
       /\ IF app[Receiver(c)] = "running" THEN OnPacketInfo(size)
          ELSE UNCHANGED <<m_readBytes, m_receiptMillis, carried>>
  /\ UNCHANGED <<changerVars, stage, changer, folderVars, depth, open, written,
                 app, session, m_bindPort, channel_bit>>

\* Simulator::Stop, well after the last application has stopped.
RunReturns ==
  /\ stage = "run" /\ now = MaxTime /\ stage' = "over"
  /\ UNCHANGED <<changerVars, changer, folderVars, depth, open, written, app,
                 session, m_bindPort, m_peerPort, m_knowPeer, heard, m_readBytes,
                 m_receiptMillis, channel_bit, carried>>
------------------------------------------------------------------------------
(* After Simulator::Run *)

\* Mutant: whole seconds are rounded from the time of the last receipt minus one.
LinkBitsShort ==
  IF changer THEN TotalThroughput(m_receiptMillis)
  ELSE IF m_receiptMillis > AppStart + Second
       THEN InitialRate * WholeSeconds(m_receiptMillis - AppStart - Second) ELSE 0

\* What the link could have carried until the last receipt.
LinkBits ==
  IF changer THEN TotalThroughput(m_receiptMillis)
  ELSE IF m_receiptMillis > AppStart
       THEN InitialRate * WholeSeconds(m_receiptMillis - AppStart) ELSE 0

\* CalculateUtil
Report ==
  /\ stage = "over" /\ stage' = "reported"
  /\ channel_bit' = LinkBits
  /\ written' = IF /\ LinkBits > 0 /\ m_readBytes > 0
                   /\ depth = PathLength /\ UtilFile \notin unopenable
                THEN written \cup {UtilFile} ELSE written
  /\ UNCHANGED <<changerVars, changer, folderVars, depth, open, app, session,
                 m_bindPort, m_peerPort, m_knowPeer, heard, m_readBytes,
                 m_receiptMillis, carried>>

\* The loss of a client that was not heard of is not written.
CloseTraceLossFile == {f \in open : f[2] = "loss" /\ f[1] \in heard}

\* The traces are deleted, which closes them.
DeleteTraces ==
  /\ stage = "reported" /\ stage' = "exit"
  /\ written' = written \cup CloseTraceLossFile
  /\ open' = {}
  /\ UNCHANGED <<changerVars, changer, folderVars, depth, app, session,
                 m_bindPort, m_peerPort, m_knowPeer, heard, m_readBytes,
                 m_receiptMillis, channel_bit, carried>>

Exited == stage = "exit" /\ UNCHANGED vars

Next ==
  \/ SetTraceFolder \/ CreateSessions \/ ChangeBandwidth \/ TimePasses
  \/ \E c \in Clients : \/ InstallWebrtcApplication(c)
                        \/ \E size \in 1..capacity : RecvPacket(c, size)
  \/ \E a \in Apps : ApplicationEvent(a)
  \/ RunReturns \/ Report \/ DeleteTraces \/ Exited

Spec == Init /\ [][Next]_vars
------------------------------------------------------------------------------
Reported == stage \in {"reported", "exit"}
ScheduleOver == m_info # <<>> /\ m_receiptMillis > Last(m_info).first
WholeSecondChanges == \A i \in DOMAIN m_info : m_info[i].first % Second = 0

\* The bits the program says the link could carry until the last receipt are never
\* more than it could; and fewer by less than a second's worth, if the last receipt
\* comes after all changes of a schedule in whole seconds.
ThroughputAccounted ==
  Reported =>
    /\ channel_bit * Second <= carried
    /\ ScheduleOver /\ WholeSecondChanges
         => carried - channel_bit * Second <= rate * (Second - 1)

\* A utilisation above 100 per cent is never reported but by the whole seconds the
\* calculation works with, if the last receipt comes after all changes of a schedule
\* in whole seconds.
UtilAtMostFull ==
  UtilFile \in written /\ (changer => ScheduleOver /\ WholeSecondChanges) =>
    m_readBytes <= channel_bit * Second + rate * (Second - 1)

\* The clients share the two nodes and are told apart by their ports only: no Bind
\* fails, and the port a receiver learns from its first packet is the one it was
\* configured with, as RecvPacket asserts.
ClientsApart ==
  \A c \in Clients : app[Sender(c)] # "none" =>
    /\ m_peerPort[Receiver(c)] = m_bindPort[Sender(c)]
    /\ m_peerPort[Sender(c)] = m_bindPort[Receiver(c)]
    /\ \A b \in Clients \ {c} : /\ m_bindPort[Sender(b)] # m_bindPort[Sender(c)]
                                /\ m_bindPort[Receiver(b)] # m_bindPort[Receiver(c)]

\* The results that can be written: the missing directories can be made, and the file
\* be opened.
Openable(f) == blocked > PathLength /\ f \notin unopenable

\* Whatever part of the trace path existed before, wherever mkdir fails and whichever
\* files cannot be opened, which the program never looks at: it leaves the loss of
\* just those clients that received a packet and whose file can be written, and the
\* utilisation, if that can be, once the last receipt is a second away from the start
\* (or past a first change no earlier than that).
ResultsReported ==
  stage = "exit" =>
    /\ \A c \in Clients :
         <<c, "loss">> \in written <=> c \in heard /\ Openable(<<c, "loss">>)
    /\ m_readBytes > 0 /\ (IF changer THEN /\ m_info # <<>> /\ m_info[1].first >= Second
                                          /\ m_receiptMillis > m_info[1].first
                           ELSE m_receiptMillis >= AppStart + Second)
         => (UtilFile \in written <=> Openable(UtilFile))
==============================================================================
