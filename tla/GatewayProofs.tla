---------------------------- MODULE GatewayProofs ----------------------------
(***************************************************************************)
(* Proofs about the gateway, for any number of connections, any pod        *)
(* addresses, any wake timeout and any bound on outside events: types, the *)
(* way of a handler through its steps, and that the gateway, with the      *)
(* operator it relies on, keeps the sandbox to SandboxLife.                *)
(***************************************************************************)
EXTENDS Gateway, TLAPS

-----------------------------------------------------------------------------
(***************************************************************************)
(* The sandbox.                                                            *)
(***************************************************************************)

\* Every pod a step of the sandbox's life may leave has its type.
LEMMA PodOfType ==
    ASSUME NEW s \in {"none", "Pending", "NotReady", "Ready", "Dead"},
           NEW t \in BOOLEAN, NEW a \in IPs \cup {""}
    PROVE  PodOf(s, t, a) \in Pod
BY DEF PodOf, Pod

\* The life of a sandbox keeps its types.
LEMMA LifeType == ASSUME LifeTypeOK, [LifeNext]_life PROVE LifeTypeOK'
<1>0. /\ pod.state \in {"none", "Pending", "NotReady", "Ready", "Dead"}
      /\ pod.terminating \in BOOLEAN /\ pod.ip \in IPs \cup {""}
  BY DEF LifeTypeOK, Pod
<1>1. pod' \in Pod
  <2>1. CASE CreatePod \/ StopPod \/ PodStarts
    BY <1>0, <2>1, PodOfType DEF CreatePod, StopPod, PodStarts
  <2>2. CASE PodFails \/ PodGone
    BY <1>0, <2>2, PodOfType DEF PodFails, PodGone, NoPod
  <2>3. CASE UNCHANGED pod
    BY <2>3 DEF LifeTypeOK
  <2> QED
    BY <2>1, <2>2, <2>3 DEF LifeNext, SetDesired, Delete, Removed, Publish, life
<1> QED
  BY <1>1 DEF LifeTypeOK, LifeNext, SetDesired, Delete, Removed, Publish,
     CreatePod, StopPod, PodStarts, PodFails, PodGone, life

\* The steps of the gateway and its surroundings that touch the sandbox.
LEMMA StepsOfLife == ASSUME LifeTypeOK, [Next]_vars PROVE [LifeNext]_life
<1>1. ASSUME NEW c \in Conns,
             authorize(c) \/ handleDirectTCPIP(c) \/ Leave(c) \/ ReapLive(c)
      PROVE  [LifeNext]_life
  BY <1>1 DEF authorize, handleDirectTCPIP, openSession, Awake,
     SetDesiredRunning, poll, DialSandbox, bridge, closeSession, Leave, ReapLive,
     LifeNext
<1>2. CASE Operate
  BY <1>2 DEF Operate, LifeNext, LifeTypeOK, Pod
<1>3. CASE OperateOutdated
  BY <1>3 DEF OperateOutdated, LifeNext
<1>4. CASE Kubelet \/ Disturb
  BY <1>4 DEF Kubelet, Disturb, LifeNext
<1>5. CASE finalize
  BY <1>5 DEF finalize, LifeNext
<1>6. CASE Restart \/ SyncView \/ Reap \/ Block \/ GoIdle
  BY <1>6 DEF Restart, SyncView, Reap, Block, GoIdle
<1>7. CASE UNCHANGED vars
  BY <1>7 DEF vars
<1> QED
  BY <1>1, <1>2, <1>3, <1>4, <1>5, <1>6, <1>7 DEF Next

-----------------------------------------------------------------------------
(***************************************************************************)
(* The handlers.                                                           *)
(***************************************************************************)

\* A handler that moves on to a place keeps the rest.
LEMMA MovedTo ==
    ASSUME NEW h \in Handler,
           NEW a \in {"off", "open", "wake", "poll", "dial", "bridged",
                      "astray", "closing"}
    PROVE  /\ [h EXCEPT !.at = a] \in Handler
           /\ [h EXCEPT !.at = a].at = a
           /\ [h EXCEPT !.at = a].left = h.left
BY ZenonT(60) DEF Handler

\* A handler that starts to poll, sees a route, or polls again.
LEMMA Polling ==
    ASSUME NEW h \in Handler
    PROVE  /\ LET n == [h EXCEPT !.at = "poll", !.left = WakePolls]
              IN  /\ n \in Handler /\ n.at = "poll" /\ n.left = WakePolls
           /\ \A r \in IPs \cup {""} :
                LET n == [h EXCEPT !.at = "dial", !.route = r]
                IN  n \in Handler /\ n.at = "dial"
           /\ h.left # 0 =>
                LET n == [h EXCEPT !.left = @ - 1]
                IN  /\ n \in Handler /\ n.at = h.at /\ n.left = h.left - 1
<1>1. WakePolls \in 0..WakePolls
  BY WakeAssumption
<1>2. h.left # 0 => h.left - 1 \in 0..WakePolls
  <2>1. h.left \in 0..WakePolls
    BY DEF Handler
  <2> QED
    BY <2>1, WakeAssumption
<1> QED
  BY <1>1, <1>2, Zenon DEF Handler

\* A handler that has ended, and one that was let in.
LEMMA Ends ==
    /\ Off \in Handler /\ Off.at = "off"
    /\ \A d \in {"Running", "Stopped"}, r \in IPs \cup {""} :
          LET n == [Off EXCEPT !.at = "open", !.desired = d, !.route = r]
          IN  n \in Handler /\ n.at = "open"
<1>1. 0 \in 0..WakePolls
  BY WakeAssumption
<1> QED
  BY <1>1, Zenon DEF Off, Handler

\* One step of a handler: where it was in h, and where it is in n.
Moves(h, n) ==
    \/ h.at = "off" /\ n.at = "open"
    \/ h.at = "open" /\ n.at = "wake"
    \/ h.at = "wake" /\ n.at = "poll" /\ n.left = WakePolls
    \/ h.at = "wake" /\ n.at \in {"dial", "closing"}
    \/ h.at = "poll" /\ n.at \in {"dial", "closing"}
    \/ h.at = "poll" /\ n.at = "poll" /\ h.left # 0 /\ n.left = h.left - 1
    \/ h.at = "dial" /\ n.at \in {"bridged", "astray", "closing"}
    \/ h.at \in {"bridged", "astray"} /\ n.at = "closing"
    \/ h.at = "closing" /\ n = Off

\* Every step of a handler is one of these, and is its alone.
LEMMA HandlerMoves ==
    ASSUME TypeOK, NEW c \in Conns,
           authorize(c) \/ handleDirectTCPIP(c) \/ Leave(c)
    PROVE  \E n \in Handler : Step(c, n) /\ Moves(conn[c], n)
<1>0. conn[c] \in Handler /\ view \in View
  BY Zenon DEF TypeOK
<1>1. CASE authorize(c)
  <2>1. view.desired \in {"Running", "Stopped"} /\ view.route \in IPs \cup {""}
    BY <1>0 DEF View
  <2> QED
    BY <1>1, <2>1, Ends, Zenon DEF authorize, Moves
<1>2. CASE openSession(c)
  <2> DEFINE n == [conn[c] EXCEPT !.at = "wake"]
  <2>1. n \in Handler /\ n.at = "wake"
    BY <1>0, MovedTo, Zenon
  <2>2. conn[c].at = "open" /\ Step(c, n)
    BY <1>2, Zenon DEF openSession
  <2> HIDE DEF n
  <2> QED
    BY <2>1, <2>2, Zenon DEF Moves
<1>3. CASE Awake(c)
  <2> DEFINE n == [conn[c] EXCEPT !.at = "dial"]
  <2>1. n \in Handler /\ n.at = "dial"
    BY <1>0, MovedTo, Zenon
  <2>2. conn[c].at = "wake" /\ Step(c, n)
    BY <1>3, Zenon DEF Awake
  <2> HIDE DEF n
  <2> QED
    BY <2>1, <2>2, Zenon DEF Moves
<1>4. CASE SetDesiredRunning(c)
  <2> DEFINE n == [conn[c] EXCEPT !.at = "poll", !.left = WakePolls]
             m == [conn[c] EXCEPT !.at = "closing"]
  <2>1. /\ n \in Handler /\ n.at = "poll" /\ n.left = WakePolls
    BY <1>0, Polling, Zenon
  <2>2. m \in Handler /\ m.at = "closing"
    BY <1>0, MovedTo, Zenon
  <2>3. conn[c].at = "wake" /\ (Step(c, n) \/ Step(c, m))
    BY <1>4 DEF SetDesiredRunning
  <2> HIDE DEF n, m
  <2> QED
    BY <2>1, <2>2, <2>3 DEF Moves
<1>5. CASE poll(c)
  <2>1. view.route \in IPs \cup {""}
    BY <1>0 DEF View
  <2> DEFINE n == [conn[c] EXCEPT !.at = "dial", !.route = view.route]
             m == [conn[c] EXCEPT !.at = "closing"]
             k == [conn[c] EXCEPT !.left = @ - 1]
  <2>2. n \in Handler /\ n.at = "dial"
    BY <1>0, <2>1, Polling, ZenonT(60)
  <2>3. m \in Handler /\ m.at = "closing"
    BY <1>0, MovedTo, Zenon
  <2>4. conn[c].left # 0 =>
          /\ k \in Handler /\ k.at = conn[c].at /\ k.left = conn[c].left - 1
    BY <1>0, Polling, Zenon
  <2>5. /\ conn[c].at = "poll"
        /\ Step(c, n) \/ Step(c, m) \/ (conn[c].left # 0 /\ Step(c, k))
    BY <1>5 DEF poll
  <2> HIDE DEF n, m, k
  <2> QED
    BY <2>2, <2>3, <2>4, <2>5 DEF Moves
<1>6. CASE DialSandbox(c)
  <2>1. PICK a \in {"bridged", "astray", "closing"} :
             Step(c, [conn[c] EXCEPT !.at = a])
    BY <1>6 DEF DialSandbox
  <2>2. conn[c].at = "dial"
    BY <1>6 DEF DialSandbox
  <2> DEFINE n == [conn[c] EXCEPT !.at = a]
  <2>3. n \in Handler /\ n.at = a
    <3>1. a \in {"off", "open", "wake", "poll", "dial", "bridged",
                 "astray", "closing"}
      OBVIOUS
    <3> QED
      BY <1>0, <3>1, MovedTo, ZenonT(60)
  <2>4. Step(c, n)
    BY <2>1
  <2> HIDE DEF n
  <2> QED
    BY <2>2, <2>3, <2>4, Zenon DEF Moves
<1>7. CASE bridge(c) \/ Leave(c)
  <2> DEFINE n == [conn[c] EXCEPT !.at = "closing"]
  <2>1. n \in Handler /\ n.at = "closing"
    BY <1>0, MovedTo, Zenon
  <2>2. /\ conn[c].at \in {"poll", "bridged", "astray"}
        /\ Step(c, n)
    BY <1>7, Zenon DEF bridge, Leave
  <2> HIDE DEF n
  <2> QED
    BY <2>1, <2>2, Zenon DEF Moves
<1>8. CASE closeSession(c)
  BY <1>0, <1>8, Ends, Zenon DEF closeSession, Moves
<1> QED
  BY <1>1, <1>2, <1>3, <1>4, <1>5, <1>6, <1>7, <1>8 DEF handleDirectTCPIP

\* The other steps leave the handlers alone, or end them all.
LEMMA OtherSteps ==
    ASSUME [Next]_vars
    PROVE  \/ \E c \in Conns : authorize(c) \/ handleDirectTCPIP(c) \/ Leave(c)
           \/ conn' = [c \in Conns |-> Off]
           \/ conn' = conn
BY ZenonT(60) DEF Next, ReapLive, Restart, SyncView, Operate, finalize, Reap,
       OperateOutdated, Kubelet, Disturb, Block, GoIdle, gateway, vars

\* Every step keeps the types.
LEMMA NextType == ASSUME TypeOK, [Next]_vars PROVE TypeOK'
<1>1. LifeTypeOK'
  BY StepsOfLife, LifeType, Zenon DEF TypeOK
<1>2. conn' \in [Conns -> Handler]
  <2>1. ASSUME NEW c \in Conns, NEW n \in Handler, Step(c, n)
        PROVE  conn' \in [Conns -> Handler]
    BY <2>1 DEF TypeOK, Step
  <2> QED
    BY <2>1, HandlerMoves, OtherSteps, Ends, Zenon DEF TypeOK
<1>3. view' \in View
  <2>1. view' = view \/ view' = [alive |-> alive, desired |-> desired,
                                 route |-> route]
    BY ZenonT(60) DEF Next, authorize, handleDirectTCPIP, openSession, Awake, SetDesiredRunning,
       poll, DialSandbox, bridge, closeSession, Leave, ReapLive, Restart,
       SyncView, Operate, finalize, Reap, OperateOutdated, Kubelet, Disturb,
       Block, GoIdle, gateway, vars
  <2> QED
    <3>1. [alive |-> alive, desired |-> desired, route |-> route] \in View
      BY ZenonT(60) DEF TypeOK, LifeTypeOK, View
    <3> QED
      BY <2>1, <3>1 DEF TypeOK
<1>4. idle' \in BOOLEAN /\ blocked' \in BOOLEAN
  BY ZenonT(60) DEF TypeOK, Next, authorize, handleDirectTCPIP, openSession, Awake, SetDesiredRunning,
     poll, DialSandbox, bridge, closeSession, Leave, ReapLive, Restart,
     SyncView, Operate, finalize, Reap, OperateOutdated, Kubelet, Disturb,
     Block, GoIdle, vars
<1>5. abandoned' \in BOOLEAN
  BY ZenonT(60) DEF TypeOK, Next, authorize, handleDirectTCPIP, openSession, Awake, SetDesiredRunning,
     poll, DialSandbox, bridge, closeSession, Leave, ReapLive, Restart,
     SyncView, Operate, finalize, Reap, OperateOutdated, Kubelet, Disturb,
     Block, GoIdle, records, vars
<1>6. sessions' \in SUBSET Conns
  <2>1. \/ sessions' \in SUBSET sessions
        \/ \E c \in Conns : sessions' = sessions \cup {c}
    BY ZenonT(60) DEF Next, authorize, handleDirectTCPIP, openSession, Awake, SetDesiredRunning,
       poll, DialSandbox, bridge, closeSession, Leave, ReapLive, Restart,
       SyncView, Operate, finalize, Reap, OperateOutdated, Kubelet, Disturb,
       Block, GoIdle, records, vars
  <2> QED
    BY <2>1 DEF TypeOK
<1>7. events' \in Nat
  <2>1. events' = events \/ events' = events + 1
    BY ZenonT(60) DEF Next, authorize, handleDirectTCPIP, openSession, Awake, SetDesiredRunning,
       poll, DialSandbox, bridge, closeSession, Leave, ReapLive, Restart,
       SyncView, Operate, finalize, Reap, OperateOutdated, Kubelet, Disturb,
       Block, GoIdle, Event, vars
  <2> QED
    BY <2>1 DEF TypeOK
<1> QED
  BY <1>1, <1>2, <1>3, <1>4, <1>5, <1>6, <1>7 DEF TypeOK

-----------------------------------------------------------------------------

\* The type invariant, for all values of the constants.
THEOREM TypeCorrect == Spec => []TypeOK
<1>1. Init => TypeOK
  <2> SUFFICES ASSUME Init PROVE TypeOK
    OBVIOUS
  <2>1. LifeTypeOK
    BY PodOfType, ZenonT(60) DEF Init, LifeInit, LifeTypeOK, NoPod
  <2> QED
    BY <2>1, Ends, ZenonT(60) DEF Init, TypeOK, View
<1>2. TypeOK /\ [Next]_vars => TypeOK'
  BY NextType
<1> QED
  BY <1>1, <1>2, PTL DEF Spec

\* The steps left are counted by the place, and are a natural number.
LEMMA StepsLeftAt ==
    ASSUME NEW h \in Handler
    PROVE  /\ h.at = "off" => StepsLeft(h) = 0
           /\ h.at = "closing" => StepsLeft(h) = 1
           /\ h.at \in {"bridged", "astray"} => StepsLeft(h) = 2
           /\ h.at = "dial" => StepsLeft(h) = 3
           /\ h.at = "poll" => StepsLeft(h) = h.left + 4
           /\ h.at = "wake" => StepsLeft(h) = WakePolls + 5
           /\ h.at = "open" => StepsLeft(h) = WakePolls + 6
           /\ h.left \in 0..WakePolls
BY DEF StepsLeft, Handler

\* A handler that has ended has none left.
LEMMA StepsLeftOff == StepsLeft(Off) = 0
BY DEF StepsLeft, Off

\* A step of a handler that was let in leaves it fewer steps.
LEMMA MovesDescend ==
    ASSUME NEW h \in Handler, NEW n \in Handler, Moves(h, n), h.at # "off"
    PROVE  StepsLeft(n) \in 0..(StepsLeft(h) - 1)
<1>1. CASE h.at = "closing" /\ n = Off
  BY <1>1, StepsLeftAt, StepsLeftOff
<1>2. CASE h.at = "open" /\ n.at = "wake"
  BY <1>2, StepsLeftAt, WakeAssumption
<1>3. CASE h.at = "wake" /\ n.at \in {"poll", "dial", "closing"}
  BY <1>3, StepsLeftAt, WakeAssumption
<1>4. CASE /\ h.at = "poll"
           /\ \/ n.at \in {"dial", "closing"}
              \/ n.at = "poll" /\ n.left = h.left - 1
  BY <1>4, StepsLeftAt, WakeAssumption
<1>5. CASE \/ h.at = "dial" /\ n.at \in {"bridged", "astray", "closing"}
           \/ h.at \in {"bridged", "astray"} /\ n.at = "closing"
  BY <1>5, StepsLeftAt
<1> QED
  BY <1>1, <1>2, <1>3, <1>4, <1>5, Zenon DEF Moves

(***************************************************************************)
(* handleDirectTCPIP, for any wake timeout and however many connections:   *)
(* each of its steps leaves fewer to take, and a natural number of them,   *)
(* whatever the operator, the reaper and the other handlers do meanwhile.  *)
(***************************************************************************)
THEOREM HandlerAdvancesHolds == Spec => HandlerAdvances
<1>1. ASSUME TypeOK, [Next]_vars, NEW c \in Conns,
             conn[c].at # "off", conn'[c] # conn[c]
      PROVE  StepsLeft(conn'[c]) \in 0..(StepsLeft(conn[c]) - 1)
  <2>0. conn[c] \in Handler
    BY <1>1 DEF TypeOK
  <2>1. ASSUME NEW d \in Conns, NEW n \in Handler, Step(d, n),
               Moves(conn[d], n)
        PROVE  StepsLeft(conn'[c]) \in 0..(StepsLeft(conn[c]) - 1)
    <3>1. d = c /\ conn'[c] = n
      BY <1>1, <2>1 DEF Step, TypeOK
    <3> QED
      BY <1>1, <2>0, <2>1, <3>1, MovesDescend, Zenon
  <2>2. CASE conn' = [e \in Conns |-> Off]
    <3>1. conn[c].at \in {"off", "open", "wake", "poll", "dial", "bridged",
                          "astray", "closing"}
      BY <2>0 DEF Handler
    <3>2. 0 \in 0..(StepsLeft(conn[c]) - 1)
      BY <1>1, <2>0, <3>1, StepsLeftAt, WakeAssumption
    <3> QED
      BY <2>2, <3>2, StepsLeftOff, Zenon
  <2> QED
    BY <1>1, <2>1, <2>2, HandlerMoves, OtherSteps
<1>2. TypeOK /\ [Next]_vars =>
        [\A c \in Conns :
          conn[c].at # "off" /\ conn'[c] # conn[c]
              => StepsLeft(conn'[c]) \in 0..(StepsLeft(conn[c]) - 1)]_vars
  BY <1>1
<1> QED
  BY <1>2, TypeCorrect, PTL DEF Spec, HandlerAdvances

(***************************************************************************)
(* The gateway's wake-up patch, and the operator as the gateway relies on  *)
(* it, keep the sandbox to SandboxLife, which SandboxController implements.*)
(***************************************************************************)
THEOREM KeepsToLife == Spec => LifeSpec
<1>1. Init => LifeInit
  BY DEF Init
<1>2. TypeOK /\ [Next]_vars => [LifeNext]_life
  BY StepsOfLife DEF TypeOK
<1> QED
  BY <1>1, <1>2, TypeCorrect, PTL DEF Spec, LifeSpec

==============================================================================
