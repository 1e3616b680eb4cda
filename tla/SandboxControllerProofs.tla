----------------------- MODULE SandboxControllerProofs -----------------------
(***************************************************************************)
(* Proofs about the sandbox reconciler for any templates, pod IPs and      *)
(* sessions, any idle timeout, and any bounds on time and outside events.  *)
(*                                                                         *)
(* Two arguments are carried together.  Every status around, stored,       *)
(* cached or being computed, is one the reconciler may publish (Routed).   *)
(* And the cached Sandbox is an earlier stage of the stored one: a pass    *)
(* that creates children runs under a stored finalizer, and a pass that    *)
(* tears down runs after the deletion (Staged).  A third one (Settling)    *)
(* shows that no wake-up is lost.                                          *)
(***************************************************************************)
EXTENDS SandboxController, TLAPS

\* A status that may be published.
StatusOK(st) ==
    /\ st.phase \in {"Suspending", "Suspended"} => st.podIP = ""
    /\ st.phase = "Running" =>
          st.podIP # "" /\ st.ready /\ st.lastActivity # Nil

\* A ready pod has an IP.
PodOK(p) == p.state = "Ready" => p.ip # ""

Routed ==
    /\ StatusOK(sb.status) /\ StatusOK(sbCache.status) /\ StatusOK(rc.st)
    /\ PodOK(pod) /\ PodOK(podCache)

Building == {"children", "suspend", "run", "status"}
Finalizing == {"finalize", "teardown", "closing"}

\* Nothing is left that finalize deletes by name.
TornDown ==
    /\ pod.state # "none" => pod.terminating
    /\ children \subseteq {"home", "bindings"}

\* The life of the Sandbox object, and how far the cache may lag behind.
Life ==
    /\ sb.alive = "deleting" => sb.finalizer
    /\ sb.alive = "gone" => ~sb.finalizer
    /\ sbCache.alive = "deleting" => sbCache.finalizer
    /\ sbCache.alive = "gone" => ~sbCache.finalizer
    /\ "cache" \in current => sbCache = sb
    /\ sbCache.alive # "live" => sb.alive # "live"
    /\ sbCache.alive = "gone" => sb.alive = "gone"
    /\ sbCache.alive = "live" /\ sbCache.finalizer =>
          sb.alive # "gone" /\ sb.finalizer

Staged ==
    /\ rc.at \in Building => sb.finalizer /\ sb.alive # "gone"
    /\ rc.at \in Finalizing => sb.alive # "live" /\ sbCache.alive # "live"
    /\ rc.at = "closing" => TornDown
    /\ sb.alive = "gone" => TornDown
    /\ ~sb.finalizer /\ sb.alive # "gone" =>
          children = {} /\ pod.state = "none"

IInv == TypeOK /\ Routed /\ Life /\ Staged

-----------------------------------------------------------------------------
(***************************************************************************)
(* Types.                                                                  *)
(***************************************************************************)

\* The fields of a sandbox, a status, a pod and a pass have their types.
LEMMA Fields ==
    ASSUME TypeOK
    PROVE  /\ sb.status \in Status /\ sbCache.status \in Status
           /\ rc.st \in Status /\ rc.old \in Status
           /\ sb.alive \in {"live", "deleting", "gone"}
           /\ sb.finalizer \in BOOLEAN /\ sbCache.finalizer \in BOOLEAN
           /\ sbCache.alive \in {"live", "deleting", "gone"}
           /\ rc.tpl \in Hashes \cup {""} /\ rc.todo \in SUBSET Sessions
           /\ rc.after \in Time
           /\ podCache.ip \in IPs \cup {""}
           /\ pod.ip \in IPs \cup {""}
BY DEF TypeOK, Sandbox, Pass, Pod

\* The initial values, and a pass not started.
LEMMA Constants ==
    /\ NewSandbox \in Sandbox /\ Idle \in Pass /\ NoPod \in Pod
    /\ \A h \in Hashes \cup {""} : BuildPod(h) \in Pod
<1>1. NewSandbox.status \in Status /\ NewSandbox \in Sandbox
  BY DEF NewSandbox, Sandbox, Status, Phases, Time, Nil
<1>2. Idle \in Pass
  BY <1>1 DEF Idle, Pass, Time, Nil
<1>3. NoPod \in Pod /\ \A h \in Hashes \cup {""} : BuildPod(h) \in Pod
  BY DEF NoPod, BuildPod, Pod
<1> QED
  BY <1>1, <1>2, <1>3

\* The pod after a call of the reconciler has its type.
LEMMA PodCalls ==
    ASSUME TypeOK
    PROVE  /\ DeletePod => pod' \in Pod /\ podEvent' \in BOOLEAN
           /\ KeepPod => pod' \in Pod /\ podEvent' \in BOOLEAN
           /\ \A h \in Hashes \cup {""} : CreatePod(h) =>
                 pod' \in Pod /\ podEvent' \in BOOLEAN
<1>1. [pod EXCEPT !.terminating = TRUE] \in Pod
  BY DEF TypeOK, Pod
<1> QED
  BY <1>1, Constants
     DEF TypeOK, DeletePod, KeepPod, CreatePod, WritePod, pods

\* Counting an outside event.
LEMMA Events == ASSUME TypeOK, Event PROVE events' \in Nat
<1>1. events \in Nat
  BY DEF TypeOK
<1> QED
  BY <1>1 DEF Event

\* The outside keeps the types.
LEMMA EnvironmentType == ASSUME TypeOK, Environment PROVE TypeOK'
<1>1. CASE SetDesired
  <2>1. \A d \in {"Running", "Stopped"} : [sb EXCEPT !.desired = d] \in Sandbox
    BY DEF TypeOK, Sandbox
  <2> QED
    BY <1>1, <2>1, Events
       DEF TypeOK, SetDesired, Write, pods, worker, caches
<1>2. CASE DeleteSandbox
  <2>1. \A a \in {"deleting", "gone"} : [sb EXCEPT !.alive = a] \in Sandbox
    BY DEF TypeOK, Sandbox
  <2> QED
    BY <1>2, <2>1, Events
       DEF TypeOK, DeleteSandbox, Write, pods, worker, caches
<1>3. CASE ChangeTemplate
  BY <1>3, Events DEF TypeOK, ChangeTemplate, pods, caches
<1>4. CASE ChangeGate
  BY <1>4, Events DEF TypeOK, ChangeGate, pods, caches
<1>5. CASE \E s \in Sessions : SessionOpens(s) \/ SessionCloses(s)
  BY <1>5, Events DEF TypeOK, SessionOpens, SessionCloses, pods, caches, worker,
              world
<1>6. CASE BumpActivity
  <2>1. \A t \in 0..clock : t \in Time
    BY DEF Time
  <2>2. \A t \in Time : [sb EXCEPT !.status.lastActivity = t] \in Sandbox
    BY DEF TypeOK, Sandbox, Status
  <2> QED
    BY <1>6, <2>1, <2>2, Events
       DEF TypeOK, BumpActivity, Write, pods, worker, caches
<1>7. CASE PodStarts
  <2>1. \A ip \in IPs : [pod EXCEPT !.state = "Ready", !.ip = ip] \in Pod
    BY DEF TypeOK, Pod
  <2> QED
    BY <1>7, <2>1, Zenon DEF TypeOK, PodStarts, WritePod, worker, caches, world
<1>8. CASE PodFails
  <2>1. /\ [pod EXCEPT !.state = "NotReady"] \in Pod
        /\ [pod EXCEPT !.state = "Dead"] \in Pod
        /\ [pod EXCEPT !.terminating = TRUE] \in Pod
    BY DEF TypeOK, Pod
  <2> QED
    BY <1>8, <2>1, Events DEF TypeOK, PodFails, WritePod, worker, caches
<1>9. CASE PodGone
  BY <1>9, Constants DEF TypeOK, PodGone, WritePod, worker, caches, world
<1>10. CASE OperatorRestart
  <2>1. timer' \in Time
    BY <1>10 DEF OperatorRestart, Time, Nil
  <2> QED
    BY <1>10, <2>1, Events, Constants DEF TypeOK, OperatorRestart, Listed
<1>11. CASE Tick
  <2>0. clock \in Nat
    BY DEF TypeOK
  <2>1. clock' \in Nat
    BY <1>11, <2>0 DEF Tick
  <2> QED
    BY <1>11, <2>1 DEF TypeOK, Tick, pods, worker, caches
<1> QED
  BY <1>1, <1>2, <1>3, <1>4, <1>5, <1>6, <1>7, <1>8, <1>9, <1>10, <1>11
     DEF Environment

\* The watches keep the types.
LEMMA WatchType == ASSUME TypeOK, Watch PROVE TypeOK'
<1>1. CASE SyncSandbox
  BY <1>1 DEF TypeOK, SyncSandbox, world, pods
<1>2. CASE SyncPod
  BY <1>2 DEF TypeOK, SyncPod, world
<1>3. CASE SyncSessions
  BY <1>3 DEF TypeOK, SyncSessions, world, pods
<1>4. CASE TimerFires
  BY <1>4 DEF TypeOK, TimerFires, world, pods, caches, Time, Nil
<1>5. CASE \E k \in Listed : SyncChild(k)
  BY <1>5 DEF TypeOK, SyncChild, world, pods, worker
<1> QED
  BY <1>1, <1>2, <1>3, <1>4, <1>5 DEF Watch

\* A pass ends its reconcileSandbox with a status of the right type.
LEMMA EndChildrenType ==
    ASSUME TypeOK, NEW st \in Status, EndChildren(st)
    PROVE  rc' \in Pass
BY DEF TypeOK, Pass, EndChildren

\* Starting a pass keeps the types.
LEMMA BeginPassType == ASSUME TypeOK, BeginPass PROVE TypeOK'
<1>1. Read \in Pass
  <2>1. sbCache.desired \in {"Running", "Stopped"} /\ sbCache.status \in Status
    BY DEF TypeOK, Sandbox
  <2> QED
    BY <2>1, Constants DEF Read, Pass
<1>2. \A a \in {"finalize", "children"} : [Read EXCEPT !.at = a] \in Pass
  BY <1>1 DEF Pass
<1>3. [sb EXCEPT !.finalizer = TRUE] \in Sandbox
  BY DEF TypeOK, Sandbox
<1>4. rc' \in Pass
  BY <1>2 DEF BeginPass, TypeOK
<1>5. sb' \in Sandbox
  BY <1>3 DEF BeginPass, WriteKeeping, TypeOK
<1>6. current' \in SUBSET {"cache", "ctl"} /\ queue' \in BOOLEAN
  BY DEF BeginPass, WriteKeeping, TypeOK
<1> QED
  BY <1>4, <1>5, <1>6 DEF TypeOK, BeginPass, world, pods, caches

\* reconcileSandbox keeps the types.
LEMMA ReconcileChildrenType ==
    ASSUME TypeOK, ReconcileChildren PROVE TypeOK'
<1>1. rc' \in Pass
  <2>1. /\ [rc.st EXCEPT !.phase = "Pending", !.ready = FALSE] \in Status
        /\ [rc.st EXCEPT !.phase = "Pending"] \in Status
        /\ rc.st \in Status
    <3>1. rc.st \in Status
      BY Fields
    <3>2. [rc.st EXCEPT !.phase = "Pending", !.ready = FALSE] \in Status
      BY <3>1 DEF Status, Phases
    <3>3. [rc.st EXCEPT !.phase = "Pending"] \in Status
      BY <3>1 DEF Status, Phases
    <3> QED
      BY <3>1, <3>2, <3>3
  <2>2. CASE \E st \in Status : EndChildren(st)
    BY <2>2, EndChildrenType
  <2>3. CASE \E a \in {"suspend", "run"}, i \in BOOLEAN, st \in Status :
             rc' = [rc EXCEPT !.at = a, !.tpl = tpl, !.idle = i, !.st = st]
    <3>1. rc \in Pass /\ tpl \in Hashes \cup {""}
      BY DEF TypeOK
    <3> QED
      BY <2>3, <3>1, ZenonT(60) DEF Pass
  <2>4. [rc.st EXCEPT !.activeSessions = activeCache] \in Status
    <3>1. activeCache \in SUBSET Sessions
      BY DEF TypeOK
    <3> QED
      BY <3>1, Fields DEF Status
  <2> QED
    BY <2>1, <2>2, <2>3, <2>4, Zenon DEF ReconcileChildren, Fail
<1>2. children' \in SUBSET Children
  BY DEF ReconcileChildren, TypeOK, CreatedBefore, Owned, Children
<1>3. queue' \in BOOLEAN
  BY DEF ReconcileChildren, Fail, TypeOK
<1>4. events' \in Nat
  BY Events DEF ReconcileChildren, TypeOK
<1> QED
  BY <1>1, <1>2, <1>3, <1>4 DEF TypeOK, ReconcileChildren, pods, caches

\* suspend keeps the types.
LEMMA SuspendType == ASSUME TypeOK, suspend PROVE TypeOK'
<1>1. /\ [Unrouted(rc.st, "Suspended") EXCEPT !.ready = FALSE] \in Status
      /\ Unrouted(rc.st, "Suspending") \in Status
  <2>1. rc.st \in Status
    BY Fields
  <2>2. Unrouted(rc.st, "Suspending") \in Status
    BY <2>1 DEF Status, Phases, Unrouted
  <2>3. Unrouted(rc.st, "Suspended") \in Status
    BY <2>1 DEF Status, Phases, Unrouted
  <2>4. [Unrouted(rc.st, "Suspended") EXCEPT !.ready = FALSE] \in Status
    BY <2>3 DEF Status
  <2> QED
    BY <2>2, <2>4
<1>2. rc' \in Pass
  BY <1>1, EndChildrenType DEF suspend
<1>3. pod' \in Pod /\ podEvent' \in BOOLEAN
  BY PodCalls DEF suspend, KeepPod
<1>4. queue' \in BOOLEAN
  BY DEF suspend, TypeOK
<1>5. events' \in Nat
  BY Events DEF suspend, TypeOK
<1> QED
  BY <1>2, <1>3, <1>4, <1>5 DEF TypeOK, suspend, caches

\* run keeps the types.
LEMMA RunType == ASSUME TypeOK, run PROVE TypeOK'
<1>1. CASE runCreate
  <2>1. \A ph \in {"Resuming", "Provisioning"} :
          [rc.st EXCEPT !.hash = rc.tpl, !.phase = ph, !.ready = FALSE]
             \in Status
    BY Fields, ZenonT(60) DEF Status, Phases
  <2>2. rc' \in Pass
    BY <1>1, <2>1, Fields, EndChildrenType DEF runCreate, Fail
  <2>3. pod' \in Pod /\ podEvent' \in BOOLEAN
    BY <1>1, PodCalls, Fields DEF runCreate
  <2>4. queue' \in BOOLEAN
    BY <1>1 DEF runCreate, Fail, TypeOK
  <2>5. events' \in Nat
    BY <1>1, Events DEF runCreate, TypeOK
  <2> QED
    BY <1>1, <2>2, <2>3, <2>4, <2>5 DEF TypeOK, runCreate, caches
<1>2. CASE runDead
  <2>1. Unrouted(rc.st, "Provisioning") \in Status
    BY Fields, ZenonT(60) DEF Status, Phases, Unrouted
  <2>2. rc' \in Pass
    BY <1>2, <2>1, Fields, EndChildrenType DEF runDead, Fail
  <2>3. pod' \in Pod /\ podEvent' \in BOOLEAN
    BY <1>2, PodCalls DEF runDead
  <2>4. queue' \in BOOLEAN
    BY <1>2 DEF runDead, Fail, TypeOK
  <2>5. events' \in Nat
    BY <1>2, Events DEF runDead, TypeOK
  <2> QED
    BY <1>2, <2>2, <2>3, <2>4, <2>5 DEF TypeOK, runDead, caches
<1>3. CASE runReady
  <2> DEFINE last == IF rc.st.phase # "Running" /\ rc.st.lastActivity = Nil
                     THEN clock ELSE rc.st.lastActivity
             t == IF rc.idle /\ IdleTimeout > 0 /\ last # Nil
                  THEN Later(last + IdleTimeout, clock) ELSE Nil
  <2>0. clock \in Nat /\ rc.st.lastActivity \in Time
    BY Fields DEF TypeOK, Status
  <2> DEFINE st == [rc.st EXCEPT !.phase = "Running", !.ready = TRUE,
                                 !.podIP = podCache.ip, !.lastActivity = last]
  <2>1. rc' = [rc EXCEPT !.at = "status", !.st = st, !.after = t]
    BY <1>3 DEF runReady
  <2>3. last \in Time
    BY <2>0 DEF Time
  <2>4. t \in Time
    BY <2>0, <2>3, TimeAssumption DEF Later, Time, Nil
  <2> HIDE DEF last, t
  <2>5. st \in Status
    BY <2>3, Fields, ZenonT(60) DEF Status, Phases
  <2> HIDE DEF st
  <2>2. rc' \in Pass
    <3>1. rc \in Pass
      BY DEF TypeOK
    <3> QED
      BY <2>1, <2>4, <2>5, <3>1 DEF Pass
  <2> QED
    BY <1>3, <2>2 DEF TypeOK, runReady, world, pods, caches
<1>4. CASE runWaiting
  <2>1. \A ph \in {"Resuming", "Provisioning"} :
          [rc.st EXCEPT !.phase = ph, !.podIP = "", !.ready = FALSE]
             \in Status
    BY Fields, ZenonT(60) DEF Status, Phases
  <2>2. rc' \in Pass
    BY <1>4, <2>1, EndChildrenType, Zenon DEF runWaiting
  <2> QED
    BY <1>4, <2>2 DEF TypeOK, runWaiting, world, pods, caches
<1> QED
  BY <1>1, <1>2, <1>3, <1>4 DEF run

\* Persisting the status keeps the types.
LEMMA PatchStatusType == ASSUME TypeOK, patchStatus PROVE TypeOK'
<1>1. [sb EXCEPT !.status = rc.st] \in Sandbox
  BY Fields DEF TypeOK, Sandbox
<1>2. sb' \in Sandbox /\ current' \in SUBSET {"cache", "ctl"}
  BY <1>1 DEF patchStatus, Write, TypeOK
<1>3. timer' \in Time
  BY Fields DEF patchStatus, RequeueAfter, TypeOK
<1>4. queue' \in BOOLEAN
  BY DEF patchStatus, TypeOK
<1> QED
  BY <1>2, <1>3, <1>4, Constants DEF TypeOK, patchStatus, world, pods, caches

\* finalize keeps the types.
LEMMA FinalizeType ==
    ASSUME TypeOK,
           \/ finalizeStatus \/ teardown \/ finishFinalize
           \/ \E s \in Sessions : closeSession(s)
    PROVE  TypeOK'
<1>0. rc \in Pass /\ sb \in Sandbox /\ activeCache \in SUBSET Sessions
  BY DEF TypeOK
<1>1. CASE finalizeStatus
  <2>1. [sb EXCEPT !.status.phase = "Terminating"] \in Sandbox
    BY <1>0 DEF Sandbox, Status, Phases
  <2>2. [rc EXCEPT !.at = "teardown"] \in Pass
    BY <1>0 DEF Pass
  <2> QED
    BY <1>1, <2>1, <2>2, Constants
       DEF TypeOK, finalizeStatus, WriteKeeping, Abort, world, pods, caches
<1>2. CASE teardown
  <2>1. [rc EXCEPT !.at = "closing", !.todo = activeCache] \in Pass
    BY <1>0 DEF Pass
  <2>2. pod' \in Pod /\ podEvent' \in BOOLEAN
    BY <1>2, PodCalls, ZenonT(60) DEF teardown, KeepPod, pods
  <2>3. children' \in SUBSET Children
    BY <1>2 DEF teardown, TypeOK, pods
  <2>4. events' \in Nat
    BY <1>2, Events DEF teardown, TypeOK
  <2> QED
    BY <1>2, <2>1, <2>2, <2>3, <2>4, Constants
       DEF TypeOK, teardown, Abort, caches
<1>3. CASE finishFinalize
  <2>1. [sb EXCEPT !.alive = "gone", !.finalizer = FALSE] \in Sandbox
    BY <1>0, Zenon DEF Sandbox
  <2>2. children' \in SUBSET Children
    BY <1>3 DEF finishFinalize, applyHomeRetainPolicy, TypeOK
  <2>3. events' \in Nat
    BY <1>3, Events, ZenonT(60) DEF finishFinalize, TypeOK
  <2>4. sb' \in Sandbox /\ current' \in SUBSET {"cache", "ctl"}
    BY <1>3, <2>1 DEF finishFinalize, Write, TypeOK
  <2>5. rc' \in Pass /\ queue' \in BOOLEAN
    BY <1>3, Constants DEF finishFinalize, Abort, TypeOK
  <2> QED
    BY <1>3, <2>2, <2>3, <2>4, <2>5 DEF TypeOK, finishFinalize, pods, caches
<1>4. ASSUME NEW s \in Sessions, closeSession(s) PROVE TypeOK'
  <2>1. [rc EXCEPT !.todo = @ \ {s}] \in Pass
    BY <1>0 DEF Pass
  <2>2. events' \in Nat
    BY <1>4, Events DEF closeSession, TypeOK
  <2> QED
    BY <1>4, <2>1, <2>2, Constants
       DEF TypeOK, closeSession, Abort, pods, caches
<1> QED
  BY <1>1, <1>2, <1>3, <1>4

\* Every step keeps the types.
LEMMA NextType == ASSUME TypeOK, [Next]_vars PROVE TypeOK'
<1>1. CASE UNCHANGED vars
  BY <1>1 DEF TypeOK, vars
<1> QED
  BY <1>1, EnvironmentType, WatchType, BeginPassType, ReconcileChildrenType,
     SuspendType, RunType, PatchStatusType, FinalizeType DEF Next, PassStep

-----------------------------------------------------------------------------
(***************************************************************************)
(* Every status around may be published.                                   *)
(***************************************************************************)

\* A pod call of the reconciler leaves a ready pod with an IP.
LEMMA PodCallsOK ==
    ASSUME TypeOK, PodOK(pod)
    PROVE  /\ DeletePod => PodOK(pod')
           /\ KeepPod => PodOK(pod')
           /\ \A h \in Hashes \cup {""} : CreatePod(h) => PodOK(pod')
<1>1. /\ [pod EXCEPT !.terminating = TRUE].state = pod.state
      /\ [pod EXCEPT !.terminating = TRUE].ip = pod.ip
  BY ZenonT(60) DEF TypeOK, Pod
<1>2. \A h : BuildPod(h).state = "Pending"
  BY DEF BuildPod
<1> QED
  BY <1>1, <1>2 DEF PodOK, DeletePod, KeepPod, CreatePod, WritePod, pods

\* The pod and its cached copy: ready only with an IP.
LEMMA NextPodOK ==
    ASSUME TypeOK, Routed, [Next]_vars PROVE PodOK(pod)' /\ PodOK(podCache)'
<1>0. PodOK(pod) /\ PodOK(podCache)
  BY DEF Routed
<1>1. CASE PodStarts
  <2>1. PICK ip \in IPs : pod' = [pod EXCEPT !.state = "Ready", !.ip = ip]
    BY <1>1, Zenon DEF PodStarts, WritePod
  <2>2. pod'.ip = ip
    BY <2>1 DEF TypeOK, Pod
  <2>3. ip # ""
    BY NoneAssumption
  <2> QED
    BY <1>0, <1>1, <2>2, <2>3 DEF PodOK, PodStarts, caches
<1>2. CASE PodFails
  <2>1. \/ pod' = [pod EXCEPT !.state = "NotReady"]
        \/ pod' = [pod EXCEPT !.state = "Dead"]
        \/ pod' = [pod EXCEPT !.terminating = TRUE]
    BY <1>2 DEF PodFails, WritePod
  <2>2. PodOK(pod')
    BY <1>0, <2>1 DEF PodOK, TypeOK, Pod
  <2> QED
    BY <1>0, <1>2, <2>2 DEF PodFails, caches, PodOK
<1>3. CASE PodGone
  <2>1. PodOK(NoPod)
    BY ZenonT(60) DEF PodOK, NoPod
  <2> QED
    BY <1>0, <1>3, <2>1 DEF PodGone, WritePod, caches, PodOK
<1>4. CASE suspend \/ run \/ teardown
  <2>1. PodOK(pod')
    BY <1>0, <1>4, PodCallsOK, Fields
       DEF suspend, run, runCreate, runDead, runReady, runWaiting, teardown,
           KeepPod
  <2> QED
    BY <1>0, <1>4, <2>1, ZenonT(60)
       DEF PodOK, suspend, run, runCreate, runDead, runReady, runWaiting,
           teardown, caches
<1>5. CASE SyncPod \/ OperatorRestart
  BY <1>0, <1>5, ZenonT(60) DEF PodOK, SyncPod, OperatorRestart
<1>6. CASE UNCHANGED <<pod, podCache>>
  BY <1>0, <1>6, ZenonT(60) DEF PodOK
<1> QED
  BY <1>1, <1>2, <1>3, <1>4, <1>5, <1>6, ZenonT(60)
     DEF Next, Environment, Watch, PassStep, SetDesired, DeleteSandbox,
         ChangeTemplate, ChangeGate, SessionOpens, SessionCloses,
         BumpActivity, Tick, SyncSandbox, SyncSessions, SyncChild, TimerFires,
         BeginPass, ReconcileChildren, patchStatus, finalizeStatus,
         closeSession, finishFinalize, pods, caches, vars

\* The initial status may be published.
LEMMA NewStatusOK == StatusOK(NewSandbox.status) /\ StatusOK(Idle.st)
BY DEF StatusOK, NewSandbox, Idle

\* The stored status: bumps, the pass's own writes.
LEMMA NextStoredOK ==
    ASSUME TypeOK, Routed, [Next]_vars PROVE StatusOK(sb.status)'
<1>0. sb \in Sandbox /\ sb.status \in Status /\ StatusOK(sb.status)
  BY Fields, ZenonT(60) DEF TypeOK, Routed
<1>1. CASE BumpActivity
  <2>1. PICK t \in 0..clock : sb' = [sb EXCEPT !.status.lastActivity = t]
    BY <1>1 DEF BumpActivity, Write
  <2>2. clock \in Nat
    BY DEF TypeOK
  <2>3. t # Nil
    BY <2>2 DEF Nil
  <2>4. /\ sb'.status.phase = sb.status.phase
        /\ sb'.status.podIP = sb.status.podIP
        /\ sb'.status.ready = sb.status.ready
        /\ sb'.status.lastActivity = t
    BY <1>0, <2>1 DEF Sandbox, Status
  <2> QED
    BY <1>0, <2>3, <2>4 DEF StatusOK
<1>2. CASE finalizeStatus
  <2>1. sb' = sb \/ sb' = [sb EXCEPT !.status.phase = "Terminating"]
    BY <1>2 DEF finalizeStatus, WriteKeeping
  <2>2. CASE sb' = [sb EXCEPT !.status.phase = "Terminating"]
    <3>1. sb'.status.phase = "Terminating"
      BY <1>0, <2>2 DEF Sandbox, Status
    <3> QED
      BY <3>1 DEF StatusOK
  <2> QED
    BY <1>0, <2>1, <2>2
<1>3. CASE patchStatus
  <2>1. sb' = sb \/ sb' = [sb EXCEPT !.status = rc.st]
    BY <1>3 DEF patchStatus, Write
  <2>2. sb'.status \in {sb.status, rc.st}
    BY <1>0, <2>1 DEF Sandbox
  <2>3. StatusOK(rc.st)
    BY DEF Routed
  <2> QED
    BY <1>0, <2>2, <2>3 DEF StatusOK
<1>4. CASE SetDesired \/ DeleteSandbox \/ BeginPass \/ finishFinalize
  <2>1. \/ sb' = sb
        \/ \E d : sb' = [sb EXCEPT !.desired = d]
        \/ \E a : sb' = [sb EXCEPT !.alive = a]
        \/ sb' = [sb EXCEPT !.finalizer = TRUE]
        \/ sb' = [sb EXCEPT !.alive = "gone", !.finalizer = FALSE]
    BY <1>4 DEF SetDesired, DeleteSandbox, BeginPass, finishFinalize, Write,
                WriteKeeping
  <2>2. sb'.status = sb.status
    BY <1>0, <2>1, Zenon DEF Sandbox
  <2> QED
    BY <1>0, <2>2, ZenonT(60) DEF StatusOK
<1>5. CASE UNCHANGED sb
  BY <1>0, <1>5, ZenonT(60) DEF StatusOK
<1> QED
  BY <1>1, <1>2, <1>3, <1>4, <1>5, ZenonT(60)
     DEF Next, Environment, Watch, PassStep, run, ChangeTemplate, ChangeGate,
         SessionOpens, SessionCloses, Tick, PodStarts, PodFails, PodGone,
         OperatorRestart, SyncSandbox, SyncPod, SyncSessions, SyncChild,
         TimerFires, ReconcileChildren, suspend, runCreate, runDead, runReady,
         runWaiting, teardown, closeSession, vars

\* The cached status was stored.
LEMMA NextCachedOK ==
    ASSUME TypeOK, Routed, [Next]_vars PROVE StatusOK(sbCache.status)'
<1>0. StatusOK(sb.status) /\ StatusOK(sbCache.status)
  BY DEF Routed
<1>1. sbCache' \in {sb, sbCache}
  BY ZenonT(60)
     DEF Next, Environment, Watch, PassStep, run, SetDesired, DeleteSandbox,
         ChangeTemplate, ChangeGate, SessionOpens, SessionCloses,
         BumpActivity, Tick, PodStarts, PodFails, PodGone, OperatorRestart,
         SyncSandbox, SyncPod, SyncSessions, SyncChild, TimerFires, BeginPass,
         ReconcileChildren, suspend, runCreate, runDead, runReady, runWaiting,
         patchStatus, finalizeStatus, teardown, closeSession, finishFinalize,
         caches, vars
<1> QED
  BY <1>0, <1>1, ZenonT(60) DEF StatusOK

\* The status a pass computes.
LEMMA NextComputedOK ==
    ASSUME TypeOK, Routed, [Next]_vars PROVE StatusOK(rc.st)'
<1>0. rc \in Pass /\ rc.st \in Status /\ StatusOK(rc.st)
  BY Fields DEF TypeOK, Routed
<1>1. ASSUME NEW st \in Status, StatusOK(st), EndChildren(st)
      PROVE  StatusOK(rc.st)'
  <2>1. rc'.st = st
    BY <1>0, <1>1, ZenonT(60) DEF EndChildren, Pass
  <2> QED
    BY <1>1, <2>1, ZenonT(60) DEF StatusOK
<1>2. CASE rc' = Idle
  BY <1>2, NewStatusOK DEF StatusOK
<1>3. CASE Fail
  BY <1>0, <1>1, <1>3 DEF Fail
<1>4. CASE BeginPass
  <2>1. rc' = rc \/ \E a : rc' = [Read EXCEPT !.at = a]
    BY <1>4 DEF BeginPass
  <2>2. \A a : [Read EXCEPT !.at = a].st = sbCache.status
    BY DEF Read, Idle
  <2>3. rc'.st \in {rc.st, sbCache.status}
    BY <2>1, <2>2, Zenon
  <2> QED
    BY <2>3 DEF Routed, StatusOK
<1>5. CASE ReconcileChildren
  <2> DEFINE x == [rc.st EXCEPT !.phase = "Pending", !.ready = FALSE]
             y == [rc.st EXCEPT !.phase = "Pending"]
             z == [rc.st EXCEPT !.activeSessions = activeCache]
  <2>1. x \in Status /\ x.phase = "Pending" /\ y \in Status
           /\ y.phase = "Pending"
    BY <1>0 DEF Status, Phases
  <2>2. StatusOK(x) /\ StatusOK(y)
    BY <2>1 DEF StatusOK
  <2>3. StatusOK(z)
    BY <1>0 DEF Status, StatusOK
  <2> DEFINE a == IF \/ rc.desired = "Stopped"
                     \/ activeCache = {} /\ idleExpired(rc.st.lastActivity,
                                                       IdleTimeout)
                  THEN "suspend" ELSE "run"
             st == IF rc.desired = "Stopped" THEN rc.st ELSE z
  <2>4. \/ EndChildren(x) \/ EndChildren(y) \/ Fail
        \/ rc' = [rc EXCEPT !.at = a, !.tpl = tpl, !.idle = activeCache = {},
                            !.st = st]
    BY <1>5, Zenon DEF ReconcileChildren
  <2>5. StatusOK(st)
    BY <1>0, <2>3
  <2> HIDE DEF x, y, z, a, st
  <2>6. CASE rc' = [rc EXCEPT !.at = a, !.tpl = tpl, !.idle = activeCache = {},
                              !.st = st]
    <3>1. rc'.st = st
      BY <1>0, <2>6 DEF Pass
    <3> QED
      BY <2>5, <3>1 DEF StatusOK
  <2> QED
    BY <1>1, <1>3, <2>1, <2>2, <2>4, <2>6
<1>6. CASE suspend
  <2> DEFINE x == [Unrouted(rc.st, "Suspended") EXCEPT !.ready = FALSE]
             y == Unrouted(rc.st, "Suspending")
  <2>1. /\ x \in Status /\ x.phase = "Suspended" /\ x.podIP = ""
        /\ y \in Status /\ y.phase = "Suspending" /\ y.podIP = ""
    BY <1>0 DEF Status, Phases, Unrouted
  <2>2. StatusOK(x) /\ StatusOK(y)
    BY <2>1 DEF StatusOK
  <2>3. EndChildren(x) \/ EndChildren(y)
    BY <1>6 DEF suspend
  <2> HIDE DEF x, y
  <2> QED
    BY <1>1, <2>1, <2>2, <2>3
<1>7. CASE runCreate \/ runDead \/ runWaiting
  <2>1. ASSUME NEW st \in Status, st.phase \in {"Resuming", "Provisioning"}
        PROVE  StatusOK(st)
    BY <2>1 DEF StatusOK
  <2>2. \/ Fail
        \/ \E st \in Status : /\ st.phase \in {"Resuming", "Provisioning"}
                              /\ EndChildren(st)
    <3>1. \A ph \in {"Resuming", "Provisioning"} :
            LET st == [rc.st EXCEPT !.hash = rc.tpl, !.phase = ph,
                                    !.ready = FALSE]
            IN  st \in Status /\ st.phase = ph
      BY <1>0, Fields, ZenonT(60) DEF Status, Phases
    <3>2. LET st == Unrouted(rc.st, "Provisioning")
          IN  st \in Status /\ st.phase = "Provisioning"
      BY <1>0 DEF Status, Phases, Unrouted
    <3>3. \A ph \in {"Resuming", "Provisioning"} :
            LET st == [rc.st EXCEPT !.phase = ph, !.podIP = "",
                                    !.ready = FALSE]
            IN  st \in Status /\ st.phase = ph
      BY <1>0 DEF Status, Phases
    <3> QED
      BY <1>7, <3>1, <3>2, <3>3, Zenon DEF runCreate, runDead, runWaiting
  <2> QED
    BY <1>1, <1>3, <2>1, <2>2
<1>8. CASE runReady
  <2> DEFINE last == IF rc.st.phase # "Running" /\ rc.st.lastActivity = Nil
                     THEN clock ELSE rc.st.lastActivity
             st == [rc.st EXCEPT !.phase = "Running", !.ready = TRUE,
                                 !.podIP = podCache.ip, !.lastActivity = last]
  <2>1. clock \in Nat
    BY DEF TypeOK
  <2>7. clock # Nil
    BY <2>1 DEF Nil
  <2>2. last # Nil
    BY <1>0, <2>7 DEF StatusOK
  <2>3. podCache.ip # ""
    BY <1>8 DEF Routed, PodOK, runReady, podReady
  <2>4. \E t : rc' = [rc EXCEPT !.at = "status", !.st = st, !.after = t]
    BY <1>8, Zenon DEF runReady
  <2> HIDE DEF last
  <2>5. st.phase = "Running" /\ st.podIP # "" /\ st.ready
           /\ st.lastActivity # Nil
    BY <1>0, <2>2, <2>3 DEF Status
  <2> HIDE DEF st
  <2>6. rc'.st = st
    BY <1>0, <2>4 DEF Pass
  <2> QED
    BY <2>5, <2>6 DEF StatusOK
<1>9. CASE finalizeStatus \/ teardown \/ \E s \in Sessions : closeSession(s)
  <2>1. \/ rc' = Idle
        \/ rc' = [rc EXCEPT !.at = "teardown"]
        \/ rc' = [rc EXCEPT !.at = "closing", !.todo = activeCache]
        \/ \E s : rc' = [rc EXCEPT !.todo = @ \ {s}]
    BY <1>9, Zenon DEF finalizeStatus, teardown, closeSession, Abort
  <2>2. rc' = Idle \/ rc'.st = rc.st
    BY <1>0, <2>1 DEF Pass
  <2> QED
    BY <1>0, <1>2, <2>2 DEF StatusOK
<1>10. CASE OperatorRestart \/ patchStatus \/ finishFinalize
  BY <1>2, <1>10 DEF OperatorRestart, patchStatus, finishFinalize, Abort
<1>11. CASE UNCHANGED rc
  BY <1>0, <1>11, ZenonT(60) DEF StatusOK
<1> QED
  BY <1>4, <1>5, <1>6, <1>7, <1>8, <1>9, <1>10, <1>11, ZenonT(60)
     DEF Next, Environment, Watch, PassStep, run, SetDesired, DeleteSandbox,
         ChangeTemplate, ChangeGate, SessionOpens, SessionCloses,
         BumpActivity, Tick, PodStarts, PodFails, PodGone,
         SyncSandbox, SyncPod, SyncSessions, SyncChild, TimerFires,
         worker, vars

\* Every status around may be published after a step, too.
LEMMA NextRouted == ASSUME TypeOK, Routed, [Next]_vars PROVE Routed'
BY NextPodOK, NextStoredOK, NextCachedOK, NextComputedOK DEF Routed

-----------------------------------------------------------------------------
(***************************************************************************)
(* The cache lags behind the life of the Sandbox; passes keep to it.       *)
(***************************************************************************)

\* The Sandbox is as far in its life as before.
SameLife == sb'.alive = sb.alive /\ sb'.finalizer = sb.finalizer

\* Writes of the spec and the status leave the life of the Sandbox alone.
LEMMA SameLifeWrites ==
    ASSUME TypeOK, SetDesired \/ BumpActivity \/ patchStatus \/ finalizeStatus
    PROVE  /\ SameLife
           /\ sbCache' = sbCache
           /\ "cache" \in current' => "cache" \in current /\ sb' = sb
<1>0. sb \in Sandbox
  BY DEF TypeOK
<1>1. \/ sb' = sb /\ current' \subseteq current
      \/ /\ "cache" \notin current'
         /\ \/ \E d : sb' = [sb EXCEPT !.desired = d]
            \/ \E t : sb' = [sb EXCEPT !.status.lastActivity = t]
            \/ \E p : sb' = [sb EXCEPT !.status.phase = p]
            \/ \E st : sb' = [sb EXCEPT !.status = st]
  BY DEF SetDesired, BumpActivity, patchStatus, finalizeStatus, Write,
         WriteKeeping
<1>2. SameLife
  BY <1>0, <1>1 DEF SameLife, Sandbox
<1>3. sbCache' = sbCache
  BY DEF SetDesired, BumpActivity, patchStatus, finalizeStatus, caches
<1> QED
  BY <1>1, <1>2, <1>3

\* Deleting the Sandbox leaves it to the finalizer, if there is one.
LEMMA DeleteLife ==
    ASSUME TypeOK, DeleteSandbox
    PROVE  /\ sb.alive = "live"
           /\ sb'.alive = IF sb.finalizer THEN "deleting" ELSE "gone"
           /\ sb'.finalizer = sb.finalizer
           /\ current' = {} /\ sbCache' = sbCache
BY DEF TypeOK, Sandbox, DeleteSandbox, Write, caches

\* What a pass starts from.
LEMMA BeginLife ==
    ASSUME TypeOK, Life, BeginPass
    PROVE  \/ rc' = rc /\ UNCHANGED <<sb, current>>
           \/ /\ rc'.at = "finalize" /\ sb' = sb
              /\ sb.alive # "live" /\ sbCache.alive # "live"
              /\ current' \subseteq current \cup {"ctl"}
           \/ /\ rc'.at = "children" /\ sb' = sb
              /\ sb.alive # "gone" /\ sb.finalizer
              /\ current' \subseteq current \cup {"ctl"}
           \/ /\ rc'.at = "children" /\ sb.alive = "live" /\ sbCache = sb
              /\ sb'.alive = "live" /\ sb'.finalizer
              /\ current' = {"ctl"}
<1>0. sb \in Sandbox /\ \A a : [Read EXCEPT !.at = a].at = a
  BY DEF TypeOK, Read, Idle
<1>1. CASE sbCache.alive = "gone" /\ UNCHANGED <<sb, current, rc>>
  BY <1>1
<1>2. CASE /\ sbCache.alive = "deleting" \/ sbCache.finalizer
           /\ rc' = [Read EXCEPT !.at = IF sbCache.alive = "deleting"
                                        THEN "finalize" ELSE "children"]
           /\ current' = IF "cache" \in current THEN current \cup {"ctl"}
                         ELSE current \ {"ctl"}
           /\ UNCHANGED sb
  BY <1>0, <1>2, Fields, ZenonT(60) DEF Life
<1>3. CASE /\ sbCache.alive = "live" /\ ~sbCache.finalizer
           /\ "cache" \in current
           /\ WriteKeeping([sb EXCEPT !.finalizer = TRUE])
           /\ rc' = [Read EXCEPT !.at = "children"]
  BY <1>0, <1>3 DEF Life, WriteKeeping, Sandbox
<1> QED
  BY <1>1, <1>2, <1>3 DEF BeginPass

\* The end of finalize: the Sandbox is gone, or nothing is written.
LEMMA FinishLife ==
    ASSUME TypeOK, finishFinalize
    PROVE  /\ rc.at = "closing" /\ rc' = Idle
           /\ pod' = pod /\ children' \subseteq children
           /\ sbCache' = sbCache
           /\ \/ UNCHANGED <<sb, current>>
              \/ sb'.alive = "gone" /\ sb'.finalizer = FALSE /\ current' = {}
BY DEF TypeOK, Sandbox, finishFinalize, applyHomeRetainPolicy, Write, Abort,
       pods, caches

\* The steps that touch neither the Sandbox nor its cached copy.
LEMMA OtherLife ==
    ASSUME [Next]_vars
    PROVE  \/ SetDesired \/ BumpActivity \/ patchStatus \/ finalizeStatus
           \/ DeleteSandbox \/ BeginPass \/ finishFinalize
           \/ SyncSandbox \/ OperatorRestart
           \/ UNCHANGED <<sb, sbCache, current>>
BY ZenonT(60) DEF Next, Environment, Watch, PassStep, run, ChangeTemplate, ChangeGate,
       SessionOpens, SessionCloses, Tick, PodStarts, PodFails, PodGone,
       SyncPod, SyncSessions, SyncChild, TimerFires, ReconcileChildren,
       suspend, runCreate, runDead, runReady, runWaiting, teardown,
       closeSession, caches, vars

\* The cached Sandbox stays an earlier stage of the stored one.
LEMMA NextLife == ASSUME TypeOK, Life, Staged, [Next]_vars PROVE Life'
<1>1. CASE SetDesired \/ BumpActivity \/ patchStatus \/ finalizeStatus
  BY <1>1, SameLifeWrites, Zenon DEF Life, SameLife
<1>2. CASE DeleteSandbox
  BY <1>2, DeleteLife, ZenonT(60) DEF Life
<1>3. CASE BeginPass
  <2>1. sbCache' = sbCache
    BY <1>3, Zenon DEF BeginPass, caches
  <2> QED
    BY <1>3, <2>1, BeginLife DEF Life
<1>4. CASE finishFinalize
  BY <1>4, FinishLife, ZenonT(60) DEF Life, Staged, Finalizing
<1>5. CASE SyncSandbox \/ OperatorRestart
  BY <1>5 DEF Life, SyncSandbox, OperatorRestart
<1>6. CASE UNCHANGED <<sb, sbCache, current>>
  BY <1>6 DEF Life
<1> QED
  BY <1>1, <1>2, <1>3, <1>4, <1>5, <1>6, OtherLife, Zenon

\* A pod that is left is terminating, before and after a call on it.
LEMMA PodCallsStage ==
    ASSUME TypeOK, DeletePod
    PROVE  /\ pod'.state # "none" => pod'.terminating
           /\ pod.state = "none" => pod'.state = "none"
BY ZenonT(60) DEF TypeOK, Pod, DeletePod, KeepPod, WritePod, pods

\* The kubelet and evictions: a terminating pod stays so, none stays none.
LEMMA PodStage ==
    ASSUME TypeOK, PodStarts \/ PodFails \/ PodGone
    PROVE  /\ pod.terminating =>
                 (pod'.state # "none" => pod'.terminating)
           /\ PodStarts => pod.state # "none" /\ ~pod.terminating
           /\ pod.state = "none" => pod'.state = "none"
           /\ UNCHANGED <<sb, sbCache, rc, children>>
<1>0. pod \in Pod
  BY DEF TypeOK
<1>1. \/ /\ PodStarts /\ ~pod.terminating
         /\ pod.state \in {"Pending", "NotReady"}
      \/ \E s : /\ pod' = [pod EXCEPT !.state = s]
                /\ pod.state \in {"Pending", "NotReady", "Ready"}
      \/ pod' = [pod EXCEPT !.terminating = TRUE] /\ pod.state # "none"
      \/ pod' = NoPod /\ pod.terminating
  BY Zenon DEF PodStarts, PodFails, PodGone, WritePod
<1>2. NoPod.state = "none"
  BY DEF NoPod
<1>3. UNCHANGED <<sb, sbCache, rc, children>>
  BY Zenon DEF PodStarts, PodFails, PodGone, worker, caches
<1>4. PodStarts => pod.state # "none" /\ ~pod.terminating
  BY ZenonT(60) DEF PodStarts
<1>5. pod.state = "none" => pod'.state = "none"
  BY <1>0, <1>1, <1>2, ZenonT(60) DEF Pod
<1>6. pod.terminating => (pod'.state # "none" => pod'.terminating)
  BY <1>0, <1>1, <1>2 DEF Pod
<1> QED
  BY <1>3, <1>4, <1>5, <1>6

\* A step of the pass that leaves the Sandbox as it is and goes on building.
LEMMA BuildingStep ==
    ASSUME TypeOK, Staged, rc.at \in Building, sb' = sb,
           rc'.at \in Building
    PROVE  Staged'
BY DEF Staged, Building, Finalizing

\* Where EndChildren leads.
LEMMA EndChildrenAt ==
    ASSUME TypeOK, NEW st, EndChildren(st) PROVE rc'.at = "status"
BY ZenonT(60) DEF TypeOK, Pass, EndChildren

\* Passes keep to the life of the Sandbox.
LEMMA NextStaged ==
    ASSUME TypeOK, Life, Staged, [Next]_vars PROVE Staged'
<1>0. rc \in Pass /\ sb \in Sandbox /\ children \in SUBSET Children
  BY DEF TypeOK
<1>i. Idle.at = "idle"
  BY Zenon DEF Idle
<1>1. CASE SetDesired \/ BumpActivity
  <2>1. SameLife /\ UNCHANGED <<sbCache, rc, children, pod>>
    BY <1>1, SameLifeWrites, ZenonT(60) DEF SetDesired, BumpActivity, worker, pods
  <2> QED
    BY <2>1, Zenon DEF Staged, SameLife, TornDown
<1>2. CASE DeleteSandbox
  <2>1. UNCHANGED <<rc, children, pod>>
    BY <1>2 DEF DeleteSandbox, worker, pods
  <2> QED
    BY <1>2, <2>1, DeleteLife, Fields, ZenonT(60)
       DEF Staged, TornDown, Building, Finalizing
<1>3. CASE PodStarts \/ PodFails \/ PodGone
  BY <1>3, PodStage, Fields DEF Staged, TornDown
<1>4. CASE SyncSandbox \/ OperatorRestart
  <2>1. /\ UNCHANGED <<sb, children, pod>> /\ sbCache' = sb
        /\ rc' = rc \/ rc' = Idle
    BY <1>4 DEF SyncSandbox, OperatorRestart, pods
  <2> QED
    BY <1>i, <2>1 DEF Staged, TornDown, Building, Finalizing
<1>5. CASE BeginPass
  <2>1. UNCHANGED <<sbCache, children, pod>>
    BY <1>5 DEF BeginPass, caches, pods
  <2> QED
    BY <1>5, <2>1, BeginLife
       DEF Staged, TornDown, Building, Finalizing, Life
<1>6. CASE ReconcileChildren
  <2>1. rc.at \in Building /\ sb' = sb
    BY <1>6 DEF ReconcileChildren, Building
  <2>2. rc'.at \in Building
    <3> DEFINE a == IF \/ rc.desired = "Stopped"
                       \/ activeCache = {} /\ idleExpired(rc.st.lastActivity,
                                                         IdleTimeout)
                    THEN "suspend" ELSE "run"
               x == IF rc.desired = "Stopped" THEN rc.st
                    ELSE [rc.st EXCEPT !.activeSessions = activeCache]
    <3>1. \/ \E st : EndChildren(st)
          \/ rc' = [rc EXCEPT !.at = a, !.tpl = tpl,
                              !.idle = activeCache = {}, !.st = x]
      BY <1>6, Zenon DEF ReconcileChildren, Fail
    <3>2. a \in {"suspend", "run"}
      OBVIOUS
    <3> HIDE DEF a, x
    <3> QED
      BY <1>0, <3>1, <3>2, EndChildrenAt DEF Pass, Building
  <2> QED
    BY <2>1, <2>2, BuildingStep
<1>7. CASE suspend \/ run
  <2>1. rc.at \in Building /\ sb' = sb
    BY <1>7 DEF suspend, run, runCreate, runDead, runReady, runWaiting,
                Building
  <2>2. \/ \E st : EndChildren(st)
        \/ \E st, t : rc' = [rc EXCEPT !.at = "status", !.st = st, !.after = t]
    BY <1>7, Zenon DEF suspend, run, runCreate, runDead, runReady, runWaiting, Fail
  <2>3. rc'.at = "status"
    BY <1>0, <2>2, EndChildrenAt, ZenonT(60) DEF Pass
  <2> QED
    BY <2>1, <2>3, BuildingStep, ZenonT(60) DEF Building
<1>8. CASE patchStatus
  <2>1. SameLife /\ rc' = Idle /\ UNCHANGED <<sbCache, children, pod>>
    BY <1>8, SameLifeWrites, Zenon DEF patchStatus, pods
  <2> QED
    BY <1>i, <2>1 DEF Staged, SameLife, TornDown, Building, Finalizing
<1>9. CASE finalizeStatus
  <2>1. SameLife /\ UNCHANGED <<sbCache, children, pod>>
    BY <1>9, SameLifeWrites DEF finalizeStatus, pods
  <2>2. rc.at = "finalize" /\ rc'.at \in {"teardown", "idle"}
    BY <1>0, <1>9, <1>i DEF finalizeStatus, Abort, Pass
  <2> QED
    BY <2>1, <2>2 DEF Staged, SameLife, TornDown, Building, Finalizing
<1>10. CASE teardown
  <2>1. rc.at = "teardown" /\ UNCHANGED <<sb, sbCache>>
    BY <1>10, ZenonT(60) DEF teardown, caches
  <2>2. CASE /\ DeletePod
             /\ children' = children \ ({"hostkey", "netpol", "sa"}
                                        \cup (childCache \ {"home"}))
             /\ rc' = [rc EXCEPT !.at = "closing", !.todo = activeCache]
    <3>1. rc'.at = "closing"
      BY <1>0, <2>2 DEF Pass
    <3>2. TornDown' /\ (pod.state = "none" => pod'.state = "none")
      BY <1>0, <2>2, PodCallsStage DEF TornDown, Children
    <3>3. children = {} => children' = {}
      BY <2>2, Zenon
    <3> QED
      BY <2>1, <3>1, <3>2, <3>3 DEF Staged, Building, Finalizing
  <2>3. CASE rc' = Idle
    <3>1. children' \subseteq children
      BY <1>10 DEF teardown
    <3>2. pod' = pod \/ DeletePod
      BY <1>10 DEF teardown, pods
    <3>3. TornDown => TornDown'
      BY <3>1, <3>2, PodCallsStage DEF TornDown
    <3>4. pod.state = "none" => pod'.state = "none"
      BY <3>2, PodCallsStage, ZenonT(60)
    <3> QED
      BY <1>i, <2>1, <2>3, <3>1, <3>3, <3>4, ZenonT(60)
         DEF Staged, Building, Finalizing
  <2> QED
    BY <1>10, <2>2, <2>3 DEF teardown, Abort
<1>11. CASE \E s \in Sessions : closeSession(s)
  <2>1. UNCHANGED <<sb, sbCache, children, pod>>
    BY <1>11 DEF closeSession, pods, caches
  <2>2. rc' = Idle \/ rc'.at = rc.at
    BY <1>0, <1>11, ZenonT(60) DEF closeSession, Abort, Pass
  <2> QED
    BY <1>i, <2>1, <2>2 DEF Staged, TornDown, Building, Finalizing
<1>12. CASE finishFinalize
  BY <1>i, <1>12, FinishLife, ZenonT(60) DEF Staged, TornDown, Building, Finalizing
<1>13. CASE UNCHANGED <<sb, sbCache, rc, children, pod>>
  BY <1>13 DEF Staged, TornDown
<1> QED
  BY <1>1, <1>2, <1>3, <1>4, <1>5, <1>6, <1>7, <1>8, <1>9, <1>10, <1>11,
     <1>12, <1>13
     DEF Next, Environment, Watch, PassStep, ChangeTemplate, ChangeGate,
         SessionOpens, SessionCloses, Tick, SyncPod, SyncSessions, SyncChild,
         TimerFires, pods, worker, caches, vars

-----------------------------------------------------------------------------

\* Nothing exists at the start but a Sandbox without a finalizer.
LEMMA InitIInv == Init => IInv
<1> SUFFICES ASSUME Init PROVE IInv
  OBVIOUS
<1>1. TypeOK
  BY Constants, ZenonT(60) DEF Init, TypeOK, Gates, Time, Nil
<1>2. Routed
  BY NewStatusOK, ZenonT(60) DEF Init, Routed, PodOK, NoPod
<1>3. Life
  BY ZenonT(60) DEF Init, Life, NewSandbox
<1>4. Staged
  BY DEF Init, Staged, NewSandbox, Idle, NoPod, Building, Finalizing
<1> QED
  BY <1>1, <1>2, <1>3, <1>4 DEF IInv

(***************************************************************************)
(* The inductive invariant: types, publishable statuses, and passes that   *)
(* keep to the life of the Sandbox although they read it from a cache.     *)
(***************************************************************************)
THEOREM InductiveInvariant == Spec => []IInv
<1>1. IInv /\ [Next]_vars => IInv'
  BY NextType, NextRouted, NextLife, NextStaged DEF IInv
<1> QED
  BY <1>1, InitIInv, PTL DEF Spec

\* The type invariant, for all values of the constants.
THEOREM TypeCorrect == Spec => []TypeOK
<1>1. IInv => TypeOK
  BY ZenonT(60) DEF IInv
<1> QED
  BY <1>1, InductiveInvariant, PTL

(***************************************************************************)
(* suspend and the branches of run: no suspending or suspended sandbox     *)
(* publishes a route.                                                      *)
(***************************************************************************)
THEOREM SuspendedHasNoRouteHolds == Spec => []SuspendedHasNoRoute
<1>1. IInv => SuspendedHasNoRoute
  BY ZenonT(60) DEF IInv, Routed, StatusOK, SuspendedHasNoRoute
<1> QED
  BY <1>1, InductiveInvariant, PTL

(***************************************************************************)
(* The ready branch of run: a Running sandbox has a route, is Ready and    *)
(* has an idle clock.                                                      *)
(***************************************************************************)
THEOREM RunningIsRoutableHolds == Spec => []RunningIsRoutable
<1>1. IInv => RunningIsRoutable
  BY DEF IInv, Routed, StatusOK, RunningIsRoutable
<1> QED
  BY <1>1, InductiveInvariant, PTL

\* finalize: a gone Sandbox leaves nothing that is deleted by name.
THEOREM GoneLeavesNothingHolds == Spec => []GoneLeavesNothing
<1>1. IInv => GoneLeavesNothing
  BY Zenon DEF IInv, Staged, TornDown, GoneLeavesNothing
<1> QED
  BY <1>1, InductiveInvariant, PTL

\* Reconcile: the finalizer is stored before anything is created.
THEOREM FinalizerGuardsChildrenHolds == Spec => []FinalizerGuardsChildren
<1>1. IInv => FinalizerGuardsChildren
  BY DEF IInv, Staged, FinalizerGuardsChildren
<1> QED
  BY <1>1, InductiveInvariant, PTL

-----------------------------------------------------------------------------
(***************************************************************************)
(* No wake-up is lost.  The argument follows a pass that nothing disturbs: *)
(* as long as the sandbox is not queued again, the cached copies are the   *)
(* ones the pass read.  The status it computes then fits them, and a pass  *)
(* that finds this status stored already, and leaves the pod alone, is the *)
(* last one.                                                               *)
(***************************************************************************)

\* The pod watch has nothing to deliver only when the cache is right.
PodSynced == ~podEvent => podCache = pod

\* The decision to suspend, on what the caches show.
Suspends(desired, last) ==
    \/ desired = "Stopped"
    \/ activeCache = {} /\ idleExpired(last, IdleTimeout)

\* The idle deadline, asked for by a pass or armed, is not too late.
InTime(last, t) ==
    activeCache = {} /\ IdleTimeout > 0 =>
        t # Nil /\ t <= Later(last + IdleTimeout, clock)

\* A status a pass may come to that changes nothing and is not repeated.
Outcome(desired, st, t) ==
    \/ /\ st.phase = "Suspended" /\ podCache.state = "none"
       /\ Suspends(desired, st.lastActivity)
    \/ /\ st.phase = "Suspending" /\ podCache.terminating
       /\ Suspends(desired, st.lastActivity)
    \/ /\ st.phase = "Running" /\ desired = "Running"
       /\ podReady(podCache) /\ st.podIP = podCache.ip
       /\ InTime(st.lastActivity, t)
    \/ /\ st.phase \in {"Provisioning", "Resuming"} /\ desired = "Running"
       /\ podCache.state \in {"Pending", "NotReady"}
    \/ /\ st.phase = "Pending"
       /\ tpl = "" \/ gate = "profile" \/ Home = "Existing"

\* A pass that is not to be repeated read what the cache still shows.
ReadsCache ==
    rc.at \in Building /\ ~queue =>
        /\ sbCache.alive = "live"
        /\ rc.old = sbCache.status /\ rc.desired = sbCache.desired

Decided ==
    /\ rc.at = "suspend" /\ ~queue => Suspends(rc.desired, rc.st.lastActivity)
    /\ rc.at = "run" /\ ~queue =>
          rc.desired = "Running" /\ (activeCache = {} => rc.idle)

Computed ==
    rc.at = "status" /\ ~queue /\ ~podEvent =>
        Outcome(rc.desired, rc.st, rc.after)

Resting ==
    rc.at = "idle" /\ ~queue /\ ~podEvent /\ "cache" \in current =>
        /\ sb.alive # "deleting"
        /\ sb.alive = "live" => Outcome(sb.desired, sb.status, timer)

Settling == PodSynced /\ ReadsCache /\ Decided /\ Computed /\ Resting

\* Once the sandbox is queued again there is nothing to show.
LEMMA QueuedSettles == ASSUME queue' = TRUE, PodSynced' PROVE Settling'
BY DEF Settling, ReadsCache, Decided, Computed, Resting

\* The pod cache is right when the pod watch has nothing to deliver.
LEMMA NextPodSynced == ASSUME PodSynced, [Next]_vars PROVE PodSynced'
<1>1. \/ podEvent' = TRUE
      \/ podCache' = pod /\ pod' = pod
      \/ UNCHANGED <<pod, podCache, podEvent>>
  <2>1. CASE Environment
    BY <2>1, Zenon
       DEF Environment, SetDesired, DeleteSandbox, ChangeTemplate, ChangeGate,
           SessionOpens, SessionCloses, BumpActivity, Tick, PodStarts,
           PodFails, PodGone, OperatorRestart, WritePod, pods, caches
  <2>2. CASE Watch
    BY <2>2, Zenon DEF Watch, SyncSandbox, SyncPod, SyncSessions, SyncChild,
                TimerFires, pods, caches
  <2>3. CASE PassStep \/ BeginPass
    BY <2>3, ZenonT(60)
       DEF PassStep, run, BeginPass, ReconcileChildren, suspend, runCreate,
           runDead, runReady, runWaiting, patchStatus, finalizeStatus,
           teardown, closeSession, finishFinalize, DeletePod, CreatePod,
           KeepPod, WritePod, pods, caches
  <2>4. CASE UNCHANGED vars
    BY <2>4 DEF vars
  <2> QED
    BY <2>1, <2>2, <2>3, <2>4, ZenonT(60) DEF Next
<1> QED
  BY <1>1, Zenon DEF PodSynced

\* The outside: what no watch reports leaves an outcome as it is.
LEMMA EnvironmentSettles ==
    ASSUME TypeOK, Settling, Environment, PodSynced' PROVE Settling'
<1>1. CASE ChangeTemplate \/ OperatorRestart
  BY <1>1, QueuedSettles, ZenonT(60) DEF ChangeTemplate, OperatorRestart
<1>2. CASE PodStarts \/ PodFails \/ PodGone
  <2>1. podEvent' = TRUE /\ UNCHANGED <<clock, sbCache, activeCache, rc, queue>>
    BY <1>2, Zenon DEF PodStarts, PodFails, PodGone, WritePod, worker, caches, world
  <2> QED
    BY <2>1 DEF Settling, ReadsCache, Decided, Computed, Resting, Suspends,
                idleExpired
<1>3. CASE SetDesired \/ DeleteSandbox \/ BumpActivity
  <2>1. /\ "cache" \notin current'
        /\ UNCHANGED <<clock, sbCache, podCache, activeCache, podEvent, tpl,
                       gate, rc, queue>>
    BY <1>3 DEF SetDesired, DeleteSandbox, BumpActivity, Write, pods, worker,
                caches
  <2> QED
    BY <2>1, ZenonT(60) DEF Settling, ReadsCache, Decided, Computed, Resting, Outcome,
                Suspends, InTime, idleExpired
<1>4. CASE ChangeGate
  <2>1. CASE "profile" \in {gate, gate'}
    <3>1. queue' = TRUE
      BY <1>4, <2>1, ZenonT(60) DEF ChangeGate
    <3> QED
      BY <3>1, QueuedSettles
  <2>2. CASE "profile" \notin {gate, gate'}
    <3>1. /\ gate # "profile" /\ gate' # "profile"
          /\ queue' = queue
          /\ UNCHANGED <<clock, sb, current, sbCache, podCache, activeCache,
                         podEvent, tpl, rc, timer>>
      BY <1>4, <2>2 DEF ChangeGate, pods, caches, TypeOK
    <3> QED
      BY <3>1, ZenonT(60)
         DEF Settling, ReadsCache, Decided, Computed, Resting, Outcome,
                  Suspends, InTime, idleExpired
  <2> QED
    BY <2>1, <2>2
<1>5. CASE \E s \in Sessions : SessionOpens(s) \/ SessionCloses(s)
  <2>1. UNCHANGED <<clock, sb, current, sbCache, podCache, activeCache, podEvent,
                    tpl, gate, rc, queue, timer>>
    BY <1>5 DEF SessionOpens, SessionCloses, pods, worker, caches, world
  <2> QED
    BY <2>1, ZenonT(60) DEF Settling, ReadsCache, Decided, Computed, Resting, Outcome,
                Suspends, InTime, idleExpired
<1>6. CASE Tick
  <2>1. UNCHANGED <<sb, current, sbCache, podCache, activeCache, podEvent, tpl,
                    gate, rc, queue, timer>>
    BY <1>6 DEF Tick, pods, worker, caches
  <2>2. clock \in Nat /\ clock' = clock + 1
    BY <1>6 DEF Tick, TypeOK
  <2>3. /\ sb.status.lastActivity \in Time /\ rc.st.lastActivity \in Time
        /\ timer \in Time /\ rc.after \in Time
    BY Fields, Zenon DEF TypeOK, Status
  <2>4. ASSUME NEW last \in Time, NEW t \in Time
        PROVE  /\ idleExpired(last, IdleTimeout) =>
                     idleExpired(last, IdleTimeout)'
               /\ InTime(last, t) => InTime(last, t)'
    BY <2>1, <2>2, TimeAssumption DEF idleExpired, InTime, Later, Time, Nil
  <2> QED
    BY <2>1, <2>3, <2>4, ZenonT(60)
       DEF Settling, ReadsCache, Decided, Computed, Resting,
       Outcome, Suspends
<1> QED
  BY <1>1, <1>2, <1>3, <1>4, <1>5, <1>6, ZenonT(60) DEF Environment

\* The watches queue the sandbox; what is not watched is not in an outcome.
LEMMA WatchSettles ==
    ASSUME TypeOK, Settling, Watch, PodSynced' PROVE Settling'
<1>1. CASE SyncSandbox \/ SyncPod \/ SyncSessions \/ TimerFires
  BY <1>1, QueuedSettles, ZenonT(60)
     DEF SyncSandbox, SyncPod, SyncSessions, TimerFires
<1>2. CASE \E k \in Listed : SyncChild(k)
  <2>1. UNCHANGED <<clock, sb, current, sbCache, podCache, activeCache, podEvent,
                    tpl, gate, rc, queue, timer>>
    BY <1>2 DEF SyncChild, pods, worker, world
  <2> QED
    BY <2>1, ZenonT(60) DEF Settling, ReadsCache, Decided, Computed, Resting, Outcome,
                Suspends, InTime, idleExpired
<1> QED
  BY <1>1, <1>2 DEF Watch

\* A pass starts from what the cache shows.
LEMMA BeginSettles ==
    ASSUME IInv, Settling, BeginPass, PodSynced' PROVE Settling'
<1>0. sbCache' = sbCache /\ rc.at = "idle"
  BY ZenonT(60) DEF BeginPass, caches
<1>1. CASE sbCache.alive = "gone" /\ UNCHANGED <<sb, current, rc>>
  BY <1>0, <1>1 DEF Settling, ReadsCache, Decided, Computed, Resting, Building,
                    IInv, Life
<1>2. CASE \E a \in {"finalize", "children"} :
             /\ rc' = [Read EXCEPT !.at = a]
             /\ a = "children" => sbCache.alive = "live"
  <2>1. PICK a \in {"finalize", "children"} :
             /\ rc' = [Read EXCEPT !.at = a]
             /\ a = "children" => sbCache.alive = "live"
    BY <1>2
  <2>2. rc'.at = a /\ rc'.old = sbCache.status /\ rc'.desired = sbCache.desired
    BY <2>1 DEF Read, Idle
  <2> QED
    BY <1>0, <2>1, <2>2 DEF Settling, ReadsCache, Decided, Computed, Resting,
                            Building
<1> QED
  <2>1. sbCache.alive \in {"live", "deleting", "gone"}
    BY Fields, ZenonT(60) DEF IInv
  <2> QED
    BY <1>1, <1>2, <2>1, ZenonT(60) DEF BeginPass, IInv, Life

\* What EndChildren leaves in the pass.
LEMMA EndChildrenFields ==
    ASSUME TypeOK, NEW st, EndChildren(st)
    PROVE  /\ rc'.at = "status" /\ rc'.st = st
           /\ rc'.old = rc.old /\ rc'.desired = rc.desired
           /\ rc'.after = rc.after
BY ZenonT(60) DEF TypeOK, Pass, EndChildren

\* A pass that comes to a status: what it read stays, its outcome is shown.
LEMMA StatusSettles ==
    ASSUME TypeOK, Settling, PodSynced', rc.at \in Building,
           rc'.at = "status", rc'.old = rc.old, rc'.desired = rc.desired,
           sbCache' = sbCache, queue' = queue,
           ~queue /\ ~podEvent' => Outcome(rc.desired, rc.st, rc.after)'
    PROVE  Settling'
BY DEF Settling, ReadsCache, Decided, Computed, Resting, Building

\* reconcileSandbox up to the desired-state machine.
LEMMA ReconcileChildrenSettles ==
    ASSUME TypeOK, Settling, ReconcileChildren, PodSynced' PROVE Settling'
<1>0. /\ rc.at = "children" /\ rc.st \in Status /\ rc \in Pass
      /\ UNCHANGED <<clock, tpl, gate, sbCache, podCache, activeCache>>
  BY Fields DEF ReconcileChildren, caches, TypeOK
<1>1. CASE queue' = TRUE
  BY <1>1, QueuedSettles, ZenonT(60)
<1>2. ASSUME NEW st, st.phase = "Pending", EndChildren(st), queue' = queue,
             tpl = "" \/ gate = "profile" \/ Home = "Existing"
      PROVE  Settling'
  <2>1. Outcome(rc.desired, rc.st, rc.after)'
    BY <1>0, <1>2, EndChildrenFields DEF Outcome
  <2> QED
    BY <1>0, <1>2, <2>1, EndChildrenFields, StatusSettles, ZenonT(60) DEF Building
<1>3. [rc.st EXCEPT !.phase = "Pending", !.ready = FALSE].phase = "Pending"
  BY <1>0 DEF Status
<1>4. [rc.st EXCEPT !.phase = "Pending"].phase = "Pending"
  BY <1>0 DEF Status
<1>5. CASE tpl = "" /\ EndChildren([rc.st EXCEPT !.phase = "Pending",
                                                 !.ready = FALSE])
              /\ UNCHANGED queue
  BY <1>2, <1>3, <1>5
<1>6. CASE gate = "profile" /\ EndChildren([rc.st EXCEPT !.phase = "Pending",
                                                         !.ready = FALSE])
              /\ UNCHANGED queue
  BY <1>2, <1>3, <1>6, ZenonT(60)
<1>7. CASE gate \in {"claimInUse", "claimMissing"}
              /\ EndChildren([rc.st EXCEPT !.phase = "Pending"])
              /\ queue' = (queue \/ ClaimRetried(gate))
  <2>1. Home = "Existing"
    BY <1>7 DEF TypeOK, Gates
  <2>2. queue' = TRUE \/ queue' = queue
    BY <1>7, ZenonT(60) DEF TypeOK
  <2> QED
    BY <1>1, <1>2, <1>4, <1>7, <2>1, <2>2, ZenonT(60)
<1>8. CASE Fail
  BY <1>1, <1>8 DEF Fail
<1> DEFINE a == IF \/ rc.desired = "Stopped"
                   \/ activeCache = {} /\ idleExpired(rc.st.lastActivity,
                                                     IdleTimeout)
                THEN "suspend" ELSE "run"
           x == IF rc.desired = "Stopped" THEN rc.st
                ELSE [rc.st EXCEPT !.activeSessions = activeCache]
<1>9. CASE /\ rc' = [rc EXCEPT !.at = a, !.tpl = tpl,
                               !.idle = activeCache = {}, !.st = x]
           /\ UNCHANGED queue
  <2>1. x.lastActivity = rc.st.lastActivity
    BY <1>0, ZenonT(60) DEF Status
  <2>2. /\ a \in {"suspend", "run"}
        /\ a = "suspend" => Suspends(rc.desired, rc.st.lastActivity)
        /\ a = "run" => rc.desired # "Stopped"
    BY DEF Suspends
  <2>3. rc.desired \in {"Running", "Stopped"}
    BY <1>0 DEF Pass
  <2> HIDE DEF a, x
  <2>4. /\ rc'.at = a /\ rc'.st = x
        /\ rc'.old = rc.old /\ rc'.desired = rc.desired
    BY <1>0, <1>9, ZenonT(60) DEF Pass
  <2>5. activeCache = {} => rc'.idle
    BY <1>0, <1>9, ZenonT(60) DEF Pass
  <2>6. ReadsCache'
    BY <1>0, <1>9, <2>4 DEF Settling, ReadsCache, Building
  <2>7. Decided'
    BY <1>0, <2>1, <2>2, <2>3, <2>4, <2>5 DEF Decided, Suspends, idleExpired
  <2> QED
    BY <2>2, <2>4, <2>6, <2>7 DEF Settling, Computed, Resting
<1> QED
  BY <1>5, <1>6, <1>7, <1>8, <1>9, ZenonT(60) DEF ReconcileChildren

\* suspend: no pod is left, or one that terminates.
LEMMA SuspendSettles ==
    ASSUME TypeOK, Settling, suspend, PodSynced' PROVE Settling'
<1>0. /\ rc.at = "suspend" /\ rc.st \in Status /\ rc \in Pass
      /\ UNCHANGED <<clock, tpl, gate, sbCache, podCache, activeCache>>
  BY Fields DEF suspend, caches, TypeOK
<1> DEFINE x == [Unrouted(rc.st, "Suspended") EXCEPT !.ready = FALSE]
           y == Unrouted(rc.st, "Suspending")
<1>x. /\ x.phase = "Suspended" /\ x.lastActivity = rc.st.lastActivity
      /\ y.phase = "Suspending" /\ y.lastActivity = rc.st.lastActivity
  BY <1>0, ZenonT(60) DEF Status, Unrouted
<1>1. CASE queue' = TRUE
  BY <1>1, QueuedSettles
<1>2. CASE queue' = queue
  <2>1. \/ podCache.state = "none" /\ EndChildren(x)
        \/ /\ podCache.state # "none" /\ EndChildren(y)
           /\ IF podCache.terminating THEN KeepPod ELSE DeletePod \/ queue
    BY <1>2 DEF suspend
  <2> HIDE DEF x, y
  <2>2. ASSUME ~queue, ~podEvent' PROVE Outcome(rc.desired, rc.st, rc.after)'
    <3>1. Suspends(rc.desired, rc.st.lastActivity)
      BY <1>0, <2>2 DEF Settling, Decided
    <3>2. CASE podCache.state = "none" /\ EndChildren(x)
      BY <1>0, <1>x, <3>1, <3>2, EndChildrenFields, ZenonT(60)
         DEF Outcome, Suspends, idleExpired
    <3>3. CASE podCache.state # "none" /\ EndChildren(y) /\ podCache.terminating
      BY <1>0, <1>x, <3>1, <3>3, EndChildrenFields, ZenonT(60)
         DEF Outcome, Suspends, idleExpired
    <3>4. CASE /\ podCache.state # "none" /\ ~podCache.terminating
               /\ DeletePod
      BY <1>0, <2>2, <3>4 DEF Settling, PodSynced, DeletePod, KeepPod, WritePod,
                              pods
    <3> QED
      BY <2>1, <2>2, <3>2, <3>3, <3>4
  <2>3. \E st : EndChildren(st)
    BY <2>1
  <2> QED
    BY <1>0, <1>2, <2>2, <2>3, EndChildrenFields, StatusSettles DEF Building
<1> QED
  BY <1>1, <1>2, Zenon DEF suspend

\* run: create the pod or restart a dead one, and look again.
LEMMA RunPodSettles ==
    ASSUME TypeOK, Settling, runCreate \/ runDead, PodSynced' PROVE Settling'
<1>0. /\ rc.at \in Building /\ rc \in Pass
      /\ UNCHANGED <<clock, tpl, gate, sbCache, podCache, activeCache>>
  BY ZenonT(60) DEF runCreate, runDead, caches, TypeOK, Building
<1>1. CASE queue' = TRUE
  BY <1>1, QueuedSettles
<1>2. CASE /\ podCache.state = "none" /\ queue' = queue
           /\ CreatePod(rc.tpl) /\ \E st : EndChildren(st)
  <2>1. podEvent'
    BY <1>0, <1>2 DEF Settling, PodSynced, CreatePod, KeepPod, WritePod, pods
  <2> QED
    BY <1>0, <1>2, <2>1, EndChildrenFields, StatusSettles
<1> QED
  BY <1>1, <1>2, Zenon DEF runCreate, runDead, Fail

\* run: a pod that is on its way, or ready, with the deadline asked for.
LEMMA RunSettles ==
    ASSUME IInv, Settling, runReady \/ runWaiting, PodSynced' PROVE Settling'
<1>0. /\ rc.at = "run" /\ rc \in Pass /\ rc.st \in Status /\ clock \in Nat
      /\ queue' = queue
      /\ UNCHANGED <<clock, tpl, gate, sbCache, podCache, activeCache>>
  BY Fields DEF IInv, runReady, runWaiting, caches, world, TypeOK
<1>d. ~queue => rc.desired = "Running" /\ (activeCache = {} => rc.idle)
  BY <1>0 DEF Settling, Decided
<1>1. CASE runReady
  <2> DEFINE last == IF rc.st.phase # "Running" /\ rc.st.lastActivity = Nil
                     THEN clock ELSE rc.st.lastActivity
             t == IF rc.idle /\ IdleTimeout > 0 /\ last # Nil
                  THEN Later(last + IdleTimeout, clock) ELSE Nil
             st == [rc.st EXCEPT !.phase = "Running", !.ready = TRUE,
                                 !.podIP = podCache.ip, !.lastActivity = last]
  <2>1. rc' = [rc EXCEPT !.at = "status", !.st = st, !.after = t]
    BY <1>1 DEF runReady
  <2>2. last \in Nat
    <3>1. rc.st.lastActivity \in Nat \cup {Nil}
      BY <1>0, ZenonT(60) DEF Status, Time
    <3>2. rc.st.phase = "Running" => rc.st.lastActivity # Nil
      BY DEF IInv, Routed, StatusOK
    <3> QED
      BY <1>0, <3>1, <3>2
  <2> HIDE DEF last
  <2>4. Later(last + IdleTimeout, clock) \in Nat
    BY <1>0, <2>2, TimeAssumption DEF Later
  <2>n. last # Nil /\ Later(last + IdleTimeout, clock) # Nil
    BY <2>2, <2>4 DEF Nil
  <2>3. rc.idle /\ IdleTimeout > 0 => t = Later(last + IdleTimeout, clock)
                                        /\ t # Nil
    BY <2>n, Zenon
  <2> HIDE DEF t
  <2>5. /\ st.phase = "Running" /\ st.podIP = podCache.ip
        /\ st.lastActivity = last
    BY <1>0 DEF Status
  <2> HIDE DEF st
  <2>6. /\ rc'.at = "status" /\ rc'.st = st /\ rc'.after = t
        /\ rc'.old = rc.old /\ rc'.desired = rc.desired
    BY <1>0, <2>1 DEF Pass
  <2>7. podReady(podCache)
    BY <1>1 DEF runReady
  <2>8. ~queue => InTime(last, t)
    BY <1>d, <2>3, <2>4 DEF InTime
  <2>9. ~queue => InTime(rc.st.lastActivity, rc.after)'
    BY <1>0, <2>5, <2>6, <2>8, ZenonT(60) DEF InTime
  <2>10. ~queue => Outcome(rc.desired, rc.st, rc.after)'
    BY <1>0, <1>d, <2>5, <2>6, <2>7, <2>9, ZenonT(60) DEF Outcome, podReady
  <2> QED
    BY <1>0, <2>6, <2>10, StatusSettles DEF Building, IInv
<1>2. CASE runWaiting
  <2> DEFINE ph == IF rc.st.phase = "Resuming" THEN "Resuming"
                   ELSE "Provisioning"
             st == [rc.st EXCEPT !.phase = ph, !.podIP = "", !.ready = FALSE]
  <2>1. EndChildren(st) /\ podCache.state \in {"Pending", "NotReady"}
    BY <1>2 DEF runWaiting
  <2>2. st.phase \in {"Provisioning", "Resuming"}
    BY <1>0 DEF Status
  <2> HIDE DEF st
  <2>3. ~queue => Outcome(rc.desired, rc.st, rc.after)'
    BY <1>0, <1>d, <2>1, <2>2, EndChildrenFields, Zenon DEF Outcome, IInv
  <2> QED
    BY <1>0, <2>1, <2>3, EndChildrenFields, StatusSettles DEF Building, IInv
<1> QED
  BY <1>1, <1>2

\* patchStatus: a pass with nothing to write leaves its outcome behind.
LEMMA PatchStatusSettles ==
    ASSUME IInv, Settling, patchStatus, PodSynced' PROVE Settling'
<1>0. /\ rc.at = "status" /\ rc' = Idle /\ Idle.at = "idle"
      /\ UNCHANGED <<clock, tpl, gate, sbCache, podCache, activeCache, podEvent>>
  BY ZenonT(60) DEF patchStatus, caches, world, pods, Idle
<1>1. ReadsCache' /\ Decided' /\ Computed'
  BY <1>0 DEF ReadsCache, Decided, Computed, Building
<1>2. Resting'
  <2>1. CASE rc.st = rc.old /\ current' = current \ {"ctl"}
                /\ RequeueAfter(rc.after) /\ UNCHANGED <<sb, queue>>
    <3> SUFFICES ASSUME ~queue, ~podEvent, "cache" \in current
                 PROVE  /\ sb.alive # "deleting"
                        /\ Outcome(sb.desired, sb.status, timer)'
      BY <1>0, <2>1, Zenon DEF Resting
    <3>1. sb = sbCache
      BY ZenonT(60) DEF IInv, Life
    <3>2. /\ sbCache.alive = "live"
          /\ rc.old = sb.status /\ rc.desired = sb.desired
      BY <1>0, <3>1, ZenonT(60) DEF Settling, ReadsCache, Building
    <3>3. Outcome(sb.desired, sb.status, rc.after)
      BY <1>0, <2>1, <3>2, ZenonT(60) DEF Settling, Computed
    <3>4. ASSUME InTime(sb.status.lastActivity, rc.after)
          PROVE  InTime(sb.status.lastActivity, timer)'
      <4>1. /\ sb.status.lastActivity \in Time /\ timer \in Time
            /\ rc.after \in Time /\ clock \in Nat
        BY Fields, ZenonT(60) DEF IInv, TypeOK, Status
      <4>2. Later(sb.status.lastActivity + IdleTimeout, clock) \in Int
        <5>1. /\ sb.status.lastActivity \in Int /\ clock \in Int
              /\ IdleTimeout \in Int
          BY <4>1, TimeAssumption DEF Time, Nil
        <5> HIDE DEF Later
        <5>2. \A x, y \in Int : Later(x, y) \in Int
          BY DEF Later
        <5>3. sb.status.lastActivity + IdleTimeout \in Int
          BY <5>1
        <5> QED
          BY <5>1, <5>2, <5>3, Zenon
      <4>3. rc.after # Nil => timer' # Nil /\ timer' <= rc.after
                                /\ timer' \in Nat
        BY <2>1, <4>1 DEF RequeueAfter, Time, Nil
      <4>4. activeCache = {} /\ IdleTimeout > 0 =>
              /\ timer' # Nil
              /\ timer' <= Later(sb.status.lastActivity + IdleTimeout, clock)
        BY <3>4, <4>1, <4>2, <4>3 DEF InTime, Time, Nil
      <4>5. UNCHANGED sb
        BY <2>1
      <4> QED
        BY <1>0, <4>4, <4>5 DEF InTime, Later
    <3> QED
      BY <1>0, <2>1, <3>1, <3>2, <3>3, <3>4, Zenon
         DEF Outcome, Suspends, idleExpired, podReady
  <2>2. CASE "ctl" \in current /\ Write([sb EXCEPT !.status = rc.st])
    BY <2>2, ZenonT(60) DEF Write, Resting
  <2>3. CASE queue' = (queue \/ sb.alive # "gone") /\ UNCHANGED sb
    <3>1. sb.alive # "gone"
      BY <1>0 DEF IInv, Staged, Building
    <3> QED
      BY <2>3, <3>1, ZenonT(60) DEF Resting
  <2> QED
    BY <2>1, <2>2, <2>3 DEF patchStatus
<1> QED
  BY <1>1, <1>2 DEF Settling

\* finalize ends with the Sandbox gone, or is tried again.
LEMMA FinalizeSettles ==
    ASSUME TypeOK, Settling, PodSynced',
           \/ finalizeStatus \/ teardown \/ finishFinalize
           \/ \E s \in Sessions : closeSession(s)
    PROVE  Settling'
<1>0. rc \in Pass /\ Idle.at = "idle"
  BY DEF TypeOK, Idle
<1>1. \/ queue' = TRUE
      \/ rc'.at \in {"teardown", "closing"}
      \/ rc'.at = "idle" /\ current' = {}
  BY <1>0, ZenonT(60)
     DEF finalizeStatus, teardown, finishFinalize, closeSession, Abort,
              Write, Pass
<1> QED
  BY <1>1, QueuedSettles DEF Settling, ReadsCache, Decided, Computed, Resting,
                             Building

\* Every step keeps a pass to what it read.
LEMMA NextSettling == ASSUME IInv, Settling, [Next]_vars PROVE Settling'
<1>0. PodSynced' /\ TypeOK
  BY NextPodSynced DEF Settling, IInv
<1>1. CASE UNCHANGED vars
  BY <1>1, ZenonT(60)
     DEF vars, Settling, PodSynced, ReadsCache, Decided, Computed, Resting,
              Outcome, Suspends, InTime, idleExpired
<1>2. CASE Environment \/ Watch \/ BeginPass
  BY <1>0, <1>2, EnvironmentSettles, WatchSettles, BeginSettles
<1>3. CASE PassStep
  BY <1>0, <1>3, ReconcileChildrenSettles, SuspendSettles, RunPodSettles,
     RunSettles, PatchStatusSettles, FinalizeSettles DEF PassStep, run
<1> QED
  BY <1>1, <1>2, <1>3 DEF Next

\* A state in which nothing is pending is one the last pass left behind.
LEMMA SettlingIsRight == ASSUME TypeOK, Settling PROVE SettledIsRight
<1> SUFFICES ASSUME Settled
             PROVE  sb.alive # "deleting" /\ (sb.alive = "live" => Converged)
  BY DEF SettledIsRight
<1>1. podCache = pod /\ activeCache = active
  BY DEF Settling, PodSynced, Settled
<1>2. /\ sb.alive # "deleting"
      /\ sb.alive = "live" => Outcome(sb.desired, sb.status, timer)
  BY DEF Settling, Resting, Settled
<1>3. Outcome(sb.desired, sb.status, timer) => Converged
  BY <1>1, ZenonT(60)
     DEF Outcome, Suspends, InTime, Converged, ToSuspend, IdlePast, Armed
<1> QED
  BY <1>2, <1>3

(***************************************************************************)
(* Reconcile loses no wake-up: with nothing queued, delivered or running,  *)
(* a deleted Sandbox is gone and any other is as its spec, its sessions    *)
(* and its pod call for, with the idle timer armed if it runs idle.        *)
(***************************************************************************)
THEOREM SettledIsRightHolds == Spec => []SettledIsRight
<1>1. Init => Settling
  BY DEF Init, Settling, PodSynced, ReadsCache, Decided, Computed, Resting, Idle,
         Building
<1>2. IInv /\ Settling /\ [Next]_vars => Settling'
  BY NextSettling
<1>3. IInv /\ Settling => SettledIsRight
  BY SettlingIsRight DEF IInv
<1> QED
  BY <1>1, <1>2, <1>3, InductiveInvariant, PTL DEF Spec

-----------------------------------------------------------------------------
(***************************************************************************)
(* The reconciler implements SandboxLife.                                  *)
(***************************************************************************)

\* Without a pod nothing of one is left, and no other state is "none".
NoneIsNoPod == pod.state = "none" => pod = NoPod

\* What a step does to the pod.
PodStep ==
    \/ UNCHANGED pod
    \/ \E h \in Hashes \cup {""} :
          pod.state = "none" /\ pod' = BuildPod(h)
    \/ /\ pod.state # "none" /\ ~pod.terminating
       /\ pod' = [pod EXCEPT !.terminating = TRUE]
    \/ /\ pod.state \in {"Pending", "NotReady"} /\ ~pod.terminating
       /\ \E ip \in IPs :
             /\ pod.ip \in {"", ip}
             /\ pod' = [pod EXCEPT !.state = "Ready", !.ip = ip]
    \/ /\ pod.state = "Ready"
       /\ pod' = [pod EXCEPT !.state = "NotReady"]
    \/ /\ pod.state \in {"Pending", "NotReady", "Ready"}
       /\ pod' = [pod EXCEPT !.state = "Dead"]
    \/ pod.terminating /\ pod' = NoPod

\* The writes of a step that the gateway may see, one object at a time.
OnlyPod == UNCHANGED sb /\ PodStep

\* The calls of the operator on the pod are steps of its life.
LEMMA PodCallsStep ==
    ASSUME TypeOK
    PROVE  /\ DeletePod => PodStep
           /\ KeepPod => PodStep
           /\ \A h \in Hashes \cup {""} : CreatePod(h) => PodStep
<1>1. DeletePod => PodStep
  BY Zenon DEF DeletePod, KeepPod, WritePod, pods, PodStep
<1>2. KeepPod => PodStep
  BY DEF KeepPod, pods, PodStep
<1>3. ASSUME NEW h \in Hashes \cup {""}, CreatePod(h) PROVE PodStep
  BY <1>3, Zenon DEF CreatePod, KeepPod, WritePod, pods, PodStep
<1> QED
  BY <1>1, <1>2, <1>3

\* The steps that may change the pod change nothing of the Sandbox.
LEMMA PodSteps ==
    ASSUME TypeOK,
           \/ PodStarts \/ PodFails \/ PodGone
           \/ suspend \/ runCreate \/ runDead \/ teardown
    PROVE  OnlyPod
<1>1. CASE PodStarts
  BY <1>1, Zenon DEF PodStarts, WritePod, OnlyPod, PodStep
<1>2. CASE PodFails
  BY <1>2, Zenon DEF PodFails, WritePod, OnlyPod, PodStep
<1>3. CASE PodGone
  BY <1>3 DEF PodGone, WritePod, OnlyPod, PodStep
<1>4. CASE suspend
  BY <1>4, PodCallsStep, ZenonT(60) DEF suspend, pods, KeepPod, OnlyPod
<1>5. CASE runCreate
  BY <1>5, PodCallsStep, Fields, ZenonT(60) DEF runCreate, OnlyPod
<1>6. CASE runDead
  BY <1>6, PodCallsStep DEF runDead, OnlyPod
<1>7. CASE teardown
  BY <1>7, PodCallsStep, ZenonT(60) DEF teardown, pods, KeepPod, OnlyPod
<1> QED
  BY <1>1, <1>2, <1>3, <1>4, <1>5, <1>6, <1>7, Zenon

\* Every step changes the pod, or the Sandbox, or neither.
SandboxWrite ==
    SetDesired \/ DeleteSandbox \/ BumpActivity \/ BeginPass \/ patchStatus
        \/ finalizeStatus \/ finishFinalize

\* A step writes the Sandbox or the pod, never both at once.
LEMMA StepKinds ==
    ASSUME TypeOK, [Next]_vars
    PROVE  OnlyPod \/ (SandboxWrite /\ UNCHANGED pod)
<1>1. CASE \/ PodStarts \/ PodFails \/ PodGone
           \/ suspend \/ runCreate \/ runDead \/ teardown
  BY <1>1, PodSteps
<1>2. CASE UNCHANGED <<sb, pod>>
  BY <1>2, ZenonT(60) DEF OnlyPod, PodStep
<1>3. CASE SandboxWrite
  BY <1>3, ZenonT(60) DEF SandboxWrite, SetDesired, DeleteSandbox, BumpActivity,
              BeginPass, patchStatus, finalizeStatus, finishFinalize, pods
<1>4. CASE Environment
  BY <1>1, <1>2, <1>3, <1>4, ZenonT(60)
     DEF Environment, SandboxWrite, ChangeTemplate, ChangeGate, SessionOpens,
         SessionCloses, Tick, OperatorRestart, pods
<1>5. CASE Watch
  BY <1>2, <1>5
     DEF Watch, SyncSandbox, SyncPod, SyncSessions, SyncChild, TimerFires,
         pods
<1>6. CASE PassStep
  BY <1>1, <1>2, <1>3, <1>6, ZenonT(60)
     DEF PassStep, run, SandboxWrite, ReconcileChildren, runReady,
         runWaiting, closeSession, pods
<1>7. CASE BeginPass
  BY <1>3, <1>7 DEF SandboxWrite
<1>8. CASE UNCHANGED vars
  BY <1>2, <1>8 DEF vars
<1> QED
  BY <1>4, <1>5, <1>6, <1>7, <1>8, Zenon DEF Next

\* A pod that is not there has no address and does not terminate.
LEMMA NextNoneIsNoPod ==
    ASSUME TypeOK, NoneIsNoPod, [Next]_vars PROVE NoneIsNoPod'
<1>1. PodStep
  BY StepKinds, Zenon DEF OnlyPod, PodStep
<1>2. pod \in Pod
  BY ZenonT(60) DEF TypeOK
<1>3. ASSUME pod' # pod, pod' # NoPod PROVE pod'.state # "none"
  <2>1. CASE \E h \in Hashes \cup {""} : pod' = BuildPod(h)
    <3>1. PICK h \in Hashes \cup {""} : pod' = BuildPod(h)
      BY <2>1, ZenonT(60)
    <3>2. pod'.state = "Pending"
      BY <3>1 DEF BuildPod
    <3> QED
      BY <3>2
  <2>2. CASE pod.state # "none" /\ pod' = [pod EXCEPT !.terminating = TRUE]
    BY <1>2, <2>2 DEF Pod
  <2>3. CASE \E ip \in IPs : pod' = [pod EXCEPT !.state = "Ready", !.ip = ip]
    BY <1>2, <2>3 DEF Pod
  <2>4. CASE \E t \in {"NotReady", "Dead"} : pod' = [pod EXCEPT !.state = t]
    BY <1>2, <2>4 DEF Pod
  <2> QED
    BY <1>1, <1>3, <2>1, <2>2, <2>3, <2>4, ZenonT(60) DEF PodStep
<1> QED
  BY <1>3 DEF NoneIsNoPod

\* So it is in every reachable state.
LEMMA AlwaysNoneIsNoPod == Spec => []NoneIsNoPod
<1>1. Init => NoneIsNoPod
  BY ZenonT(60) DEF Init, NoneIsNoPod
<1>2. TypeOK /\ NoneIsNoPod /\ [Next]_vars => NoneIsNoPod'
  BY NextNoneIsNoPod
<1> QED
  BY <1>1, <1>2, TypeCorrect, PTL DEF Spec

\* The pod as SandboxLife sees it.
Seen(p) == [state |-> p.state, terminating |-> p.terminating, ip |-> p.ip]

\* What SandboxLife sees of a pod is determined by three fields.
LEMMA SeenPod ==
    /\ \A p : /\ Seen(p).state = p.state
              /\ Seen(p).terminating = p.terminating
              /\ Seen(p).ip = p.ip
    /\ \A p, s, t, a :
          p.state = s /\ p.terminating = t /\ p.ip = a
             => Seen(p) = AbstractLife!PodOf(s, t, a)
    /\ Seen(NoPod) = AbstractLife!NoPod
    /\ \A h : Seen(BuildPod(h)) = AbstractLife!PodOf("Pending", FALSE, "")
<1>1. \A p : /\ Seen(p).state = p.state
             /\ Seen(p).terminating = p.terminating
             /\ Seen(p).ip = p.ip
  BY Zenon DEF Seen
<1>2. \A p, s, t, a :
          p.state = s /\ p.terminating = t /\ p.ip = a
             => Seen(p) = AbstractLife!PodOf(s, t, a)
  BY Zenon DEF Seen, AbstractLife!PodOf
<1>3. Seen(NoPod) = AbstractLife!NoPod
  BY Zenon DEF Seen, NoPod, AbstractLife!NoPod, AbstractLife!PodOf
<1>4. \A h : Seen(BuildPod(h)) = AbstractLife!PodOf("Pending", FALSE, "")
  BY Zenon DEF Seen, BuildPod, AbstractLife!PodOf
<1> QED
  BY <1>1, <1>2, <1>3, <1>4

\* A step on the pod is one of SandboxLife.
LEMMA PodLife ==
    ASSUME IInv, NoneIsNoPod, OnlyPod,
           pod.state = "none" /\ pod' # pod => sb.alive # "gone"
    PROVE  [AbstractLife!LifeNext]_(AbstractLife!life)
<1>a. pod \in Pod
  BY DEF IInv, TypeOK
<1>b. UNCHANGED <<sb.alive, sb.desired, sb.status.podIP>>
  BY Zenon DEF OnlyPod
<1>1. CASE UNCHANGED pod
  BY <1>1 DEF OnlyPod, AbstractLife!life
<1>2. ASSUME NEW h \in Hashes \cup {""},
             pod.state = "none" /\ pod' = BuildPod(h)
      PROVE  AbstractLife!CreatePod
  <2>1. pod'.state = "Pending"
    BY <1>2 DEF BuildPod
  <2>2. Seen(pod) = AbstractLife!NoPod
    BY <1>2, SeenPod, ZenonT(60) DEF NoneIsNoPod
  <2>3. Seen(pod)' = AbstractLife!PodOf("Pending", FALSE, "")
    BY <1>2, SeenPod
  <2> QED
    BY <1>2, <1>b, <2>1, <2>2, <2>3, ZenonT(60) DEF AbstractLife!CreatePod, Seen
<1>3. ASSUME pod.state # "none" /\ ~pod.terminating,
             pod' = [pod EXCEPT !.terminating = TRUE]
      PROVE  AbstractLife!StopPod
  <2>1. pod'.state = pod.state /\ pod'.terminating = TRUE /\ pod'.ip = pod.ip
    BY <1>3, <1>a, ZenonT(60) DEF Pod
  <2>2. Seen(pod)' = AbstractLife!PodOf(Seen(pod).state, TRUE, Seen(pod).ip)
    BY <2>1, SeenPod, Zenon DEF Seen, AbstractLife!PodOf
  <2> QED
    BY <1>3, <1>b, <2>2 DEF AbstractLife!StopPod, Seen
<1>4. ASSUME pod.state \in {"Pending", "NotReady"} /\ ~pod.terminating,
             NEW ip \in IPs, pod.ip \in {"", ip},
             pod' = [pod EXCEPT !.state = "Ready", !.ip = ip]
      PROVE  AbstractLife!PodStarts
  <2>1. pod'.state = "Ready" /\ pod'.terminating = FALSE /\ pod'.ip = ip
    BY <1>4, <1>a DEF Pod
  <2>2. Seen(pod)' = AbstractLife!PodOf("Ready", FALSE, ip)
    BY <2>1, Zenon DEF Seen, AbstractLife!PodOf
  <2> QED
    BY <1>4, <1>b, <2>2 DEF AbstractLife!PodStarts, Seen
<1>5. ASSUME NEW s \in {"NotReady", "Dead"},
             pod.state \in IF s = "NotReady" THEN {"Ready"}
                           ELSE {"Pending", "NotReady", "Ready"},
             pod' = [pod EXCEPT !.state = s]
      PROVE  AbstractLife!PodFails
  <2>1. /\ pod'.state = s /\ pod'.terminating = pod.terminating
        /\ pod'.ip = pod.ip
    BY <1>5, <1>a, ZenonT(60) DEF Pod
  <2>2. Seen(pod)' = AbstractLife!PodOf(s, Seen(pod).terminating,
                                        Seen(pod).ip)
    BY <2>1, SeenPod, ZenonT(60) DEF Seen, AbstractLife!PodOf
  <2> QED
    BY <1>5, <1>b, <2>2 DEF AbstractLife!PodFails, Seen
<1>6. ASSUME pod.terminating, pod' = NoPod
      PROVE  AbstractLife!PodGone
  <2>1. Seen(pod)' = AbstractLife!NoPod
    BY <1>6, SeenPod, ZenonT(60)
  <2> QED
    BY <1>6, <1>b, <2>1, ZenonT(60) DEF AbstractLife!PodGone, Seen
<1> QED
  BY <1>1, <1>2, <1>3, <1>4, <1>5, <1>6, ZenonT(60)
     DEF OnlyPod, PodStep, AbstractLife!LifeNext

\* A write of the Sandbox is a step of SandboxLife, or not seen in it.
LEMMA SandboxLifeStep ==
    ASSUME IInv, NoneIsNoPod, SandboxWrite, UNCHANGED pod
    PROVE  [AbstractLife!LifeNext]_(AbstractLife!life)
<1> USE DEF AbstractLife!life, AbstractLife!LifeNext
<1>a. sb \in Sandbox /\ sb.status \in Status /\ rc.st \in Status
  BY Fields, ZenonT(60) DEF IInv, TypeOK
<1>1. CASE SetDesired
  <2>1. PICK d \in {"Running", "Stopped"} : sb' = [sb EXCEPT !.desired = d]
    BY <1>1 DEF SetDesired, Write
  <2>2. AbstractLife!SetDesired(d)
    BY <1>1, <1>a, <2>1, ZenonT(60) DEF SetDesired, AbstractLife!SetDesired, Sandbox
  <2> QED
    BY <2>2, ZenonT(60)
<1>2. CASE DeleteSandbox
  <2>1. ~sb.finalizer => pod = NoPod
    BY <1>2, ZenonT(60) DEF IInv, Staged, NoneIsNoPod, DeleteSandbox
  <2>2. ~sb.finalizer => Seen(pod) = AbstractLife!NoPod
    BY <2>1, SeenPod
  <2>3. AbstractLife!Delete
    BY <1>2, <1>a, <2>2, ZenonT(60)
       DEF DeleteSandbox, Write, AbstractLife!Delete, Seen, Sandbox
  <2> QED
    BY <2>3
<1>3. CASE BumpActivity
  <2>1. PICK t : sb' = [sb EXCEPT !.status.lastActivity = t]
    BY <1>3 DEF BumpActivity, Write
  <2>2. sb'.status.podIP = sb.status.podIP
    BY <1>a, <2>1, ZenonT(60) DEF Sandbox, Status
  <2>3. sb'.alive = sb.alive /\ sb'.desired = sb.desired
    BY <1>a, <2>1 DEF Sandbox
  <2> QED
    BY <2>2, <2>3
<1>4. CASE BeginPass
  BY <1>4, <1>a DEF BeginPass, WriteKeeping, Sandbox
<1>5. CASE patchStatus
  <2>1. CASE UNCHANGED sb
    BY <2>1, ZenonT(60)
  <2>2. CASE sb' = [sb EXCEPT !.status = rc.st]
    <3>1. AbstractLife!Publish(rc.st.podIP) /\ rc.st.podIP \in IPs \cup {""}
      BY <1>5, <1>a, <2>2, ZenonT(60)
         DEF IInv, Staged, Building, patchStatus, AbstractLife!Publish,
             Sandbox, Status
    <3> QED
      BY <3>1
  <2> QED
    BY <1>5, <2>1, <2>2, ZenonT(60) DEF patchStatus, Write
<1>6. CASE finalizeStatus
  <2>1. CASE UNCHANGED sb
    BY <2>1
  <2>2. CASE sb' = [sb EXCEPT !.status.phase = "Terminating"]
    <3>1. sb'.status.podIP = sb.status.podIP
      BY <1>a, <2>2, ZenonT(60) DEF Sandbox, Status
    <3>2. sb'.alive = sb.alive /\ sb'.desired = sb.desired
      BY <1>a, <2>2, ZenonT(60) DEF Sandbox
    <3> QED
      BY <3>1, <3>2
  <2> QED
    BY <1>6, <2>1, <2>2, ZenonT(60) DEF finalizeStatus, WriteKeeping
<1>7. CASE finishFinalize
  <2>1. CASE UNCHANGED sb
    BY <2>1
  <2>2. CASE sb' = [sb EXCEPT !.alive = "gone", !.finalizer = FALSE]
    <3>1. /\ sb.alive # "live"
          /\ Seen(pod) = AbstractLife!NoPod \/ pod.terminating
      BY <1>7, SeenPod
         DEF IInv, Staged, Finalizing, TornDown, NoneIsNoPod, finishFinalize
    <3>2. CASE sb.alive = "gone"
      BY <1>a, <2>2, <3>2, Zenon DEF Sandbox
    <3>3. CASE sb.alive = "deleting"
      <4>1. AbstractLife!Removed
        BY <1>a, <2>2, <3>1, <3>3, Zenon
           DEF AbstractLife!Removed, Seen, Sandbox
      <4> QED
        BY <4>1, ZenonT(60)
    <3> QED
      BY <1>a, <3>1, <3>2, <3>3, ZenonT(60) DEF Sandbox
  <2> QED
    BY <1>7, <2>1, <2>2 DEF finishFinalize, Write
<1> QED
  BY <1>1, <1>2, <1>3, <1>4, <1>5, <1>6, <1>7, ZenonT(60) DEF SandboxWrite

(***************************************************************************)
(* The reconciler implements SandboxLife, on which the gateway is built:   *)
(* its passes, whatever they read and however they interleave with users,  *)
(* the kubelet and restarts, leave one pod at a time, never create one for *)
(* a Sandbox that is gone, and let a Sandbox go only after its pod.        *)
(***************************************************************************)
THEOREM ImplementsLife == Spec => FollowsLife
<1>1. ASSUME Init PROVE AbstractLife!LifeInit
  <2>1. Seen(pod) = AbstractLife!NoPod
    BY <1>1, SeenPod DEF Init
  <2>2. /\ sb.alive = "live" /\ sb.desired = "Running"
        /\ sb.status.podIP = ""
    BY <1>1, Zenon DEF Init, NewSandbox
  <2> QED
    BY <2>1, <2>2, ZenonT(60) DEF Seen, AbstractLife!LifeInit
<1>2. ASSUME IInv, NoneIsNoPod, [Next]_vars
      PROVE  [AbstractLife!LifeNext]_(AbstractLife!life)
  <2>1. CASE OnlyPod
    <3>1. pod.state = "none" /\ pod' # pod => sb.alive # "gone"
      <4>1. ASSUME pod.state = "none", pod' # pod
            PROVE  runCreate
        BY <1>2, <4>1, ZenonT(60)
           DEF IInv, TypeOK, Pod, Next, Environment, Watch, PassStep, run,
               vars, pods, SetDesired, DeleteSandbox, ChangeTemplate,
               ChangeGate, SessionOpens, SessionCloses, BumpActivity, Tick,
               PodStarts, PodFails, PodGone, OperatorRestart, SyncSandbox,
               SyncPod, SyncSessions, SyncChild, TimerFires, BeginPass,
               ReconcileChildren, suspend, runDead, runReady, runWaiting,
               patchStatus, finalizeStatus, teardown, closeSession,
               finishFinalize, DeletePod, KeepPod, WritePod, NoneIsNoPod,
               NoPod
      <4> QED
        BY <1>2, <4>1, ZenonT(60) DEF runCreate, IInv, Staged, Building
    <3> QED
      BY <1>2, <2>1, <3>1, PodLife, ZenonT(60)
  <2>2. CASE SandboxWrite /\ UNCHANGED pod
    BY <1>2, <2>2, SandboxLifeStep
  <2> QED
    BY <1>2, <2>1, <2>2, StepKinds, ZenonT(60) DEF IInv
<1>3. IInv /\ NoneIsNoPod /\ [Next]_vars
        => [AbstractLife!LifeNext]_(AbstractLife!life)
  BY <1>2
<1> QED
  BY <1>1, <1>3, InductiveInvariant, AlwaysNoneIsNoPod, PTL
     DEF Spec, FollowsLife, AbstractLife!LifeSpec

==============================================================================
