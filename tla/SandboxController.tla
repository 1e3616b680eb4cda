------------------------- MODULE SandboxController -------------------------
(***************************************************************************)
(* The sandbox reconciler: one Sandbox object, its executor pod and its    *)
(* other children, driven by Reconcile, with the user, the kubelet, the    *)
(* sessions and the informer caches acting in between its API calls.       *)
(*                                                                         *)
(* The reconciler has one worker.  A pass reads the Sandbox from the       *)
(* informer cache, writes children, computes a status in memory and        *)
(* persists it last with the resourceVersion it read.  current is the set  *)
(* of copies ("cache", the informer's; "ctl", the pass's) that are the     *)
(* stored version; any write empties it, and an Update from a copy that is *)
(* not current is refused.                                                 *)
(***************************************************************************)
EXTENDS Integers

CONSTANTS
    Hashes,        \* hashes of the template's spec over time
    IPs,           \* pod IPs
    Sessions,      \* SandboxSession names
    IdleTimeout,   \* effective idle timeout in ticks; 0 disables suspension
    Home,          \* "Existing" claim, or created with policy Retain, Delete
    MaxTime,       \* bound: the clock stops here
    MaxEvents      \* bound: outside events (edits, faults, sessions)

ASSUME TimeAssumption == IdleTimeout \in Nat /\ MaxTime \in Nat
ASSUME EventsAssumption == MaxEvents \in Nat
ASSUME HomeAssumption == Home \in {"Existing", "Retain", "Delete"}
ASSUME NoneAssumption == "" \notin Hashes /\ "" \notin IPs

VARIABLES
    clock,
    events,       \* outside events so far
    sb,           \* the stored Sandbox
    sbCache,      \* the operator's cached Sandbox
    current,      \* copies of the Sandbox at the stored version
    pod, podCache,
    podEvent,     \* whether the pod watch has something to deliver
    tpl,          \* hash of the template, "" when it does not exist
    gate,         \* the state of its home claim and access profile
    active, activeCache,  \* Active sessions, stored and cached
    children,     \* children other than the pod that exist
    childCache,   \* of those read from the cache, the ones it shows
    rc,           \* the reconcile pass in progress
    queue,        \* whether the sandbox is in the workqueue
    timer         \* when a RequeueAfter puts it there, or Nil

vars == <<clock, events, sb, sbCache, current, pod, podCache, podEvent, tpl,
          gate, active, activeCache, children, childCache, rc, queue, timer>>

world == <<clock, events, tpl, gate>>
caches == <<sbCache, podCache, activeCache, childCache>>
worker == <<rc, queue, timer>>
pods == <<pod, podEvent>>

-----------------------------------------------------------------------------

Nil == -1
Time == Nat \cup {Nil}

Phases == {"", "Pending", "Provisioning", "Running", "Suspending",
           "Suspended", "Resuming", "Terminating"}

Status == [phase : Phases, podIP : IPs \cup {""}, hash : Hashes \cup {""},
           ready : BOOLEAN, lastActivity : Time,
           activeSessions : SUBSET Sessions]  \* the count, kept as a set

Sandbox == [alive : {"live", "deleting", "gone"}, finalizer : BOOLEAN,
            desired : {"Running", "Stopped"}, status : Status]

NewSandbox == [alive |-> "live", finalizer |-> FALSE, desired |-> "Running",
               status |-> [phase |-> "", podIP |-> "", hash |-> "",
                           ready |-> FALSE, lastActivity |-> Nil,
                           activeSessions |-> {}]]

(***************************************************************************)
(* The pod.  "Dead" stands for the phases Failed and Succeeded.  A         *)
(* terminating pod keeps its state until the kubelet removes it.           *)
(***************************************************************************)
Pod == [state : {"none", "Pending", "NotReady", "Ready", "Dead"},
        terminating : BOOLEAN, ip : IPs \cup {""}, hash : Hashes \cup {""}]

NoPod == [state |-> "none", terminating |-> FALSE, ip |-> "", hash |-> ""]

BuildPod(h) == [state |-> "Pending", terminating |-> FALSE, ip |-> "",
                hash |-> h]

(***************************************************************************)
(* The other children, in the order a pass creates them: the home PVC      *)
(* (unless it is an existing claim), the host-key Secret, the              *)
(* NetworkPolicy, the ServiceAccount, its RoleBindings.  The RoleBindings, *)
(* and a home to delete, are created only when the cache does not show     *)
(* them and deleted only when it does.                                     *)
(***************************************************************************)
Children == {"home", "hostkey", "netpol", "sa", "bindings"}
Listed == {"bindings"} \cup (IF Home = "Delete" THEN {"home"} ELSE {})
Owned == IF Home = "Existing" THEN Children \ {"home"} ELSE Children

Before == [home |-> {}, hostkey |-> {"home"}, netpol |-> {"home", "hostkey"},
           sa |-> {"home", "hostkey", "netpol"},
           bindings |-> {"home", "hostkey", "netpol", "sa"}]

CreatedBefore(child) == Before[child] \cap Owned

(***************************************************************************)
(* Access profile missing or not permitted; existing claim held by a       *)
(* sandbox that wins the tie-break, or not there.                          *)
(***************************************************************************)
Gates == {"open", "profile"} \cup
         (IF Home = "Existing" THEN {"claimInUse", "claimMissing"} ELSE {})

Pass == [at : {"idle", "children", "suspend", "run", "status", "finalize",
               "teardown", "closing"},
         desired : {"Running", "Stopped"},
         old : Status,             \* the status it read
         st : Status,              \* the status it computes
         tpl : Hashes \cup {""},   \* the template it read
         idle : BOOLEAN,           \* it saw no Active session
         after : Time,             \* when the result asks for a requeue
         todo : SUBSET Sessions]   \* sessions finalize has still to close

Idle == [at |-> "idle", desired |-> "Running", old |-> NewSandbox.status,
         st |-> NewSandbox.status, tpl |-> "", idle |-> FALSE, after |-> Nil,
         todo |-> {}]

idleExpired(last, timeout) ==
    timeout > 0 /\ last # Nil /\ clock - last > timeout

\* Mutant: the Ready condition is not looked at.
podReadyAnyhow(p) == p.state \in {"Pending", "Ready"}

podReady(p) == p.state = "Ready"

-----------------------------------------------------------------------------
(***************************************************************************)
(* API server writes.                                                      *)
(***************************************************************************)
Write(s) == sb' = s /\ current' = {}

\* Mutant: the finalizer is added in memory only.
WriteKeepingLost(s) == UNCHANGED sb /\ current' = {"ctl"}

\* The pass writes from its own copy and keeps the version it gets back.
WriteKeeping(s) == sb' = s /\ current' = {"ctl"}

WritePod(p) == pod' = p /\ podEvent' = TRUE
KeepPod == UNCHANGED pods

DeletePod ==
    IF pod.state = "none" \/ pod.terminating THEN KeepPod
    ELSE WritePod([pod EXCEPT !.terminating = TRUE])

\* Mutant: a pod that exists is replaced.
CreatePodReplacing(h) == WritePod(BuildPod(h))

\* Create ignores AlreadyExists.
CreatePod(h) == IF pod.state = "none" THEN WritePod(BuildPod(h)) ELSE KeepPod

Init ==
    /\ clock = 0
    /\ events = 0
    /\ sb = NewSandbox
    /\ sbCache = NewSandbox
    /\ current = {"cache"}
    /\ pod = NoPod
    /\ podCache = NoPod
    /\ podEvent = FALSE
    /\ tpl \in Hashes
    /\ gate = "open"
    /\ active = {}
    /\ activeCache = {}
    /\ children = {}
    /\ childCache = {}
    /\ rc = Idle
    /\ queue = TRUE
    /\ timer = Nil

-----------------------------------------------------------------------------
(***************************************************************************)
(* The outside: users, administrators, sessions, the kubelet, time.        *)
(***************************************************************************)
Event == events < MaxEvents /\ events' = events + 1

SetDesired ==
    /\ Event
    /\ sb.alive = "live"
    /\ \E d \in {"Running", "Stopped"} \ {sb.desired} :
          Write([sb EXCEPT !.desired = d])
    /\ UNCHANGED <<clock, tpl, gate, pods, active, children, worker, caches>>

DeleteSandbox ==
    /\ Event
    /\ sb.alive = "live"
    /\ Write([sb EXCEPT !.alive = IF sb.finalizer THEN "deleting"
                                  ELSE "gone"])
    /\ UNCHANGED <<clock, tpl, gate, pods, active, children, worker, caches>>

\* Templates and profiles are watched; claims are not.
ChangeTemplate ==
    /\ Event
    /\ tpl' \in (Hashes \cup {""}) \ {tpl}
    /\ queue' = TRUE
    /\ UNCHANGED <<clock, sb, current, gate, pods, active, children, rc, timer,
                   caches>>

ChangeGate ==
    /\ Event
    /\ gate' \in Gates \ {gate}
    /\ queue' = (queue \/ "profile" \in {gate, gate'})
    /\ UNCHANGED <<clock, sb, current, tpl, pods, active, children, rc, timer,
                   caches>>

SessionOpens(s) ==
    /\ Event
    /\ s \notin active
    /\ active' = active \cup {s}
    /\ UNCHANGED <<clock, sb, current, tpl, gate, pods, children, worker,
                   caches>>

SessionCloses(s) ==
    /\ s \in active
    /\ active' = active \ {s}
    /\ UNCHANGED <<world, sb, current, pods, children, worker, caches>>

\* The session reconciler's patch of lastActivityTime (no version check).
BumpActivity ==
    /\ Event
    /\ sb.alive # "gone"
    /\ \E t \in 0..clock :
          /\ t # sb.status.lastActivity
          /\ Write([sb EXCEPT !.status.lastActivity = t])
    /\ UNCHANGED <<clock, tpl, gate, pods, active, children, worker, caches>>

Tick ==
    /\ clock < MaxTime
    /\ clock' = clock + 1
    /\ UNCHANGED <<events, sb, current, tpl, gate, pods, active, children,
                   worker, caches>>

PodStarts ==
    /\ pod.state \in {"Pending", "NotReady"}
    /\ ~pod.terminating
    /\ \E ip \in IPs :
          /\ pod.ip \in {"", ip}
          /\ WritePod([pod EXCEPT !.state = "Ready", !.ip = ip])
    /\ UNCHANGED <<world, sb, current, active, children, worker, caches>>

\* The pod turns unready, dies, or is deleted by someone else (eviction).
PodFails ==
    /\ Event
    /\ \/ /\ pod.state = "Ready"
          /\ WritePod([pod EXCEPT !.state = "NotReady"])
       \/ /\ pod.state \in {"Pending", "NotReady", "Ready"}
          /\ WritePod([pod EXCEPT !.state = "Dead"])
       \/ /\ pod.state # "none"
          /\ ~pod.terminating
          /\ WritePod([pod EXCEPT !.terminating = TRUE])
    /\ UNCHANGED <<clock, sb, current, tpl, gate, active, children, worker,
                   caches>>

PodGone ==
    /\ pod.terminating
    /\ WritePod(NoPod)
    /\ UNCHANGED <<world, sb, current, active, children, worker, caches>>

-----------------------------------------------------------------------------
(***************************************************************************)
(* The watches: the cache moves to the stored version and the sandbox is   *)
(* queued.                                                                 *)
(***************************************************************************)
\* Mutant: a predicate lets only changes of the spec through.
SyncSandboxFiltered ==
    /\ "cache" \notin current
    /\ sbCache' = sb
    /\ current' = current \cup {"cache"}
    /\ queue' = (queue \/ sb.desired # sbCache.desired)
    /\ UNCHANGED <<world, sb, pods, podCache, active, activeCache, children,
                   childCache, rc, timer>>

SyncSandbox ==
    /\ "cache" \notin current
    /\ sbCache' = sb
    /\ current' = current \cup {"cache"}
    /\ queue' = TRUE
    /\ UNCHANGED <<world, sb, pods, podCache, active, activeCache, children,
                   childCache, rc, timer>>

\* Mutant: pods are not watched.
SyncPodUnwatched ==
    /\ podEvent
    /\ podEvent' = FALSE
    /\ podCache' = pod
    /\ UNCHANGED <<world, sb, sbCache, current, pod, active, activeCache,
                   children, childCache, worker>>

SyncPod ==
    /\ podEvent
    /\ podEvent' = FALSE
    /\ podCache' = pod
    /\ queue' = TRUE
    /\ UNCHANGED <<world, sb, sbCache, current, pod, active, activeCache,
                   children, childCache, rc, timer>>

\* Mutant: sessions are not watched.
SyncSessionsUnwatched ==
    /\ activeCache # active
    /\ activeCache' = active
    /\ UNCHANGED <<world, sb, sbCache, current, pods, podCache, active,
                   children, childCache, worker>>

SyncSessions ==
    /\ activeCache # active
    /\ activeCache' = active
    /\ queue' = TRUE
    /\ UNCHANGED <<world, sb, sbCache, current, pods, podCache, active,
                   children, childCache, rc, timer>>

\* Claims and RoleBindings are cached; their changes queue nothing.
SyncChild(k) ==
    /\ (k \in childCache) # (k \in children)
    /\ childCache' = IF k \in children THEN childCache \cup {k}
                     ELSE childCache \ {k}
    /\ UNCHANGED <<world, sb, sbCache, current, pods, podCache, active,
                   activeCache, children, worker>>

TimerFires ==
    /\ timer # Nil
    /\ clock >= timer
    /\ timer' = Nil
    /\ queue' = TRUE
    /\ UNCHANGED <<world, sb, current, pods, active, children, rc, caches>>

\* The operator restarts: pass and queue are lost, the caches rebuilt.
OperatorRestart ==
    /\ Event
    /\ rc' = Idle
    /\ queue' = TRUE
    /\ timer' = Nil
    /\ sbCache' = sb
    /\ current' = {"cache"}
    /\ podCache' = pod
    /\ podEvent' = FALSE
    /\ activeCache' = active
    /\ childCache' = children \cap Listed
    /\ UNCHANGED <<clock, sb, tpl, gate, pod, active, children>>

-----------------------------------------------------------------------------
(***************************************************************************)
(* Reconcile.  A pass starts from the cached Sandbox.  A pass that ends    *)
(* with an error, a refused update among them, is queued again; a pass     *)
(* whose first write (the finalizer) is refused changes nothing.           *)
(***************************************************************************)
Read == [Idle EXCEPT !.desired = sbCache.desired, !.old = sbCache.status,
                     !.st = sbCache.status]

BeginPass ==
    /\ rc.at = "idle"
    /\ queue
    /\ \/ /\ sbCache.alive = "gone"
          /\ queue' = FALSE
          /\ UNCHANGED <<sb, current, rc>>
       \/ /\ sbCache.alive = "deleting" \/ sbCache.finalizer
          /\ rc' = [Read EXCEPT !.at = IF sbCache.alive = "deleting"
                                       THEN "finalize" ELSE "children"]
          /\ current' = IF "cache" \in current THEN current \cup {"ctl"}
                        ELSE current \ {"ctl"}
          /\ queue' = FALSE
          /\ UNCHANGED sb
       \/ /\ sbCache.alive = "live" /\ ~sbCache.finalizer
          /\ "cache" \in current
          /\ WriteKeeping([sb EXCEPT !.finalizer = TRUE])
          /\ rc' = [Read EXCEPT !.at = "children"]
          /\ queue' = FALSE
    /\ UNCHANGED <<world, pods, active, children, timer, caches>>

EndChildren(st) == rc' = [rc EXCEPT !.at = "status", !.st = st]

\* A call fails: the status computed so far is still persisted.
Fail == EndChildren(rc.st) /\ queue' = TRUE

\* Mutant: finalize carries on after an error.
AbortIgnored ==
    /\ rc' = [rc EXCEPT !.at = "closing", !.todo = {}]
    /\ UNCHANGED queue

\* finalize returns an error.
Abort == rc' = Idle /\ queue' = TRUE

\* A claim in use is tried again later, a missing one is not.
ClaimRetried(g) == g = "claimInUse"

(***************************************************************************)
(* reconcileSandbox up to the desired-state machine: a missing template, a *)
(* blocked home or profile stop the pass; a failing call leaves the        *)
(* children before it; otherwise suspend or run.                           *)
(***************************************************************************)
ReconcileChildren ==
    /\ rc.at = "children"
    /\ \/ /\ tpl = ""
          /\ EndChildren([rc.st EXCEPT !.phase = "Pending", !.ready = FALSE])
          /\ UNCHANGED <<events, children, queue>>
       \/ /\ tpl # "" /\ gate \in {"claimInUse", "claimMissing"}
          /\ EndChildren([rc.st EXCEPT !.phase = "Pending"])
          /\ queue' = (queue \/ ClaimRetried(gate))
          /\ UNCHANGED <<events, children>>
       \/ /\ tpl # "" /\ gate = "profile"
          /\ children' = (children \cup CreatedBefore("sa"))
                            \ (childCache \cap {"bindings"})
          /\ EndChildren([rc.st EXCEPT !.phase = "Pending", !.ready = FALSE])
          /\ UNCHANGED <<events, queue>>
       \/ /\ tpl # "" /\ gate \in {"open", "profile"}
          /\ Event
          /\ \E child \in Owned :
                children' = children \cup CreatedBefore(child)
          /\ Fail
       \/ /\ tpl # "" /\ gate = "open"
          /\ children' = children \cup (Owned \ childCache)
          /\ LET idle == activeCache = {} IN
             rc' = [rc EXCEPT
                      !.at = IF \/ rc.desired = "Stopped"
                                \/ idle /\ idleExpired(rc.st.lastActivity,
                                                       IdleTimeout)
                             THEN "suspend" ELSE "run",
                      !.tpl = tpl, !.idle = idle,
                      !.st = IF rc.desired = "Stopped" THEN @
                             ELSE [@ EXCEPT !.activeSessions = activeCache]]
          /\ UNCHANGED <<events, queue>>
    /\ UNCHANGED <<clock, sb, current, tpl, gate, pods, active, timer, caches>>

Unrouted(st, phase) == [st EXCEPT !.phase = phase, !.podIP = ""]

(***************************************************************************)
(* suspend: the route is cleared in memory, the pod deleted; persisting    *)
(* the status comes after both.                                            *)
(***************************************************************************)
suspend ==
    /\ rc.at = "suspend"
    /\ \/ /\ podCache.state = "none"
          /\ EndChildren([Unrouted(rc.st, "Suspended") EXCEPT !.ready = FALSE])
          /\ UNCHANGED <<events, pods, queue>>
       \/ /\ podCache.state # "none"
          /\ EndChildren(Unrouted(rc.st, "Suspending"))
          /\ \/ /\ IF podCache.terminating THEN KeepPod ELSE DeletePod
                /\ UNCHANGED <<events, queue>>
             \/ /\ ~podCache.terminating  \* the Delete fails
                /\ Event
                /\ queue' = TRUE
                /\ KeepPod
    /\ UNCHANGED <<clock, sb, current, tpl, gate, active, children, timer,
                   caches>>

(***************************************************************************)
(* run: create the pod, or reflect its cached state into the status.       *)
(***************************************************************************)
runCreate ==
    /\ rc.at = "run"
    /\ podCache.state = "none"
    /\ \/ /\ CreatePod(rc.tpl)
          /\ EndChildren([rc.st EXCEPT
                !.hash = rc.tpl,
                !.phase = IF @ \in {"Suspended", "Suspending", "Resuming"}
                          THEN "Resuming" ELSE "Provisioning",
                !.ready = FALSE])
          /\ UNCHANGED <<events, queue>>
       \/ /\ Event  \* the Create fails
          /\ Fail
          /\ KeepPod
    /\ UNCHANGED <<clock, sb, current, tpl, gate, active, children, timer,
                   caches>>

runDead ==
    /\ rc.at = "run"
    /\ podCache.state = "Dead"
    /\ \/ /\ IF podCache.terminating THEN KeepPod ELSE DeletePod
          /\ EndChildren(Unrouted(rc.st, "Provisioning"))
          /\ queue' = TRUE
          /\ UNCHANGED events
       \/ /\ ~podCache.terminating  \* the Delete fails
          /\ Event
          /\ Fail
          /\ KeepPod
    /\ UNCHANGED <<clock, sb, current, tpl, gate, active, children, timer,
                   caches>>

Later(s, t) == IF s < t THEN t ELSE s

runReady ==
    /\ rc.at = "run"
    /\ podReady(podCache)
    /\ LET last == IF rc.st.phase # "Running" /\ rc.st.lastActivity = Nil
                   THEN clock ELSE rc.st.lastActivity
       IN  rc' = [rc EXCEPT
                    !.at = "status",
                    !.st = [@ EXCEPT !.phase = "Running", !.ready = TRUE,
                                     !.podIP = podCache.ip,
                                     !.lastActivity = last],
                    !.after = IF rc.idle /\ IdleTimeout > 0 /\ last # Nil
                              THEN Later(last + IdleTimeout, clock) ELSE Nil]
    /\ UNCHANGED <<world, sb, current, pods, active, children, queue, timer,
                   caches>>

runWaiting ==
    /\ rc.at = "run"
    /\ podCache.state \in {"Pending", "NotReady"}
    /\ EndChildren([rc.st EXCEPT
          !.phase = IF @ = "Resuming" THEN "Resuming" ELSE "Provisioning",
          !.podIP = "", !.ready = FALSE])
    /\ UNCHANGED <<world, sb, current, pods, active, children, queue, timer,
                   caches>>

(***************************************************************************)
(* patchStatus: nothing to write, written, or refused (NotFound ignored).  *)
(* A requeue the pass asked for counts only when it ends without an error. *)
(***************************************************************************)
\* Mutant: the idle deadline is not asked for.
RequeueNever(t) == UNCHANGED timer

RequeueAfter(t) == timer' = IF t # Nil /\ (timer = Nil \/ t < timer) THEN t
                            ELSE timer

patchStatus ==
    /\ rc.at = "status"
    /\ rc' = Idle
    /\ \/ /\ rc.st = rc.old
          /\ current' = current \ {"ctl"}
          /\ RequeueAfter(rc.after)
          /\ UNCHANGED <<sb, queue>>
       \/ /\ rc.st # rc.old
          /\ "ctl" \in current
          /\ Write([sb EXCEPT !.status = rc.st])
          /\ RequeueAfter(rc.after)
          /\ UNCHANGED queue
       \/ /\ rc.st # rc.old
          /\ "ctl" \notin current
          /\ queue' = (queue \/ sb.alive # "gone")
          /\ UNCHANGED <<sb, current, timer>>
    /\ UNCHANGED <<world, pods, active, children, caches>>

-----------------------------------------------------------------------------
(***************************************************************************)
(* finalize.                                                               *)
(***************************************************************************)
finalizeStatus ==
    /\ rc.at = "finalize"
    /\ \/ /\ rc.st.phase = "Terminating" \/ sb.alive = "gone"
          /\ rc' = [rc EXCEPT !.at = "teardown"]
          /\ UNCHANGED <<sb, current, queue>>
       \/ /\ rc.st.phase # "Terminating"
          /\ "ctl" \in current
          /\ WriteKeeping([sb EXCEPT !.status.phase = "Terminating"])
          /\ rc' = [rc EXCEPT !.at = "teardown"]
          /\ UNCHANGED queue
       \/ /\ rc.st.phase # "Terminating" /\ sb.alive # "gone"
          /\ "ctl" \notin current
          /\ Abort
          /\ UNCHANGED <<sb, current>>
    /\ UNCHANGED <<world, pods, active, children, timer, caches>>

\* Deletes the pod, then the rest but the home; lists the sessions.
teardown ==
    /\ rc.at = "teardown"
    /\ \/ /\ DeletePod
          /\ children' = children \ ({"hostkey", "netpol", "sa"}
                                     \cup (childCache \ {"home"}))
          /\ rc' = [rc EXCEPT !.at = "closing", !.todo = activeCache]
          /\ UNCHANGED <<events, queue>>
       \/ /\ Event  \* a Delete fails
          /\ \/ UNCHANGED <<pods, children>>
             \/ /\ DeletePod
                /\ \E child \in Children \ {"home"} :
                      children' = children \ (Before[child] \ {"home"})
          /\ Abort
    /\ UNCHANGED <<clock, sb, current, tpl, gate, active, timer, caches>>

closeSession(s) ==
    /\ rc.at = "closing"
    /\ s \in rc.todo
    /\ \/ /\ active' = active \ {s}
          /\ rc' = [rc EXCEPT !.todo = @ \ {s}]
          /\ UNCHANGED <<events, queue>>
       \/ /\ Event  \* refused: the session moved on, or the call fails
          /\ Abort
          /\ UNCHANGED active
    /\ UNCHANGED <<clock, sb, current, tpl, gate, pods, children, timer,
                   caches>>

applyHomeRetainPolicy(cs) ==
    IF Home = "Delete" THEN cs \ (childCache \cap {"home"}) ELSE cs

\* The retain policy is applied, then the finalizer removed.
finishFinalize ==
    /\ rc.at = "closing"
    /\ rc.todo = {}
    /\ \/ /\ children' = applyHomeRetainPolicy(children)
          /\ IF "ctl" \in current
             THEN /\ Write([sb EXCEPT !.alive = "gone", !.finalizer = FALSE])
                  /\ rc' = Idle
                  /\ UNCHANGED queue
             ELSE Abort /\ UNCHANGED <<sb, current>>
          /\ UNCHANGED events
       \/ /\ Home # "Existing"  \* the claim's Delete or Update fails
          /\ Event
          /\ Abort
          /\ UNCHANGED <<children, sb, current>>
    /\ UNCHANGED <<clock, tpl, gate, pods, active, timer, caches>>

-----------------------------------------------------------------------------

run == runCreate \/ runDead \/ runReady \/ runWaiting

PassStep ==
    \/ ReconcileChildren \/ suspend \/ run \/ patchStatus
    \/ finalizeStatus \/ teardown \/ finishFinalize
    \/ \E s \in Sessions : closeSession(s)

Watch ==
    \/ SyncSandbox \/ SyncPod \/ SyncSessions \/ TimerFires
    \/ \E k \in Listed : SyncChild(k)

Environment ==
    \/ SetDesired \/ DeleteSandbox \/ ChangeTemplate \/ ChangeGate
    \/ \E s \in Sessions : SessionOpens(s) \/ SessionCloses(s)
    \/ BumpActivity \/ PodStarts \/ PodFails \/ PodGone
    \/ OperatorRestart \/ Tick

Next == Environment \/ Watch \/ BeginPass \/ PassStep

Spec == Init /\ [][Next]_vars

(***************************************************************************)
(* The worker keeps serving its queue, the watches keep delivering, the    *)
(* kubelet starts and removes pods, time passes.  Users, faults and        *)
(* sessions owe nothing.                                                   *)
(***************************************************************************)
Fairness ==
    /\ WF_vars(BeginPass) /\ WF_vars(PassStep)
    /\ WF_vars(SyncSandbox) /\ WF_vars(SyncPod) /\ WF_vars(SyncSessions)
    /\ \A k \in Listed : WF_vars(SyncChild(k))
    /\ WF_vars(TimerFires) /\ WF_vars(Tick)
    /\ WF_vars(PodStarts) /\ WF_vars(PodGone)

FairSpec == Spec /\ Fairness

-----------------------------------------------------------------------------

\* The type invariant of the module.
TypeOK ==
    /\ clock \in Nat
    /\ events \in Nat
    /\ sb \in Sandbox
    /\ sbCache \in Sandbox
    /\ current \in SUBSET {"cache", "ctl"}
    /\ pod \in Pod
    /\ podCache \in Pod
    /\ podEvent \in BOOLEAN
    /\ tpl \in Hashes \cup {""}
    /\ gate \in Gates
    /\ active \in SUBSET Sessions
    /\ activeCache \in SUBSET Sessions
    /\ children \in SUBSET Children
    /\ childCache \in SUBSET Listed
    /\ rc \in Pass
    /\ queue \in BOOLEAN
    /\ timer \in Time

(***************************************************************************)
(* A suspending or suspended sandbox publishes no route (the doc of        *)
(* status.podIP: "Cleared while the sandbox is suspending or suspended").  *)
(***************************************************************************)
SuspendedHasNoRoute ==
    sb.status.phase \in {"Suspending", "Suspended"} => sb.status.podIP = ""

(***************************************************************************)
(* A Running sandbox has a route, is Ready, and has an idle clock to       *)
(* suspend it by (idleExpired: a nil lastActivity "should not happen once  *)
(* Running"), although status writes, bumps and pod events interleave.     *)
(***************************************************************************)
RunningIsRoutable ==
    sb.status.phase = "Running" =>
        /\ sb.status.podIP # ""
        /\ sb.status.ready
        /\ sb.status.lastActivity # Nil

(***************************************************************************)
(* Once the Sandbox object is gone nothing that was deleted by name is     *)
(* left: no pod but a terminating one, no host key, policy or account,     *)
(* whatever passes were in flight, restarted or refused on the way.        *)
(***************************************************************************)
GoneLeavesNothing ==
    sb.alive = "gone" =>
        /\ pod.state # "none" => pod.terminating
        /\ children \subseteq {"home", "bindings"}

(***************************************************************************)
(* Nothing is created before the finalizer is stored: a Sandbox with a pod *)
(* or a child, deleted now, still goes through finalize.                   *)
(***************************************************************************)
FinalizerGuardsChildren ==
    sb.alive # "gone" /\ (children # {} \/ pod.state # "none")
        => sb.finalizer

(***************************************************************************)
(* The operator keeps the promises of SandboxLife to the gateway: one pod  *)
(* at a time, which keeps its address, goes through termination and is     *)
(* created for no sandbox that is gone; a sandbox goes only after its pod; *)
(* and only users set the desired state.                                   *)
(***************************************************************************)
AbstractLife == INSTANCE SandboxLife
            WITH alive <- sb.alive, desired <- sb.desired,
                 route <- sb.status.podIP,
                 pod <- [state |-> pod.state, terminating |-> pod.terminating,
                         ip |-> pod.ip]

FollowsLife == AbstractLife!LifeSpec

-----------------------------------------------------------------------------

Unblocked == sb.alive = "live" /\ tpl # "" /\ gate = "open"

(***************************************************************************)
(* desiredState Stopped is obeyed: unless it is revoked or the sandbox     *)
(* blocked, the sandbox ends Suspended with its pod removed.  A missing    *)
(* existing claim is left out: nothing reports that it appeared.           *)
(***************************************************************************)
StopSuspends ==
    [](gate # "claimMissing") =>
        ((Unblocked /\ sb.desired = "Stopped")
            ~> \/ sb.status.phase = "Suspended" /\ pod.state = "none"
               \/ ~(Unblocked /\ sb.desired = "Stopped"))

(***************************************************************************)
(* An idle sandbox is suspended without another event: once the idle       *)
(* window has passed with no Active session, the requeue at the idle       *)
(* deadline suspends it.                                                   *)
(***************************************************************************)
IdlePast == /\ active = {}
            /\ idleExpired(sb.status.lastActivity, IdleTimeout)

IdleSuspends ==
    (Unblocked /\ IdlePast)
        ~> \/ sb.status.phase = "Suspended" /\ pod.state = "none"
           \/ ~(Unblocked /\ IdlePast)

(***************************************************************************)
(* No wake-up is lost: when no watch has anything to deliver, nothing is   *)
(* queued and no pass runs, the sandbox is what its spec, its sessions and *)
(* its pod call for, or waits for a pod that will report back, for its     *)
(* idle deadline, with the timer armed, or for what blocks it.  A deleted  *)
(* one is gone.  Only a missing claim may end without a notice.            *)
(***************************************************************************)
Settled == /\ rc.at = "idle" /\ ~queue
           /\ "cache" \in current /\ ~podEvent /\ activeCache = active

ToSuspend == sb.desired = "Stopped" \/ IdlePast

Armed == active = {} /\ IdleTimeout > 0 =>
             /\ timer # Nil
             /\ timer <= Later(sb.status.lastActivity + IdleTimeout, clock)

Converged ==
    CASE sb.status.phase = "Suspended" -> ToSuspend /\ pod.state = "none"
      [] sb.status.phase = "Suspending" -> ToSuspend /\ pod.terminating
      [] sb.status.phase = "Running" ->
            /\ sb.desired = "Running" /\ Armed
            /\ podReady(pod) /\ sb.status.podIP = pod.ip
      [] sb.status.phase \in {"Provisioning", "Resuming"} ->
            sb.desired = "Running" /\ pod.state \in {"Pending", "NotReady"}
      [] sb.status.phase = "Pending" ->
            tpl = "" \/ gate = "profile" \/ Home = "Existing"
      [] OTHER -> FALSE

SettledIsRight ==
    Settled => sb.alive # "deleting" /\ (sb.alive = "live" => Converged)

(***************************************************************************)
(* A sandbox in use runs: with an Active session, or with its idle window  *)
(* not over, it ends Running with the route of its pod published, although *)
(* the idle clock is only started by the first ready pod and a suspension  *)
(* leaves it where it was.                                                 *)
(***************************************************************************)
Wanted == Unblocked /\ sb.desired = "Running" /\ ~IdlePast

WantedRuns ==
    Wanted ~> \/ /\ sb.status.phase = "Running"
                 /\ podReady(pod) /\ sb.status.podIP = pod.ip
              \/ ~Wanted

\* A deleted Sandbox is eventually gone: finalize is retried to the end.
DeletionCompletes == sb.alive = "deleting" ~> sb.alive = "gone"

-----------------------------------------------------------------------------
\* A statement of the documentation that the code does not meet.

(***************************************************************************)
(* state-machine.md: on deletion the finalizer removes "Role/RoleBindings  *)
(* across all grant namespaces (found by label)", and, by sandbox_types.go,*)
(* retainPolicy Delete "deletes the PVC together with the Sandbox".        *)
(***************************************************************************)
DeletionRemovesAll ==
    sb.alive = "gone" =>
        children \subseteq (IF Home = "Delete" THEN {} ELSE {"home"})

=============================================================================
