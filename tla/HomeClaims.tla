----------------------------- MODULE HomeClaims -----------------------------
(***************************************************************************)
(* Several sandboxes on one home claim: the tie-break of claimConflict, as *)
(* the one worker of the sandbox reconciler applies it to what its         *)
(* informer caches show.                                                   *)
(*                                                                         *)
(* The watch on Sandboxes delivers their versions in the order they were   *)
(* stored, so the cache is always some earlier state of all of them.  A    *)
(* pass reads caches only and stores its status last, which is refused     *)
(* when the cached copy of its own sandbox is outdated; it is one step.    *)
(***************************************************************************)
EXTENDS Integers, Sequences

CONSTANTS
    Sandboxes,   \* UIDs, as numbers in the order of their strings
    Owners,      \* which sandbox may generate this claim; 0 for none
    MaxEvents    \* bound: edits, idle periods, failures, restarts

ASSUME SandboxesAssumption ==
    Sandboxes \subseteq Nat \ {0} /\ Owners \subseteq Sandboxes \cup {0}
ASSUME MaxEventsAssumption == MaxEvents \in Nat

VARIABLES
    now,         \* the second, for creation times
    sb,          \* the stored Sandboxes
    watch,       \* versions the watch has still to deliver
    cache,       \* the cached Sandboxes
    pod, podCache,
    claim,       \* whether the cache shows the claim
    owner,       \* the sandbox that generates the claim, or 0
    idle,        \* sandboxes past their idle timeout with no session
    queue,       \* the workqueue
    yielded,     \* history: sandboxes that once released the claim
    events

vars == <<now, sb, watch, cache, pod, podCache, claim, owner,
          idle, queue, yielded, events>>

objects == <<sb, watch, yielded>>
caches == <<cache, podCache>>

-----------------------------------------------------------------------------

Absent == [life |-> "absent", created |-> 0, desired |-> "Running",
           phase |-> ""]

\* The phase, and for Pending the reason with it: "InUse" for ClaimInUse,
\* "Missing" for InvalidRef.  "Up" stands for Provisioning, Resuming and
\* Running.  A "new" sandbox is live and has no finalizer yet.
Sandbox == [life : {"absent", "new", "live", "deleting", "gone"},
            created : Nat,
            desired : {"Running", "Stopped"},
            phase : {"", "InUse", "Missing", "Up", "Suspending", "Suspended"}]

Pods == {"none", "up", "terminating"}

Exists(s) == sb[s].life # "absent"

Live(obj) == obj.life \in {"new", "live"}

Event == events < MaxEvents /\ events' = events + 1

\* No longer on the claim: being deleted, or stopped and suspended.
Released(obj) ==
    \/ ~Live(obj)
    \/ obj.desired = "Stopped" /\ obj.phase = "Suspended"

\* Sandbox s is stored; the watch will deliver it.
Store(s, obj) ==
    /\ sb' = [sb EXCEPT ![s] = obj]
    /\ yielded' = IF Released(obj) THEN yielded \cup {s} ELSE yielded
    /\ watch' = Append(watch, [uid |-> s, obj |-> obj])

Init ==
    /\ now = 0
    /\ sb = [s \in Sandboxes |-> Absent]
    /\ watch = <<>>
    /\ cache = sb
    /\ pod = [s \in Sandboxes |-> "none"]
    /\ podCache = pod
    /\ claim \in BOOLEAN
    /\ owner \in Owners
    /\ idle = {}
    /\ queue = {}
    /\ yielded = {}
    /\ events = 0

-----------------------------------------------------------------------------
(***************************************************************************)
(* Users, sessions, time and the kubelet.                                  *)
(***************************************************************************)

Create(s) ==
    /\ ~Exists(s)
    /\ Store(s, [Absent EXCEPT !.life = "new", !.created = now])
    /\ UNCHANGED <<now, owner, caches, pod, claim, idle, queue, events>>

\* Creation times have a resolution of a second.  Time matters no more once
\* all the sandboxes were created.
NextSecond ==
    /\ \E s \in Sandboxes : ~Exists(s)
    /\ \E s \in Sandboxes : Exists(s) /\ sb[s].created = now
    /\ now' = now + 1
    /\ UNCHANGED <<owner, objects, caches, pod, claim, idle, queue, events>>

SetDesired(s) ==
    /\ Event
    /\ Live(sb[s])
    /\ \E d \in {"Running", "Stopped"} \ {sb[s].desired} :
          Store(s, [sb[s] EXCEPT !.desired = d])
    /\ UNCHANGED <<now, owner, caches, pod, claim, idle, queue>>

Delete(s) ==
    /\ Event
    /\ Live(sb[s])
    /\ Store(s, [sb[s] EXCEPT !.life = IF @ = "new" THEN "gone"
                                      ELSE "deleting"])
    /\ UNCHANGED <<now, owner, caches, pod, claim, idle, queue>>

\* The idle timeout passes, or a session opens; sessions are watched.
Idleness(s) ==
    /\ Event
    /\ \/ s \notin idle /\ idle' = idle \cup {s}
       \/ s \in idle /\ idle' = idle \ {s}
    /\ queue' = queue \cup {s}
    /\ UNCHANGED <<now, owner, objects, caches, pod, claim>>

\* A user creates the claim, unless a sandbox generates it.
CreateClaim ==
    /\ ~claim /\ owner = 0
    /\ claim' = TRUE
    /\ UNCHANGED <<now, owner, objects, caches, pod, idle, queue, events>>

PodGone(s) ==
    /\ pod[s] = "terminating"
    /\ pod' = [pod EXCEPT ![s] = "none"]
    /\ UNCHANGED <<now, owner, objects, caches, claim, idle, queue, events>>

-----------------------------------------------------------------------------
(***************************************************************************)
(* The watches.  Claims are cached but not watched for.                    *)
(***************************************************************************)
Deliver ==
    /\ watch # <<>>
    /\ cache' = [cache EXCEPT ![Head(watch).uid] = Head(watch).obj]
    /\ watch' = Tail(watch)
    /\ queue' = queue \cup {Head(watch).uid}
    /\ UNCHANGED <<now, owner, sb, pod, podCache, claim, idle, yielded, events>>

SyncPod(s) ==
    /\ podCache[s] # pod[s]
    /\ podCache' = [podCache EXCEPT ![s] = pod[s]]
    /\ queue' = queue \cup {s}
    /\ UNCHANGED <<now, owner, objects, cache, pod, claim, idle, events>>

\* Mutant: updates that do not change the generation are filtered out.
ResyncFiltered ==
    UNCHANGED vars

\* Every few hours the informers hand over all they hold.
Resync ==
    /\ queue' = queue \cup {s \in Sandboxes : cache[s].life # "absent"}
    /\ UNCHANGED <<now, owner, objects, caches, pod, claim, idle, events>>

Restart ==
    /\ Event
    /\ cache' = sb
    /\ watch' = <<>>
    /\ podCache' = pod
    /\ queue' = {s \in Sandboxes : Exists(s)}
    /\ UNCHANGED <<now, owner, sb, pod, claim, idle, yielded>>

-----------------------------------------------------------------------------
(***************************************************************************)
(* The tie-break.                                                          *)
(***************************************************************************)
wins(a, b) ==
    \/ a.obj.created < b.obj.created
    \/ a.obj.created = b.obj.created /\ a.uid < b.uid

Cached(s) == [uid |-> s, obj |-> cache[s]]

\* Mutant: any suspended sandbox has let go of the claim.
claimConflictSuspended(s) ==
    {o \in Sandboxes \ {s} :
        /\ Live(cache[o]) /\ cache[o].phase # "Suspended"
        /\ wins(Cached(o), Cached(s))}

\* Those with existingClaim by index, the one that generates it by name.
claimConflict(s) ==
    {o \in Sandboxes \ {s} :
        ~Released(cache[o]) /\ wins(Cached(o), Cached(s))}

(***************************************************************************)
(* One pass for sandbox s, from its cached copy.                           *)
(***************************************************************************)
Outdated(s) == \E i \in 1..Len(watch) : watch[i].uid = s

\* A live sandbox is queued, and its finalizer is there or can be added.
Pass(s) ==
    /\ s \in queue
    /\ Live(cache[s])
    /\ cache[s].life = "new" => ~Outdated(s)

\* The status is stored if it changed.  Refused or failing, s stays queued;
\* that the sandbox is gone is no error.
PatchStatus(s, phase, requeue) ==
    LET obj == [cache[s] EXCEPT !.life = "live", !.phase = phase] IN
    \/ /\ IF obj = cache[s] THEN UNCHANGED objects
          ELSE ~Outdated(s) /\ Store(s, obj)
       /\ queue' = IF requeue THEN queue ELSE queue \ {s}
       /\ UNCHANGED events
    \/ /\ obj # cache[s] /\ Outdated(s)
       /\ queue' = IF sb[s].life = "gone" THEN queue \ {s} ELSE queue
       /\ UNCHANGED <<objects, events>>
    \/ /\ obj # cache[s] /\ Event
       /\ IF cache[s].life = "new"
          THEN Store(s, [cache[s] EXCEPT !.life = "live"])
          ELSE UNCHANGED objects
       /\ UNCHANGED queue

\* Mutant: not tried again.
ClaimInUseForgotten(s) ==
    /\ Pass(s)
    /\ s # owner /\ claimConflict(s) # {}
    /\ PatchStatus(s, "InUse", FALSE)
    /\ UNCHANGED <<now, owner, caches, pod, claim, idle>>

\* Held: tried again after 30 s.
ClaimInUse(s) ==
    /\ Pass(s)
    /\ s # owner /\ claimConflict(s) # {}
    /\ PatchStatus(s, "InUse", TRUE)
    /\ UNCHANGED <<now, owner, caches, pod, claim, idle>>

\* An existing claim that is not there: not tried again.
ClaimMissing(s) ==
    /\ Pass(s)
    /\ s # owner /\ claimConflict(s) = {} /\ ~claim
    /\ PatchStatus(s, "Missing", FALSE)
    /\ UNCHANGED <<now, owner, caches, pod, claim, idle>>

\* The claim is this sandbox's to use; a generated one is created.
HomeReady(s) ==
    /\ s = owner \/ (claimConflict(s) = {} /\ claim)
    /\ claim' = (claim \/ s = owner)

suspend(s) ==
    /\ Pass(s)
    /\ HomeReady(s)
    /\ cache[s].desired = "Stopped" \/ s \in idle
    /\ IF podCache[s] = "none"
       THEN PatchStatus(s, "Suspended", FALSE) /\ UNCHANGED pod
       ELSE /\ PatchStatus(s, "Suspending", FALSE)
            /\ pod' = [pod EXCEPT ![s] = IF @ = "up" THEN "terminating" ELSE @]
    /\ UNCHANGED <<now, owner, caches, idle>>

run(s) ==
    /\ Pass(s)
    /\ HomeReady(s)
    /\ cache[s].desired = "Running" /\ s \notin idle
    /\ pod' = [pod EXCEPT ![s] = IF podCache[s] = "none" /\ @ = "none"
                                 THEN "up" ELSE @]
    /\ PatchStatus(s, "Up", FALSE)
    /\ UNCHANGED <<now, owner, caches, idle>>

\* A generated claim goes with its sandbox if the retain policy says so.
\* Nothing is done from an outdated copy: its first write is refused.
finalize(s) ==
    /\ s \in queue
    /\ cache[s].life = "deleting" /\ ~Outdated(s)
    /\ pod' = [pod EXCEPT ![s] = IF @ = "up" THEN "terminating" ELSE @]
    /\ \E delete \in {FALSE, s = owner} : claim' = (claim /\ ~delete)
    /\ Store(s, [cache[s] EXCEPT !.life = "gone"])
    /\ queue' = queue \ {s}
    /\ UNCHANGED <<now, owner, caches, idle, events>>

NotFound(s) ==
    /\ s \in queue
    /\ cache[s].life \in {"absent", "gone"}
    /\ queue' = queue \ {s}
    /\ UNCHANGED <<now, owner, objects, caches, pod, claim, idle, events>>

Reconcile(s) ==
    \/ ClaimInUse(s) \/ ClaimMissing(s) \/ suspend(s) \/ run(s)
    \/ finalize(s) \/ NotFound(s)

-----------------------------------------------------------------------------

Next ==
    \/ \E s \in Sandboxes :
          \/ Create(s) \/ SetDesired(s) \/ Delete(s) \/ Idleness(s)
          \/ PodGone(s) \/ SyncPod(s) \/ Reconcile(s)
    \/ NextSecond \/ CreateClaim \/ Deliver \/ Resync \/ Restart

Spec == Init /\ [][Next]_vars

(***************************************************************************)
(* The worker serves its queue, the watches deliver, the kubelet removes   *)
(* pods.  The resync is left out: it comes after hours.                    *)
(***************************************************************************)
Fairness ==
    /\ \A s \in Sandboxes : /\ WF_vars(Reconcile(s)) /\ WF_vars(SyncPod(s))
                            /\ WF_vars(PodGone(s))
    /\ WF_vars(Deliver)

FairSpec == Spec /\ Fairness

-----------------------------------------------------------------------------

\* The type invariant of the module.
TypeOK ==
    /\ now \in Nat
    /\ sb \in [Sandboxes -> Sandbox]
    /\ watch \in Seq([uid : Sandboxes, obj : Sandbox])
    /\ cache \in [Sandboxes -> Sandbox]
    /\ pod \in [Sandboxes -> Pods]
    /\ podCache \in [Sandboxes -> Pods]
    /\ claim \in BOOLEAN
    /\ owner \in Owners
    /\ idle \in SUBSET Sandboxes
    /\ queue \in SUBSET Sandboxes
    /\ yielded \in SUBSET Sandboxes
    /\ events \in Nat

(***************************************************************************)
(* The older sandbox keeps the claim: a sandbox with an existing claim has *)
(* a pod only if every sandbox created in an earlier second has once been  *)
(* deleted, or stopped and then suspended.  Being idle, suspended for it,  *)
(* held, stopped but not yet suspended, or not yet in the cache takes      *)
(* nothing away from the older one.                                        *)
(***************************************************************************)
OlderKeepsClaim ==
    \A s, o \in Sandboxes :
        /\ s # owner /\ pod[s] # "none"
        /\ Exists(o) /\ sb[o].created < sb[s].created
        => o \in yielded

(***************************************************************************)
(* No standoff: a sandbox that wants to run and that no other one beats    *)
(* gets its pod, although nobody tells it when the others let go.          *)
(***************************************************************************)
Earlier(o, s) ==
    \/ sb[o].created < sb[s].created
    \/ sb[o].created = sb[s].created /\ o < s

Winner(s) ==
    /\ claim
    /\ Live(sb[s]) /\ sb[s].desired = "Running" /\ s \notin idle
    /\ \A o \in Sandboxes : Earlier(o, s) => Released(sb[o])

WinnerRuns ==
    \A s \in Sandboxes : []claim => (Winner(s) ~> pod[s] = "up" \/ ~Winner(s))

(***************************************************************************)
(* No sandbox is forgotten: one that is not queued and about which nothing *)
(* is to be delivered is gone, or suspended, or about to be, if it should  *)
(* be, or has a pod, which may still have to go and come back.  Only one   *)
(* whose existing claim was missing when it was last looked at is left     *)
(* without a pod: one that is held by another sandbox is not.              *)
(***************************************************************************)
Calm(s) == s \notin queue /\ ~Outdated(s) /\ podCache[s] = pod[s]

Served(s) ==
    IF sb[s].desired = "Stopped" \/ s \in idle
    THEN \/ sb[s].phase = "Suspended" /\ pod[s] = "none"
         \/ sb[s].phase = "Suspending" /\ pod[s] = "terminating"
    ELSE sb[s].phase = "Up" /\ pod[s] # "none"

NoneForgotten ==
    \A s \in Sandboxes : Exists(s) /\ Calm(s) =>
        \/ sb[s].life = "gone"
        \/ /\ sb[s].life = "live"
           /\ Served(s) \/ (sb[s].phase = "Missing" /\ s # owner)

(***************************************************************************)
(* A sandbox that is held back by others is queued, or will be, although   *)
(* nobody tells it when they let go.                                       *)
(***************************************************************************)
HeldIsQueued ==
    \A s \in Sandboxes :
        Live(sb[s]) /\ sb[s].phase = "InUse" => s \in queue \/ Outdated(s)

(***************************************************************************)
(* A missing claim that appears is found by the next resync, although      *)
(* claims are not watched and the sandbox is not queued again.             *)
(***************************************************************************)
ClaimAppears ==
    \A s \in Sandboxes :
        WF_vars(Resync) => (Winner(s) ~> pod[s] = "up" \/ ~Winner(s))

=============================================================================
