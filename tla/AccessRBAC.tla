----------------------------- MODULE AccessRBAC -----------------------------
(***************************************************************************)
(* How an AccessProfile becomes access.  The profile reconciler keeps one  *)
(* Role per grant namespace; the sandbox reconciler binds the sandbox's    *)
(* ServiceAccount to that Role in each of them.  A rule is effective where *)
(* both exist.                                                             *)
(*                                                                         *)
(* One profile and one sandbox that may reference it.  Each reconciler has *)
(* one worker, reads through caches that lag, and is one queue entry       *)
(* (pq, sq).  Roles and RoleBindings are not watched.                      *)
(***************************************************************************)
EXTENDS Integers

CONSTANTS
    Namespaces,   \* namespaces a profile may grant into
    Rules,        \* RBAC rules
    Grants,       \* the grants a profile may be given
    MaxEvents     \* bound: edits, faults and namespace changes

ASSUME GrantsAssumption == Grants \subseteq [Namespaces -> SUBSET Rules]
ASSUME EventsAssumption == MaxEvents \in Nat

VARIABLES
    profile,      \* the stored AccessProfile
    pCache,       \* the operator's cached one
    current,      \* copies ("cache", "pass") that are the stored version
    spaces,       \* namespaces that exist
    roles,        \* [Namespaces -> rules of the profile's Role, {} for none]
    roleCache,
    bindings,     \* namespaces with a RoleBinding of the sandbox
    bindCache,
    ref,          \* whether the sandbox names the profile
    ready,        \* its RBACReady condition
    nudged,       \* whether its annotation is the one the nudge writes
    pq, sq,       \* queued: the profile, the sandbox
    pw, sw,       \* the workers
    events        \* events so far

vars == <<profile, pCache, current, spaces, roles, roleCache, bindings,
          bindCache, ref, ready, nudged, pq, sq, pw, sw, events>>

-----------------------------------------------------------------------------

None == [ns \in Namespaces |-> {}]

(***************************************************************************)
(* An AccessProfile: whether it is there, its finalizer, the part of its   *)
(* spec that concerns the sandbox, and its status (whether                 *)
(* observedGeneration is that of the spec, and Valid).                     *)
(***************************************************************************)
Profile ==
    [life : {"absent", "live", "deleting"}, fin : BOOLEAN, allowed : BOOLEAN,
     grants : Grants \cup {None}, observed : BOOLEAN,
     valid : {"", "True", "False"}]

Absent == [life |-> "absent", fin |-> FALSE, allowed |-> FALSE,
           grants |-> None, observed |-> FALSE, valid |-> ""]

grantNamespaces(p) == {ns \in Namespaces : p.grants[ns] # {}}

PIdle == [at |-> "idle", p |-> Absent, missing |-> {}]
SIdle == [at |-> "idle", keep |-> {}, ready |-> ""]

(***************************************************************************)
(* The operator starts.  The profile may have been created, edited or      *)
(* deleted while it was down; an earlier one left Roles and RoleBindings.  *)
(***************************************************************************)
Init ==
    /\ spaces \in SUBSET Namespaces
    /\ \E g \in Grants \cup {None} :
          roles = [ns \in Namespaces |-> IF ns \in spaces THEN g[ns] ELSE {}]
    /\ bindings \in SUBSET spaces
    /\ \/ profile = Absent /\ roles = None
       \/ \E g \in Grants, allow \in BOOLEAN, f \in BOOLEAN :
             /\ f <=> roles # None
             /\ profile = [Absent EXCEPT !.life = "live", !.fin = f,
                                         !.grants = g, !.allowed = allow]
       \/ \E g \in Grants :
             profile = [Absent EXCEPT !.life = "deleting", !.fin = TRUE,
                                      !.grants = g, !.allowed = TRUE]
    /\ pCache = profile
    /\ current = {"cache"}
    /\ roleCache = roles
    /\ bindCache = bindings
    /\ ref = TRUE
    /\ ready = ""
    /\ nudged = FALSE
    /\ pq = TRUE
    /\ sq = TRUE
    /\ pw = PIdle
    /\ sw = SIdle
    /\ events = 0

Event == events < MaxEvents /\ events' = events + 1

-----------------------------------------------------------------------------
(***************************************************************************)
(* The profile reconciler.  It alone writes Roles, so when in a pass it    *)
(* writes them matters only for what the pass has read: the profile.       *)
(***************************************************************************)
sandboxSide == <<bindings, bindCache, ref, ready, sw>>

\* The pass ends with an error and is retried.
PRetry == pw' = PIdle /\ pq' = TRUE

\* Mutant: the finalizer is taken to be there.
NeedsFinalizerNever(p) == FALSE

NeedsFinalizer(p) == p.life = "live" /\ ~p.fin

\* Mutant: finalize checks for the finalizer the wrong way round.
NeedsFinalizeInverted(p) == p.life = "deleting" /\ ~p.fin

NeedsFinalize(p) == p.life = "deleting" /\ p.fin

(***************************************************************************)
(* Reconcile up to the Roles.  A profile that is gone needs nothing; the   *)
(* finalizer is stored before any Role is, if the cached copy is current.  *)
(***************************************************************************)
PBegin ==
    /\ pw.at = "idle" /\ pq
    /\ LET p == [pCache EXCEPT !.fin = TRUE] IN
       \/ /\ NeedsFinalizer(pCache) /\ "cache" \in current
          /\ profile' = p
          /\ current' = {"pass"}
          /\ pw' = [PIdle EXCEPT !.at = "roles", !.p = p]
          /\ pq' = FALSE
       \/ /\ NeedsFinalizer(pCache) /\ "cache" \notin current
          /\ PRetry
          /\ UNCHANGED <<profile, current>>
       \/ /\ ~NeedsFinalizer(pCache)
          /\ pw' = CASE pCache.life = "live" ->
                          [PIdle EXCEPT !.at = "roles", !.p = pCache]
                     [] NeedsFinalize(pCache) ->
                          [PIdle EXCEPT !.at = "final", !.p = pCache]
                     [] OTHER -> PIdle
          /\ current' = IF "cache" \in current THEN {"cache", "pass"} ELSE {}
          /\ pq' = FALSE
          /\ UNCHANGED profile
    /\ UNCHANGED <<pCache, spaces, roles, roleCache, nudged, sq, events,
                   sandboxSide>>

(***************************************************************************)
(* applyRole creates a Role the cache does not have (one that is there     *)
(* after all is left as it is) and updates one with other rules from the   *)
(* cached copy, which is refused when that is not the stored one.          *)
(***************************************************************************)
\* Mutant: the rules of a Role that exists are not compared.
applyRoleOnce(ns, rules) ==
    IF roleCache[ns] = {} /\ roles[ns] = {} THEN rules ELSE roles[ns]

applyRole(ns, rules) ==
    IF roleCache[ns] = rules \/ roleCache[ns] # roles[ns] THEN roles[ns]
    ELSE rules

RoleRefused(ns, rules) == roleCache[ns] \notin {{}, rules, roles[ns]}

\* Mutant: Roles that are no longer granted are not collected.
StaleRolesNone(keep) == {}

\* The Roles that are collected: those the cache shows outside keep.
StaleRoles(keep) == {ns \in Namespaces \ keep : roleCache[ns] # {}}

\* The Roles after the pass wrote those of applied and deleted those of gone.
RolesAfter(applied, gone) ==
    [ns \in Namespaces |->
        CASE ns \in applied -> applyRole(ns, pw.p.grants[ns])
          [] ns \in gone -> {}
          [] OTHER -> roles[ns]]

\* The grant namespaces that exist, and those whose Role cannot be updated.
Applicable == grantNamespaces(pw.p) \cap spaces
Refused == {ns \in Applicable : RoleRefused(ns, pw.p.grants[ns])}

\* One Role per existing grant namespace, in any order; others are collected.
syncRoles ==
    /\ pw.at = "roles"
    /\ \/ /\ Refused = {}
          /\ roles' = RolesAfter(Applicable, StaleRoles(Applicable))
          /\ pw' = [pw EXCEPT !.at = "status",
                              !.missing = grantNamespaces(pw.p) \ spaces]
          /\ UNCHANGED pq
       \/ /\ Refused # {}
          /\ \E applied \in SUBSET (Applicable \ Refused) :
                roles' = RolesAfter(applied, {})
          /\ PRetry
    /\ UNCHANGED <<profile, pCache, current, spaces, roleCache, nudged, sq,
                   events, sandboxSide>>

(***************************************************************************)
(* The nudge writes an annotation made of the sandbox's generation: the    *)
(* second time it changes nothing, and no event follows.  One that fails   *)
(* is logged and forgotten.                                                *)
(***************************************************************************)
requeueSandboxes ==
    \/ /\ nudged' = (nudged \/ ref)
       /\ sq' = (sq \/ (ref /\ ~nudged))
       /\ UNCHANGED events
    \/ Event /\ UNCHANGED <<nudged, sq>>

\* Mutant: missing namespaces do not count.
ValidAlways(missing) == "True"

Valid(missing) == IF missing = {} THEN "True" ELSE "False"

(***************************************************************************)
(* The sandboxes are nudged and the status is written, or refused.  The    *)
(* profile cannot be gone: the pass runs under its finalizer.              *)
(***************************************************************************)
profileStatus ==
    /\ pw.at = "status"
    /\ requeueSandboxes
    /\ LET p == [pw.p EXCEPT !.observed = TRUE, !.valid = Valid(pw.missing)] IN
       \/ /\ "pass" \in current
          /\ profile' = p
          /\ current' = IF p = profile THEN current ELSE {}
          /\ pw' = PIdle
          /\ UNCHANGED pq
       \/ /\ "pass" \notin current
          /\ PRetry
          /\ UNCHANGED <<profile, current>>
    /\ UNCHANGED <<pCache, spaces, roles, roleCache, sandboxSide>>

\* finalize: the Roles go, the sandboxes are nudged, the finalizer goes.
finalize ==
    /\ pw.at = "final"
    /\ roles' = RolesAfter({}, StaleRoles({}))
    /\ requeueSandboxes
    /\ \/ /\ "pass" \in current
          /\ profile' = Absent
          /\ current' = {}
          /\ pw' = PIdle
          /\ UNCHANGED pq
       \/ /\ "pass" \notin current
          /\ PRetry
          /\ UNCHANGED <<profile, current>>
    /\ UNCHANGED <<pCache, spaces, roleCache, sandboxSide>>

\* A call of the pass fails after some of the Roles were written or deleted.
PCallFails ==
    /\ pw.at # "idle"
    /\ Event
    /\ PRetry
    /\ \/ UNCHANGED roles
       \/ /\ pw.at = "roles"
          /\ \E applied \in SUBSET (Applicable \ Refused) :
                roles' = RolesAfter(applied, {})
       \/ /\ pw.at = "roles" /\ Refused = {}
          /\ \E gone \in SUBSET StaleRoles(Applicable) :
                roles' = RolesAfter(Applicable, gone)
       \/ /\ pw.at = "final"
          /\ \E gone \in SUBSET StaleRoles({}) : roles' = RolesAfter({}, gone)
    /\ UNCHANGED <<profile, pCache, current, spaces, roleCache, nudged, sq,
                   sandboxSide>>

ProfilePass == PBegin \/ syncRoles \/ profileStatus \/ finalize

-----------------------------------------------------------------------------
(***************************************************************************)
(* The sandbox reconciler, which alone writes RoleBindings.                *)
(***************************************************************************)
profileSide == <<profile, pCache, current, roles, roleCache, pq, pw>>

SRetry == sw' = SIdle /\ sq' = TRUE

\* Mutant: allowedNamespaces is not looked at.
PermittedAnyhow(p) == p.life # "absent"

Permitted(p) == p.life # "absent" /\ p.allowed

\* Without a profile, or with one that is gone or refuses, nothing is kept.
SBegin ==
    /\ sw.at = "idle" /\ sq
    /\ sq' = FALSE
    /\ sw' = [at |-> "bind",
              keep |-> IF ref /\ Permitted(pCache) THEN grantNamespaces(pCache)
                       ELSE {},
              ready |-> IF ~ref \/ Permitted(pCache) THEN "True" ELSE "False"]
    /\ UNCHANGED <<spaces, bindings, bindCache, ref, ready, nudged, events,
                   profileSide>>

\* Bindings are created where the cache shows none, deleted outside keep.
Unbound == sw.keep \ bindCache

StaleBindings == bindCache \ sw.keep

\* A missing namespace fails the pass before anything is collected.
reconcileRBAC ==
    /\ sw.at = "bind"
    /\ \/ /\ Unbound \subseteq spaces
          /\ bindings' = (bindings \cup Unbound) \ StaleBindings
          /\ ready' = sw.ready
          /\ sq' = (sq \/ ready' # ready)
          /\ sw' = SIdle
       \/ /\ ~(Unbound \subseteq spaces)
          /\ \E bound \in SUBSET (Unbound \cap spaces) :
                bindings' = bindings \cup bound
          /\ SRetry
          /\ UNCHANGED ready
    /\ UNCHANGED <<spaces, bindCache, ref, nudged, events, profileSide>>

\* A call of the pass fails after some bindings were created or deleted.
SCallFails ==
    /\ sw.at # "idle"
    /\ Event
    /\ SRetry
    /\ \/ \E bound \in SUBSET (Unbound \cap spaces) :
             bindings' = bindings \cup bound
       \/ /\ Unbound \subseteq spaces
          /\ \E gone \in SUBSET StaleBindings :
                bindings' = (bindings \cup Unbound) \ gone
    /\ UNCHANGED <<spaces, bindCache, ref, ready, nudged, profileSide>>

SandboxPass == SBegin \/ reconcileRBAC

-----------------------------------------------------------------------------
(***************************************************************************)
(* The outside: administrators, namespaces, the operator's restarts.       *)
(***************************************************************************)
objects == <<roles, roleCache, bindings, bindCache, nudged, pw, sw, ready>>

CreateProfile ==
    /\ profile.life = "absent"
    /\ Event
    /\ \E g \in Grants, a \in BOOLEAN :
          profile' = [Absent EXCEPT !.life = "live", !.grants = g, !.allowed = a]
    /\ current' = {}
    /\ UNCHANGED <<pCache, spaces, ref, pq, sq, objects>>

EditProfile ==
    /\ profile.life # "absent"
    /\ Event
    /\ \E g \in Grants, a \in BOOLEAN :
          /\ <<g, a>> # <<profile.grants, profile.allowed>>
          /\ profile' = [profile EXCEPT !.grants = g, !.allowed = a,
                                        !.observed = FALSE]
    /\ current' = {}
    /\ UNCHANGED <<pCache, spaces, ref, pq, sq, objects>>

DeleteProfile ==
    /\ profile.life = "live"
    /\ Event
    /\ profile' = IF profile.fin THEN [profile EXCEPT !.life = "deleting"]
                  ELSE Absent
    /\ current' = {}
    /\ UNCHANGED <<pCache, spaces, ref, pq, sq, objects>>

\* profilesForNamespace: the profile is queued if the cached one grants there.
CreateNamespace(ns) ==
    /\ ns \notin spaces
    /\ Event
    /\ spaces' = spaces \cup {ns}
    /\ pq' = (pq \/ ns \in grantNamespaces(pCache))
    /\ UNCHANGED <<profile, pCache, current, ref, sq, objects>>

\* A namespace goes with the Roles and RoleBindings in it.
DeleteNamespace(ns) ==
    /\ ns \in spaces
    /\ Event
    /\ spaces' = spaces \ {ns}
    /\ roles' = [roles EXCEPT ![ns] = {}]
    /\ bindings' = bindings \ {ns}
    /\ pq' = (pq \/ ns \in grantNamespaces(pCache))
    /\ UNCHANGED <<profile, pCache, current, roleCache, bindCache, ref, ready,
                   nudged, sq, pw, sw>>

\* spec.accessProfile is set or cleared: a new generation.
EditSandbox ==
    /\ Event
    /\ ref' = ~ref
    /\ nudged' = FALSE
    /\ sq' = TRUE
    /\ UNCHANGED <<profile, pCache, current, spaces, roles, roleCache, bindings,
                   bindCache, ready, pq, pw, sw>>

\* The operator starts over: new caches, everything queued.
Restart ==
    /\ Event
    /\ pw' = PIdle /\ sw' = SIdle
    /\ pq' = TRUE /\ sq' = TRUE
    /\ pCache' = profile /\ current' = {"cache"}
    /\ roleCache' = roles /\ bindCache' = bindings
    /\ UNCHANGED <<profile, spaces, roles, bindings, ref, ready, nudged>>

Outside ==
    \/ CreateProfile \/ EditProfile \/ DeleteProfile \/ EditSandbox \/ Restart
    \/ PCallFails \/ SCallFails
    \/ \E ns \in Namespaces : CreateNamespace(ns) \/ DeleteNamespace(ns)

-----------------------------------------------------------------------------
(***************************************************************************)
(* The informers.  A changed profile queues itself and the sandbox that    *)
(* names it; Roles and RoleBindings queue nothing.  A resync (every ten    *)
(* hours by default) queues what the caches hold; it is taken to come when *)
(* the worker has nothing to do.                                           *)
(***************************************************************************)
SyncProfile ==
    /\ "cache" \notin current
    /\ pCache' = profile
    /\ current' = current \cup {"cache"}
    /\ pq' = TRUE
    /\ sq' = (sq \/ ref)
    /\ UNCHANGED <<profile, spaces, ref, events, objects>>

SyncRole(ns) ==
    /\ roleCache[ns] # roles[ns]
    /\ roleCache' = [roleCache EXCEPT ![ns] = roles[ns]]
    /\ UNCHANGED <<profile, pCache, current, spaces, roles, nudged, pq, sq, pw,
                   events, sandboxSide>>

SyncBinding(ns) ==
    /\ (ns \in bindCache) # (ns \in bindings)
    /\ bindCache' = (bindCache \ {ns}) \cup (bindings \cap {ns})
    /\ UNCHANGED <<spaces, bindings, ref, ready, nudged, sq, sw, events,
                   profileSide>>

ResyncProfile ==
    /\ ~pq /\ pw.at = "idle" /\ pCache.life # "absent"
    /\ pq' = TRUE
    /\ UNCHANGED <<profile, pCache, current, spaces, ref, sq, events, objects>>

ResyncSandbox ==
    /\ ~sq /\ sw.at = "idle"
    /\ sq' = TRUE
    /\ UNCHANGED <<profile, pCache, current, spaces, ref, pq, events, objects>>

Next ==
    \/ ProfilePass \/ SandboxPass \/ Outside
    \/ SyncProfile \/ ResyncProfile \/ ResyncSandbox
    \/ \E ns \in Namespaces : SyncRole(ns) \/ SyncBinding(ns)

Spec == Init /\ [][Next]_vars

\* The workers serve their queues, watches deliver, resyncs come.
Fairness ==
    /\ WF_vars(ProfilePass) /\ WF_vars(SandboxPass)
    /\ WF_vars(SyncProfile)
    /\ WF_vars(ResyncProfile) /\ WF_vars(ResyncSandbox)
    /\ \A ns \in Namespaces : WF_vars(SyncRole(ns)) /\ WF_vars(SyncBinding(ns))

FairSpec == Spec /\ Fairness

-----------------------------------------------------------------------------

(***************************************************************************)
(* The types; a pass that has Roles to keep or missing has a profile.      *)
(***************************************************************************)
TypeOK ==
    /\ profile \in Profile /\ pCache \in Profile
    /\ current \subseteq {"cache", "pass"}
    /\ spaces \subseteq Namespaces
    /\ roles \in [Namespaces -> SUBSET Rules]
    /\ roleCache \in [Namespaces -> SUBSET Rules]
    /\ bindings \subseteq Namespaces /\ bindCache \subseteq Namespaces
    /\ ref \in BOOLEAN /\ nudged \in BOOLEAN
    /\ pq \in BOOLEAN /\ sq \in BOOLEAN
    /\ ready \in {"", "True", "False"}
    /\ pw \in [at : {"idle", "roles", "status", "final"}, p : Profile,
               missing : SUBSET Namespaces]
    /\ pw.at # "idle" => pw.p.life # "absent" /\ pw.p.fin
    /\ sw \in [at : {"idle", "bind"}, keep : SUBSET Namespaces,
               ready : {"", "True", "False"}]
    /\ events \in 0..MaxEvents

(***************************************************************************)
(* Roles are written only while the stored profile has the finalizer: a    *)
(* profile deleted during a pass, at whatever point, is finalized.         *)
(***************************************************************************)
RolesUnderFinalizer == pw.at \in {"roles", "status"} => profile.fin

\* The rules the sandbox has in ns, and those the stored profile gives it.
Access(ns) == IF ns \in bindings THEN roles[ns] ELSE {}
Entitled == profile.life # "absent" /\ profile.allowed
Granted(ns) == IF ref /\ Entitled THEN profile.grants[ns] ELSE {}

AllExist == grantNamespaces(profile) \subseteq spaces

(***************************************************************************)
(* Once the outside is quiet, the sandbox ends up with no rule that the    *)
(* profile does not give it: also when a grant namespace is missing and    *)
(* the sandbox's pass never reaches gcRBAC, and when caches lagged.        *)
(***************************************************************************)
AccessRevoked == <>[](\A ns \in Namespaces : Access(ns) \subseteq Granted(ns))

\* ... and, if no grant namespace is missing, with every rule it gives.
AccessGranted ==
    <>[](AllExist => \A ns \in Namespaces : Granted(ns) \subseteq Access(ns))

\* The Valid condition ends up saying whether the grant namespaces exist.
ValidTruthful ==
    <>[](profile.life = "live" => (profile.valid = "True" <=> AllExist))

\* RBACReady ends up saying whether the sandbox may use what it names.
ReadyTruthful ==
    <>[](AllExist => (ready = "True" <=> ~ref \/ Entitled))

\* A deleted profile goes, whatever edits and failing calls come between.
ProfileDeleted == profile.life = "deleting" ~> profile.life = "absent"

=============================================================================
