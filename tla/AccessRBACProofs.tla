-------------------------- MODULE AccessRBACProofs --------------------------
(***************************************************************************)
(* For any namespaces, rules, grants and number of events: Roles are       *)
(* written under a stored finalizer, a pass from up-to-date copies leaves  *)
(* the right Roles and RoleBindings, and access that is settled stays.     *)
(***************************************************************************)
EXTENDS AccessRBAC, TLAPS

\* A profile under whose finalizer Roles may be written.
Guarded(p) == p.life = "live" /\ p.fin

(***************************************************************************)
(* The pass decides from a cached profile that may be behind.  Copies      *)
(* known to be current are equal to the stored profile; a cached profile   *)
(* that is live and has the finalizer is never ahead of its removal; and   *)
(* while the worker finalizes, or the cache shows a deletion, the stored   *)
(* profile is not a live one with the finalizer, because only this worker  *)
(* adds it and it has not looked yet.                                      *)
(***************************************************************************)
Copies ==
    /\ "cache" \in current => pCache = profile
    /\ "pass" \in current /\ pw.at # "idle" => pw.p = profile

Seen ==
    /\ profile.life = "absent" => ~profile.fin
    /\ Guarded(pCache) => profile.fin
    /\ pCache.life = "deleting" => ~Guarded(profile)
    /\ pw.at = "final" => /\ pw.p.life = "deleting"
                          /\ ~Guarded(profile) /\ ~Guarded(pCache)

IInv == TypeOK /\ Copies /\ Seen /\ RolesUnderFinalizer

-----------------------------------------------------------------------------

\* The value of a profile that is not there, and of idle workers, is typed.
LEMMA IdleTypes ==
    /\ None \in [Namespaces -> SUBSET Rules]
    /\ Absent \in Profile
    /\ PIdle \in [at : {"idle", "roles", "status", "final"}, p : Profile,
                  missing : SUBSET Namespaces]
    /\ PIdle.at = "idle"
    /\ SIdle \in [at : {"idle", "bind"}, keep : SUBSET Namespaces,
                  ready : {"", "True", "False"}]
    /\ ~Guarded(Absent) /\ ~Absent.fin
  <1>1. None \in [Namespaces -> SUBSET Rules]
    BY DEF None
  <1>2. Absent \in Profile /\ ~Guarded(Absent) /\ ~Absent.fin
    BY DEF Absent, Profile, Guarded
  <1> QED
    BY <1>1, <1>2 DEF PIdle, SIdle

\* A step that leaves the profile, its copies and the worker alone.
LEMMA QuietStep ==
    ASSUME IInv, TypeOK', UNCHANGED <<profile, pCache, current, pw>>
    PROVE  IInv'
  BY DEF IInv, Copies, Seen, Guarded, RolesUnderFinalizer

\* What Roles become is a set of rules per namespace.
LEMMA RolesAfterType ==
    ASSUME TypeOK, NEW applied \in SUBSET Namespaces,
           NEW gone \in SUBSET Namespaces
    PROVE  RolesAfter(applied, gone) \in [Namespaces -> SUBSET Rules]
  <1>1. pw.p.grants \in [Namespaces -> SUBSET Rules]
    BY GrantsAssumption, IdleTypes, ZenonT(60) DEF TypeOK, Profile
  <1>2. ASSUME NEW ns \in Namespaces
        PROVE  applyRole(ns, pw.p.grants[ns]) \in SUBSET Rules
    BY <1>1 DEF TypeOK, applyRole
  <1> QED
    BY <1>2 DEF RolesAfter, TypeOK

\* The outside counts its events.
LEMMA EventType ==
    ASSUME TypeOK, Event PROVE events' \in 0..MaxEvents
  <1>1. events \in 0..MaxEvents /\ events < MaxEvents /\ events' = events + 1
    BY DEF TypeOK, Event
  <1> QED
    BY <1>1, EventsAssumption

\* The nudge, whether it succeeds or fails, preserves its types.
LEMMA NudgeTypes ==
    ASSUME TypeOK, requeueSandboxes
    PROVE  nudged' \in BOOLEAN /\ sq' \in BOOLEAN /\ events' \in 0..MaxEvents
  <1>1. nudged' \in BOOLEAN /\ sq' \in BOOLEAN
    BY DEF requeueSandboxes, TypeOK
  <1>2. CASE UNCHANGED events
    BY <1>1, <1>2 DEF TypeOK
  <1>3. CASE Event
    BY <1>1, <1>3, EventType
  <1> QED
    BY <1>1, <1>2, <1>3 DEF requeueSandboxes

-----------------------------------------------------------------------------

\* The operator starts with current caches and idle workers.
LEMMA InitIInv == ASSUME Init PROVE IInv
  <1>0. /\ spaces \subseteq Namespaces /\ bindings \subseteq spaces
        /\ pCache = profile /\ current = {"cache"}
        /\ roleCache = roles /\ bindCache = bindings
        /\ ref = TRUE /\ ready = "" /\ nudged = FALSE /\ pq = TRUE /\ sq = TRUE
        /\ pw = PIdle /\ sw = SIdle /\ events = 0
    BY Zenon DEF Init
  <1>1. profile \in Profile /\ (profile.life = "absent" => ~profile.fin)
    <2>2. \/ profile = Absent
          \/ \E g \in Grants, al \in BOOLEAN, f \in BOOLEAN :
                profile = [Absent EXCEPT !.life = "live", !.fin = f,
                                         !.grants = g, !.allowed = al]
          \/ \E g \in Grants :
                profile = [Absent EXCEPT !.life = "deleting", !.fin = TRUE,
                                         !.grants = g, !.allowed = TRUE]
      BY Zenon DEF Init
    <2>3. CASE profile = Absent
      BY <2>3, IdleTypes
    <2>4. ASSUME NEW g \in Grants, NEW al \in BOOLEAN, NEW f \in BOOLEAN,
                 profile = [Absent EXCEPT !.life = "live", !.fin = f,
                                          !.grants = g, !.allowed = al]
          PROVE  profile \in Profile /\ profile.life # "absent"
      BY <2>4 DEF Absent, Profile
    <2>5. ASSUME NEW g \in Grants,
                 profile = [Absent EXCEPT !.life = "deleting", !.fin = TRUE,
                                          !.grants = g, !.allowed = TRUE]
          PROVE  profile \in Profile /\ profile.life # "absent"
      BY <2>5 DEF Absent, Profile
    <2> QED
      BY <2>2, <2>3, <2>4, <2>5, Zenon
  <1>2. roles \in [Namespaces -> SUBSET Rules]
    <2>1. PICK g \in Grants \cup {None} :
              roles = [ns \in Namespaces |-> IF ns \in spaces THEN g[ns] ELSE {}]
      BY Zenon DEF Init
    <2>2. g \in [Namespaces -> SUBSET Rules]
      BY GrantsAssumption, IdleTypes
    <2> QED
      BY <2>1, <2>2
  <1>3. events \in 0..MaxEvents
    <2>1. events = 0
      BY <1>0, Zenon
    <2> QED
      BY <2>1, EventsAssumption
  <1>4. TypeOK
    BY <1>0, <1>1, <1>2, <1>3, IdleTypes DEF TypeOK
  <1>5. Copies /\ Seen /\ RolesUnderFinalizer
    BY <1>0, <1>1, IdleTypes DEF Copies, Seen, RolesUnderFinalizer, Guarded
  <1> QED
    BY <1>4, <1>5 DEF IInv

\* The pass starts: the finalizer is stored, was there, or none is needed.
LEMMA PBeginIInv == ASSUME IInv, PBegin PROVE IInv'
  <1> DEFINE p == [pCache EXCEPT !.fin = TRUE]
  <1>0. TypeOK /\ pCache \in Profile /\ p \in Profile
    BY DEF IInv, TypeOK, Profile
  <1>1. /\ pw.at = "idle"
        /\ UNCHANGED <<pCache, spaces, roles, roleCache, nudged, sq, events,
                       sandboxSide>>
    BY DEF PBegin
  <1>2. CASE /\ NeedsFinalizer(pCache) /\ "cache" \in current
             /\ profile' = p
             /\ current' = {"pass"}
             /\ pw' = [PIdle EXCEPT !.at = "roles", !.p = p]
             /\ pq' = FALSE
    <2>1. /\ pw'.at = "roles" /\ pw'.p = p
          /\ pw' \in [at : {"idle", "roles", "status", "final"}, p : Profile,
                      missing : SUBSET Namespaces]
      BY <1>0, <1>2, IdleTypes DEF PIdle
    <2>2. p.fin /\ p.life = "live" /\ pCache.life = "live" /\ ~pCache.fin
      BY <1>0, <1>2 DEF NeedsFinalizer, Profile
    <2>3. TypeOK'
      BY <1>0, <1>1, <1>2, <2>1, <2>2, ZenonT(60) DEF TypeOK, sandboxSide
    <2> QED
      BY <1>1, <1>2, <2>1, <2>2, <2>3
         DEF IInv, Copies, Seen, Guarded, RolesUnderFinalizer
  <1>3. CASE PRetry /\ UNCHANGED <<profile, current>>
    <2>1. TypeOK'
      BY <1>0, <1>1, <1>3, IdleTypes DEF TypeOK, sandboxSide, PRetry
    <2> QED
      BY <1>1, <1>3, <2>1, IdleTypes
         DEF IInv, Copies, Seen, Guarded, RolesUnderFinalizer, PRetry
  <1>4. CASE /\ ~NeedsFinalizer(pCache)
             /\ pw' = CASE pCache.life = "live" ->
                             [PIdle EXCEPT !.at = "roles", !.p = pCache]
                        [] NeedsFinalize(pCache) ->
                             [PIdle EXCEPT !.at = "final", !.p = pCache]
                        [] OTHER -> PIdle
             /\ current' = IF "cache" \in current THEN {"cache", "pass"} ELSE {}
             /\ pq' = FALSE
             /\ UNCHANGED profile
    <2>1. \/ /\ Guarded(pCache)
             /\ pw' = [at |-> "roles", p |-> pCache, missing |-> {}]
          \/ /\ pCache.life = "deleting" /\ pCache.fin
             /\ pw' = [at |-> "final", p |-> pCache, missing |-> {}]
          \/ pw' = PIdle
      BY <1>0, <1>4, Zenon DEF PIdle, NeedsFinalizer, NeedsFinalize, Guarded
    <2>2. /\ pw' \in [at : {"idle", "roles", "status", "final"}, p : Profile,
                      missing : SUBSET Namespaces]
          /\ pw'.at # "idle" => /\ pw'.p = pCache
                                /\ pCache.life # "absent" /\ pCache.fin
      <3>1. CASE pw' = PIdle
        BY <3>1, IdleTypes
      <3>2. CASE Guarded(pCache) /\ pw' = [at |-> "roles", p |-> pCache, missing |-> {}]
        BY <1>0, <3>2 DEF Guarded
      <3>3. CASE /\ pCache.life = "deleting" /\ pCache.fin
                 /\ pw' = [at |-> "final", p |-> pCache, missing |-> {}]
        BY <1>0, <3>3
      <3> QED
        BY <2>1, <3>1, <3>2, <3>3
    <2>3. TypeOK'
      BY <1>0, <1>1, <1>4, <2>2, ZenonT(60) DEF TypeOK, sandboxSide
    <2>4. Copies'
      BY <1>1, <1>4, <2>2 DEF IInv, Copies
    <2>5. Seen' /\ RolesUnderFinalizer'
      BY <1>1, <1>4, <2>1, IdleTypes, ZenonT(60)
         DEF IInv, Seen, Guarded, RolesUnderFinalizer
    <2> QED
      BY <2>3, <2>4, <2>5 DEF IInv
  <1> QED
    BY <1>2, <1>3, <1>4, Zenon DEF PBegin

\* The Roles are written, or the pass is retried: the profile stays.
LEMMA syncRolesIInv == ASSUME IInv, syncRoles PROVE IInv'
  <1>0. TypeOK
    BY DEF IInv
  <1>1. /\ Applicable \subseteq Namespaces
        /\ StaleRoles(Applicable) \subseteq Namespaces
    BY DEF Applicable, grantNamespaces, StaleRoles
  <1>2. roles' \in [Namespaces -> SUBSET Rules]
    BY <1>0, <1>1, RolesAfterType DEF syncRoles
  <1>3. /\ \/ PRetry
           \/ /\ pw' = [pw EXCEPT !.at = "status",
                                  !.missing = grantNamespaces(pw.p) \ spaces]
              /\ UNCHANGED pq
        /\ pw.at = "roles"
        /\ UNCHANGED <<profile, pCache, current, spaces, roleCache, nudged, sq,
                       events, sandboxSide>>
    BY DEF syncRoles
  <1>4. \/ pw' = PIdle
        \/ /\ pw'.at = "status" /\ pw'.p = pw.p
           /\ pw' \in [at : {"idle", "roles", "status", "final"}, p : Profile,
                       missing : SUBSET Namespaces]
    <2>1. /\ pw \in [at : {"idle", "roles", "status", "final"}, p : Profile,
                     missing : SUBSET Namespaces]
          /\ grantNamespaces(pw.p) \ spaces \in SUBSET Namespaces
      BY <1>0 DEF TypeOK, grantNamespaces
    <2> QED
      BY <1>3, <2>1, Zenon DEF PRetry
  <1>5. TypeOK'
    <2>1. pq' \in BOOLEAN
      BY <1>0, <1>3 DEF TypeOK, PRetry
    <2>2. /\ pw' \in [at : {"idle", "roles", "status", "final"}, p : Profile,
                      missing : SUBSET Namespaces]
          /\ pw'.at # "idle" => pw'.p.life # "absent" /\ pw'.p.fin
      BY <1>0, <1>3, <1>4, IdleTypes DEF TypeOK
    <2> QED
      BY <1>0, <1>2, <1>3, <2>1, <2>2, ZenonT(60) DEF TypeOK, sandboxSide
  <1> QED
    BY <1>3, <1>4, <1>5, IdleTypes
       DEF IInv, Copies, Seen, Guarded, RolesUnderFinalizer

\* The status is written to the profile the pass read, or the pass retried.
LEMMA profileStatusIInv == ASSUME IInv, profileStatus PROVE IInv'
  <1> DEFINE p == [pw.p EXCEPT !.observed = TRUE, !.valid = Valid(pw.missing)]
  <1>0. TypeOK
    BY DEF IInv
  <1>1. /\ pw.at = "status" /\ pw' = PIdle
        /\ \/ /\ "pass" \in current /\ profile' = p
              /\ current' = IF p = profile THEN current ELSE {}
              /\ UNCHANGED pq
           \/ UNCHANGED <<profile, current>> /\ pq' = TRUE
        /\ UNCHANGED <<pCache, spaces, roles, roleCache, sandboxSide>>
    BY DEF profileStatus, PRetry
  <1>2. /\ p \in Profile /\ p.life = pw.p.life /\ p.fin = pw.p.fin
    BY <1>0, ZenonT(60) DEF TypeOK, Profile, Valid
  <1>3. nudged' \in BOOLEAN /\ sq' \in BOOLEAN /\ events' \in 0..MaxEvents
    BY <1>0, NudgeTypes DEF profileStatus
  <1>4. TypeOK'
    <2>1. profile' \in Profile /\ current' \subseteq {"cache", "pass"} /\ pq' \in BOOLEAN
      BY <1>0, <1>1, <1>2 DEF TypeOK
    <2> QED
      BY <1>0, <1>1, <1>3, <2>1, IdleTypes DEF TypeOK, sandboxSide
  <1>5. profile'.life = profile.life /\ profile'.fin = profile.fin
    BY <1>1, <1>2, Zenon DEF IInv, Copies
  <1>6. "cache" \in current' => profile' = profile /\ "cache" \in current
    BY <1>1
  <1> QED
    BY <1>1, <1>4, <1>5, <1>6, IdleTypes
       DEF IInv, Copies, Seen, Guarded, RolesUnderFinalizer

\* finalize removes a profile it has a current copy of; none is guarded.
LEMMA finalizeIInv == ASSUME IInv, finalize PROVE IInv'
  <1>0. TypeOK
    BY DEF IInv
  <1>1. /\ pw.at = "final" /\ pw' = PIdle
        /\ \/ profile' = Absent /\ current' = {} /\ UNCHANGED pq
           \/ UNCHANGED <<profile, current>> /\ pq' = TRUE
        /\ UNCHANGED <<pCache, spaces, roleCache, sandboxSide>>
    BY DEF finalize, PRetry
  <1>2. roles' \in [Namespaces -> SUBSET Rules]
    BY <1>0, RolesAfterType DEF finalize, StaleRoles
  <1>3. nudged' \in BOOLEAN /\ sq' \in BOOLEAN /\ events' \in 0..MaxEvents
    BY <1>0, NudgeTypes DEF finalize
  <1>4. TypeOK'
    <2>1. profile' \in Profile /\ current' \subseteq {"cache", "pass"} /\ pq' \in BOOLEAN
      BY <1>0, <1>1, IdleTypes DEF TypeOK
    <2> QED
      BY <1>0, <1>1, <1>2, <1>3, <2>1, IdleTypes DEF TypeOK, sandboxSide
  <1>5. ~Guarded(profile') /\ ~Guarded(pCache)
    BY <1>1, IdleTypes DEF IInv, Seen
  <1> QED
    BY <1>1, <1>4, <1>5, IdleTypes
       DEF IInv, Copies, Seen, Guarded, RolesUnderFinalizer

\* A failing call ends the pass; only Roles may have been written.
LEMMA PCallFailsIInv == ASSUME IInv, PCallFails PROVE IInv'
  <1>0. TypeOK
    BY DEF IInv
  <1>1. /\ pw' = PIdle /\ pq' = TRUE
        /\ UNCHANGED <<profile, pCache, current, spaces, roleCache, nudged, sq,
                       sandboxSide>>
    BY DEF PCallFails, PRetry
  <1>2. roles' \in [Namespaces -> SUBSET Rules]
    <2>1. \/ UNCHANGED roles
          \/ \E applied, gone \in SUBSET Namespaces :
                roles' = RolesAfter(applied, gone)
      BY Zenon DEF PCallFails, Applicable, grantNamespaces, StaleRoles
    <2>2. CASE UNCHANGED roles
      BY <1>0, <2>2 DEF TypeOK
    <2>3. ASSUME NEW applied \in SUBSET Namespaces,
                 NEW gone \in SUBSET Namespaces
          PROVE  RolesAfter(applied, gone) \in [Namespaces -> SUBSET Rules]
      BY <1>0, RolesAfterType
    <2> QED
      BY <2>1, <2>2, <2>3
  <1>3. events' \in 0..MaxEvents
    BY <1>0, EventType DEF PCallFails
  <1>4. TypeOK'
    BY <1>0, <1>1, <1>2, <1>3, IdleTypes, ZenonT(60) DEF TypeOK, sandboxSide
  <1> QED
    BY <1>1, <1>4, IdleTypes DEF IInv, Copies, Seen, Guarded, RolesUnderFinalizer

-----------------------------------------------------------------------------

\* The sandbox reconciler writes RoleBindings and its own condition only.
LEMMA SandboxPassIInv ==
    ASSUME IInv, SandboxPass \/ SCallFails PROVE IInv'
  <1>0. TypeOK
    BY DEF IInv
  <1>1. UNCHANGED profileSide
    BY DEF SandboxPass, SBegin, reconcileRBAC, SCallFails
  <1>2. CASE SBegin
    <2>1. sw' \in [at : {"idle", "bind"}, keep : SUBSET Namespaces,
                   ready : {"", "True", "False"}]
      BY <1>2 DEF SBegin, grantNamespaces
    <2> QED
      BY <1>0, <1>1, <1>2, <2>1, QuietStep, ZenonT(60) DEF SBegin, TypeOK, profileSide
  <1>3. CASE reconcileRBAC
    <2>1. /\ bindings' \subseteq Namespaces /\ ready' \in {"", "True", "False"}
          /\ sw' = SIdle
      BY <1>0, <1>3 DEF reconcileRBAC, TypeOK, Unbound, StaleBindings, SRetry
    <2>2. sq' \in BOOLEAN
      BY <1>3, Zenon DEF reconcileRBAC, SRetry
    <2>3. TypeOK'
      BY <1>0, <1>1, <1>3, <2>1, <2>2, IdleTypes, ZenonT(60)
         DEF reconcileRBAC, TypeOK, profileSide
    <2> QED
      BY <1>1, <2>3, QuietStep DEF profileSide
  <1>4. CASE SCallFails
    <2>1. bindings' \subseteq Namespaces /\ sw' = SIdle /\ sq' = TRUE
      BY <1>0, <1>4 DEF SCallFails, TypeOK, Unbound, StaleBindings, SRetry
    <2>2. events' \in 0..MaxEvents
      BY <1>0, <1>4, EventType DEF SCallFails
    <2>3. TypeOK'
      BY <1>0, <1>1, <1>4, <2>1, <2>2, IdleTypes, ZenonT(60)
         DEF SCallFails, TypeOK, profileSide
    <2> QED
      BY <1>1, <2>3, QuietStep DEF profileSide
  <1> QED
    BY <1>2, <1>3, <1>4 DEF SandboxPass

(***************************************************************************)
(* An administrator creates a profile without the finalizer, edits one, or *)
(* deletes one, which stays if it has the finalizer.                       *)
(***************************************************************************)
LEMMA AdministratorIInv ==
    ASSUME IInv, CreateProfile \/ EditProfile \/ DeleteProfile PROVE IInv'
  <1>0. TypeOK
    BY Zenon DEF IInv
  <1>1. /\ current' = {}
        /\ UNCHANGED <<pCache, spaces, ref, pq, sq, objects>>
    BY ZenonT(60) DEF CreateProfile, EditProfile, DeleteProfile
  <1>2. events' \in 0..MaxEvents
    BY <1>0, EventType, Zenon DEF CreateProfile, EditProfile, DeleteProfile
  <1>3. /\ profile' \in Profile
        /\ profile.fin => profile'.fin
        /\ profile'.life = "absent" => ~profile'.fin
        /\ Guarded(profile') => Guarded(profile)
    <2>1. CASE CreateProfile
      <3>1. ~profile.fin
        BY <2>1, ZenonT(60) DEF CreateProfile, IInv, Seen
      <3>2. PICK g \in Grants, al \in BOOLEAN :
                profile' = [Absent EXCEPT !.life = "live", !.grants = g,
                                          !.allowed = al]
        BY <2>1 DEF CreateProfile
      <3>3. profile' \in Profile /\ ~profile'.fin
        BY <3>2, ZenonT(60) DEF Absent, Profile
      <3> QED
        BY <3>1, <3>3, Zenon DEF Guarded
    <2>2. CASE EditProfile
      <3>1. PICK g \in Grants, al \in BOOLEAN :
                profile' = [profile EXCEPT !.grants = g, !.allowed = al,
                                           !.observed = FALSE]
        BY <2>2 DEF EditProfile
      <3>2. /\ profile' \in Profile
            /\ profile'.fin = profile.fin /\ profile'.life = profile.life
        BY <1>0, <3>1, ZenonT(60) DEF TypeOK, Profile
      <3> QED
        BY <3>2, ZenonT(60) DEF Guarded, IInv, Seen
    <2>3. CASE DeleteProfile
      <3>1. CASE profile.fin
        <4>1. profile' = [profile EXCEPT !.life = "deleting"]
          BY <2>3, <3>1 DEF DeleteProfile
        <4>2. profile' \in Profile /\ profile'.fin /\ profile'.life = "deleting"
          BY <1>0, <3>1, <4>1 DEF TypeOK, Profile
        <4> QED
          BY <4>2 DEF Guarded
      <3>2. CASE ~profile.fin
        BY <2>3, <3>2, IdleTypes DEF DeleteProfile
      <3> QED
        BY <3>1, <3>2
    <2> QED
      BY <2>1, <2>2, <2>3
  <1>4. TypeOK'
    BY <1>0, <1>1, <1>2, <1>3, ZenonT(60) DEF TypeOK, objects
  <1> QED
    BY <1>1, <1>3, <1>4
       DEF IInv, Copies, Seen, Guarded, RolesUnderFinalizer, objects

\* Namespaces and the sandbox's reference change nothing of the profile.
LEMMA SurroundingsIInv ==
    ASSUME IInv,
           \/ EditSandbox
           \/ \E ns \in Namespaces : CreateNamespace(ns) \/ DeleteNamespace(ns)
    PROVE  IInv'
  <1>0. TypeOK
    BY DEF IInv
  <1>1. /\ UNCHANGED <<profile, pCache, current, pw, sw, roleCache, bindCache, ready>>
        /\ Event
    BY DEF EditSandbox, CreateNamespace, DeleteNamespace, objects
  <1>2. events' \in 0..MaxEvents
    BY <1>0, <1>1, EventType
  <1>3. CASE EditSandbox
    <2>1. TypeOK'
      BY <1>0, <1>1, <1>2, <1>3 DEF TypeOK, EditSandbox
    <2> QED
      BY <1>1, <2>1, QuietStep
  <1>4. ASSUME NEW ns \in Namespaces, CreateNamespace(ns) PROVE IInv'
    <2>1. pq' \in BOOLEAN
      BY <1>4 DEF CreateNamespace
    <2>2. TypeOK'
      BY <1>0, <1>1, <1>2, <1>4, <2>1, ZenonT(60) DEF TypeOK, CreateNamespace, objects
    <2> QED
      BY <1>1, <2>2, QuietStep
  <1>5. ASSUME NEW ns \in Namespaces, DeleteNamespace(ns) PROVE IInv'
    <2>1. pq' \in BOOLEAN
      BY <1>5 DEF DeleteNamespace
    <2>2. roles' \in [Namespaces -> SUBSET Rules]
      BY <1>0, <1>5 DEF TypeOK, DeleteNamespace
    <2>3. TypeOK'
      BY <1>0, <1>1, <1>2, <1>5, <2>1, <2>2, ZenonT(60) DEF TypeOK, DeleteNamespace
    <2> QED
      BY <1>1, <2>3, QuietStep
  <1> QED
    BY <1>3, <1>4, <1>5

\* A new operator: current caches, idle workers.
LEMMA RestartIInv == ASSUME IInv, Restart PROVE IInv'
  <1>0. TypeOK
    BY DEF IInv
  <1>1. events' \in 0..MaxEvents
    BY <1>0, EventType DEF Restart
  <1>2. TypeOK'
    BY <1>0, <1>1, IdleTypes, ZenonT(60) DEF TypeOK, Restart
  <1> QED
    BY <1>2, IdleTypes
       DEF IInv, Restart, Copies, Seen, Guarded, RolesUnderFinalizer

\* The cache catches up with the profile; the others concern it not.
LEMMA SyncIInv ==
    ASSUME IInv,
           \/ SyncProfile \/ ResyncProfile \/ ResyncSandbox
           \/ \E ns \in Namespaces : SyncRole(ns) \/ SyncBinding(ns)
    PROVE  IInv'
  <1>0. TypeOK
    BY Zenon DEF IInv
  <1>1. CASE SyncProfile
    <2>1. sq' \in BOOLEAN
      BY <1>1, Zenon DEF SyncProfile
    <2>2. TypeOK'
      BY <1>0, <1>1, <2>1, ZenonT(60) DEF TypeOK, SyncProfile, objects
    <2> QED
      BY <1>1, <2>2 DEF IInv, SyncProfile, objects, Copies, Seen, Guarded,
         RolesUnderFinalizer
  <1>2. CASE ResyncProfile \/ ResyncSandbox
    <2>1. TypeOK'
      BY <1>0, <1>2, ZenonT(60) DEF TypeOK, ResyncProfile, ResyncSandbox, objects
    <2>2. UNCHANGED <<profile, pCache, current, pw>>
      BY <1>2 DEF ResyncProfile, ResyncSandbox, objects
    <2> QED
      BY <2>1, <2>2, QuietStep
  <1>3. ASSUME NEW ns \in Namespaces, SyncRole(ns) PROVE IInv'
    <2>1. roleCache' \in [Namespaces -> SUBSET Rules]
      BY <1>0, <1>3 DEF TypeOK, SyncRole
    <2>2. UNCHANGED <<profile, pCache, current, spaces, roles, bindings, bindCache,
                      ref, ready, nudged, pq, sq, pw, sw, events>>
      BY <1>3, Zenon DEF SyncRole, sandboxSide
    <2>3. TypeOK'
      BY <1>0, <2>1, <2>2, ZenonT(60) DEF TypeOK
    <2> QED
      BY <2>2, <2>3, QuietStep
  <1>4. ASSUME NEW ns \in Namespaces, SyncBinding(ns) PROVE IInv'
    <2>1. bindCache' \subseteq Namespaces
      BY <1>0, <1>4 DEF TypeOK, SyncBinding
    <2>2. UNCHANGED <<profile, pCache, current, spaces, roles, bindings, roleCache,
                      ref, ready, nudged, pq, sq, pw, sw, events>>
      BY <1>4 DEF SyncBinding, profileSide
    <2>3. TypeOK'
      BY <1>0, <2>1, <2>2, ZenonT(60) DEF TypeOK
    <2> QED
      BY <2>2, <2>3, QuietStep
  <1> QED
    BY <1>1, <1>2, <1>3, <1>4

-----------------------------------------------------------------------------

\* The inductive invariant holds of every behaviour of the two reconcilers.
THEOREM InductiveInvariant == Spec => []IInv
  <1>1. Init => IInv
    BY InitIInv
  <1>2. IInv /\ [Next]_vars => IInv'
    <2> SUFFICES ASSUME IInv, [Next]_vars PROVE IInv'
      OBVIOUS
    <2>1. CASE ProfilePass
      BY <2>1, PBeginIInv, syncRolesIInv, profileStatusIInv, finalizeIInv
         DEF ProfilePass
    <2>2. CASE SandboxPass
      BY <2>2, SandboxPassIInv
    <2>3. CASE Outside
      BY <2>3, AdministratorIInv, SurroundingsIInv, RestartIInv,
         PCallFailsIInv, SandboxPassIInv DEF Outside
    <2>4. CASE \/ SyncProfile \/ ResyncProfile \/ ResyncSandbox
               \/ \E ns \in Namespaces : SyncRole(ns) \/ SyncBinding(ns)
      BY <2>4, SyncIInv
    <2>5. CASE UNCHANGED vars
      <3>0. TypeOK
        BY DEF IInv
      <3>1. TypeOK'
        BY <2>5, <3>0, ZenonT(60) DEF TypeOK, vars
      <3>2. UNCHANGED <<profile, pCache, current, pw>>
        BY <2>5 DEF vars
      <3> QED
        BY <3>1, <3>2, QuietStep
    <2> QED
      BY <2>1, <2>2, <2>3, <2>4, <2>5 DEF Next
  <1> QED
    BY <1>1, <1>2, PTL DEF Spec

\* Types are preserved for any namespaces, rules, grants and events.
THEOREM TypeCorrect == Spec => []TypeOK
  <1>1. IInv => TypeOK
    BY DEF IInv
  <1> QED
    BY <1>1, InductiveInvariant, PTL

(***************************************************************************)
(* A pass of the profile reconciler that writes Roles runs under a stored  *)
(* finalizer, although it decided from a cache that may lag: a deletion    *)
(* that comes at any time is followed by finalize.                         *)
(***************************************************************************)
THEOREM RolesUnderFinalizerHolds == Spec => []RolesUnderFinalizer
  <1>1. IInv => RolesUnderFinalizer
    BY DEF IInv
  <1> QED
    BY <1>1, InductiveInvariant, PTL

-----------------------------------------------------------------------------
(***************************************************************************)
(* Access that is settled stays.  AccessRevoked and AccessGranted say that *)
(* the access ends up right and stays so once the outside is quiet.  That  *)
(* it gets there is left to TLC; that it stays, and that one pass of each  *)
(* reconciler from caches that are up to date gets it there, is proved     *)
(* here.                                                                   *)
(***************************************************************************)

\* A copy with the spec, finalizer and deletion of the stored profile.
SameSpec(p) ==
    /\ p.life = profile.life /\ p.fin = profile.fin
    /\ p.grants = profile.grants /\ p.allowed = profile.allowed

\* The Role and the RoleBindings that the stored profile asks for.
RoleWanted(ns) ==
    IF profile.life = "live" /\ ns \in spaces THEN profile.grants[ns] ELSE {}

BindingsWanted == IF ref /\ Entitled THEN grantNamespaces(profile) ELSE {}

(***************************************************************************)
(* Settled: the profile is there with its finalizer or not at all, every   *)
(* copy shows its spec, and the Roles and RoleBindings, cached and stored, *)
(* are those it asks for.  Statuses, queues and workers may be anywhere.   *)
(***************************************************************************)
Settled ==
    /\ profile.life # "deleting" /\ (profile.life = "live" => profile.fin)
    /\ SameSpec(pCache) /\ (pw.at # "idle" => SameSpec(pw.p))
    /\ \A ns \in Namespaces : /\ roles[ns] = RoleWanted(ns)
                              /\ roleCache[ns] = roles[ns]
    /\ BindingsWanted \subseteq spaces
    /\ bindings = BindingsWanted /\ bindCache = bindings
    /\ sw.at = "bind" => sw.keep = BindingsWanted

(***************************************************************************)
(* No pass, sync or resync, and no nudge, disturbs settled access; only an *)
(* event of the outside does.                                              *)
(***************************************************************************)
SettledStays == [][Settled /\ events' = events => Settled']_vars

(***************************************************************************)
(* A pass of the profile reconciler with the stored spec and an up-to-date *)
(* cache leaves exactly the Roles that are wanted, whatever was there; a   *)
(* pass of the sandbox reconciler exactly the RoleBindings, unless a grant *)
(* namespace is missing.                                                   *)
(***************************************************************************)
FreshPassIsRight ==
    [][/\ (/\ syncRoles /\ SameSpec(pw.p) /\ profile.life = "live"
           /\ roleCache = roles)
          => \A ns \in Namespaces : roles'[ns] = RoleWanted(ns)
       /\ (/\ reconcileRBAC /\ sw.keep = BindingsWanted
           /\ BindingsWanted \subseteq spaces /\ bindCache = bindings)
          => bindings' = BindingsWanted]_vars

\* What an untouched profile and untouched copies want is untouched.
LEMMA WantedAlike ==
    ASSUME profile'.life = profile.life, profile'.grants = profile.grants,
           profile'.allowed = profile.allowed, UNCHANGED <<spaces, ref>>
    PROVE  /\ \A ns \in Namespaces : RoleWanted(ns)' = RoleWanted(ns)
           /\ BindingsWanted' = BindingsWanted
  BY DEF RoleWanted, BindingsWanted, Entitled, grantNamespaces

(***************************************************************************)
(* A step preserves Settled if it leaves the stored spec, the namespaces   *)
(* and the reference, the Roles and the RoleBindings and their caches, and *)
(* if the copies it takes are copies of the stored spec.                   *)
(***************************************************************************)
LEMMA SettledStep ==
    ASSUME Settled,
           profile'.life = profile.life, profile'.fin = profile.fin,
           profile'.grants = profile.grants, profile'.allowed = profile.allowed,
           UNCHANGED <<spaces, ref, bindings, bindCache>>,
           \A ns \in Namespaces : /\ roles'[ns] = roles[ns]
                                  /\ roleCache'[ns] = roleCache[ns],
           SameSpec(pCache'), pw'.at # "idle" => SameSpec(pw'.p),
           sw'.at = "bind" => sw'.keep = BindingsWanted
    PROVE  Settled'
  <1>1. /\ \A ns \in Namespaces : RoleWanted(ns)' = RoleWanted(ns)
        /\ BindingsWanted' = BindingsWanted
    BY WantedAlike
  <1>2. SameSpec(pCache)' /\ (pw'.at # "idle" => SameSpec(pw.p)')
    BY DEF SameSpec
  <1>3. profile'.life # "deleting" /\ (profile'.life = "live" => profile'.fin)
    BY DEF Settled
  <1>4. \A ns \in Namespaces : /\ roles'[ns] = RoleWanted(ns)'
                               /\ roleCache'[ns] = roles'[ns]
    BY <1>1 DEF Settled
  <1>5. /\ BindingsWanted' \subseteq spaces'
        /\ bindings' = BindingsWanted' /\ bindCache' = bindings'
        /\ sw'.at = "bind" => sw'.keep = BindingsWanted'
    BY <1>1 DEF Settled
  <1> QED
    BY <1>2, <1>3, <1>4, <1>5 DEF Settled

\* The Roles after a pass with the stored spec and an up-to-date cache.
LEMMA FreshRoles ==
    ASSUME TypeOK, syncRoles, SameSpec(pw.p), profile.life = "live",
           \A ns \in Namespaces : roleCache[ns] = roles[ns]
    PROVE  \A ns \in Namespaces : roles'[ns] = RoleWanted(ns)
  <1>1. Refused = {}
    BY DEF Refused, RoleRefused, Applicable, grantNamespaces
  <1>2. roles' = RolesAfter(Applicable, StaleRoles(Applicable))
    BY <1>1 DEF syncRoles
  <1>3. pw.p.grants = profile.grants
    BY DEF SameSpec
  <1> SUFFICES ASSUME NEW ns \in Namespaces PROVE roles'[ns] = RoleWanted(ns)
    OBVIOUS
  <1>4. ns \in Applicable <=> profile.grants[ns] # {} /\ ns \in spaces
    BY <1>3, Zenon DEF Applicable, grantNamespaces
  <1>5. CASE ns \in Applicable
    <2>0. ns \notin StaleRoles(Applicable)
      BY <1>5 DEF StaleRoles
    <2>1. roles'[ns] = applyRole(ns, pw.p.grants[ns])
      BY <1>2, <1>5, <2>0, Zenon DEF RolesAfter
    <2> QED
      BY <1>3, <1>4, <1>5, <2>1, Zenon DEF applyRole, RoleWanted
  <1>6. CASE ns \notin Applicable
    <2>1. ns \in StaleRoles(Applicable) <=> roles[ns] # {}
      BY <1>6 DEF StaleRoles
    <2>2. roles'[ns] = IF ns \in StaleRoles(Applicable) THEN {} ELSE roles[ns]
      BY <1>2, <1>6 DEF RolesAfter
    <2> QED
      BY <1>4, <1>6, <2>1, <2>2, Zenon DEF RoleWanted
  <1> QED
    BY <1>5, <1>6

\* The RoleBindings after a pass with an up-to-date cache.
LEMMA FreshBindings ==
    ASSUME reconcileRBAC, sw.keep = BindingsWanted,
           BindingsWanted \subseteq spaces, bindCache = bindings
    PROVE  bindings' = BindingsWanted /\ sw' = SIdle
  BY DEF reconcileRBAC, Unbound, StaleBindings

\* The profile reconciler's pass, step by step, leaves settled access alone.
LEMMA ProfilePassSettled ==
    ASSUME IInv, Settled, ProfilePass PROVE Settled'
  <1>0. /\ TypeOK /\ SameSpec(pCache) /\ profile.life # "deleting"
        /\ profile.life = "live" => profile.fin
        /\ pw.at # "idle" => SameSpec(pw.p)
        /\ sw.at = "bind" => sw.keep = BindingsWanted
    BY DEF IInv, Settled
  <1>1. CASE PBegin
    <2>1. ~NeedsFinalizer(pCache) /\ ~NeedsFinalize(pCache)
      BY <1>0 DEF NeedsFinalizer, NeedsFinalize, SameSpec
    <2>2. /\ UNCHANGED <<profile, pCache, spaces, roles, roleCache, bindings,
                         bindCache, ref, sw>>
          /\ pw' = CASE pCache.life = "live" ->
                          [PIdle EXCEPT !.at = "roles", !.p = pCache]
                     [] NeedsFinalize(pCache) ->
                          [PIdle EXCEPT !.at = "final", !.p = pCache]
                     [] OTHER -> PIdle
      BY <1>1, <2>1 DEF PBegin, sandboxSide
    <2>3. pw' = [at |-> "roles", p |-> pCache, missing |-> {}] \/ pw' = PIdle
      BY <2>1, <2>2, ZenonT(60) DEF PIdle
    <2>4. pw'.at # "idle" => pw'.p = pCache
      <3>1. CASE pw' = [at |-> "roles", p |-> pCache, missing |-> {}]
        BY <3>1
      <3>2. CASE pw' = PIdle
        BY <3>2, IdleTypes, ZenonT(60)
      <3> QED
        BY <2>3, <3>1, <3>2
    <2> QED
      BY <1>0, <2>2, <2>4, SettledStep
  <1>2. CASE syncRoles
    <2>1. /\ pw.at = "roles" /\ SameSpec(pw.p) /\ profile.life = "live"
      <3>1. pw.at = "roles" /\ SameSpec(pw.p) /\ pw.p.life # "absent"
        BY <1>0, <1>2, ZenonT(60) DEF syncRoles, TypeOK
      <3>2. profile.life \in {"absent", "live", "deleting"}
        BY <1>0, ZenonT(60) DEF TypeOK, Profile
      <3> QED
        BY <1>0, <3>1, <3>2 DEF SameSpec
    <2>2. \A ns \in Namespaces : roles'[ns] = RoleWanted(ns)
      BY <1>0, <1>2, <2>1, FreshRoles DEF Settled
    <2>3. \A ns \in Namespaces : roles'[ns] = roles[ns]
      BY <2>2 DEF Settled
    <2>4. pw'.at # "idle" => pw'.p = pw.p
      BY <1>0, <1>2, IdleTypes, ZenonT(60) DEF syncRoles, PRetry, TypeOK
    <2>5. UNCHANGED <<profile, pCache, spaces, roleCache, bindings, bindCache,
                      ref, sw>>
      BY <1>2, Zenon DEF syncRoles, sandboxSide
    <2> QED
      BY <1>0, <2>1, <2>3, <2>4, <2>5, SettledStep
  <1>3. CASE profileStatus
    <2> DEFINE p == [pw.p EXCEPT !.observed = TRUE, !.valid = Valid(pw.missing)]
    <2>1. pw.at = "status" /\ SameSpec(pw.p) /\ pw.p \in Profile
      BY <1>0, <1>3 DEF profileStatus, TypeOK
    <2>2. SameSpec(p)
      BY <2>1 DEF SameSpec, Profile
    <2>3. /\ profile' = p \/ UNCHANGED profile
          /\ pw' = PIdle
          /\ UNCHANGED <<pCache, spaces, roles, roleCache, bindings, bindCache,
                         ref, sw>>
      BY <1>3 DEF profileStatus, PRetry, sandboxSide
    <2> HIDE DEF p
    <2>4. /\ profile'.life = profile.life /\ profile'.fin = profile.fin
          /\ profile'.grants = profile.grants
          /\ profile'.allowed = profile.allowed
      BY <2>2, <2>3, Zenon DEF SameSpec
    <2> QED
      BY <1>0, <2>3, <2>4, IdleTypes, SettledStep
  <1>4. CASE finalize
    BY <1>0, <1>4 DEF finalize, IInv, Seen, SameSpec
  <1> QED
    BY <1>1, <1>2, <1>3, <1>4 DEF ProfilePass

\* So does the sandbox reconciler's.
LEMMA SandboxPassSettled ==
    ASSUME IInv, Settled, SandboxPass PROVE Settled'
  <1>0. /\ SameSpec(pCache) /\ SameSpec(profile)
        /\ pw.at # "idle" => SameSpec(pw.p)
    BY Zenon DEF Settled, SameSpec
  <1>1. UNCHANGED <<profile, pCache, roles, roleCache, pw, spaces, ref, bindCache>>
    BY Zenon DEF SandboxPass, SBegin, reconcileRBAC, profileSide
  <1>2. CASE SBegin
    <2>1. sw'.keep = IF ref /\ Permitted(pCache) THEN grantNamespaces(pCache)
                     ELSE {}
      BY <1>2, Zenon DEF SBegin
    <2>2. sw'.keep = BindingsWanted
      BY <1>0, <2>1, ZenonT(60)
         DEF BindingsWanted, Permitted, Entitled, grantNamespaces, SameSpec
    <2>3. UNCHANGED bindings
      BY <1>2, ZenonT(60) DEF SBegin
    <2> QED
      BY <1>0, <1>1, <2>2, <2>3, SettledStep, Zenon
  <1>3. CASE reconcileRBAC
    <2>1. sw.at = "bind"
      BY <1>3, ZenonT(60) DEF reconcileRBAC
    <2>2. bindings' = BindingsWanted /\ sw' = SIdle
      BY <1>3, <2>1, FreshBindings, ZenonT(60) DEF Settled
    <2>3. UNCHANGED bindings /\ sw'.at # "bind"
      BY <2>2 DEF Settled, SIdle
    <2> QED
      BY <1>0, <1>1, <2>3, SettledStep
  <1> QED
    BY <1>2, <1>3, Zenon DEF SandboxPass

\* Nothing is left for the informers to bring, except a newer status.
LEMMA SyncSettled ==
    ASSUME IInv, Settled,
           \/ SyncProfile \/ ResyncProfile \/ ResyncSandbox
           \/ \E ns \in Namespaces : SyncRole(ns) \/ SyncBinding(ns)
    PROVE  Settled'
  <1>0. /\ SameSpec(pCache) /\ SameSpec(profile)
        /\ pw.at # "idle" => SameSpec(pw.p)
        /\ sw.at = "bind" => sw.keep = BindingsWanted
    BY Zenon DEF Settled, SameSpec
  <1>1. CASE SyncProfile \/ ResyncProfile \/ ResyncSandbox
    <2>1. /\ UNCHANGED <<profile, spaces, roles, roleCache, bindings, bindCache,
                         ref, pw, sw>>
          /\ pCache' = profile \/ UNCHANGED pCache
      BY <1>1, ZenonT(60) DEF SyncProfile, ResyncProfile, ResyncSandbox, objects
    <2> QED
      BY <1>0, <2>1, SettledStep, Zenon
  <1>2. ASSUME NEW ns \in Namespaces, SyncRole(ns) PROVE FALSE
    BY <1>2, ZenonT(60) DEF SyncRole, Settled
  <1>3. ASSUME NEW ns \in Namespaces, SyncBinding(ns) PROVE FALSE
    BY <1>3 DEF SyncBinding, Settled
  <1> QED
    BY <1>1, <1>2, <1>3, Zenon

\* Everything the outside does is counted.
LEMMA OutsideCounts ==
    ASSUME TypeOK, Outside PROVE events' # events
  <1>1. Event
    BY Zenon DEF Outside, CreateProfile, EditProfile, DeleteProfile, EditSandbox,
       Restart, PCallFails, SCallFails, CreateNamespace, DeleteNamespace
  <1>2. events \in 0..MaxEvents /\ events' = events + 1
    BY <1>1 DEF TypeOK, Event
  <1> QED
    BY <1>2, EventsAssumption

(***************************************************************************)
(* Settled access stays until the outside changes something: no pass from  *)
(* whatever it has read, no status write, nudge or resync takes a Role or  *)
(* RoleBinding away or adds one, for any namespaces, rules and grants.     *)
(***************************************************************************)
THEOREM SettledStaysHolds == Spec => SettledStays
  <1>1. IInv /\ [Next]_vars => [Settled /\ events' = events => Settled']_vars
    <2> SUFFICES ASSUME IInv, Next, Settled, events' = events PROVE Settled'
      OBVIOUS
    <2>1. ~Outside
      BY OutsideCounts DEF IInv
    <2> QED
      BY <2>1, ProfilePassSettled, SandboxPassSettled, SyncSettled DEF Next
  <1> QED
    BY <1>1, InductiveInvariant, PTL DEF Spec, SettledStays

(***************************************************************************)
(* Whatever Roles and RoleBindings earlier operators, edits and failed     *)
(* passes left, one pass of each reconciler from up-to-date copies leaves  *)
(* the right ones.                                                         *)
(***************************************************************************)
THEOREM FreshPassIsRightHolds == Spec => FreshPassIsRight
  <1>1. IInv /\ [Next]_vars
        => [/\ (/\ syncRoles /\ SameSpec(pw.p) /\ profile.life = "live"
                /\ roleCache = roles)
               => \A ns \in Namespaces : roles'[ns] = RoleWanted(ns)
            /\ (/\ reconcileRBAC /\ sw.keep = BindingsWanted
                /\ BindingsWanted \subseteq spaces /\ bindCache = bindings)
               => bindings' = BindingsWanted]_vars
    BY FreshRoles, FreshBindings DEF IInv
  <1> QED
    BY <1>1, InductiveInvariant, PTL DEF Spec, FreshPassIsRight

=============================================================================
