-------------------------- MODULE HomeClaimsProofs --------------------------
(***************************************************************************)
(* Theorems about HomeClaims, for any number of sandboxes.                 *)
(*                                                                         *)
(* OlderKeepsClaim is not inductive: whether a pass finds the older        *)
(* sandboxes depends on what the watch has delivered.  History says that   *)
(* versions keep their creation time and that released ones are recorded;  *)
(* InOrder that older sandboxes are delivered before younger ones.         *)
(*                                                                         *)
(* NoneForgotten needs JInv: the last version still to be delivered is the *)
(* stored one, so a sandbox with nothing queued and nothing to hear of was *)
(* last seen by its pass as it is.                                         *)
(***************************************************************************)
EXTENDS HomeClaims, TLAPS, WellFoundedInduction

Known(s) == cache[s].life # "absent"

Awaited(s) == \E i \in 1..Len(watch) : watch[i].uid = s

Faithful(s, obj) ==
    /\ Exists(s)
    /\ obj.created = sb[s].created
    /\ Released(obj) => s \in yielded

History ==
    /\ \A s \in Sandboxes : Exists(s) => /\ sb[s].created <= now
                                         /\ Faithful(s, sb[s])
                                         /\ Known(s) \/ Awaited(s)
    /\ \A s \in Sandboxes : Known(s) => Faithful(s, cache[s])
    /\ \A i \in 1..Len(watch) : /\ watch[i].obj.life # "absent"
                                /\ Faithful(watch[i].uid, watch[i].obj)
    /\ \A s \in Sandboxes : pod[s] # "none" => Exists(s)

Older(o, s) == Exists(o) /\ sb[o].created < sb[s].created

InOrder ==
    \A s, o \in Sandboxes : Older(o, s) =>
        /\ Known(s) => Known(o)
        /\ \A i \in 1..Len(watch) : watch[i].uid = s =>
              Known(o) \/ \E j \in 1..(i - 1) : watch[j].uid = o

IInv == TypeOK /\ History /\ InOrder /\ OlderKeepsClaim

-----------------------------------------------------------------------------
(***************************************************************************)
(* The tie-break decides: of two sandboxes exactly one wins, so no two     *)
(* hold each other, however close together they were created.              *)
(***************************************************************************)
THEOREM OneWins ==
    ASSUME NEW a \in Nat, NEW b \in Nat, a # b,
           NEW p \in Sandbox, NEW q \in Sandbox
    PROVE  wins([uid |-> a, obj |-> p], [uid |-> b, obj |-> q])
             <=> ~wins([uid |-> b, obj |-> q], [uid |-> a, obj |-> p])
<1>1. p.created \in Nat /\ q.created \in Nat
  BY DEF Sandbox
<1>. QED  BY <1>1 DEF wins

\* A set of numbers has a least one.
LEMMA LeastNumber ==
    ASSUME NEW T, T \subseteq Nat, T # {}
    PROVE  \E x \in T : \A y \in T : x <= y
<1>1. PICK x \in T : \A y \in T : ~(<<y, x>> \in OpToRel(<, Nat))
  BY NatLessThanWellFounded, WFMin
<1>2. ASSUME NEW y \in T PROVE x <= y
  <2>1. x \in Nat /\ y \in Nat /\ <<y, x>> \in Nat \X Nat
    OBVIOUS
  <2>2. ~(y < x)
    BY <1>1, <2>1 DEF OpToRel
  <2> QED
    BY <2>1, <2>2
<1> QED
  BY <1>2

(***************************************************************************)
(* No standoff, for any number of sandboxes and however out of date the    *)
(* reconciler's cache is: if some sandbox in it is still on the claim, one *)
(* of them is held by no other.                                            *)
(***************************************************************************)
THEOREM NoStandoff ==
    ASSUME TypeOK, NEW s0 \in Sandboxes, ~Released(cache[s0])
    PROVE  \E s \in Sandboxes : ~Released(cache[s]) /\ claimConflict(s) = {}
<1>. DEFINE On     == {s \in Sandboxes : ~Released(cache[s])}
            Times  == {cache[s].created : s \in On}
<1>1. \A s \in Sandboxes : s \in Nat /\ cache[s].created \in Nat
  BY SandboxesAssumption DEF TypeOK, Sandbox
<1>2. PICK c \in Times : \A d \in Times : c <= d
  <2>1. Times \subseteq Nat /\ Times # {}
    BY <1>1
  <2> QED
    BY <2>1, LeastNumber, Zenon
<1>. DEFINE First == {s \in On : cache[s].created = c}
<1>3. PICK s \in First : \A t \in First : s <= t
  <2>1. First \subseteq Nat /\ First # {}
    BY <1>1, <1>2
  <2> QED
    BY <2>1, LeastNumber, Zenon
<1>4. ASSUME NEW o \in On, o # s PROVE ~wins(Cached(o), Cached(s))
  <2>1. /\ c \in Nat /\ cache[o].created \in Nat /\ o \in Nat /\ s \in Nat
        /\ cache[s].created = c /\ c <= cache[o].created
    BY <1>1, <1>2
  <2>2. cache[o].created = c => s <= o
    BY <1>3
  <2> QED
    BY <1>4, <2>1, <2>2 DEF wins, Cached
<1>5. claimConflict(s) = {}
  BY <1>4 DEF claimConflict
<1> QED
  BY <1>3, <1>5

-----------------------------------------------------------------------------
\* An element of a sequence has the type of its elements.
LEMMA ElementTyped ==
    ASSUME NEW S, NEW q \in Seq(S), NEW i \in 1..Len(q)
    PROVE  q[i] \in S
OBVIOUS

(***************************************************************************)
(* What storing a sandbox does to the versions.                            *)
(***************************************************************************)
LEMMA StoreTypes ==
    ASSUME TypeOK, NEW s \in Sandboxes, NEW obj \in Sandbox, Store(s, obj)
    PROVE  /\ sb' \in [Sandboxes -> Sandbox]
           /\ watch' \in Seq([uid : Sandboxes, obj : Sandbox])
           /\ yielded' \in SUBSET Sandboxes
BY DEF TypeOK, Store

\* What is appended, and what stays.
LEMMA StoreAppends ==
    ASSUME TypeOK, NEW s \in Sandboxes, NEW obj \in Sandbox, Store(s, obj)
    PROVE  /\ Len(watch') = Len(watch) + 1
           /\ \A i \in 1..Len(watch) : watch'[i] = watch[i]
           /\ watch'[Len(watch) + 1] = [uid |-> s, obj |-> obj]
           /\ Len(watch) \in Nat
BY DEF TypeOK, Store

\* Storing one sandbox changes no other, and a release is remembered.
LEMMA StoreSandboxes ==
    ASSUME TypeOK, NEW s \in Sandboxes, NEW obj \in Sandbox, Store(s, obj)
    PROVE  /\ sb'[s] = obj
           /\ \A t \in Sandboxes \ {s} : sb'[t] = sb[t]
           /\ yielded \subseteq yielded'
           /\ Released(obj) => s \in yielded'
BY DEF TypeOK, Store

\* A version that keeps the creation time of its sandbox.
Versioned(s, obj) ==
    /\ obj.life # "absent"
    /\ Exists(s) => obj.created = sb[s].created
    /\ ~Exists(s) => obj.created = now

\* A version stored from a faithful copy keeps the history faithful.
LEMMA StoreHistory ==
    ASSUME TypeOK, History, NEW s \in Sandboxes, NEW obj \in Sandbox,
           Versioned(s, obj), Store(s, obj), UNCHANGED <<now, cache>>,
           \A t \in Sandboxes : pod'[t] # "none" => Exists(t)
    PROVE  History'
<1>1. /\ sb'[s] = obj /\ \A u \in Sandboxes \ {s} : sb'[u] = sb[u]
      /\ Released(obj) => s \in yielded'
  BY StoreSandboxes
<1>2. /\ Len(watch') = Len(watch) + 1 /\ Len(watch) \in Nat
      /\ \A i \in 1..Len(watch) : watch'[i] = watch[i]
      /\ watch'[Len(watch) + 1] = [uid |-> s, obj |-> obj]
  BY StoreAppends
<1>3. \A t \in Sandboxes : Exists(t) => Exists(t)'
  BY <1>1 DEF Exists, Versioned
<1>4. Faithful(s, obj)'
  BY <1>1 DEF Faithful, Exists, Versioned
<1>5. ASSUME NEW t \in Sandboxes, Exists(t)'
      PROVE  /\ sb'[t].created <= now'
             /\ Faithful(t, sb[t])'
             /\ Known(t)' \/ Awaited(t)'
  <2>1. CASE t = s
    <3>1. Awaited(s)'
      BY <1>2 DEF Awaited
    <3>2. obj.created <= now
      BY DEF Versioned, History, TypeOK
    <3>. QED  BY <1>1, <1>4, <2>1, <3>1, <3>2
  <2>2. CASE t # s
    <3>1. sb'[t] = sb[t] /\ Exists(t)
      BY <1>1, <1>5, <2>2 DEF Exists
    <3>2. Faithful(t, sb[t]) /\ sb[t].created <= now /\ (Known(t) \/ Awaited(t))
      BY <3>1 DEF History
    <3>3. sb[t] \in Sandbox
      BY DEF TypeOK
    <3>4. Faithful(t, sb[t])'
      <4>1. Released(sb[t]) => t \in yielded'
        BY <3>2, StoreSandboxes DEF Faithful
      <4>. QED  BY <3>1, <1>5, <4>1 DEF Faithful, Released, Live
    <3>5. Known(t) => Known(t)'
      BY DEF Known
    <3>6. Awaited(t) => Awaited(t)'
      BY <1>2 DEF Awaited
    <3>. QED  BY <3>1, <3>2, <3>4, <3>5, <3>6
  <2>. QED  BY <2>1, <2>2
<1>6. ASSUME NEW t \in Sandboxes, Known(t)'  PROVE  Faithful(t, cache[t])'
  <2>1. Faithful(t, cache[t]) /\ cache[t] \in Sandbox /\ cache'[t] = cache[t]
    BY <1>6 DEF History, Known, TypeOK
  <2>2. t \in Sandboxes /\ sb'[t].created = sb[t].created
    BY <1>1, <2>1, Zenon DEF Faithful, Versioned
  <2>. QED
    BY <1>3, <2>1, <2>2, StoreSandboxes DEF Faithful, Released, Live
<1>7. ASSUME NEW i \in 1..Len(watch')
      PROVE  /\ watch'[i].obj.life # "absent"
             /\ Faithful(watch[i].uid, watch[i].obj)'
  <2>1. CASE i = Len(watch) + 1
    BY <1>2, <1>4, <2>1 DEF Versioned, Faithful
  <2>2. CASE i \in 1..Len(watch)
    <3>0. watch[i] \in [uid : Sandboxes, obj : Sandbox]
      BY <2>2, ElementTyped, Zenon DEF TypeOK
    <3>1. /\ watch'[i] = watch[i] /\ watch[i].uid \in Sandboxes
          /\ watch[i].obj.life # "absent"
          /\ Faithful(watch[i].uid, watch[i].obj)
      BY <1>2, <2>2, <3>0 DEF History
    <3>2. sb'[watch[i].uid].created = sb[watch[i].uid].created
      BY <1>1, <3>1 DEF Faithful, Versioned
    <3>. QED
      BY <1>3, <3>1, <3>2, StoreSandboxes, Zenon DEF Faithful, Released, Live
  <2>. QED  BY <1>2, <2>1, <2>2
<1>8. ASSUME NEW t \in Sandboxes, pod'[t] # "none"  PROVE  Exists(t)'
  BY <1>1, <1>3, <1>8 DEF History, Versioned, Exists
<1>. QED  BY <1>5, <1>6, <1>7, <1>8 DEF History

\* The watch delivers an older sandbox before a newer one.
LEMMA StoreInOrder ==
    ASSUME TypeOK, History, InOrder, NEW s \in Sandboxes, NEW obj \in Sandbox,
           Versioned(s, obj), Store(s, obj), UNCHANGED <<now, cache>>
    PROVE  InOrder'
<1>1. /\ sb'[s] = obj /\ \A u \in Sandboxes \ {s} : sb'[u] = sb[u]
  BY StoreSandboxes
<1>2. /\ Len(watch') = Len(watch) + 1 /\ Len(watch) \in Nat
      /\ \A i \in 1..Len(watch) : watch'[i] = watch[i]
      /\ watch'[Len(watch) + 1] = [uid |-> s, obj |-> obj]
  BY StoreAppends
<1>3. \A t \in Sandboxes : Known(t)' <=> Known(t)
  BY DEF Known
<1>. SUFFICES ASSUME NEW t \in Sandboxes, NEW o \in Sandboxes, Older(o, t)'
              PROVE  /\ Known(t) => Known(o)
                     /\ \A i \in 1..Len(watch') : watch'[i].uid = t =>
                           Known(o) \/ \E j \in 1..(i - 1) : watch'[j].uid = o
  BY <1>3 DEF InOrder
<1>4. /\ sb[t] \in Sandbox /\ sb[o] \in Sandbox /\ sb'[t] \in Sandbox
      /\ sb'[o] \in Sandbox /\ now \in Nat
  BY StoreTypes DEF TypeOK
<1>5. /\ sb[t].created \in Nat /\ sb[o].created \in Nat
      /\ sb'[t].created \in Nat /\ sb'[o].created \in Nat
  BY <1>4 DEF Sandbox
<1>6. Exists(o)' /\ sb'[o].created < sb'[t].created
  BY DEF Older
<1>7. \A u \in Sandboxes : Exists(u) => sb'[u].created = sb[u].created
  BY <1>1 DEF Versioned
<1>8. \A u \in Sandboxes : Exists(u)' => Exists(u) \/ (u = s /\ sb'[u].created = now)
  BY <1>1 DEF Versioned, Exists
<1>9. \A u \in Sandboxes : Exists(u) => sb[u].created <= now
  BY DEF History
<1>10. CASE Exists(t)
  <2>1. Older(o, t)
    BY <1>5, <1>6, <1>7, <1>8, <1>9, <1>10, <1>4 DEF Older
  <2>2. /\ Known(t) => Known(o)
        /\ \A i \in 1..Len(watch) : watch[i].uid = t =>
              Known(o) \/ \E j \in 1..(i - 1) : watch[j].uid = o
    BY <2>1 DEF InOrder
  <2>3. Known(o) \/ Awaited(o)
    BY <2>1, Zenon DEF Older, History
  <2>4. ASSUME NEW i \in 1..Len(watch'), watch'[i].uid = t, ~Known(o)
        PROVE  \E j \in 1..(i - 1) : watch'[j].uid = o
    <3>1. CASE i = Len(watch) + 1
      <4>1. PICK j \in 1..Len(watch) : watch[j].uid = o
        BY <2>3, <2>4 DEF Awaited
      <4>. QED  BY <1>2, <3>1, <4>1
    <3>2. CASE i \in 1..Len(watch)
      <4>1. PICK j \in 1..(i - 1) : watch[j].uid = o
        BY <1>2, <2>2, <2>4, <3>2, Zenon
      <4>2. j \in 1..Len(watch)
        BY <1>2, <3>2
      <4>. QED  BY <1>2, <4>1, <4>2, ZenonT(60)
    <3>. QED  BY <1>2, <3>1, <3>2
  <2>. QED  BY <2>2, <2>4
<1>11. CASE ~Exists(t)
  <2>1. ~Known(t) /\ ~Awaited(t)
    <3>1. ASSUME NEW i \in 1..Len(watch)  PROVE  Exists(watch[i].uid)
      BY Zenon DEF History, Faithful
    <3>. QED  BY <1>11, <3>1, ZenonT(60) DEF History, Faithful, Awaited
  <2>2. ASSUME NEW i \in 1..Len(watch'), watch'[i].uid = t, ~Known(o)
        PROVE  \E j \in 1..(i - 1) : watch'[j].uid = o
    <3>1. i = Len(watch) + 1 /\ t = s
      BY <1>2, <2>1, <2>2 DEF Awaited
    <3>2. o # s /\ Exists(o)
      BY <1>5, <1>6, <1>8, <3>1
    <3>3. PICK j \in 1..Len(watch) : watch[j].uid = o
      BY <2>2, <3>2, Zenon DEF History, Awaited
    <3>. QED  BY <1>2, <3>1, <3>3
  <2>. QED  BY <2>1, <2>2, Zenon
<1>. QED  BY <1>10, <1>11

-----------------------------------------------------------------------------
(***************************************************************************)
(* A pod may appear only where every older sandbox has released the claim. *)
(***************************************************************************)
Freed(t) ==
    /\ Exists(t)
    /\ t = owner \/ \A o \in Sandboxes : Older(o, t) => o \in yielded

Kept == UNCHANGED objects
        \/ \E s \in Sandboxes, obj \in Sandbox :
              Versioned(s, obj) /\ Store(s, obj)

\* Such a step forgets no sandbox, no creation time and no release.
LEMMA KeptGrows ==
    ASSUME TypeOK, Kept
    PROVE  /\ yielded \subseteq yielded'
           /\ \A t \in Sandboxes : Exists(t) =>
                 Exists(t)' /\ sb'[t].created = sb[t].created
           /\ \A t \in Sandboxes : Exists(t)' =>
                 Exists(t) \/ sb'[t].created = now
           /\ sb' \in [Sandboxes -> Sandbox]
           /\ watch' \in Seq([uid : Sandboxes, obj : Sandbox])
           /\ yielded' \in SUBSET Sandboxes
<1>1. CASE UNCHANGED objects
  BY <1>1 DEF objects, TypeOK, Exists
<1>2. CASE \E s \in Sandboxes, obj \in Sandbox :
              Versioned(s, obj) /\ Store(s, obj)
  <2>1. PICK s \in Sandboxes, obj \in Sandbox :
              Versioned(s, obj) /\ Store(s, obj)
    BY <1>2
  <2>2. /\ sb'[s] = obj /\ \A u \in Sandboxes \ {s} : sb'[u] = sb[u]
        /\ yielded \subseteq yielded'
    BY <2>1, StoreSandboxes
  <2>3. /\ \A t \in Sandboxes : Exists(t) =>
              Exists(t)' /\ sb'[t].created = sb[t].created
        /\ \A t \in Sandboxes : Exists(t)' =>
              Exists(t) \/ sb'[t].created = now
    BY <2>1, <2>2 DEF Versioned, Exists
  <2>4. /\ sb' \in [Sandboxes -> Sandbox]
        /\ watch' \in Seq([uid : Sandboxes, obj : Sandbox])
        /\ yielded' \in SUBSET Sandboxes
    BY <2>1, StoreTypes, ZenonT(60)
  <2>. QED  BY <2>2, <2>3, <2>4
<1>. QED  BY <1>1, <1>2 DEF Kept

\* A pod that is kept, or created on a free claim, is no intrusion.
LEMMA KeptOlder ==
    ASSUME IInv, Kept, UNCHANGED owner,
           \A t \in Sandboxes : pod'[t] # "none" => pod[t] # "none" \/ Freed(t)
    PROVE  OlderKeepsClaim'
<1>. USE DEF IInv
<1>1. /\ yielded \subseteq yielded'
      /\ \A t \in Sandboxes : Exists(t) =>
            Exists(t)' /\ sb'[t].created = sb[t].created
      /\ \A t \in Sandboxes : Exists(t)' => Exists(t) \/ sb'[t].created = now
      /\ sb' \in [Sandboxes -> Sandbox]
  BY KeptGrows
<1>. SUFFICES ASSUME NEW s \in Sandboxes, NEW o \in Sandboxes,
                     s # owner', pod'[s] # "none",
                     Exists(o)', sb'[o].created < sb'[s].created
              PROVE  o \in yielded'
  BY DEF OlderKeepsClaim
<1>2. Exists(s)
  BY DEF History, Freed
<1>3. sb[s].created <= now /\ sb'[s].created = sb[s].created
  BY <1>1, <1>2 DEF History
<1>4. sb'[o].created \in Nat /\ sb[s].created \in Nat /\ now \in Nat
  BY <1>1, ZenonT(60) DEF TypeOK, Sandbox
<1>5. Exists(o) /\ sb[o].created < sb[s].created
  BY <1>1, <1>3, <1>4
<1>6. o \in yielded
  BY <1>5 DEF OlderKeepsClaim, Freed, Older
<1>. QED  BY <1>1, <1>6

\* Such a step keeps the versions faithful and in order.
LEMMA KeptHistory ==
    ASSUME IInv, Kept, UNCHANGED <<now, cache>>,
           \A t \in Sandboxes : pod'[t] # "none" => pod[t] # "none" \/ Freed(t)
    PROVE  History' /\ InOrder'
<1>. USE DEF IInv
<1>1. \A t \in Sandboxes : pod'[t] # "none" => Exists(t)
  BY DEF Freed, History
<1>2. CASE UNCHANGED objects
  <2>1. /\ \A t \in Sandboxes : /\ Exists(t)' <=> Exists(t)
                                /\ Known(t)' <=> Known(t)
                                /\ Awaited(t)' <=> Awaited(t)
                                /\ Faithful(t, sb[t])' <=> Faithful(t, sb[t])
                                /\ Faithful(t, cache[t])' <=> Faithful(t, cache[t])
        /\ \A i \in 1..Len(watch) : Faithful(watch[i].uid, watch[i].obj)' <=>
                                     Faithful(watch[i].uid, watch[i].obj)
    BY <1>2 DEF objects, Exists, Known, Awaited, Faithful
  <2>2. History'
    BY <1>1, <1>2, <2>1, ZenonT(60) DEF objects, History
  <2>3. InOrder'
    <3>1. watch' = watch /\ \A t \in Sandboxes : sb'[t] = sb[t]
      BY <1>2, Zenon DEF objects
    <3>2. \A t, o \in Sandboxes : Older(o, t)' => Older(o, t)
      BY <2>1, <3>1, Zenon DEF Older
    <3> QED
      BY <2>1, <3>1, <3>2 DEF InOrder
  <2>. QED  BY <2>2, <2>3
<1>3. ASSUME NEW s \in Sandboxes, NEW obj \in Sandbox,
             Versioned(s, obj), Store(s, obj)
      PROVE  History' /\ InOrder'
  BY <1>1, <1>3, StoreHistory, StoreInOrder
<1>. QED  BY <1>2, <1>3 DEF Kept

\* Most actions leave the caches and the time alone.
LEMMA KeptSafe ==
    ASSUME IInv, Kept, UNCHANGED <<now, cache, owner>>,
           \A t \in Sandboxes : pod'[t] # "none" => pod[t] # "none" \/ Freed(t),
           pod' \in [Sandboxes -> Pods], podCache' \in [Sandboxes -> Pods],
           claim' \in BOOLEAN, idle' \in SUBSET Sandboxes,
           queue' \in SUBSET Sandboxes, events' \in Nat
    PROVE  IInv'
<1>1. TypeOK'
  BY KeptGrows, Zenon DEF IInv, TypeOK
<1>. QED  BY <1>1, KeptOlder, KeptHistory, ZenonT(60) DEF IInv

-----------------------------------------------------------------------------
(***************************************************************************)
(* The actions.                                                            *)
(***************************************************************************)
LEMMA InitIInv == ASSUME Init  PROVE  IInv
<1>0. Absent \in Sandbox
  BY DEF Absent, Sandbox
<1>1. TypeOK
  BY <1>0 DEF Init, TypeOK, Pods
<1>2. Len(watch) = 0 /\ \A s \in Sandboxes : ~Exists(s) /\ ~Known(s) /\ pod[s] = "none"
  BY DEF Init, Exists, Known, Absent
<1>. QED  BY <1>1, <1>2 DEF IInv, History, InOrder, OlderKeepsClaim, Older

\* The stored version of a cached live sandbox.
LEMMA PassStores ==
    ASSUME IInv, NEW s \in Sandboxes, Known(s),
           NEW life \in {"live", "gone"},
           NEW phase \in {"", "InUse", "Missing", "Up", "Suspending", "Suspended"}
    PROVE  /\ [cache[s] EXCEPT !.life = life, !.phase = phase] \in Sandbox
           /\ Versioned(s, [cache[s] EXCEPT !.life = life, !.phase = phase])
           /\ [cache[s] EXCEPT !.life = life] \in Sandbox
           /\ Versioned(s, [cache[s] EXCEPT !.life = life])
           /\ Exists(s)
<1>1. cache[s] \in Sandbox
  BY DEF IInv, TypeOK
<1>2. Exists(s) /\ cache[s].created = sb[s].created
  BY ZenonT(60) DEF IInv, History, Faithful
<1>. QED  BY <1>1, <1>2 DEF Versioned, Sandbox

\* The event counter stays a natural number.
LEMMA EventTyped ==
    ASSUME IInv, events' = events \/ events' = events + 1
    PROVE  events' \in Nat
BY DEF IInv, TypeOK

\* The status that a pass stores is a version of its sandbox.
LEMMA PatchKeeps ==
    ASSUME IInv, NEW s \in Sandboxes, Pass(s),
           NEW phase \in {"", "InUse", "Missing", "Up", "Suspending", "Suspended"},
           NEW requeue \in BOOLEAN, PatchStatus(s, phase, requeue)
    PROVE  Kept /\ queue' \in SUBSET Sandboxes /\ events' \in Nat /\ Exists(s)
<1>1. Known(s)
  BY DEF Pass, Live, Known
<1>2. queue \in SUBSET Sandboxes /\ events \in Nat
  BY DEF IInv, TypeOK
<1>3. \/ UNCHANGED objects
      \/ Store(s, [cache[s] EXCEPT !.life = "live", !.phase = phase])
      \/ Store(s, [cache[s] EXCEPT !.life = "live"])
  BY DEF PatchStatus
<1>4. /\ Exists(s)
      /\ [cache[s] EXCEPT !.life = "live", !.phase = phase] \in Sandbox
      /\ Versioned(s, [cache[s] EXCEPT !.life = "live", !.phase = phase])
      /\ [cache[s] EXCEPT !.life = "live"] \in Sandbox
      /\ Versioned(s, [cache[s] EXCEPT !.life = "live"])
  BY <1>1, PassStores, ZenonT(60)
<1>5. Kept
  BY <1>3, <1>4 DEF Kept
<1>6. queue' \in SUBSET Sandboxes
  BY <1>2 DEF PatchStatus
<1>7. events' = events \/ events' = events + 1
  BY ZenonT(60) DEF PatchStatus, Event
<1>8. events' \in Nat
  BY <1>7, EventTyped, ZenonT(60)
<1>. QED  BY <1>4, <1>5, <1>6, <1>8

\* A pass that gets past reconcileHome found nobody older on the claim.
LEMMA PassFreed ==
    ASSUME IInv, NEW s \in Sandboxes, Pass(s), HomeReady(s)
    PROVE  Freed(s)
<1>. USE DEF IInv
<1>1. Known(s)
  BY ZenonT(60) DEF Pass, Live, Known
<1>2. Exists(s) /\ cache[s].created = sb[s].created
  BY <1>1 DEF History, Faithful
<1>3. ASSUME NEW o \in Sandboxes, Older(o, s), claimConflict(s) = {}
      PROVE  o \in yielded
  <2>1. Known(o)
    BY <1>1, <1>3, ZenonT(60) DEF InOrder
  <2>2. Faithful(o, cache[o])
    BY <2>1 DEF History
  <2>3. sb[o].created \in Nat /\ sb[s].created \in Nat
    BY ZenonT(60) DEF TypeOK, Sandbox
  <2>4. o # s
    BY <1>3, <2>3 DEF Older
  <2>5. wins(Cached(o), Cached(s))
    BY <1>2, <1>3, <2>2, <2>3 DEF wins, Cached, Faithful, Older
  <2>6. Released(cache[o])
    BY <1>3, <2>4, <2>5 DEF claimConflict
  <2>. QED  BY <2>2, <2>6 DEF Faithful
<1>. QED  BY <1>2, <1>3 DEF HomeReady, Freed

\* Users and idle periods.
LEMMA UserSafe ==
    ASSUME IInv, NEW s \in Sandboxes,
           Create(s) \/ SetDesired(s) \/ Delete(s) \/ Idleness(s)
    PROVE  IInv'
<1>0. /\ sb[s] \in Sandbox /\ now \in Nat
      /\ pod \in [Sandboxes -> Pods] /\ podCache \in [Sandboxes -> Pods]
      /\ claim \in BOOLEAN /\ idle \in SUBSET Sandboxes
      /\ queue \in SUBSET Sandboxes /\ events \in Nat
  BY DEF IInv, TypeOK
<1>1. CASE Create(s)
  <2>1. /\ [Absent EXCEPT !.life = "new", !.created = now] \in Sandbox
        /\ Versioned(s, [Absent EXCEPT !.life = "new", !.created = now])
    BY <1>0, <1>1 DEF Absent, Sandbox, Versioned, Create
  <2>2. Kept
    BY <1>1, <2>1 DEF Create, Kept
  <2>. QED  BY <1>0, <1>1, <2>2, KeptSafe DEF Create, caches
<1>2. CASE SetDesired(s)
  <2>1. PICK d \in {"Running", "Stopped"} : Store(s, [sb[s] EXCEPT !.desired = d])
    BY <1>2 DEF SetDesired
  <2>2. /\ [sb[s] EXCEPT !.desired = d] \in Sandbox
        /\ Versioned(s, [sb[s] EXCEPT !.desired = d])
    BY <1>0, <1>2, ZenonT(60) DEF SetDesired, Sandbox, Versioned, Live, Exists
  <2>3. Kept
    BY <2>1, <2>2 DEF Kept
  <2>. QED  BY <1>0, <1>2, <2>3, KeptSafe DEF SetDesired, caches, Event
<1>3. CASE Delete(s)
  <2>1. PICK life \in {"gone", "deleting"} :
              Store(s, [sb[s] EXCEPT !.life = life])
    BY <1>3 DEF Delete
  <2>2. /\ [sb[s] EXCEPT !.life = life] \in Sandbox
        /\ Versioned(s, [sb[s] EXCEPT !.life = life])
    BY <1>0, <1>3, ZenonT(60) DEF Delete, Sandbox, Versioned, Live, Exists
  <2>3. Kept
    BY <2>1, <2>2 DEF Kept
  <2>. QED  BY <1>0, <1>3, <2>3, KeptSafe DEF Delete, caches, Event
<1>4. CASE Idleness(s)
  <2>1. Kept
    BY <1>4 DEF Idleness, Kept
  <2>. QED  BY <1>0, <1>4, <2>1, KeptSafe DEF Idleness, caches, Event
<1>. QED  BY <1>1, <1>2, <1>3, <1>4

\* The kubelet and the watch on pods.
LEMMA PodSafe ==
    ASSUME IInv, NEW s \in Sandboxes, PodGone(s) \/ SyncPod(s)
    PROVE  IInv'
<1>0. /\ pod \in [Sandboxes -> Pods] /\ podCache \in [Sandboxes -> Pods]
      /\ claim \in BOOLEAN /\ idle \in SUBSET Sandboxes
      /\ queue \in SUBSET Sandboxes /\ events \in Nat
  BY DEF IInv, TypeOK
<1>1. Kept
  BY DEF PodGone, SyncPod, Kept
<1>2. /\ pod' \in [Sandboxes -> Pods] /\ podCache' \in [Sandboxes -> Pods]
      /\ \A t \in Sandboxes : pod'[t] # "none" => pod[t] # "none"
      /\ queue' \in SUBSET Sandboxes
      /\ UNCHANGED <<now, cache, owner, claim, idle, events>>
  BY <1>0 DEF PodGone, SyncPod, caches, Pods
<1>. QED  BY <1>0, <1>1, <1>2, KeptSafe

\* Passes that hold the sandbox create no pod.
LEMMA HeldSafe ==
    ASSUME IInv, NEW s \in Sandboxes,
           ClaimInUse(s) \/ ClaimMissing(s) \/ NotFound(s)
    PROVE  IInv'
<1>0. /\ pod \in [Sandboxes -> Pods] /\ podCache \in [Sandboxes -> Pods]
      /\ claim \in BOOLEAN /\ idle \in SUBSET Sandboxes
      /\ queue \in SUBSET Sandboxes /\ events \in Nat
  BY DEF IInv, TypeOK
<1>1. Kept /\ queue' \in SUBSET Sandboxes /\ events' \in Nat
  <2>1. CASE ClaimInUse(s)
    BY <2>1, PatchKeeps, ZenonT(60) DEF ClaimInUse
  <2>2. CASE ClaimMissing(s)
    BY <2>2, PatchKeeps, ZenonT(60) DEF ClaimMissing
  <2>3. CASE NotFound(s)
    BY <1>0, <2>3 DEF NotFound, Kept
  <2>. QED  BY <2>1, <2>2, <2>3
<1>2. UNCHANGED <<now, owner, cache, podCache, pod, claim, idle>>
  BY ZenonT(60) DEF ClaimInUse, ClaimMissing, NotFound, caches
<1>. QED  BY <1>0, <1>1, <1>2, KeptSafe

\* Passes that have the claim: no older sandbox is still on it.
LEMMA RunSafe ==
    ASSUME IInv, NEW s \in Sandboxes, suspend(s) \/ run(s)
    PROVE  IInv'
<1>0. /\ pod \in [Sandboxes -> Pods] /\ podCache \in [Sandboxes -> Pods]
      /\ claim \in BOOLEAN /\ idle \in SUBSET Sandboxes
  BY Zenon DEF IInv, TypeOK
<1>1. Pass(s) /\ HomeReady(s)
  BY ZenonT(60) DEF suspend, run
<1>2. Freed(s)
  BY <1>1, PassFreed
<1>3. Kept /\ queue' \in SUBSET Sandboxes /\ events' \in Nat
  <2>1. PICK phase \in {"", "InUse", "Missing", "Up", "Suspending", "Suspended"} :
              PatchStatus(s, phase, FALSE)
    BY Zenon DEF suspend, run
  <2>. QED  BY <1>1, <2>1, PatchKeeps
<1>4. UNCHANGED <<now, owner, cache, podCache, idle>>
  BY Zenon DEF suspend, run, caches
<1>5. claim' \in BOOLEAN
  BY <1>0, <1>1 DEF HomeReady
<1>6. /\ pod' \in [Sandboxes -> Pods]
      /\ \A t \in Sandboxes : pod'[t] # "none" => pod[t] # "none" \/ t = s
  <2>1. CASE suspend(s)
    BY <1>0, <2>1, ZenonT(60) DEF suspend, Pods
  <2>2. CASE run(s)
    BY <1>0, <2>2 DEF run, Pods
  <2>. QED  BY <2>1, <2>2
<1>. QED  BY <1>0, <1>2, <1>3, <1>4, <1>5, <1>6, KeptSafe, ZenonT(60)

\* A deleted sandbox releases the claim.
LEMMA FinalizeSafe ==
    ASSUME IInv, NEW s \in Sandboxes, finalize(s)
    PROVE  IInv'
<1>0. /\ pod \in [Sandboxes -> Pods] /\ podCache \in [Sandboxes -> Pods]
      /\ claim \in BOOLEAN /\ idle \in SUBSET Sandboxes
      /\ queue \in SUBSET Sandboxes /\ events \in Nat
  BY DEF IInv, TypeOK
<1>1. Known(s)
  BY DEF finalize, Known
<1>2. /\ [cache[s] EXCEPT !.life = "gone"] \in Sandbox
      /\ Versioned(s, [cache[s] EXCEPT !.life = "gone"])
  BY <1>1, PassStores, Zenon
<1>3. Kept
  BY <1>2 DEF finalize, Kept
<1>4. /\ pod' \in [Sandboxes -> Pods]
      /\ \A t \in Sandboxes : pod'[t] # "none" => pod[t] # "none"
      /\ queue' \in SUBSET Sandboxes /\ claim' \in BOOLEAN
      /\ UNCHANGED <<now, owner, cache, podCache, idle, events>>
  BY <1>0, Zenon DEF finalize, Pods, caches
<1>. QED  BY <1>0, <1>3, <1>4, KeptSafe

\* The claim appears; the informers resync.
LEMMA QuietSafe ==
    ASSUME IInv, CreateClaim \/ Resync
    PROVE  IInv'
<1>0. /\ pod \in [Sandboxes -> Pods] /\ podCache \in [Sandboxes -> Pods]
      /\ claim \in BOOLEAN /\ idle \in SUBSET Sandboxes
      /\ queue \in SUBSET Sandboxes /\ events \in Nat
  BY Zenon DEF IInv, TypeOK
<1>1. /\ UNCHANGED <<now, owner, cache, podCache, pod, idle, events>>
      /\ UNCHANGED objects
      /\ claim' \in BOOLEAN /\ queue' \in SUBSET Sandboxes
  BY <1>0, Zenon DEF CreateClaim, Resync, caches, objects
<1>2. Kept
  BY <1>1 DEF Kept
<1>. QED  BY <1>0, <1>1, <1>2, KeptSafe, ZenonT(60)

\* Creation times stay behind the clock.
LEMMA NextSecondSafe ==
    ASSUME IInv, NextSecond
    PROVE  IInv'
<1>. USE DEF IInv
<1>1. /\ UNCHANGED <<sb, watch, yielded, cache, podCache, pod, claim, owner,
                      idle, queue, events>>
      /\ now' = now + 1
  BY DEF NextSecond, objects, caches
<1>2. TypeOK'
  BY <1>1 DEF TypeOK
<1>3. OlderKeepsClaim'
  BY <1>1 DEF OlderKeepsClaim, Exists
<1>4. InOrder'
  BY <1>1 DEF InOrder, Older, Exists, Known
<1>5. \A s \in Sandboxes : sb[s].created \in Nat
  BY ZenonT(60) DEF TypeOK, Sandbox
<1>6. ASSUME NEW s \in Sandboxes, Exists(s)'
      PROVE  /\ sb'[s].created <= now'
             /\ Faithful(s, sb[s])'
             /\ Known(s)' \/ Awaited(s)'
  <2>1. /\ sb[s].created <= now /\ now \in Nat /\ sb[s].created \in Nat
        /\ Faithful(s, sb[s])
        /\ Known(s) \/ Awaited(s)
    BY <1>1, <1>5, <1>6, Zenon DEF History, Exists, TypeOK
  <2>2. sb'[s].created <= now'
    BY <1>1, <2>1
  <2>3. Faithful(s, sb[s])'
    BY <1>1, <2>1, ZenonT(60) DEF Faithful, Exists
  <2>. QED  BY <1>1, <2>1, <2>2, <2>3, ZenonT(60) DEF Known, Awaited
<1>7. /\ \A s \in Sandboxes : Known(s)' => Faithful(s, cache[s])'
      /\ \A i \in 1..Len(watch') : /\ watch'[i].obj.life # "absent"
                                   /\ Faithful(watch[i].uid, watch[i].obj)'
      /\ \A s \in Sandboxes : pod'[s] # "none" => Exists(s)'
  BY <1>1 DEF History, Known, Faithful, Exists
<1>. QED  BY <1>2, <1>3, <1>4, <1>6, <1>7 DEF History

\* A restarted operator reads everything as it is stored.
LEMMA RestartSafe ==
    ASSUME IInv, Restart
    PROVE  IInv'
<1>. USE DEF IInv
<1>1. /\ UNCHANGED <<now, owner, sb, pod, claim, idle, yielded>>
      /\ cache' = sb /\ watch' = <<>> /\ podCache' = pod
      /\ queue' \in SUBSET Sandboxes /\ events' = events + 1
  BY DEF Restart, Event
<1>2. TypeOK'
  BY <1>1 DEF TypeOK
<1>3. OlderKeepsClaim'
  BY <1>1 DEF OlderKeepsClaim, Exists
<1>4. Len(watch') = 0 /\ \A s \in Sandboxes : Known(s)' <=> Exists(s)
  BY <1>1, Zenon DEF Known, Exists
<1>5. \A s \in Sandboxes : /\ Exists(s)' <=> Exists(s)
                           /\ Faithful(s, sb[s])' <=> Faithful(s, sb[s])
                           /\ Faithful(s, cache[s])' <=> Faithful(s, sb[s])
  BY <1>1, ZenonT(60) DEF Faithful, Exists
<1>6. ASSUME NEW s \in Sandboxes, NEW o \in Sandboxes, Older(o, s)'
      PROVE  Known(o)'
  BY <1>4, <1>5, <1>6, ZenonT(60) DEF Older
<1>7. InOrder'
  BY <1>4, <1>6, ZenonT(60) DEF InOrder
<1>8. History'
  <2>1. \A i \in 1..Len(watch') : FALSE
    BY <1>4
  <2> QED
    BY <1>1, <1>4, <1>5, <2>1, Zenon DEF History
<1>. QED  BY <1>2, <1>3, <1>7, <1>8

\* What a delivery leaves in the watch.
LEMMA DeliverShifts ==
    ASSUME TypeOK, watch # <<>>, watch' = Tail(watch)
    PROVE  /\ Len(watch) \in Nat \ {0} /\ Len(watch') = Len(watch) - 1
           /\ \A i \in 1..Len(watch') : watch'[i] = watch[i + 1]
           /\ Head(watch) = watch[1]
           /\ watch[1] \in [uid : Sandboxes, obj : Sandbox]
           /\ watch' \in Seq([uid : Sandboxes, obj : Sandbox])
<1>. DEFINE V == [uid : Sandboxes, obj : Sandbox]
<1>1. watch \in Seq(V)
  BY DEF TypeOK
<1>. HIDE DEF V
<1>2. /\ Len(watch) \in Nat \ {0} /\ Len(watch') = Len(watch) - 1
      /\ \A i \in 1..Len(watch') : watch'[i] = watch[i + 1]
      /\ Head(watch) = watch[1] /\ watch[1] \in V
      /\ watch' \in Seq(V)
  BY <1>1
<1>. QED  BY <1>2 DEF V

\* The cache moves on to the next version of one sandbox.
LEMMA DeliverSafe ==
    ASSUME IInv, Deliver
    PROVE  IInv'
<1>. USE DEF IInv
<1>0. /\ UNCHANGED <<now, owner, sb, pod, podCache, claim, idle, yielded, events>>
      /\ watch # <<>> /\ watch' = Tail(watch)
  BY DEF Deliver
<1>1. /\ Len(watch) \in Nat \ {0} /\ Len(watch') = Len(watch) - 1
      /\ \A i \in 1..Len(watch') : watch'[i] = watch[i + 1]
      /\ Head(watch) = watch[1]
      /\ watch[1].uid \in Sandboxes /\ watch[1].obj \in Sandbox
      /\ watch' \in Seq([uid : Sandboxes, obj : Sandbox])
  BY <1>0, DeliverShifts, ZenonT(60)
<1>2. /\ cache' = [cache EXCEPT ![watch[1].uid] = watch[1].obj]
      /\ queue' = queue \cup {watch[1].uid}
  BY <1>1, ZenonT(60) DEF Deliver
<1>3. watch[1].obj.life # "absent" /\ Faithful(watch[1].uid, watch[1].obj)
  BY <1>1 DEF History
<1>4. TypeOK'
  <2>1. cache' \in [Sandboxes -> Sandbox]
    BY <1>1, <1>2 DEF TypeOK
  <2>2. queue' \in SUBSET Sandboxes
    BY <1>1, <1>2 DEF TypeOK
  <2>. QED  BY <1>0, <1>1, <2>1, <2>2 DEF TypeOK
<1>5. OlderKeepsClaim'
  BY <1>0 DEF OlderKeepsClaim, Exists
<1>6. /\ cache'[watch[1].uid] = watch[1].obj
      /\ \A t \in Sandboxes \ {watch[1].uid} : cache'[t] = cache[t]
  BY <1>1, <1>2 DEF TypeOK
<1>7. \A t \in Sandboxes : Known(t)' <=> Known(t) \/ t = watch[1].uid
  BY <1>3, <1>6 DEF Known
<1>8. \A t \in Sandboxes : Exists(t)' <=> Exists(t)
  BY <1>0 DEF Exists
<1>9. ASSUME NEW t \in Sandboxes, Awaited(t)
      PROVE  Known(t)' \/ Awaited(t)'
  <2>1. PICK i \in 1..Len(watch) : watch[i].uid = t
    BY <1>9 DEF Awaited
  <2>2. CASE i = 1
    BY <1>7, <2>1, <2>2
  <2>3. CASE i # 1
    <3>1. i - 1 \in 1..Len(watch') /\ watch'[i - 1] = watch[(i - 1) + 1]
      BY <1>1, <2>3
    <3>2. watch'[i - 1].uid = t
      BY <2>1, <3>1
    <3>. QED  BY <3>1, <3>2 DEF Awaited
  <2>. QED  BY <2>2, <2>3
<1>10. History'
  <2>1. ASSUME NEW t \in Sandboxes, Exists(t)'
        PROVE  /\ sb'[t].created <= now'
               /\ Faithful(t, sb[t])'
               /\ Known(t)' \/ Awaited(t)'
    <3>1. /\ sb[t].created <= now /\ Faithful(t, sb[t])
          /\ Known(t) \/ Awaited(t)
      BY <1>8, <2>1, ZenonT(60) DEF History
    <3>2. Faithful(t, sb[t])'
      BY <1>0, <3>1, Zenon DEF Faithful, Exists
    <3>. QED  BY <1>0, <1>7, <1>9, <3>1, <3>2, Zenon
  <2>2. ASSUME NEW t \in Sandboxes, Known(t)'  PROVE  Faithful(t, cache[t])'
    <3>1. CASE t = watch[1].uid
      BY <1>0, <1>3, <1>6, <3>1, ZenonT(60) DEF Faithful, Exists
    <3>2. CASE t # watch[1].uid
      <4>1. Known(t) /\ cache'[t] = cache[t]
        BY <1>6, <1>7, <2>2, <3>2, ZenonT(60)
      <4>2. Faithful(t, cache[t])
        BY <4>1, Zenon DEF History
      <4>. QED  BY <1>0, <4>1, <4>2, Zenon DEF Faithful, Exists
    <3>. QED  BY <3>1, <3>2, ZenonT(60)
  <2>3. ASSUME NEW i \in 1..Len(watch')
        PROVE  /\ watch'[i].obj.life # "absent"
               /\ Faithful(watch[i].uid, watch[i].obj)'
    <3>1. i + 1 \in 1..Len(watch) /\ watch'[i] = watch[i + 1]
      BY <1>1
    <3>2. /\ watch[i + 1].obj.life # "absent"
          /\ Faithful(watch[i + 1].uid, watch[i + 1].obj)
      BY <3>1, Zenon DEF History
    <3>. QED  BY <1>0, <3>1, <3>2, Zenon DEF Faithful, Exists
  <2>4. \A t \in Sandboxes : pod'[t] # "none" => Exists(t)'
    BY <1>0, <1>8, Zenon DEF History
  <2>. QED  BY <2>1, <2>2, <2>3, <2>4, ZenonT(60) DEF History
<1>11. InOrder'
  <2>. SUFFICES ASSUME NEW s \in Sandboxes, NEW o \in Sandboxes, Older(o, s)
                PROVE  /\ Known(s)' => Known(o)'
                       /\ \A i \in 1..Len(watch') : watch'[i].uid = s =>
                             \/ Known(o)'
                             \/ \E j \in 1..(i - 1) : watch'[j].uid = o
    BY <1>0, <1>8, Zenon DEF InOrder, Older
  <2>1. /\ Known(s) => Known(o)
        /\ \A i \in 1..Len(watch) : watch[i].uid = s =>
              Known(o) \/ \E j \in 1..(i - 1) : watch[j].uid = o
    BY DEF InOrder
  <2>2. Known(s)' => Known(o)'
    <3>1. CASE s = watch[1].uid
      BY <1>1, <1>7, <2>1, <3>1
    <3>. QED  BY <1>7, <2>1, <3>1
  <2>3. ASSUME NEW i \in 1..Len(watch'), watch'[i].uid = s, ~Known(o)'
        PROVE  \E j \in 1..(i - 1) : watch'[j].uid = o
    <3>1. i + 1 \in 1..Len(watch) /\ watch[i + 1].uid = s
      BY <1>1, <2>3
    <3>2. ~Known(o) /\ o # watch[1].uid
      BY <1>7, <2>3, Zenon
    <3>3. PICK j \in 1..((i + 1) - 1) : watch[j].uid = o
      BY <2>1, <3>1, <3>2, Zenon
    <3>4. j - 1 \in 1..(i - 1) /\ j - 1 \in 1..Len(watch')
      BY <1>1, <3>2, <3>3
    <3>5. watch'[j - 1] = watch[(j - 1) + 1]
      BY <1>1, <3>4, Zenon
    <3>. QED  BY <3>3, <3>4, <3>5
  <2>. QED  BY <2>2, <2>3, ZenonT(60)
<1>. QED  BY <1>4, <1>5, <1>10, <1>11, Zenon

-----------------------------------------------------------------------------

\* A step that changes nothing.
LEMMA StutterSafe == ASSUME IInv, UNCHANGED vars  PROVE  IInv'
<1>1. Kept /\ UNCHANGED <<now, cache, owner, pod, podCache, claim, idle, queue, events>>
  BY DEF vars, Kept, objects
<1>. QED  BY <1>1, KeptSafe, Zenon DEF IInv, TypeOK

\* The inductive invariant holds of every behaviour of the tie-break.
THEOREM InductiveInvariant == Spec => []IInv
<1>1. Init => IInv
  BY InitIInv, Zenon
<1>2. IInv /\ [Next]_vars => IInv'
  BY UserSafe, PodSafe, HeldSafe, RunSafe, FinalizeSafe, QuietSafe,
     NextSecondSafe, RestartSafe, DeliverSafe, StutterSafe, ZenonT(60)
  DEF Next, Reconcile
<1>. QED  BY <1>1, <1>2, PTL DEF Spec

\* Every state of the module is well typed.
THEOREM TypeCorrect == Spec => []TypeOK
<1>1. IInv => TypeOK
  BY DEF IInv
<1>. QED  BY <1>1, InductiveInvariant, PTL

(***************************************************************************)
(* For any number of sandboxes, creations, edits, restarts and failures,   *)
(* the reconciler creates the pod of a sandbox with an existing claim only *)
(* after every older sandbox on that claim has released it.                *)
(***************************************************************************)
THEOREM OlderKeepsClaimSafe == Spec => []OlderKeepsClaim
<1>1. IInv => OlderKeepsClaim
  BY DEF IInv
<1>. QED  BY <1>1, InductiveInvariant, PTL

-----------------------------------------------------------------------------
(***************************************************************************)
(* No sandbox is forgotten.  A pass that nothing follows stored nothing,   *)
(* so what it saw of its own sandbox is what is stored (LastVersion), and  *)
(* the pod it saw is the pod there is (PodInStep): a pod does not come     *)
(* and go behind the cache's back.                                         *)
(***************************************************************************)

\* The last version the watch holds of a sandbox is the stored one.
IsLast(i, s) ==
    /\ watch[i].uid = s
    /\ \A j \in (i + 1)..Len(watch) : watch[j].uid # s

LastVersion ==
    \A s \in Sandboxes :
        /\ ~Outdated(s) => cache[s] = sb[s]
        /\ \A i \in 1..Len(watch) : IsLast(i, s) => watch[i].obj = sb[s]

\* The pod that is seen, and the deletion or finalizer still to be seen to.
PodInStep(s) ==
    /\ podCache[s] # "none" => Exists(s)
    /\ Live(sb[s]) => /\ podCache[s] = "none" => pod[s] # "terminating"
                      /\ podCache[s] = "terminating" => pod[s] # "up"

Finished(s) ==
    Exists(s) /\ s \notin queue /\ ~Outdated(s) => sb[s].life \in {"live", "gone"}

NotForgotten(s) ==
    Live(sb[s]) /\ Calm(s) => Served(s) \/ (sb[s].phase = "Missing" /\ s # owner)

Retried(s) ==
    Live(sb[s]) /\ sb[s].phase = "InUse" => s \in queue \/ Outdated(s)

Tended(s) == PodInStep(s) /\ Finished(s) /\ NotForgotten(s) /\ Retried(s)

JInv == LastVersion /\ \A s \in Sandboxes : Tended(s)

\* A sandbox that is stored is outdated in the cache; no other one becomes so.
LEMMA StoreOutdates ==
    ASSUME TypeOK, NEW s \in Sandboxes, NEW obj \in Sandbox, Store(s, obj)
    PROVE  /\ Outdated(s)'
           /\ \A t \in Sandboxes \ {s} : Outdated(t)' <=> Outdated(t)
<1>1. /\ Len(watch') = Len(watch) + 1
      /\ \A i \in 1..Len(watch) : watch'[i] = watch[i]
      /\ watch'[Len(watch) + 1] = [uid |-> s, obj |-> obj]
      /\ Len(watch) \in Nat
  BY StoreAppends, Zenon
<1>2. Outdated(s)'
  BY <1>1 DEF Outdated
<1>3. ASSUME NEW t \in Sandboxes \ {s} PROVE Outdated(t)' <=> Outdated(t)
  <2>1. ASSUME Outdated(t) PROVE Outdated(t)'
    BY <1>1, <2>1 DEF Outdated
  <2>2. ASSUME Outdated(t)' PROVE Outdated(t)
    <3>1. PICK i \in 1..Len(watch') : watch'[i].uid = t
      BY <2>2, Zenon DEF Outdated
    <3>2. i # Len(watch) + 1
      BY <1>1, <1>3, <3>1
    <3>3. i \in 1..Len(watch) /\ watch[i].uid = t
      BY <1>1, <3>1, <3>2
    <3> QED
      BY <3>3 DEF Outdated
  <2> QED
    BY <2>1, <2>2, Zenon
<1> QED
  BY <1>2, <1>3, Zenon

\* It becomes the last version.
LEMMA StoreLast ==
    ASSUME TypeOK, LastVersion, NEW s \in Sandboxes, NEW obj \in Sandbox,
           Store(s, obj), cache' = cache
    PROVE  LastVersion'
<1>1. /\ Len(watch') = Len(watch) + 1
      /\ \A i \in 1..Len(watch) : watch'[i] = watch[i]
      /\ watch'[Len(watch) + 1] = [uid |-> s, obj |-> obj]
      /\ Len(watch) \in Nat
  BY StoreAppends, Zenon
<1>2. sb'[s] = obj /\ \A t \in Sandboxes \ {s} : sb'[t] = sb[t]
  BY StoreSandboxes, Zenon
<1> SUFFICES ASSUME NEW t \in Sandboxes
             PROVE  /\ ~Outdated(t)' => cache[t] = sb'[t]
                    /\ \A i \in 1..Len(watch') :
                          IsLast(i, t)' => watch'[i].obj = sb'[t]
  BY Zenon DEF LastVersion
<1>3. ~Outdated(t)' => cache[t] = sb'[t]
  BY <1>2, StoreOutdates, Zenon DEF LastVersion
<1>4. ASSUME NEW i \in 1..Len(watch'), IsLast(i, t)'
      PROVE  watch'[i].obj = sb'[t]
  <2>1. CASE i = Len(watch) + 1
    BY <1>1, <1>2, <1>4, <2>1 DEF IsLast
  <2>2. CASE i # Len(watch) + 1
    <3>1. i \in 1..Len(watch) /\ watch'[i] = watch[i]
      BY <1>1, <2>2
    <3>2. Len(watch) + 1 \in (i + 1)..Len(watch')
      BY <1>1, <3>1
    <3>3. watch'[Len(watch) + 1].uid # t
      BY <1>4, <3>2, Zenon DEF IsLast
    <3>4. t # s
      BY <1>1, <3>3
    <3>5. ASSUME NEW j \in (i + 1)..Len(watch) PROVE watch[j].uid # t
      <4>1. j \in (i + 1)..Len(watch') /\ j \in 1..Len(watch)
        BY <1>1, <3>1
      <4> QED
        BY <1>1, <1>4, <4>1, Zenon DEF IsLast
    <3>6. IsLast(i, t)
      BY <1>4, <3>1, <3>5, Zenon DEF IsLast
    <3> QED
      BY <1>2, <3>1, <3>4, <3>6, Zenon DEF LastVersion
  <2> QED
    BY <2>1, <2>2, Zenon
<1> QED
  BY <1>3, <1>4, Zenon

\* A delivery takes the first version out and queues its sandbox.
LEMMA DeliverLast ==
    ASSUME TypeOK, LastVersion, Deliver
    PROVE  /\ LastVersion'
           /\ \A t \in Sandboxes :
                 \/ t \in queue'
                 \/ /\ Outdated(t)' <=> Outdated(t)
                    /\ t \in queue' <=> t \in queue
<1>0. watch # <<>> /\ watch' = Tail(watch) /\ sb' = sb
  BY Zenon DEF Deliver
<1>1. /\ Len(watch) \in Nat \ {0} /\ Len(watch') = Len(watch) - 1
      /\ \A i \in 1..Len(watch') : watch'[i] = watch[i + 1]
      /\ Head(watch) = watch[1]
      /\ watch[1].uid \in Sandboxes /\ watch[1].obj \in Sandbox
  BY <1>0, DeliverShifts
<1>2. /\ cache' = [cache EXCEPT ![watch[1].uid] = watch[1].obj]
      /\ queue' = queue \cup {watch[1].uid}
  BY <1>1, Zenon DEF Deliver
<1>3. /\ cache'[watch[1].uid] = watch[1].obj
      /\ \A t \in Sandboxes \ {watch[1].uid} : cache'[t] = cache[t]
  BY <1>1, <1>2, Zenon DEF TypeOK
<1>4. ASSUME NEW t \in Sandboxes
      PROVE  /\ Outdated(t)' => Outdated(t)
             /\ Outdated(t) /\ ~Outdated(t)' =>
                   watch[1].uid = t /\ IsLast(1, t)
  <2>1. ASSUME Outdated(t)' PROVE Outdated(t)
    <3>1. PICK i \in 1..Len(watch') : watch'[i].uid = t
      BY <2>1, Zenon DEF Outdated
    <3>2. i + 1 \in 1..Len(watch) /\ watch[i + 1].uid = t
      BY <1>1, <3>1
    <3> QED
      BY <3>2 DEF Outdated
  <2>2. ASSUME Outdated(t), ~Outdated(t)'
        PROVE  watch[1].uid = t /\ IsLast(1, t)
    <3>1. ASSUME NEW j \in 2..Len(watch) PROVE watch[j].uid # t
      <4>1. j - 1 \in 1..Len(watch') /\ watch'[j - 1] = watch[(j - 1) + 1]
        BY <1>1
      <4>2. watch'[j - 1] = watch[j]
        BY <4>1
      <4> QED
        BY <2>2, <4>1, <4>2, Zenon DEF Outdated
    <3>2. PICK i \in 1..Len(watch) : watch[i].uid = t
      BY <2>2, Zenon DEF Outdated
    <3>3. i = 1
      BY <1>1, <3>1, <3>2
    <3> QED
      BY <3>1, <3>2, <3>3 DEF IsLast
  <2> QED
    BY <2>1, <2>2, Zenon
<1>5. ASSUME NEW t \in Sandboxes, ~Outdated(t)' PROVE cache'[t] = sb'[t]
  <2>1. CASE Outdated(t)
    <3>1. 1 \in 1..Len(watch)
      BY <1>1
    <3> QED
      BY <1>0, <1>3, <1>4, <1>5, <2>1, <3>1, ZenonT(60) DEF LastVersion
  <2>2. CASE ~Outdated(t)
    <3>1. watch[1].uid # t
      BY <1>1, <2>2 DEF Outdated
    <3> QED
      BY <1>0, <1>3, <2>2, <3>1, Zenon DEF LastVersion
  <2> QED
    BY <2>1, <2>2, Zenon
<1>6. ASSUME NEW t \in Sandboxes, NEW i \in 1..Len(watch'), IsLast(i, t)'
      PROVE  watch'[i].obj = sb'[t]
  <2>1. i + 1 \in 1..Len(watch) /\ watch'[i] = watch[i + 1]
    BY <1>1
  <2>2. ASSUME NEW j \in ((i + 1) + 1)..Len(watch) PROVE watch[j].uid # t
    <3>1. /\ j - 1 \in (i + 1)..Len(watch') /\ j - 1 \in 1..Len(watch')
          /\ watch'[j - 1] = watch[(j - 1) + 1]
      BY <1>1, <2>1
    <3>2. watch'[j - 1] = watch[j]
      BY <3>1
    <3> QED
      BY <1>6, <3>1, <3>2, Zenon DEF IsLast
  <2>3. IsLast(i + 1, t)
    BY <1>6, <2>1, <2>2, Zenon DEF IsLast
  <2> QED
    BY <1>0, <2>1, <2>3, Zenon DEF LastVersion
<1>7. LastVersion'
  BY <1>5, <1>6, Zenon DEF LastVersion
<1>8. ASSUME NEW t \in Sandboxes, t \notin queue'
      PROVE  /\ Outdated(t)' <=> Outdated(t)
             /\ t \in queue' <=> t \in queue
  BY <1>2, <1>4, <1>8, Zenon
<1> QED
  BY <1>7, <1>8, Zenon

\* A step that does not touch sandbox s.
Untouched(s) ==
    /\ sb'[s] = sb[s] /\ pod'[s] = pod[s] /\ podCache'[s] = podCache[s]
    /\ s \in queue' <=> s \in queue
    /\ s \in idle' <=> s \in idle
    /\ Outdated(s)' <=> Outdated(s)
    /\ owner' = owner

LEMMA UntouchedTended ==
    ASSUME NEW s \in Sandboxes, Tended(s), Untouched(s)
    PROVE  Tended(s)'
<1>1. PodInStep(s)' /\ Finished(s)' /\ NotForgotten(s)'
  BY Zenon
     DEF Tended, Untouched, PodInStep, Finished, NotForgotten, Calm, Served, Exists,
         Live
<1>2. Retried(s)'
  BY Zenon DEF Tended, Untouched, Retried, Live
<1> QED
  BY <1>1, <1>2, Zenon DEF Tended

\* A sandbox that will be looked at again has only its pods to be kept in step.
LEMMA DueTended ==
    ASSUME NEW s \in Sandboxes, s \in queue' \/ Outdated(s)', PodInStep(s)'
    PROVE  Tended(s)'
BY Zenon DEF Tended, Finished, NotForgotten, Calm, Retried

\* The invariant, put together from the single sandboxes.
LEMMA AllTended ==
    ASSUME LastVersion', \A t \in Sandboxes : Tended(t)'
    PROVE  JInv'
BY Zenon DEF JInv

\* The pods stay as they are and the sandbox does not come back to life.
LEMMA PodsStay ==
    ASSUME NEW s \in Sandboxes, PodInStep(s),
           pod'[s] = pod[s], podCache'[s] = podCache[s],
           Live(sb'[s]) => Live(sb[s]), Exists(s) => Exists(s)'
    PROVE  PodInStep(s)'
BY Zenon DEF PodInStep

\* Steps that store nothing and deliver nothing.
LEMMA SameVersions ==
    ASSUME LastVersion, sb' = sb, watch' = watch, cache' = cache
    PROVE  LastVersion' /\ \A t \in Sandboxes : Outdated(t)' <=> Outdated(t)
BY ZenonT(60) DEF LastVersion, IsLast, Outdated

\* A user stores a sandbox, or its idleness changes: it will be looked at.
LEMMA UserTended ==
    ASSUME IInv, JInv, NEW s \in Sandboxes,
           Create(s) \/ SetDesired(s) \/ Delete(s) \/ Idleness(s)
    PROVE  JInv'
<1>0. /\ sb[s] \in Sandbox /\ now \in Nat /\ TypeOK /\ History
      /\ LastVersion /\ \A t \in Sandboxes : Tended(t)
  BY DEF IInv, TypeOK, JInv
<1>1. /\ UNCHANGED <<owner, pod>> /\ cache' = cache /\ podCache' = podCache
  BY Zenon DEF Create, SetDesired, Delete, Idleness, caches
<1>2. ASSUME NEW obj \in Sandbox, Store(s, obj), UNCHANGED <<queue, idle>>,
             obj.life # "absent", Exists(s) /\ Live(obj) => Live(sb[s])
      PROVE  JInv'
  <2>1. /\ LastVersion' /\ Outdated(s)'
        /\ \A t \in Sandboxes \ {s} : Outdated(t)' <=> Outdated(t)
    BY <1>0, <1>1, <1>2, StoreLast, StoreOutdates, Zenon
  <2>2. /\ sb'[s] = obj /\ \A t \in Sandboxes \ {s} : sb'[t] = sb[t]
    BY <1>0, <1>2, StoreSandboxes, Zenon
  <2>3. \A t \in Sandboxes \ {s} : Tended(t)'
    BY <1>0, <1>1, <1>2, <2>1, <2>2, UntouchedTended, ZenonT(60) DEF Untouched
  <2>4. PodInStep(s)'
    <3>1. CASE Exists(s)
      BY <1>0, <1>1, <1>2, <2>2, <3>1, PodsStay, ZenonT(60) DEF Exists, Tended
    <3>2. CASE ~Exists(s)
      <4>1. pod[s] = "none" /\ podCache[s] = "none"
        BY <1>0, <3>2, Zenon DEF History, Tended, PodInStep
      <4> QED
        BY <1>1, <4>1, Zenon DEF PodInStep
    <3> QED
      BY <3>1, <3>2, Zenon
  <2> QED
    BY <2>1, <2>3, <2>4, DueTended, AllTended, Zenon
<1>3. CASE Create(s)
  <2>1. [Absent EXCEPT !.life = "new", !.created = now] \in Sandbox
    BY <1>0 DEF Absent, Sandbox
  <2>2. ~Exists(s) /\ [Absent EXCEPT !.life = "new", !.created = now].life = "new"
    BY <1>3 DEF Create, Absent
  <2> QED
    BY <1>2, <1>3, <2>1, <2>2, Zenon DEF Create
<1>4. CASE SetDesired(s)
  <2>1. PICK d \in {"Running", "Stopped"} \ {sb[s].desired} :
           Store(s, [sb[s] EXCEPT !.desired = d])
    BY <1>4 DEF SetDesired
  <2>2. /\ [sb[s] EXCEPT !.desired = d] \in Sandbox
        /\ [sb[s] EXCEPT !.desired = d].life = sb[s].life
    BY <1>0 DEF Sandbox
  <2>3. Live(sb[s]) /\ UNCHANGED <<queue, idle>>
    BY <1>4 DEF SetDesired
  <2> QED
    BY <1>2, <2>1, <2>2, <2>3, Zenon DEF Live
<1>5. CASE Delete(s)
  <2>1. PICK life \in {"gone", "deleting"} : Store(s, [sb[s] EXCEPT !.life = life])
    <3>1. CASE sb[s].life = "new"
      BY <1>5, <3>1 DEF Delete
    <3>2. CASE sb[s].life # "new"
      BY <1>5, <3>2 DEF Delete
    <3> QED
      BY <3>1, <3>2
  <2>2. /\ [sb[s] EXCEPT !.life = life] \in Sandbox
        /\ [sb[s] EXCEPT !.life = life].life = life
    BY <1>0 DEF Sandbox
  <2>3. UNCHANGED <<queue, idle>>
    BY <1>5 DEF Delete
  <2> QED
    BY <1>2, <2>1, <2>2, <2>3, ZenonT(60) DEF Live
<1>6. CASE Idleness(s)
  <2>1. /\ sb' = sb /\ watch' = watch /\ queue' = queue \cup {s}
        /\ \A t \in Sandboxes \ {s} : t \in idle' <=> t \in idle
    BY <1>6 DEF Idleness, objects
  <2>2. LastVersion' /\ \A t \in Sandboxes : Outdated(t)' <=> Outdated(t)
    BY <1>0, <1>1, <2>1, SameVersions, ZenonT(60)
  <2>3. \A t \in Sandboxes \ {s} : Tended(t)'
    BY <1>0, <1>1, <2>1, <2>2, UntouchedTended, ZenonT(60) DEF Untouched
  <2>4. PodInStep(s)'
    BY <1>0, <1>1, <2>1, PodsStay, ZenonT(60) DEF Exists, Tended
  <2> QED
    BY <2>1, <2>2, <2>3, <2>4, DueTended, AllTended
<1> QED
  BY <1>3, <1>4, <1>5, <1>6, Zenon

\* The kubelet and the watch of pods.
LEMMA PodTended ==
    ASSUME IInv, JInv, NEW s \in Sandboxes, PodGone(s) \/ SyncPod(s)
    PROVE  JInv'
<1>0. /\ pod \in [Sandboxes -> Pods] /\ podCache \in [Sandboxes -> Pods]
      /\ History /\ LastVersion /\ \A t \in Sandboxes : Tended(t)
  BY Zenon DEF IInv, TypeOK, JInv
<1>1. UNCHANGED <<owner, idle>> /\ sb' = sb /\ watch' = watch /\ cache' = cache
  BY ZenonT(60) DEF PodGone, SyncPod, objects, caches
<1>2. LastVersion' /\ \A t \in Sandboxes : Outdated(t)' <=> Outdated(t)
  BY <1>0, <1>1, SameVersions, Zenon
<1>3. \A t \in Sandboxes \ {s} :
         /\ pod'[t] = pod[t] /\ podCache'[t] = podCache[t]
         /\ t \in queue' <=> t \in queue
  BY <1>0, Zenon DEF PodGone, SyncPod, caches
<1>4. \A t \in Sandboxes \ {s} : Tended(t)'
  BY <1>0, <1>1, <1>2, <1>3, UntouchedTended, ZenonT(60) DEF Untouched
<1>5. CASE PodGone(s)
  <2>1. /\ pod[s] = "terminating" /\ pod'[s] = "none" /\ podCache'[s] = podCache[s]
        /\ queue' = queue
    BY <1>0, <1>5, Zenon DEF PodGone, caches
  <2>2. PodInStep(s)'
    BY <1>0, <1>1, <2>1, ZenonT(60) DEF Tended, PodInStep, Exists
  <2>3. Finished(s)'
    BY <1>0, <1>1, <1>2, <2>1, ZenonT(60) DEF Tended, Finished, Exists
  <2>4. NotForgotten(s)'
    BY <1>0, <1>1, <2>1, ZenonT(60) DEF Tended, PodInStep, NotForgotten, Calm
  <2>5. Retried(s)'
    BY <1>0, <1>1, <1>2, <2>1, ZenonT(60) DEF Tended, Retried
  <2> QED
    BY <1>2, <1>4, <2>2, <2>3, <2>4, <2>5, AllTended, ZenonT(60) DEF Tended
<1>6. CASE SyncPod(s)
  <2>1. pod'[s] = pod[s] /\ podCache'[s] = pod[s] /\ s \in queue'
    BY <1>0, <1>6, Zenon DEF SyncPod
  <2>2. PodInStep(s)'
    BY <1>0, <1>1, <2>1, ZenonT(60) DEF History, PodInStep, Exists
  <2> QED
    BY <1>2, <1>4, <2>1, <2>2, DueTended, AllTended, ZenonT(60)
<1> QED
  BY <1>5, <1>6, Zenon

(***************************************************************************)
(* What a pass leaves behind: s is queued, or a version of it is to be     *)
(* delivered, or the pass saw s as it is stored and left it at that.       *)
(***************************************************************************)
LEMMA PatchLeaves ==
    ASSUME IInv, LastVersion, NEW s \in Sandboxes, Pass(s),
           NEW phase \in {"", "InUse", "Missing", "Up", "Suspending", "Suspended"},
           NEW requeue \in BOOLEAN, PatchStatus(s, phase, requeue), cache' = cache
    PROVE  /\ LastVersion'
           /\ \A t \in Sandboxes \ {s} : /\ sb'[t] = sb[t]
                                         /\ t \in queue' <=> t \in queue
                                         /\ Outdated(t)' <=> Outdated(t)
           /\ Exists(s) /\ Exists(s)' /\ (Live(sb'[s]) => Live(sb[s]))
           /\ \/ s \in queue' \/ Outdated(s)'
              \/ /\ ~requeue /\ sb' = sb /\ cache[s] = sb[s]
                 /\ sb[s].life = "live" /\ sb[s].phase = phase
<1>. DEFINE obj  == [cache[s] EXCEPT !.life = "live", !.phase = phase]
            live == [cache[s] EXCEPT !.life = "live"]
<1>0. TypeOK /\ cache[s] \in Sandbox /\ s \in queue /\ Live(cache[s])
  BY Zenon DEF IInv, TypeOK, Pass
<1>1. Known(s)
  BY <1>0, ZenonT(60) DEF Live, Known
<1>2. obj \in Sandbox /\ live \in Sandbox /\ Exists(s)
  BY <1>1, PassStores, Zenon
<1>3. obj.life = "live" /\ obj.phase = phase /\ live.life = "live"
  BY <1>0 DEF Sandbox
<1>4. ~Outdated(s) => cache[s] = sb[s]
  BY ZenonT(60) DEF LastVersion
<1>5. ASSUME NEW o \in {obj, live}, Store(s, o), ~Outdated(s)
      PROVE  /\ LastVersion' /\ Outdated(s)'
             /\ \A t \in Sandboxes \ {s} : /\ sb'[t] = sb[t]
                                           /\ Outdated(t)' <=> Outdated(t)
             /\ Exists(s)' /\ (Live(sb'[s]) => Live(sb[s]))
  <2>1. o \in Sandbox /\ o.life = "live"
    BY <1>2, <1>3, Zenon
  <2>2. LastVersion' /\ Outdated(s)'
    BY <1>0, <1>5, <2>1, StoreLast, StoreOutdates, ZenonT(60)
  <2>3. /\ \A t \in Sandboxes \ {s} : /\ sb'[t] = sb[t]
                                      /\ Outdated(t)' <=> Outdated(t)
        /\ sb'[s] = o
    BY <1>0, <1>5, <2>1, StoreSandboxes, StoreOutdates, ZenonT(60)
  <2> QED
    BY <1>0, <1>4, <1>5, <2>1, <2>2, <2>3, ZenonT(60) DEF Exists
<1>6. ASSUME UNCHANGED objects
      PROVE  /\ LastVersion' /\ (Outdated(s)' <=> Outdated(s))
             /\ sb' = sb /\ Exists(s)'
             /\ \A t \in Sandboxes \ {s} : Outdated(t)' <=> Outdated(t)
  BY <1>2, <1>6, SameVersions DEF objects, Exists
<1>. HIDE DEF obj, live
<1>7. CASE /\ IF obj = cache[s] THEN UNCHANGED objects
              ELSE ~Outdated(s) /\ Store(s, obj)
           /\ queue' = IF requeue THEN queue ELSE queue \ {s}
  <2>1. \A t \in Sandboxes \ {s} : t \in queue' <=> t \in queue
    BY <1>7, ZenonT(60)
  <2>2. CASE obj = cache[s]
    <3>1. requeue => s \in queue'
      BY <1>0, <1>7, ZenonT(60)
    <3> QED
      BY <1>2, <1>3, <1>4, <1>6, <1>7, <2>1, <2>2, <3>1, ZenonT(60)
  <2>3. CASE obj # cache[s]
    BY <1>2, <1>5, <1>7, <2>1, <2>3, ZenonT(60)
  <2> QED
    BY <2>2, <2>3, ZenonT(60)
<1>8. CASE /\ obj # cache[s] /\ Outdated(s)
           /\ queue' = IF sb[s].life = "gone" THEN queue \ {s} ELSE queue
           /\ UNCHANGED objects
  <2>1. \A t \in Sandboxes \ {s} : t \in queue' <=> t \in queue
    BY <1>8, ZenonT(60)
  <2> QED
    BY <1>2, <1>6, <1>8, <2>1, ZenonT(60)
<1>9. CASE /\ IF cache[s].life = "new" THEN Store(s, live) ELSE UNCHANGED objects
           /\ UNCHANGED queue
  <2>1. CASE cache[s].life = "new"
    <3>1. ~Outdated(s)
      BY <2>1, ZenonT(60) DEF Pass
    <3> QED
      BY <1>0, <1>2, <1>5, <1>9, <2>1, <3>1, ZenonT(60)
  <2>2. CASE cache[s].life # "new"
    BY <1>0, <1>2, <1>6, <1>9, <2>2, ZenonT(60)
  <2> QED
    BY <2>1, <2>2, ZenonT(60)
<1> QED
  BY <1>7, <1>8, <1>9, ZenonT(60) DEF PatchStatus, obj, live

\* Held: only for want of the claim is the sandbox not tried again.
LEMMA HeldTended ==
    ASSUME IInv, JInv, NEW s \in Sandboxes, ClaimInUse(s) \/ ClaimMissing(s)
    PROVE  JInv'
<1>0. LastVersion /\ \A t \in Sandboxes : Tended(t)
  BY DEF JInv
<1>1. /\ Pass(s) /\ s # owner /\ UNCHANGED <<owner, pod, idle>>
      /\ cache' = cache /\ podCache' = podCache
  BY Zenon DEF ClaimInUse, ClaimMissing, caches
<1>2. PICK phase \in {"InUse", "Missing"} : PatchStatus(s, phase, phase = "InUse")
  BY Zenon DEF ClaimInUse, ClaimMissing
<1>3. /\ LastVersion'
      /\ \A t \in Sandboxes \ {s} : /\ sb'[t] = sb[t]
                                    /\ t \in queue' <=> t \in queue
                                    /\ Outdated(t)' <=> Outdated(t)
      /\ Exists(s) /\ Exists(s)' /\ (Live(sb'[s]) => Live(sb[s]))
      /\ \/ s \in queue' \/ Outdated(s)'
         \/ /\ ~(phase = "InUse") /\ sb' = sb /\ cache[s] = sb[s]
            /\ sb[s].life = "live" /\ sb[s].phase = phase
  <2>1. /\ phase \in {"", "InUse", "Missing", "Up", "Suspending", "Suspended"}
        /\ (phase = "InUse") \in BOOLEAN
    OBVIOUS
  <2> QED
    BY <1>0, <1>1, <1>2, <2>1, PatchLeaves, ZenonT(60)
<1>4. \A t \in Sandboxes \ {s} : Tended(t)'
  BY <1>0, <1>1, <1>3, UntouchedTended DEF Untouched
<1>5. PodInStep(s)'
  BY <1>0, <1>1, <1>3, PodsStay, ZenonT(60) DEF Tended
<1>6. CASE s \in queue' \/ Outdated(s)'
  BY <1>3, <1>4, <1>5, <1>6, DueTended, AllTended, ZenonT(60)
<1>7. CASE phase # "InUse" /\ sb' = sb /\ sb[s].life = "live" /\ sb[s].phase = phase
  <2>1. sb'[s].phase = "Missing" /\ sb'[s].life = "live"
    BY <1>2, <1>7
  <2>2. Tended(s)'
    BY <1>1, <1>5, <2>1 DEF Tended, Finished, NotForgotten, Retried
  <2> QED
    BY <1>3, <1>4, <2>2, AllTended, Zenon
<1> QED
  BY <1>3, <1>6, <1>7, Zenon

\* Suspended or run: what was seen of the pod was all there is, or it changes.
LEMMA RunTended ==
    ASSUME IInv, JInv, NEW s \in Sandboxes, suspend(s) \/ run(s)
    PROVE  JInv'
<1>0. /\ LastVersion /\ \A t \in Sandboxes : Tended(t)
      /\ pod \in [Sandboxes -> Pods] /\ cache[s] \in Sandbox
  BY DEF JInv, IInv, TypeOK
<1>1. /\ Pass(s) /\ UNCHANGED <<owner, idle>>
      /\ cache' = cache /\ podCache' = podCache
  BY ZenonT(60) DEF suspend, run, caches
<1>2. PICK phase \in {"Suspended", "Suspending", "Up"} :
        /\ PatchStatus(s, phase, FALSE)
        /\ \/ /\ phase = "Suspended" /\ podCache[s] = "none" /\ pod'[s] = pod[s]
              /\ cache[s].desired = "Stopped" \/ s \in idle
           \/ /\ phase = "Suspending" /\ podCache[s] # "none"
              /\ pod'[s] = IF pod[s] = "up" THEN "terminating" ELSE pod[s]
              /\ cache[s].desired = "Stopped" \/ s \in idle
           \/ /\ phase = "Up" /\ cache[s].desired = "Running" /\ s \notin idle
              /\ pod'[s] = IF podCache[s] = "none" /\ pod[s] = "none"
                           THEN "up" ELSE pod[s]
  <2>1. CASE suspend(s) /\ podCache[s] = "none"
    BY <2>1, Zenon DEF suspend
  <2>2. CASE suspend(s) /\ podCache[s] # "none"
    BY <1>0, <2>2, ZenonT(60) DEF suspend
  <2>3. CASE run(s)
    BY <1>0, <2>3, ZenonT(60) DEF run
  <2> QED
    BY <2>1, <2>2, <2>3, ZenonT(60)
<1>3. \A t \in Sandboxes \ {s} : pod'[t] = pod[t]
  BY <1>0, Zenon DEF suspend, run
<1>4. /\ LastVersion'
      /\ \A t \in Sandboxes \ {s} : /\ sb'[t] = sb[t]
                                    /\ t \in queue' <=> t \in queue
                                    /\ Outdated(t)' <=> Outdated(t)
      /\ Exists(s) /\ Exists(s)' /\ (Live(sb'[s]) => Live(sb[s]))
      /\ \/ s \in queue' \/ Outdated(s)'
         \/ /\ ~FALSE /\ sb' = sb /\ cache[s] = sb[s]
            /\ sb[s].life = "live" /\ sb[s].phase = phase
  BY <1>0, <1>1, <1>2, PatchLeaves, ZenonT(60)
<1>5. \A t \in Sandboxes \ {s} : Tended(t)'
  BY <1>0, <1>1, <1>3, <1>4, UntouchedTended DEF Untouched
<1>6. PodInStep(s) /\ pod[s] \in {"none", "up", "terminating"}
  BY <1>0, Zenon DEF Tended, Pods
<1>7. PodInStep(s)'
  <2>1. CASE phase = "Suspended"
    BY <1>1, <1>2, <1>4, <1>6, <2>1, PodsStay, ZenonT(60)
  <2>2. CASE phase = "Suspending"
    BY <1>1, <1>2, <1>4, <1>6, <2>2, ZenonT(60) DEF PodInStep
  <2>3. CASE phase = "Up"
    BY <1>1, <1>2, <1>4, <1>6, <2>3, ZenonT(60) DEF PodInStep
  <2> QED
    BY <2>1, <2>2, <2>3, ZenonT(60)
<1>8. CASE s \in queue' \/ Outdated(s)'
  BY <1>4, <1>5, <1>7, <1>8, DueTended, AllTended, ZenonT(60)
<1>9. CASE /\ sb' = sb /\ cache[s] = sb[s]
           /\ sb[s].life = "live" /\ sb[s].phase = phase
  <2>1. Finished(s)' /\ Retried(s)'
    BY <1>2, <1>9, ZenonT(60) DEF Finished, Retried
  <2>2. ASSUME Calm(s)' PROVE Served(s)'
    <3>1. podCache[s] = pod'[s]
      BY <1>1, <2>2, Zenon DEF Calm
    <3>2. CASE phase = "Suspended"
      BY <1>1, <1>2, <1>9, <3>1, <3>2, ZenonT(60) DEF Served
    <3>3. CASE phase = "Suspending"
      BY <1>1, <1>2, <1>6, <1>9, <3>1, <3>3, ZenonT(60) DEF Served
    <3>4. CASE phase = "Up"
      BY <1>1, <1>2, <1>6, <1>9, <3>1, <3>4, ZenonT(60) DEF Served
    <3> QED
      BY <3>2, <3>3, <3>4, ZenonT(60)
  <2>3. Tended(s)'
    BY <1>7, <2>1, <2>2, ZenonT(60) DEF Tended, NotForgotten
  <2> QED
    BY <1>4, <1>5, <2>1, <2>3, AllTended, ZenonT(60)
<1> QED
  BY <1>4, <1>8, <1>9, ZenonT(60)

\* Finalized, or nothing left to do.
LEMMA GoneTended ==
    ASSUME IInv, JInv, NEW s \in Sandboxes, finalize(s) \/ NotFound(s)
    PROVE  JInv'
<1>0. /\ TypeOK /\ LastVersion /\ \A t \in Sandboxes : Tended(t)
      /\ pod \in [Sandboxes -> Pods] /\ cache[s] \in Sandbox
  BY DEF JInv, IInv, TypeOK
<1>1. /\ UNCHANGED <<owner, idle>> /\ cache' = cache /\ podCache' = podCache
      /\ queue' = queue \ {s}
      /\ \A t \in Sandboxes \ {s} : pod'[t] = pod[t]
  BY <1>0, ZenonT(60) DEF finalize, NotFound, caches
<1>2. CASE finalize(s)
  <2>. DEFINE obj == [cache[s] EXCEPT !.life = "gone"]
  <2>1. obj \in Sandbox /\ obj.life = "gone" /\ Store(s, obj)
    BY <1>0, <1>2, Zenon DEF finalize, Sandbox
  <2>. HIDE DEF obj
  <2>2. /\ LastVersion' /\ Outdated(s)'
        /\ \A t \in Sandboxes \ {s} : Outdated(t)' <=> Outdated(t)
        /\ sb'[s] = obj /\ \A t \in Sandboxes \ {s} : sb'[t] = sb[t]
    BY <1>0, <1>1, <2>1, StoreLast, StoreOutdates, StoreSandboxes, ZenonT(60)
  <2>3. \A t \in Sandboxes \ {s} : Tended(t)'
    BY <1>0, <1>1, <2>2, UntouchedTended, ZenonT(60) DEF Untouched
  <2>4. PodInStep(s)'
    BY <2>1, <2>2, Zenon DEF PodInStep, Exists, Live
  <2> QED
    BY <2>2, <2>3, <2>4, DueTended, AllTended, ZenonT(60)
<1>3. CASE NotFound(s)
  <2>1. /\ sb' = sb /\ watch' = watch /\ pod' = pod
        /\ cache[s].life \in {"absent", "gone"}
    BY <1>3, ZenonT(60) DEF NotFound, objects
  <2>2. LastVersion' /\ \A t \in Sandboxes : Outdated(t)' <=> Outdated(t)
    BY <1>0, <1>1, <2>1, SameVersions, Zenon
  <2>3. \A t \in Sandboxes \ {s} : Tended(t)'
    BY <1>0, <1>1, <2>1, <2>2, UntouchedTended, ZenonT(60) DEF Untouched
  <2>4. PodInStep(s)'
    BY <1>0, <1>1, <2>1, PodsStay, ZenonT(60) DEF Tended, Exists
  <2>5. CASE Outdated(s)'
    BY <2>2, <2>3, <2>4, <2>5, DueTended, AllTended, ZenonT(60)
  <2>6. CASE ~Outdated(s)'
    <3>1. sb'[s].life \in {"absent", "gone"}
      BY <1>0, <2>1, <2>2, <2>6, ZenonT(60) DEF LastVersion
    <3>2. Tended(s)'
      BY <2>4, <3>1, Zenon DEF Tended, Finished, NotForgotten, Retried, Live, Exists
    <3> QED
      BY <2>2, <2>3, <3>2, AllTended, ZenonT(60)
  <2> QED
    BY <2>5, <2>6, ZenonT(60)
<1> QED
  BY <1>2, <1>3

\* Steps that touch no sandbox, or only queue some.
LEMMA QuietTended ==
    ASSUME IInv, JInv,
           CreateClaim \/ NextSecond \/ Resync \/ UNCHANGED vars
    PROVE  JInv'
<1>0. LastVersion /\ \A t \in Sandboxes : Tended(t)
  BY Zenon DEF JInv
<1>1. /\ UNCHANGED <<owner, idle, pod>> /\ sb' = sb /\ watch' = watch
      /\ cache' = cache /\ podCache' = podCache /\ queue \subseteq queue'
  BY Zenon DEF CreateClaim, NextSecond, Resync, vars, objects, caches
<1>2. LastVersion' /\ \A t \in Sandboxes : Outdated(t)' <=> Outdated(t)
  BY <1>0, <1>1, SameVersions, ZenonT(60)
<1>3. ASSUME NEW t \in Sandboxes
      PROVE  Tended(t)'
  <2>1. CASE t \in queue'
    <3>1. PodInStep(t)'
      BY <1>0, <1>1, PodsStay, ZenonT(60) DEF Tended, Exists
    <3> QED
      BY <2>1, <3>1, DueTended, Zenon
  <2>2. CASE t \notin queue'
    BY <1>0, <1>1, <1>2, <2>2, UntouchedTended, ZenonT(60) DEF Untouched
  <2> QED
    BY <2>1, <2>2, ZenonT(60)
<1> QED
  BY <1>2, <1>3, AllTended, ZenonT(60)

\* A delivered sandbox is queued; after a restart all are.
LEMMA WatchTended ==
    ASSUME IInv, JInv, Deliver \/ Restart
    PROVE  JInv'
<1>0. TypeOK /\ History /\ LastVersion /\ \A t \in Sandboxes : Tended(t)
  BY ZenonT(60) DEF JInv, IInv
<1>1. CASE Deliver
  <2>1. UNCHANGED <<owner, idle, pod, podCache, sb>>
    BY <1>1, Zenon DEF Deliver
  <2>2. LastVersion'
    BY <1>0, <1>1, DeliverLast, ZenonT(60)
  <2>3. ASSUME NEW t \in Sandboxes
        PROVE  Tended(t)'
    <3>1. CASE t \in queue'
      <4>1. PodInStep(t)'
        BY <1>0, <2>1, PodsStay, ZenonT(60) DEF Tended, Exists
      <4> QED
        BY <3>1, <4>1, DueTended, Zenon
    <3>2. CASE t \notin queue'
      <4>1. (Outdated(t)' <=> Outdated(t)) /\ (t \in queue' <=> t \in queue)
        BY <1>0, <1>1, <3>2, DeliverLast, Zenon
      <4> QED
        BY <1>0, <2>1, <4>1, UntouchedTended, ZenonT(60) DEF Untouched
    <3> QED
      BY <3>1, <3>2, ZenonT(60)
  <2> QED
    BY <2>2, <2>3, AllTended, ZenonT(60)
<1>2. CASE Restart
  <2>1. /\ cache' = sb /\ watch' = <<>> /\ podCache' = pod /\ sb' = sb /\ pod' = pod
        /\ queue' = {t \in Sandboxes : Exists(t)}
    BY <1>2, ZenonT(60) DEF Restart
  <2>2. LastVersion'
    BY <2>1 DEF LastVersion
  <2>3. ASSUME NEW t \in Sandboxes PROVE Tended(t)'
    <3>1. PodInStep(t)'
      BY <1>0, <2>1, Zenon DEF PodInStep, History, Exists
    <3>2. CASE Exists(t)
      BY <2>1, <3>1, <3>2, DueTended, ZenonT(60)
    <3>3. CASE ~Exists(t)
      <4>1. sb'[t].life = "absent"
        BY <2>1, <3>3, Zenon DEF Exists
      <4> QED
        BY <3>1, <4>1, ZenonT(60)
           DEF Tended, Finished, NotForgotten, Retried, Live, Exists
    <3> QED
      BY <3>2, <3>3, ZenonT(60)
  <2> QED
    BY <2>2, <2>3, AllTended, ZenonT(60)
<1> QED
  BY <1>1, <1>2, Zenon

LEMMA NextTended ==
    ASSUME IInv, JInv, [Next]_vars
    PROVE  JInv'
BY UserTended, PodTended, HeldTended, RunTended, GoneTended, QuietTended,
   WatchTended, ZenonT(60)
DEF Next, Reconcile

LEMMA InitTended == ASSUME Init  PROVE  JInv
<1>1. Len(watch) = 0 /\ cache = sb
  BY DEF Init
<1>2. \A s \in Sandboxes : /\ sb[s].life = "absent" /\ podCache[s] = "none"
                           /\ pod[s] = "none"
  BY ZenonT(60) DEF Init, Absent
<1>3. LastVersion
  <2>1. \A i \in 1..Len(watch) : FALSE
    BY <1>1
  <2> QED
    BY <1>1, <2>1, Zenon DEF LastVersion
<1> QED
  BY <1>2, <1>3, ZenonT(60)
     DEF JInv, Tended, PodInStep, Finished, NotForgotten, Retried, Exists,
         Live

(***************************************************************************)
(* JInv holds of every behaviour, with the invariant above.                *)
(***************************************************************************)
LEMMA AlwaysTended == Spec => []JInv
<1>1. Init => JInv
  BY InitTended, ZenonT(60)
<1>2. IInv /\ JInv /\ [Next]_vars => JInv'
  BY NextTended
<1> QED
  BY <1>1, <1>2, InductiveInvariant, PTL DEF Spec

(***************************************************************************)
(* No sandbox on the claim is ever forgotten, for any number of them: when *)
(* the reconciler has nothing queued for one and nothing to hear about it, *)
(* the sandbox is gone, suspended as it should be, has its pod, or its     *)
(* last pass found the claim missing; it is not held by another sandbox.   *)
(***************************************************************************)
THEOREM NoneForgottenHolds == Spec => []NoneForgotten
<1>1. JInv => NoneForgotten
  BY DEF JInv, Tended, NotForgotten, Finished, NoneForgotten, Calm, Live
<1> QED
  BY <1>1, AlwaysTended, PTL

(***************************************************************************)
(* Sandboxes that are held back by older ones keep being tried: the 30 s   *)
(* requeue of the reconciler is never dropped, by a refused write, a       *)
(* restart or a failed status update either, also while their pods are     *)
(* still to be heard of.                                                   *)
(***************************************************************************)
THEOREM HeldIsQueuedHolds == Spec => []HeldIsQueued
<1>1. JInv => HeldIsQueued
  BY Zenon DEF JInv, Tended, Retried, HeldIsQueued
<1> QED
  BY <1>1, AlwaysTended, PTL

=============================================================================
