--------------------------- MODULE SandboxSession ---------------------------
(***************************************************************************)
(* The audit sessions of one sandbox: the gateway goroutines that open,    *)
(* heartbeat and close a SandboxSession, the session reconciler that reaps,*)
(* propagates and collects it, and the closing loop of the sandbox         *)
(* finalizer.                                                              *)
(*                                                                         *)
(* Every write of a session's status carries the resourceVersion of the    *)
(* copy it was computed from and is refused when the stored object has     *)
(* moved on.  holds[c] is the set of clients whose copy of session c is    *)
(* the stored version: a read adds the reader, any write empties the set.  *)
(* A read served by a lagging informer cache yields an outdated copy; what *)
(* follows is a refused update or no update, so it is modelled by the      *)
(* operation ending without a write.                                       *)
(***************************************************************************)
EXTENDS Integers

CONSTANTS
    Conns,                   \* connections; each opens at most one session
    HeartbeatInterval,       \* spec.heartbeatInterval, in ticks
    ClosedSessionRetention,  \* closedSessionRetention, in ticks
    Horizon,                 \* bound: the sandbox runs, sessions open and
                             \* beat before it
    CloseHorizon,            \* bound: sessions are closed in order before it
    MaxTime                  \* bound: the clock stops here

ASSUME IntervalAssumption == HeartbeatInterval \in Nat \ {0}
ASSUME ConnAssumption == -1 \notin Conns
ASSUME RetentionAssumption == ClosedSessionRetention \in Nat
ASSUME BoundAssumption == {Horizon, CloseHorizon, MaxTime} \subseteq Nat

VARIABLES
    clock,
    session,       \* [Conns -> the SandboxSession object]
    holds,         \* [Conns -> clients whose copy is the stored version]
    conn,          \* [Conns -> where the connection handler is]
    beat,          \* [Conns -> stamp of the heartbeat in flight, or Nil]
    closeAt,       \* [Conns -> stamp of the CloseSession in flight, or Nil]
    rec,           \* the session reconciler (one worker)
    due,           \* [Conns -> when its workqueue hands the session out]
    fin,           \* the sandbox finalizer's closeSessions loop
    lastActivity,  \* Sandbox.status.lastActivityTime
    laCache        \* the operator's cached copy of lastActivity

vars == <<clock, session, holds, conn, beat, closeAt, rec, due, fin,
          lastActivity, laCache>>

-----------------------------------------------------------------------------

Nil == -1
Time == Nat \cup {Nil}
Clients == {"heartbeat", "closer", "reaper", "finalizer"}
States == {"absent", "", "Active", "Closed", "removed"}
Reasons == {"", "Disconnected", "StaleHeartbeat", "SandboxDeleted"}

Session == [state : States, start : Time, last : Time, end : Time,
            exitReason : Reasons]

NoSession == [state |-> "absent", start |-> Nil, last |-> Nil, end |-> Nil,
              exitReason |-> ""]

\* A deleted object: only why it had ended is remembered.
Removed(s) == [NoSession EXCEPT !.state = "removed",
                                !.exitReason = s.exitReason]

\* The reconciler's worker: what it does, to which session, dated when.
NoWork == [at |-> "idle", c |-> Nil, end |-> Nil]

Handlers == {"start", "creating", "open", "unrecorded", "closing", "done"}

staleHeartbeatFactor == 3
Deadline == staleHeartbeatFactor * HeartbeatInterval

\* Mutant: heartbeats are ignored.
lastSeenStart(s) == s.start

\* The last fallback, the creation time, is for a session without a start,
\* which is never Active.
lastSeen(s) == IF s.last # Nil THEN s.last ELSE s.start

Active(c) == session[c].state = "Active"
Closed(c) == session[c].state = "Closed"

(***************************************************************************)
(* The API server: a write stores the object under a new resourceVersion,  *)
(* an Update by w goes through only when w holds the stored version.       *)
(***************************************************************************)
Get(c, w) == holds' = [holds EXCEPT ![c] = @ \cup {w}]

Store(c, s) ==
    /\ session' = [session EXCEPT ![c] = s]
    /\ holds' = [holds EXCEPT ![c] = {}]

\* w's call ends without a write; its copy is dropped.
Drop(c, w) ==
    /\ holds' = [holds EXCEPT ![c] = @ \ {w}]
    /\ UNCHANGED session

(***************************************************************************)
(* The reconciler's workqueue.  A session that changes is queued at once;  *)
(* one that is queued after a delay is handed out once the clock is past   *)
(* it.                                                                     *)
(***************************************************************************)
Soon == 0

Watch ==
    due' = [c \in Conns |-> IF session'[c] = session[c] THEN due[c] ELSE Soon]

Ready(c) == due[c] = Soon \/ (due[c] # Nil /\ due[c] < clock)

\* Mutant: the pass does not ask for another one.
RequeueNever(t) == Nil

RequeueAfter(t) == t

\* Mutant: the resourceVersion is not sent.
StatusUpdateBlind(c, w, s) == Store(c, s)

StatusUpdate(c, w, s) ==
    IF w \in holds[c] THEN Store(c, s) ELSE Drop(c, w)

Init ==
    /\ clock = 0
    /\ session = [c \in Conns |-> NoSession]
    /\ holds = [c \in Conns |-> {}]
    /\ conn = [c \in Conns |-> "start"]
    /\ beat = [c \in Conns |-> Nil]
    /\ closeAt = [c \in Conns |-> Nil]
    /\ rec = NoWork
    /\ due = [c \in Conns |-> Nil]
    /\ fin = [at |-> "idle", todo |-> {}, now |-> Nil]
    /\ lastActivity = Nil
    /\ laCache = Nil

Tick ==
    /\ clock < MaxTime
    /\ clock' = clock + 1
    /\ UNCHANGED <<session, holds, conn, beat, closeAt, rec, due, fin,
                   lastActivity, laCache>>

-----------------------------------------------------------------------------
(***************************************************************************)
(* The gateway.  CreateSession is two API calls: Create, then the status   *)
(* update that makes the session Active.  Either may fail, before or after *)
(* the API server stored it; the connection then goes on without a closer  *)
(* and without heartbeats.                                                 *)
(***************************************************************************)
Create(c) ==
    /\ conn[c] = "start"
    /\ clock < Horizon
    /\ \/ /\ Store(c, [NoSession EXCEPT !.state = ""])
          /\ \E h \in {"creating", "unrecorded"} :
                conn' = [conn EXCEPT ![c] = h]
       \/ /\ conn' = [conn EXCEPT ![c] = "unrecorded"]
          /\ UNCHANGED <<session, holds>>
    /\ Watch
    /\ UNCHANGED <<clock, beat, closeAt, rec, fin, lastActivity, laCache>>

\* Mutant: the error of the status update is dropped.
MarkActiveUnchecked(c) ==
    /\ conn[c] = "creating"
    /\ \/ Store(c, [session[c] EXCEPT !.state = "Active", !.start = clock,
                                      !.last = clock])
       \/ UNCHANGED <<session, holds>>
    /\ conn' = [conn EXCEPT ![c] = "open"]
    /\ Watch
    /\ UNCHANGED <<clock, beat, closeAt, rec, fin, lastActivity, laCache>>

MarkActive(c) ==
    /\ conn[c] = "creating"
    /\ \/ /\ clock < Horizon
          /\ Store(c, [session[c] EXCEPT !.state = "Active",
                                         !.start = clock, !.last = clock])
          /\ \E h \in {"open", "unrecorded"} :
                conn' = [conn EXCEPT ![c] = h]
       \/ /\ conn' = [conn EXCEPT ![c] = "unrecorded"]
          /\ UNCHANGED <<session, holds>>
    /\ Watch
    /\ UNCHANGED <<clock, beat, closeAt, rec, fin, lastActivity, laCache>>

(***************************************************************************)
(* The heartbeat goroutine: Get, then Status().Update with a stamp taken   *)
(* in between.  Stopping the goroutine does not recall a beat in flight.   *)
(***************************************************************************)
HeartbeatGet(c) ==
    /\ conn[c] = "open"
    /\ beat[c] = Nil
    /\ Active(c)
    /\ clock < Horizon
    /\ clock > session[c].last
    /\ Get(c, "heartbeat")
    /\ beat' = [beat EXCEPT ![c] = clock]
    /\ UNCHANGED <<clock, session, conn, closeAt, rec, due, fin, lastActivity,
                   laCache>>

HeartbeatUpdate(c) ==
    /\ beat[c] # Nil
    /\ \/ StatusUpdate(c, "heartbeat", [session[c] EXCEPT !.last = beat[c]])
       \/ Drop(c, "heartbeat")
    /\ beat' = [beat EXCEPT ![c] = Nil]
    /\ Watch
    /\ UNCHANGED <<clock, conn, closeAt, rec, fin, lastActivity, laCache>>

(***************************************************************************)
(* The closer returned by openSession.  It is not retried: a failed read   *)
(* or a refused update leaves the session to the reaper.                   *)
(***************************************************************************)
CloseGet(c) ==
    /\ \/ /\ conn[c] = "open"
          /\ Active(c)
          /\ clock < CloseHorizon
          /\ Get(c, "closer")
          /\ closeAt' = [closeAt EXCEPT ![c] = clock]
          /\ conn' = [conn EXCEPT ![c] = "closing"]
       \/ /\ conn[c] \in {"open", "unrecorded"}
          /\ conn' = [conn EXCEPT ![c] = "done"]
          /\ UNCHANGED <<holds, closeAt>>
    /\ UNCHANGED <<clock, session, beat, rec, due, fin, lastActivity, laCache>>

CloseUpdate(c) ==
    /\ conn[c] = "closing"
    /\ \/ StatusUpdate(c, "closer",
             [session[c] EXCEPT !.state = "Closed", !.end = closeAt[c],
                                !.exitReason = "Disconnected"])
       \/ Drop(c, "closer")
    /\ conn' = [conn EXCEPT ![c] = "done"]
    /\ closeAt' = [closeAt EXCEPT ![c] = Nil]
    /\ Watch
    /\ UNCHANGED <<clock, beat, rec, fin, lastActivity, laCache>>

\* The gateway process dies: every handler, heartbeat and closer is gone.
GatewayCrash ==
    /\ \E c \in Conns : conn[c] \notin {"start", "done"}
    /\ conn' = [c \in Conns |-> IF conn[c] = "start" THEN "start" ELSE "done"]
    /\ beat' = [c \in Conns |-> Nil]
    /\ closeAt' = [c \in Conns |-> Nil]
    /\ holds' = [c \in Conns |-> holds[c] \ {"heartbeat", "closer"}]
    /\ UNCHANGED <<clock, session, rec, due, fin, lastActivity, laCache>>

-----------------------------------------------------------------------------
(***************************************************************************)
(* The session reconciler.  A pass is for a session its queue hands out; a *)
(* pass that works from an outdated copy leaves the session queued, since  *)
(* the newer version is still to be delivered.                             *)
(***************************************************************************)
Take(c) ==
    /\ rec.at = "idle"
    /\ Ready(c)

\* A session without a state, or none.
Ignore(c) ==
    /\ Take(c)
    /\ ~Active(c) /\ ~Closed(c)
    /\ due' = [due EXCEPT ![c] = Nil]
    /\ UNCHANGED <<clock, session, holds, conn, beat, closeAt, rec, fin,
                   lastActivity, laCache>>

(***************************************************************************)
(* reconcileActive: read, compare the age of the last heartbeat with the   *)
(* deadline, close the session dated at that heartbeat or look again when  *)
(* the deadline is over.  A refused update is an error and queues the      *)
(* session again, as the watch does after one that is stored.              *)
(***************************************************************************)
Recheck(c) ==
    /\ Take(c)
    /\ Active(c)
    /\ clock - lastSeen(session[c]) <= Deadline
    /\ due' = [due EXCEPT ![c] = RequeueAfter(lastSeen(session[c]) + Deadline)]
    /\ UNCHANGED <<clock, session, holds, conn, beat, closeAt, rec, fin,
                   lastActivity, laCache>>

ReapGet(c) ==
    /\ Take(c)
    /\ Active(c)
    /\ clock - lastSeen(session[c]) > Deadline
    /\ Get(c, "reaper")
    /\ rec' = [at |-> "reap", c |-> c, end |-> lastSeen(session[c])]
    /\ due' = [due EXCEPT ![c] = Nil]
    /\ UNCHANGED <<clock, session, conn, beat, closeAt, fin, lastActivity,
                   laCache>>

ReapUpdate ==
    /\ rec.at = "reap"
    /\ StatusUpdate(rec.c, "reaper",
          [session[rec.c] EXCEPT !.state = "Closed", !.end = rec.end,
                                 !.exitReason = "StaleHeartbeat"])
    /\ due' = [due EXCEPT ![rec.c] = Soon]
    /\ rec' = NoWork
    /\ UNCHANGED <<clock, conn, beat, closeAt, fin, lastActivity, laCache>>

(***************************************************************************)
(* reconcileClosed: bump the sandbox's idle clock unless the cached value  *)
(* is already as late (a merge patch: no version check), then collect the  *)
(* session or come back when its retention is over.                        *)
(***************************************************************************)
BumpGet(c) ==
    /\ Take(c)
    /\ Closed(c)
    /\ rec' = [at |-> IF fin.at # "gone" /\ session[c].end > laCache
                      THEN "bump" ELSE "collect",
               c |-> c, end |-> Nil]
    /\ due' = [due EXCEPT ![c] = Nil]
    /\ UNCHANGED <<clock, session, holds, conn, beat, closeAt, fin,
                   lastActivity, laCache>>

BumpPatch ==
    /\ rec.at = "bump"
    /\ lastActivity' = IF fin.at = "gone" THEN lastActivity
                       ELSE session[rec.c].end
    /\ rec' = [rec EXCEPT !.at = "collect"]
    /\ UNCHANGED <<clock, session, holds, conn, beat, closeAt, due, fin,
                   laCache>>

\* What was queued during the pass comes first.
Collect ==
    /\ rec.at = "collect"
    /\ rec' = NoWork
    /\ IF clock - session[rec.c].end >= ClosedSessionRetention
       THEN Store(rec.c, Removed(session[rec.c])) /\ Watch
       ELSE /\ due' = [due EXCEPT ![rec.c] =
                 IF @ # Nil THEN @
                 ELSE RequeueAfter(session[rec.c].end + ClosedSessionRetention)]
            /\ UNCHANGED <<session, holds>>
    /\ UNCHANGED <<clock, conn, beat, closeAt, fin, lastActivity, laCache>>

\* Mutant: the error is logged and dropped.
PassFailsLogged ==
    /\ rec.at # "idle"
    /\ rec' = NoWork
    /\ holds' = [holds EXCEPT ![rec.c] = @ \ {"reaper"}]
    /\ UNCHANGED <<clock, session, conn, beat, closeAt, due, fin,
                   lastActivity, laCache>>

\* A call of the pass fails: the session is queued again.
PassFails ==
    /\ rec.at # "idle"
    /\ rec' = NoWork
    /\ due' = [due EXCEPT ![rec.c] = Soon]
    /\ holds' = [holds EXCEPT ![rec.c] = @ \ {"reaper"}]
    /\ UNCHANGED <<clock, session, conn, beat, closeAt, fin, lastActivity,
                   laCache>>

\* The operator is replaced: all timers are gone, and what the first list
\* finds is queued.
OperatorRestart ==
    /\ rec' = NoWork
    /\ due' = [c \in Conns |-> IF session[c].state \in {"absent", "removed"}
                              THEN Nil ELSE Soon]
    /\ holds' = [c \in Conns |-> holds[c] \ {"reaper"}]
    /\ laCache' = lastActivity
    /\ UNCHANGED <<clock, session, conn, beat, closeAt, fin, lastActivity>>

\* The sandbox reconciler starts the idle clock when the pod first is ready.
StartIdleClock ==
    /\ lastActivity = Nil
    /\ clock < Horizon
    /\ fin.at # "gone"
    /\ lastActivity' = clock
    /\ UNCHANGED <<clock, session, holds, conn, beat, closeAt, rec, due, fin,
                   laCache>>

\* The watch delivers the sandbox's current version to the operator's cache.
CacheSync ==
    /\ laCache # lastActivity
    /\ laCache' = lastActivity
    /\ UNCHANGED <<clock, session, holds, conn, beat, closeAt, rec, due, fin,
                   lastActivity>>

-----------------------------------------------------------------------------
(***************************************************************************)
(* closeSessions of the sandbox finalizer: list, stamp once, update each   *)
(* Active session it saw.  A lagging list misses some; a refused update    *)
(* aborts the loop and finalize is retried.                                *)
(***************************************************************************)
ListSessions ==
    /\ fin.at = "idle"
    /\ clock < CloseHorizon
    /\ \E seen \in SUBSET {c \in Conns : Active(c)} :
          /\ fin' = [at |-> "closing", todo |-> seen, now |-> clock]
          /\ holds' = [c \in Conns |-> IF c \in seen
                                       THEN holds[c] \cup {"finalizer"}
                                       ELSE holds[c]]
    /\ UNCHANGED <<clock, session, conn, beat, closeAt, rec, due, lastActivity,
                   laCache>>

CloseListed(c) ==
    /\ fin.at = "closing"
    /\ c \in fin.todo
    /\ \/ /\ "finalizer" \in holds[c]
          /\ Store(c, [session[c] EXCEPT !.state = "Closed", !.end = fin.now,
                                         !.exitReason = "SandboxDeleted"])
          /\ fin' = [fin EXCEPT !.todo = @ \ {c}]
       \/ /\ session[c].state = "removed"
          /\ fin' = [fin EXCEPT !.todo = @ \ {c}]
          /\ UNCHANGED <<session, holds>>
       \/ /\ "finalizer" \notin holds[c]
          /\ session[c].state # "removed"
          /\ fin' = [at |-> "idle", todo |-> {}, now |-> Nil]
          /\ holds' = [d \in Conns |-> holds[d] \ {"finalizer"}]
          /\ UNCHANGED session
    /\ Watch
    /\ UNCHANGED <<clock, conn, beat, closeAt, rec, lastActivity, laCache>>

SandboxGone ==
    /\ fin.at = "closing"
    /\ fin.todo = {}
    /\ fin' = [at |-> "gone", todo |-> {}, now |-> Nil]
    /\ UNCHANGED <<clock, session, holds, conn, beat, closeAt, rec, due,
                   lastActivity, laCache>>

-----------------------------------------------------------------------------

Gateway(c) ==
    \/ Create(c) \/ MarkActive(c)
    \/ HeartbeatGet(c) \/ HeartbeatUpdate(c)
    \/ CloseGet(c) \/ CloseUpdate(c)

Reconcile(c) == Ignore(c) \/ Recheck(c) \/ ReapGet(c) \/ BumpGet(c)

Next ==
    \/ Tick
    \/ \E c \in Conns : Gateway(c)
    \/ GatewayCrash
    \/ \E c \in Conns : Reconcile(c)
    \/ ReapUpdate \/ BumpPatch \/ Collect
    \/ PassFails \/ OperatorRestart
    \/ StartIdleClock \/ CacheSync
    \/ ListSessions \/ SandboxGone
    \/ \E c \in Conns : CloseListed(c)

Spec == Init /\ [][Next]_vars

(***************************************************************************)
(* Time passes, the workqueue hands out every session that is ready in     *)
(* turn, and a call that is made again and again succeeds in the end       *)
(* (hence strong fairness of the writes: passes may fail and operators be  *)
(* replaced in between).  The finalizer's loop is not abandoned.  Nothing  *)
(* is assumed of clients, of the gateway, or of the user deleting the      *)
(* sandbox, and nothing brings a session back that is not queued.          *)
(***************************************************************************)
Fairness ==
    /\ WF_vars(Tick)
    /\ SF_vars(ReapUpdate) /\ SF_vars(BumpPatch) /\ SF_vars(Collect)
    /\ WF_vars(CacheSync)
    /\ \A c \in Conns : SF_vars(Reconcile(c))
    /\ \A c \in Conns : WF_vars(CloseListed(c))

FairSpec == Spec /\ Fairness

-----------------------------------------------------------------------------

\* What the sessions and those who write them look like.
RecordsOK ==
    /\ clock \in Nat
    /\ session \in [Conns -> Session]
    /\ holds \in [Conns -> SUBSET Clients]
    /\ conn \in [Conns -> Handlers]
    /\ beat \in [Conns -> Time]
    /\ closeAt \in [Conns -> Time]
    /\ rec \in [at : {"idle", "reap", "bump", "collect"},
               c : Conns \cup {Nil}, end : Time]
    /\ fin \in [at : {"idle", "closing", "gone"}, todo : SUBSET Conns,
                now : Time]
    /\ lastActivity \in Time
    /\ laCache \in Time

\* The type invariant of the module.
TypeOK == RecordsOK /\ due \in [Conns -> Time]

(***************************************************************************)
(* A Closed session is final: no heartbeat, closer, reaper or finalizer    *)
(* that read it earlier reopens it or rewrites when and why it ended; it   *)
(* can only be collected.  The audit record depends on it.                 *)
(***************************************************************************)
ClosedIsFinal ==
    [][\A c \in Conns : Closed(c) =>
          session'[c] \in {session[c],
                           Removed(session[c])}]_vars

(***************************************************************************)
(* The recorded end never precedes the last heartbeat of the session, and  *)
(* neither lies in the future, whoever of the closer, the reaper and the   *)
(* finalizer closed it and whatever heartbeat was in flight.               *)
(***************************************************************************)
EndCoversActivity ==
    \A c \in Conns : Closed(c) =>
        /\ session[c].start <= session[c].last
        /\ session[c].last <= session[c].end
        /\ session[c].end <= clock

(***************************************************************************)
(* The reaper closes a session only when the stored last heartbeat is      *)
(* older than staleHeartbeatFactor intervals at the moment of the write: a *)
(* heartbeat that lands between its read and its write saves the session.  *)
(***************************************************************************)
ReapedOnlyWhenStale ==
    [][\A c \in Conns :
          (/\ Active(c)
           /\ session'[c].state = "Closed"
           /\ session'[c].exitReason = "StaleHeartbeat")
          => clock - session[c].last > Deadline]_vars

(***************************************************************************)
(* While its connection is open a recorded session is Active, unless the   *)
(* reaper or the finalizer closed it: nothing else ends it early, and only *)
(* a session closed that way is ever collected under a live connection.    *)
(***************************************************************************)
OpenMeansActive ==
    \A c \in Conns : conn[c] = "open" =>
        \/ Active(c)
        \/ /\ session[c].state \in {"Closed", "removed"}
           /\ session[c].exitReason \in {"StaleHeartbeat", "SandboxDeleted"}

(***************************************************************************)
(* No session is forgotten, and none is left for too long: an Active one   *)
(* is looked at again when its deadline is over at the latest, a Closed    *)
(* one when its retention is, or the reconciler is at it.  Every pass, one *)
(* that fails included, has to see to that.                                *)
(***************************************************************************)
InHand(c) == rec.at # "idle" /\ rec.c = c

QueuedBy(c, t) == InHand(c) \/ due[c] \in 0..t

SessionQueued ==
    \A c \in Conns :
        /\ Active(c) => QueuedBy(c, session[c].last + Deadline)
        /\ Closed(c) => QueuedBy(c, session[c].end + ClosedSessionRetention)

(***************************************************************************)
(* A gateway that dies does not pin the sandbox awake: an Active session   *)
(* with no connection behind it is eventually Closed (the comment on       *)
(* staleHeartbeatFactor).  Nothing happens to it but that its own pass     *)
(* asks to be run again.                                                   *)
(***************************************************************************)
AbandonedSessionCloses ==
    \A c \in Conns :
        (Active(c) /\ conn[c] \in {"unrecorded", "done"}) ~> ~Active(c)

(***************************************************************************)
(* Every Closed session is eventually garbage-collected (the comment on    *)
(* closedSessionRetention), although passes fail and operators are         *)
(* replaced on the way.                                                    *)
(***************************************************************************)
ClosedSessionCollected ==
    \A c \in Conns : Closed(c) ~> session[c].state = "removed"

=============================================================================
