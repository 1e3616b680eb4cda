------------------------ MODULE SandboxSessionProofs ------------------------
(***************************************************************************)
(* Proofs that the session records are right for any number of             *)
(* connections, any heartbeat interval and retention, and any bounds.      *)
(*                                                                         *)
(* The argument is about copies: a client whose copy is the stored version *)
(* (holds) read the session while it was Active, and the stamp it is going *)
(* to write lies between the session's last heartbeat and now.  Any other  *)
(* write empties holds, so the next Update of that client is refused.      *)
(***************************************************************************)
EXTENDS SandboxSession, TLAPS

\* The stamps of an Active session are in order and not in the future.
ActiveInOrder(c) ==
    Active(c) =>
        /\ session[c].start \in Nat /\ session[c].last \in Nat
        /\ session[c].start <= session[c].last
        /\ session[c].last <= clock

\* What each client that may still write knows about the session.
HeartbeatHolds(c) ==
    "heartbeat" \in holds[c] =>
        /\ Active(c)
        /\ beat[c] \in Nat
        /\ session[c].last <= beat[c]
        /\ beat[c] <= clock

CloserHolds(c) ==
    "closer" \in holds[c] =>
        /\ Active(c)
        /\ conn[c] = "closing"
        /\ closeAt[c] \in Nat
        /\ session[c].last <= closeAt[c]
        /\ closeAt[c] <= clock

ReaperHolds(c) ==
    "reaper" \in holds[c] =>
        /\ Active(c)
        /\ rec.at = "reap" /\ rec.c = c
        /\ rec.end = session[c].last
        /\ clock - rec.end > Deadline

FinalizerHolds(c) ==
    "finalizer" \in holds[c] =>
        /\ Active(c)
        /\ fin.at = "closing" /\ c \in fin.todo
        /\ fin.now \in Nat
        /\ session[c].last <= fin.now
        /\ fin.now <= clock

\* A connection that has not opened its session has none, or a stateless one.
NotYetOpen(c) ==
    /\ conn[c] = "start" => session[c].state = "absent"
    /\ conn[c] = "creating" => session[c].state = ""

\* EndCoversActivity and OpenMeansActive of one connection.
EndCovers(c) ==
    Closed(c) =>
        /\ session[c].start \in Nat /\ session[c].last \in Nat
        /\ session[c].end \in Nat
        /\ session[c].start <= session[c].last
        /\ session[c].last <= session[c].end
        /\ session[c].end <= clock

OpenIsActive(c) ==
    conn[c] = "open" =>
        \/ Active(c)
        \/ /\ session[c].state \in {"Closed", "removed"}
           /\ session[c].exitReason \in {"StaleHeartbeat", "SandboxDeleted"}

ConnInv(c) ==
    /\ ActiveInOrder(c)
    /\ HeartbeatHolds(c) /\ CloserHolds(c)
    /\ ReaperHolds(c) /\ FinalizerHolds(c)
    /\ NotYetOpen(c) /\ EndCovers(c) /\ OpenIsActive(c)

\* The reconciler's worker is on a session, and bumps or collects Closed ones.
WorkerOnSession ==
    /\ rec.at # "idle" => rec.c \in Conns
    /\ rec.at \in {"bump", "collect"} => Closed(rec.c)

IInv ==
    /\ RecordsOK
    /\ WorkerOnSession
    /\ \A c \in Conns : ConnInv(c)

-----------------------------------------------------------------------------
(***************************************************************************)
(* The API server and the records it stores.                               *)
(***************************************************************************)

\* A Store touches one session and leaves no other copy of it current.
LEMMA StoreFacts ==
    ASSUME RecordsOK, NEW c \in Conns, NEW s \in Session, Store(c, s)
    PROVE  /\ session' \in [Conns -> Session]
           /\ holds' \in [Conns -> SUBSET Clients]
           /\ session'[c] = s
           /\ holds'[c] = {}
           /\ \A d \in Conns \ {c} : /\ session'[d] = session[d]
                                     /\ holds'[d] = holds[d]
BY DEF RecordsOK, Store

\* A call that ends without a write only drops its own copy.
LEMMA DropFacts ==
    ASSUME RecordsOK, NEW c \in Conns, NEW w, Drop(c, w)
    PROVE  /\ session' = session
           /\ holds' \in [Conns -> SUBSET Clients]
           /\ holds'[c] = holds[c] \ {w}
           /\ \A d \in Conns \ {c} : holds'[d] = holds[d]
BY DEF RecordsOK, Drop

\* A read makes the reader's copy the stored version.
LEMMA GetFacts ==
    ASSUME RecordsOK, NEW c \in Conns, NEW w \in Clients, Get(c, w)
    PROVE  /\ holds' \in [Conns -> SUBSET Clients]
           /\ holds'[c] = holds[c] \cup {w}
           /\ \A d \in Conns \ {c} : holds'[d] = holds[d]
BY DEF RecordsOK, Get

\* A session just created has no state yet.
LEMMA StatelessRecord ==
    ASSUME NEW z, z = [NoSession EXCEPT !.state = ""]
    PROVE  z \in Session /\ z.state = ""
BY DEF Session, States, Reasons, NoSession, Time, Nil

\* A removed session keeps only why it ended.
LEMMA RemovedRecord ==
    ASSUME NEW s \in Session
    PROVE  /\ Removed(s) \in Session
           /\ Removed(s).state = "removed"
           /\ Removed(s).exitReason = s.exitReason
BY DEF Session, States, NoSession, Removed, Time, Nil

\* The clock and the reaper's copy of it are numbers.
LEMMA Clocks == ASSUME IInv PROVE clock \in Nat /\ rec.end \in Int
<1>1. clock \in Nat /\ rec.end \in Time
  BY Zenon DEF IInv, RecordsOK
<1> QED
  BY <1>1 DEF Time, Nil

(***************************************************************************)
(* What a step does not touch keeps its part of the invariant: the session *)
(* and the handler unchanged, copies at most dropped, time at most later,  *)
(* and the reaper and the finalizer unchanged unless they hold no copy.    *)
(***************************************************************************)
LEMMA Frame ==
    ASSUME clock \in Nat, clock' \in Nat, rec.end \in Int,
           NEW d \in Conns, ConnInv(d),
           clock <= clock',
           session'[d] = session[d],
           holds'[d] \subseteq holds[d],
           conn'[d] = conn[d], beat'[d] = beat[d], closeAt'[d] = closeAt[d],
           "reaper" \in holds'[d] => rec' = rec,
           "finalizer" \in holds'[d] =>
               fin'.at = fin.at /\ fin'.now = fin.now /\ d \in fin'.todo
    PROVE  ConnInv(d)'
<1>1. ActiveInOrder(d)'
  BY DEF ConnInv, ActiveInOrder, Active
<1>2. NotYetOpen(d)' /\ OpenIsActive(d)'
  BY DEF ConnInv, NotYetOpen, OpenIsActive, Active
<1>3. EndCovers(d)'
  BY DEF ConnInv, EndCovers, Closed
<1>4. HeartbeatHolds(d)' /\ CloserHolds(d)'
  BY DEF ConnInv, HeartbeatHolds, CloserHolds, ActiveInOrder, Active
<1>5. ReaperHolds(d)'
  BY IntervalAssumption
     DEF ConnInv, ReaperHolds, Active, Deadline, staleHeartbeatFactor
<1>6. FinalizerHolds(d)'
  BY DEF ConnInv, FinalizerHolds, ActiveInOrder, Active
<1> QED
  BY <1>1, <1>2, <1>3, <1>4, <1>5, <1>6 DEF ConnInv

\* A step about session c leaves the others and what is known of them.
OthersSame(c) ==
    \A d \in Conns \ {c} :
        /\ session'[d] = session[d]
        /\ holds'[d] \subseteq holds[d]
        /\ conn'[d] = conn[d] /\ beat'[d] = beat[d]
        /\ closeAt'[d] = closeAt[d]
        /\ "reaper" \in holds'[d] => rec' = rec
        /\ "finalizer" \in holds'[d] =>
              /\ fin'.at = fin.at /\ fin'.now = fin.now
              /\ d \in fin.todo => d \in fin'.todo

\* After a step about session c it is enough to look at c and the worker.
LEMMA OneSession ==
    ASSUME IInv, RecordsOK', NEW c \in Conns, clock' = clock,
           OthersSame(c), ConnInv(c)', WorkerOnSession'
    PROVE  IInv'
<1>1. ASSUME NEW d \in Conns \ {c} PROVE ConnInv(d)'
  <2>1. ConnInv(d) /\ clock \in Nat /\ clock' \in Nat /\ clock <= clock'
    BY DEF IInv, RecordsOK
  <2>2. rec.end \in Int
    BY DEF IInv, RecordsOK, Time, Nil
  <2>3. /\ session'[d] = session[d]
        /\ holds'[d] \subseteq holds[d]
        /\ conn'[d] = conn[d] /\ beat'[d] = beat[d]
        /\ closeAt'[d] = closeAt[d]
        /\ "reaper" \in holds'[d] => rec' = rec
    BY DEF OthersSame
  <2>4. "finalizer" \in holds'[d] =>
            fin'.at = fin.at /\ fin'.now = fin.now /\ d \in fin'.todo
    BY <2>1, <2>3 DEF OthersSame, ConnInv, FinalizerHolds
  <2> QED
    BY <2>1, <2>2, <2>3, <2>4, Frame
<1>2. \A d \in Conns : ConnInv(d)'
  BY <1>1
<1> QED
  BY <1>2 DEF IInv

\* A step of c's handler: the worker and the finalizer do not move.
LEMMA HandlerStep ==
    ASSUME IInv, RecordsOK', NEW c \in Conns, UNCHANGED <<clock, rec, fin>>,
           \A d \in Conns \ {c} :
              /\ session'[d] = session[d] /\ holds'[d] = holds[d]
              /\ conn'[d] = conn[d] /\ beat'[d] = beat[d]
              /\ closeAt'[d] = closeAt[d],
           Closed(c) => Closed(c)',
           ConnInv(c)'
    PROVE  IInv'
<1>1. OthersSame(c)
  BY DEF OthersSame
<1>2. WorkerOnSession'
  BY DEF IInv, WorkerOnSession, Closed
<1> QED
  BY <1>1, <1>2, OneSession

(***************************************************************************)
(* Closing an Active session, whoever does it, with a stamp between the    *)
(* last heartbeat and now; the handler does not go on as if it were open   *)
(* unless the reaper or the finalizer closed it.                           *)
(***************************************************************************)
LEMMA ClosingStore ==
    ASSUME IInv, NEW c \in Conns, Active(c),
           NEW t \in Nat, session[c].last <= t, t <= clock,
           NEW r \in Reasons,
           Store(c, [session[c] EXCEPT !.state = "Closed", !.end = t,
                                       !.exitReason = r]),
           clock' = clock,
           conn'[c] \notin {"start", "creating"},
           conn'[c] = "open" => r \in {"StaleHeartbeat", "SandboxDeleted"}
    PROVE  /\ session' \in [Conns -> Session]
           /\ holds' \in [Conns -> SUBSET Clients]
           /\ \A d \in Conns \ {c} : /\ session'[d] = session[d]
                                     /\ holds'[d] = holds[d]
           /\ Closed(c)'
           /\ ConnInv(c)'
<1> DEFINE z == [session[c] EXCEPT !.state = "Closed", !.end = t,
                                   !.exitReason = r]
<1>1. session[c] \in Session /\ t \in Time
  BY DEF IInv, RecordsOK, Time
<1>2. /\ z \in Session
      /\ z.state = "Closed" /\ z.end = t /\ z.exitReason = r
      /\ z.start = session[c].start /\ z.last = session[c].last
  BY <1>1 DEF Session, States
<1> HIDE DEF z
<1>3. /\ session' \in [Conns -> Session]
      /\ holds' \in [Conns -> SUBSET Clients]
      /\ session'[c] = z /\ holds'[c] = {}
      /\ \A d \in Conns \ {c} : /\ session'[d] = session[d]
                                /\ holds'[d] = holds[d]
  BY <1>2, StoreFacts DEF IInv, z
<1>4. ActiveInOrder(c) /\ clock \in Nat
  BY DEF IInv, RecordsOK, ConnInv
<1>5. EndCovers(c)'
  BY <1>2, <1>3, <1>4 DEF EndCovers, ActiveInOrder, Active
<1>6. OpenIsActive(c)' /\ NotYetOpen(c)' /\ ActiveInOrder(c)'
  BY <1>2, <1>3 DEF OpenIsActive, NotYetOpen, ActiveInOrder, Active
<1>7. /\ HeartbeatHolds(c)' /\ CloserHolds(c)'
      /\ ReaperHolds(c)' /\ FinalizerHolds(c)'
  BY <1>3 DEF HeartbeatHolds, CloserHolds, ReaperHolds, FinalizerHolds
<1> QED
  BY <1>2, <1>3, <1>5, <1>6, <1>7 DEF ConnInv, Closed

-----------------------------------------------------------------------------
(***************************************************************************)
(* One lemma per action.                                                   *)
(***************************************************************************)

\* Time passing only makes stamps older.
LEMMA TickInv == ASSUME IInv, Tick PROVE IInv'
<1>1. RecordsOK'
  BY DEF IInv, RecordsOK, Tick
<1>2. ASSUME NEW d \in Conns PROVE ConnInv(d)'
  <2>1. fin' = fin /\ ("finalizer" \in holds[d] => d \in fin.todo)
    BY DEF IInv, Tick, ConnInv, FinalizerHolds
  <2>2. rec.end \in Int
    BY DEF IInv, RecordsOK, Time, Nil
  <2> QED
    BY <2>1, <2>2, Frame DEF IInv, RecordsOK, Tick
<1>3. WorkerOnSession'
  BY DEF IInv, WorkerOnSession, Tick, Closed
<1> QED
  BY <1>1, <1>2, <1>3 DEF IInv

\* The connection's session starts stateless, with no copy around.
LEMMA CreateInv == ASSUME IInv, NEW c \in Conns, Create(c) PROVE IInv'
<1>1. CASE Store(c, [NoSession EXCEPT !.state = ""])
  <2> DEFINE z == [NoSession EXCEPT !.state = ""]
  <2>1. session[c].state = "absent" /\ session[c] \in Session /\ clock \in Nat
    BY DEF IInv, RecordsOK, Create, ConnInv, NotYetOpen
  <2>2. z \in Session /\ z.state = ""
    BY StatelessRecord
  <2>3. /\ session' \in [Conns -> Session]
        /\ holds' \in [Conns -> SUBSET Clients]
        /\ session'[c] = z /\ holds'[c] = {}
        /\ \A d \in Conns \ {c} : /\ session'[d] = session[d]
                                  /\ holds'[d] = holds[d]
    BY <1>1, <2>2, StoreFacts DEF IInv
  <2>4. RecordsOK'
    <3>1. conn' \in [Conns -> Handlers]
      BY <1>1, ZenonT(60) DEF IInv, RecordsOK, Create, Handlers
    <3> QED
      BY <2>3, <3>1 DEF IInv, RecordsOK, Create
  <2>5. ConnInv(c)'
    BY <2>2, <2>3, ZenonT(60) DEF IInv, RecordsOK, Create, ConnInv, ActiveInOrder,
       HeartbeatHolds, CloserHolds, ReaperHolds, FinalizerHolds, NotYetOpen,
       EndCovers, OpenIsActive, Active, Closed
  <2> QED
    BY <2>1, <2>3, <2>4, <2>5, HandlerStep, ZenonT(60)
       DEF Create, Closed, IInv, RecordsOK
<1>2. CASE /\ conn' = [conn EXCEPT ![c] = "unrecorded"]
           /\ UNCHANGED <<session, holds>>
  <2>1. RecordsOK'
    BY <1>2 DEF IInv, RecordsOK, Create, Handlers
  <2>2. ConnInv(c)'
    BY <1>2, ZenonT(60) DEF IInv, RecordsOK, Create, ConnInv, ActiveInOrder,
       HeartbeatHolds, CloserHolds, ReaperHolds, FinalizerHolds, NotYetOpen,
       EndCovers, OpenIsActive, Active, Closed
  <2> QED
    BY <1>2, <2>1, <2>2, HandlerStep DEF Create, Closed, IInv, RecordsOK
<1> QED
  BY <1>1, <1>2 DEF Create

\* The session becomes Active, stamped now, with no copy around.
LEMMA MarkActiveInv == ASSUME IInv, NEW c \in Conns, MarkActive(c) PROVE IInv'
<1> DEFINE z == [session[c] EXCEPT !.state = "Active", !.start = clock,
                                   !.last = clock]
<1>1. /\ session[c].state = "" /\ session[c] \in Session
      /\ clock \in Nat /\ clock \in Time
  BY DEF IInv, RecordsOK, MarkActive, ConnInv, NotYetOpen, Time
<1>2. z \in Session /\ z.state = "Active" /\ z.start = clock /\ z.last = clock
  BY <1>1 DEF Session, States
<1>3. conn' \in [Conns -> Handlers] /\ conn'[c] \in {"open", "unrecorded"}
  BY ZenonT(60) DEF IInv, RecordsOK, MarkActive, Handlers
<1>4. CASE Store(c, z)
  <2> HIDE DEF z
  <2>1. /\ session' \in [Conns -> Session]
        /\ holds' \in [Conns -> SUBSET Clients]
        /\ session'[c] = z /\ holds'[c] = {}
        /\ \A d \in Conns \ {c} : /\ session'[d] = session[d]
                                  /\ holds'[d] = holds[d]
    BY <1>2, <1>4, StoreFacts DEF IInv
  <2>2. RecordsOK'
    BY <1>3, <2>1 DEF IInv, RecordsOK, MarkActive
  <2>3. ConnInv(c)'
    <3>0. clock' = clock /\ clock \in Nat
      BY <1>1 DEF MarkActive
    <3>1. ActiveInOrder(c)'
      <4>1. /\ session'[c].start = clock
            /\ session'[c].last = clock
        BY <1>2, <2>1
      <4> QED
        BY <3>0, <4>1 DEF ActiveInOrder, Active
    <3>4. EndCovers(c)'
      BY <1>2, <2>1 DEF EndCovers, Closed
    <3>2. NotYetOpen(c)' /\ OpenIsActive(c)'
      BY <1>2, <1>3, <2>1 DEF NotYetOpen, OpenIsActive, Active
    <3>3. /\ HeartbeatHolds(c)' /\ CloserHolds(c)'
          /\ ReaperHolds(c)' /\ FinalizerHolds(c)'
      BY <2>1 DEF HeartbeatHolds, CloserHolds, ReaperHolds, FinalizerHolds
    <3> QED
      BY <3>1, <3>2, <3>3, <3>4 DEF ConnInv
  <2> QED
    BY <1>1, <2>1, <2>2, <2>3, HandlerStep, ZenonT(60)
       DEF MarkActive, Closed, IInv, RecordsOK
<1>5. CASE UNCHANGED <<session, holds>> /\ conn'[c] = "unrecorded"
  <2>1. RecordsOK'
    BY <1>3, <1>5, ZenonT(60) DEF IInv, RecordsOK, MarkActive
  <2>2. ConnInv(c)'
    BY <1>1, <1>5 DEF IInv, MarkActive, ConnInv, ActiveInOrder,
       HeartbeatHolds, CloserHolds, ReaperHolds, FinalizerHolds, NotYetOpen,
       EndCovers, OpenIsActive, Active, Closed
  <2> QED
    BY <1>5, <2>1, <2>2, HandlerStep DEF MarkActive, Closed, IInv, RecordsOK
<1> QED
  BY <1>3, <1>4, <1>5 DEF MarkActive, IInv, RecordsOK

\* The heartbeat's copy is current and its stamp is now.
LEMMA HeartbeatGetInv ==
    ASSUME IInv, NEW c \in Conns, HeartbeatGet(c) PROVE IInv'
<1>1. /\ holds' \in [Conns -> SUBSET Clients]
      /\ holds'[c] = holds[c] \cup {"heartbeat"}
      /\ \A d \in Conns \ {c} : holds'[d] = holds[d]
  BY GetFacts DEF IInv, HeartbeatGet, Clients
<1>2. beat' \in [Conns -> Time] /\ beat'[c] = clock /\ clock \in Nat
  BY DEF IInv, RecordsOK, HeartbeatGet, Time
<1>3. RecordsOK'
  BY <1>1, <1>2, ZenonT(60) DEF IInv, RecordsOK, HeartbeatGet
<1>4. /\ ActiveInOrder(c)' /\ NotYetOpen(c)' /\ EndCovers(c)'
      /\ OpenIsActive(c)'
  BY ZenonT(60) DEF IInv, HeartbeatGet, ConnInv, ActiveInOrder, NotYetOpen, EndCovers,
     OpenIsActive, Active, Closed
<1>5. HeartbeatHolds(c)'
  BY <1>2 DEF IInv, HeartbeatGet, ConnInv, ActiveInOrder, HeartbeatHolds,
     Active
<1>6. CloserHolds(c)' /\ ReaperHolds(c)' /\ FinalizerHolds(c)'
  BY <1>1 DEF IInv, HeartbeatGet, ConnInv, CloserHolds, ReaperHolds,
     FinalizerHolds, Active
<1>7. ConnInv(c)'
  BY <1>4, <1>5, <1>6, Zenon DEF ConnInv
<1> QED
  BY <1>1, <1>3, <1>7, HandlerStep, Zenon DEF HeartbeatGet, Closed, IInv, RecordsOK

(***************************************************************************)
(* A client whose call ends without a write: one copy less, its stamp      *)
(* cleared.                                                                *)
(***************************************************************************)
LEMMA DropKeeps ==
    ASSUME IInv, NEW c \in Conns, NEW w \in Clients, Drop(c, w),
           UNCHANGED <<clock, rec, fin>>,
           w = "heartbeat" \/ beat'[c] = beat[c],
           w = "closer" \/ (closeAt'[c] = closeAt[c] /\ conn'[c] = conn[c]),
           conn'[c] = conn[c] \/ conn'[c] \notin {"start", "creating", "open"}
    PROVE  ConnInv(c)'
<1>1. session' = session /\ holds'[c] = holds[c] \ {w}
  BY DropFacts, ZenonT(60) DEF IInv
<1>2. /\ ActiveInOrder(c)' /\ EndCovers(c)'
      /\ NotYetOpen(c)' /\ OpenIsActive(c)'
  BY <1>1, ZenonT(60) DEF IInv, ConnInv, ActiveInOrder, NotYetOpen, EndCovers,
     OpenIsActive, Active, Closed
<1>3. HeartbeatHolds(c)' /\ CloserHolds(c)'
  BY <1>1, ZenonT(60) DEF IInv, ConnInv, HeartbeatHolds, CloserHolds, Active
<1>4. ReaperHolds(c)' /\ FinalizerHolds(c)'
  BY <1>1 DEF IInv, ConnInv, ReaperHolds, FinalizerHolds, Active
<1> QED
  BY <1>2, <1>3, <1>4 DEF ConnInv

\* A heartbeat is written only over the version it read, so in order.
LEMMA HeartbeatUpdateInv ==
    ASSUME IInv, NEW c \in Conns, HeartbeatUpdate(c) PROVE IInv'
<1> DEFINE z == [session[c] EXCEPT !.last = beat[c]]
<1>1. beat' \in [Conns -> Time] /\ \A d \in Conns \ {c} : beat'[d] = beat[d]
  BY DEF IInv, RecordsOK, HeartbeatUpdate, Time
<1>2. CASE "heartbeat" \in holds[c] /\ Store(c, z)
  <2>1. /\ session[c] \in Session /\ session[c].state = "Active"
        /\ beat[c] \in Nat /\ beat[c] \in Time /\ clock \in Nat
        /\ session[c].start \in Nat /\ session[c].last \in Nat
        /\ session[c].start <= session[c].last
        /\ session[c].last <= beat[c] /\ beat[c] <= clock
    BY <1>2 DEF IInv, RecordsOK, ConnInv, HeartbeatHolds, ActiveInOrder, Active,
       Time
  <2>2. /\ z \in Session /\ z.state = "Active" /\ z.last = beat[c]
        /\ z.start = session[c].start
    BY <2>1, Zenon DEF Session
  <2> HIDE DEF z
  <2>3. /\ session' \in [Conns -> Session]
        /\ holds' \in [Conns -> SUBSET Clients]
        /\ session'[c] = z /\ holds'[c] = {}
        /\ \A d \in Conns \ {c} : /\ session'[d] = session[d]
                                  /\ holds'[d] = holds[d]
    BY <1>2, <2>2, StoreFacts DEF IInv
  <2>4. RecordsOK'
    BY <1>1, <2>3 DEF IInv, RecordsOK, HeartbeatUpdate
  <2>5. ActiveInOrder(c)' /\ EndCovers(c)'
    BY <2>1, <2>2, <2>3 DEF HeartbeatUpdate, ActiveInOrder, EndCovers, Active,
       Closed
  <2>6. NotYetOpen(c)' /\ OpenIsActive(c)'
    BY <2>1, <2>2, <2>3 DEF IInv, HeartbeatUpdate, ConnInv, NotYetOpen,
       OpenIsActive, Active
  <2>7. /\ HeartbeatHolds(c)' /\ CloserHolds(c)'
        /\ ReaperHolds(c)' /\ FinalizerHolds(c)'
    BY <2>3 DEF HeartbeatHolds, CloserHolds, ReaperHolds, FinalizerHolds
  <2>8. ConnInv(c)'
    BY <2>5, <2>6, <2>7 DEF ConnInv
  <2> QED
    BY <1>1, <2>1, <2>3, <2>4, <2>8, HandlerStep DEF HeartbeatUpdate, Closed
<1>3. CASE Drop(c, "heartbeat")
  <2>1. /\ session' = session
        /\ holds' \in [Conns -> SUBSET Clients]
        /\ \A d \in Conns \ {c} : holds'[d] = holds[d]
    BY <1>3, DropFacts DEF IInv
  <2>2. RecordsOK'
    BY <1>1, <2>1 DEF IInv, RecordsOK, HeartbeatUpdate
  <2>3. ConnInv(c)'
    BY <1>3, DropKeeps DEF HeartbeatUpdate, Clients
  <2> QED
    BY <1>1, <2>1, <2>2, <2>3, HandlerStep DEF HeartbeatUpdate, Closed
<1> QED
  BY <1>2, <1>3 DEF HeartbeatUpdate, StatusUpdate

\* The closer's copy is current and its stamp is now.
LEMMA CloseGetInv == ASSUME IInv, NEW c \in Conns, CloseGet(c) PROVE IInv'
<1>1. conn' \in [Conns -> Handlers] /\ \A d \in Conns \ {c} : conn'[d] = conn[d]
  BY Zenon DEF IInv, RecordsOK, CloseGet, Handlers
<1>2. CASE /\ Active(c) /\ Get(c, "closer")
           /\ closeAt' = [closeAt EXCEPT ![c] = clock]
           /\ conn' = [conn EXCEPT ![c] = "closing"]
  <2>1. /\ holds' \in [Conns -> SUBSET Clients]
        /\ holds'[c] = holds[c] \cup {"closer"}
        /\ \A d \in Conns \ {c} : holds'[d] = holds[d]
    BY <1>2, GetFacts DEF IInv, Clients
  <2>2. /\ closeAt' \in [Conns -> Time] /\ closeAt'[c] = clock
        /\ \A d \in Conns \ {c} : closeAt'[d] = closeAt[d]
        /\ conn'[c] = "closing" /\ clock \in Nat
    BY <1>2, ZenonT(60) DEF IInv, RecordsOK, Time
  <2>3. RecordsOK'
    BY <1>1, <2>1, <2>2, Zenon DEF IInv, RecordsOK, CloseGet
  <2>4. ActiveInOrder(c)' /\ EndCovers(c)'
    BY DEF IInv, CloseGet, ConnInv, ActiveInOrder, EndCovers, Active, Closed
  <2>5. NotYetOpen(c)' /\ OpenIsActive(c)'
    BY <2>2, Zenon DEF NotYetOpen, OpenIsActive
  <2>6. CloserHolds(c)'
    BY <1>2, <2>2 DEF IInv, CloseGet, ConnInv, ActiveInOrder, CloserHolds,
       Active
  <2>7. HeartbeatHolds(c)' /\ ReaperHolds(c)' /\ FinalizerHolds(c)'
    BY <2>1 DEF IInv, CloseGet, ConnInv, HeartbeatHolds, ReaperHolds,
       FinalizerHolds, Active
  <2>8. ConnInv(c)'
    BY <2>4, <2>5, <2>6, <2>7, Zenon DEF ConnInv
  <2> QED
    BY <1>1, <2>1, <2>2, <2>3, <2>8, HandlerStep, Zenon DEF CloseGet, Closed
<1>3. CASE /\ conn[c] \in {"open", "unrecorded"}
           /\ conn' = [conn EXCEPT ![c] = "done"]
           /\ UNCHANGED <<holds, closeAt>>
  <2>1. conn'[c] = "done"
    BY <1>3, Zenon DEF IInv, RecordsOK
  <2>2. RecordsOK'
    BY <1>1, <1>3, Zenon DEF IInv, RecordsOK, CloseGet
  <2>3. ActiveInOrder(c)' /\ EndCovers(c)'
    BY DEF IInv, CloseGet, ConnInv, ActiveInOrder, EndCovers, Active, Closed
  <2>4. NotYetOpen(c)' /\ OpenIsActive(c)'
    BY <2>1, Zenon DEF NotYetOpen, OpenIsActive
  <2>5. HeartbeatHolds(c)' /\ CloserHolds(c)'
    BY <1>3, Zenon DEF IInv, CloseGet, ConnInv, HeartbeatHolds, CloserHolds, Active
  <2>6. ReaperHolds(c)' /\ FinalizerHolds(c)'
    BY <1>3 DEF IInv, CloseGet, ConnInv, ReaperHolds, FinalizerHolds, Active
  <2>7. ConnInv(c)'
    BY <2>3, <2>4, <2>5, <2>6 DEF ConnInv
  <2> QED
    BY <1>1, <1>3, <2>2, <2>7, HandlerStep DEF CloseGet, Closed
<1> QED
  BY <1>2, <1>3 DEF CloseGet

\* The closer writes over the version it read, or not at all.
LEMMA CloseUpdateInv ==
    ASSUME IInv, NEW c \in Conns, CloseUpdate(c) PROVE IInv'
<1>1. /\ conn' \in [Conns -> Handlers] /\ conn'[c] = "done"
      /\ closeAt' \in [Conns -> Time]
      /\ \A d \in Conns \ {c} : conn'[d] = conn[d] /\ closeAt'[d] = closeAt[d]
  BY DEF IInv, RecordsOK, CloseUpdate, Handlers, Time
<1>2. CASE /\ "closer" \in holds[c]
           /\ Store(c, [session[c] EXCEPT !.state = "Closed",
                                          !.end = closeAt[c],
                                          !.exitReason = "Disconnected"])
  <2>1. /\ Active(c) /\ closeAt[c] \in Nat
        /\ session[c].last <= closeAt[c] /\ closeAt[c] <= clock
    BY <1>2, Zenon DEF IInv, ConnInv, CloserHolds
  <2>2. /\ session' \in [Conns -> Session]
        /\ holds' \in [Conns -> SUBSET Clients]
        /\ \A d \in Conns \ {c} : /\ session'[d] = session[d]
                                  /\ holds'[d] = holds[d]
        /\ ConnInv(c)'
    BY <1>1, <1>2, <2>1, ClosingStore, Zenon DEF CloseUpdate, Reasons
  <2>3. RecordsOK'
    BY <1>1, <2>2 DEF IInv, RecordsOK, CloseUpdate
  <2> QED
    BY <1>1, <2>1, <2>2, <2>3, HandlerStep DEF CloseUpdate, Active, Closed
<1>3. CASE Drop(c, "closer")
  <2>1. /\ session' = session
        /\ holds' \in [Conns -> SUBSET Clients]
        /\ \A d \in Conns \ {c} : holds'[d] = holds[d]
    BY <1>3, DropFacts DEF IInv
  <2>2. RecordsOK'
    BY <1>1, <2>1 DEF IInv, RecordsOK, CloseUpdate
  <2>3. ConnInv(c)'
    BY <1>1, <1>3, DropKeeps, Zenon DEF CloseUpdate, Clients
  <2> QED
    BY <1>1, <2>1, <2>2, <2>3, HandlerStep DEF CloseUpdate, Closed
<1> QED
  BY <1>2, <1>3 DEF CloseUpdate, StatusUpdate

\* A crash drops the gateway's copies with its handlers.
LEMMA GatewayCrashInv == ASSUME IInv, GatewayCrash PROVE IInv'
<1>1. RecordsOK'
  BY DEF IInv, RecordsOK, GatewayCrash, Handlers, Time
<1>2. ASSUME NEW d \in Conns PROVE ConnInv(d)'
  <2>1. /\ holds'[d] = holds[d] \ {"heartbeat", "closer"}
        /\ conn'[d] = (IF conn[d] = "start" THEN "start" ELSE "done")
        /\ UNCHANGED <<clock, session, rec, fin>>
    BY DEF GatewayCrash
  <2>2. ConnInv(d)
    BY Zenon DEF IInv
  <2>3. /\ ActiveInOrder(d)' /\ EndCovers(d)'
        /\ NotYetOpen(d)' /\ OpenIsActive(d)'
    BY <2>1, <2>2 DEF ConnInv, ActiveInOrder, NotYetOpen, EndCovers,
       OpenIsActive, Active, Closed
  <2>4. HeartbeatHolds(d)' /\ CloserHolds(d)'
    BY <2>1, Zenon DEF HeartbeatHolds, CloserHolds
  <2>5. ReaperHolds(d)' /\ FinalizerHolds(d)'
    BY <2>1, <2>2, Zenon DEF ConnInv, ReaperHolds, FinalizerHolds, Active
  <2> QED
    BY <2>3, <2>4, <2>5, ZenonT(60) DEF ConnInv
<1>3. WorkerOnSession'
  BY Zenon DEF IInv, GatewayCrash, WorkerOnSession, Closed
<1> QED
  BY <1>1, <1>2, <1>3 DEF IInv

\* The reaper's copy is current, and stale past the deadline.
LEMMA ReapGetInv == ASSUME IInv, NEW c \in Conns, ReapGet(c) PROVE IInv'
<1>1. /\ holds' \in [Conns -> SUBSET Clients]
      /\ holds'[c] = holds[c] \cup {"reaper"}
      /\ \A d \in Conns \ {c} : holds'[d] = holds[d]
  BY GetFacts, Zenon DEF IInv, ReapGet, Clients
<1>2. /\ session[c].last \in Nat /\ clock \in Nat
      /\ lastSeen(session[c]) = session[c].last
  BY DEF IInv, RecordsOK, ReapGet, ConnInv, ActiveInOrder, lastSeen, Nil
<1>3. /\ rec' = [at |-> "reap", c |-> c, end |-> session[c].last]
      /\ clock - session[c].last > Deadline
  BY <1>2, Zenon DEF ReapGet
<1>4. RecordsOK'
  BY <1>1, <1>2, <1>3 DEF IInv, RecordsOK, ReapGet, Time
<1>5. ConnInv(c)'
  <2>1. /\ ActiveInOrder(c)' /\ NotYetOpen(c)' /\ EndCovers(c)'
        /\ OpenIsActive(c)'
    BY DEF IInv, ReapGet, ConnInv, ActiveInOrder, NotYetOpen, EndCovers,
       OpenIsActive, Active, Closed
  <2>2. ReaperHolds(c)'
    BY <1>3 DEF ReapGet, ReaperHolds, Active, Deadline
  <2>3. HeartbeatHolds(c)' /\ CloserHolds(c)' /\ FinalizerHolds(c)'
    BY <1>1, Zenon DEF IInv, ReapGet, ConnInv, HeartbeatHolds, CloserHolds,
       FinalizerHolds, Active
  <2> QED
    BY <2>1, <2>2, <2>3, Zenon DEF ConnInv
<1>6. OthersSame(c)
  BY <1>1, Zenon DEF IInv, ReapGet, Take, OthersSame, ConnInv, ReaperHolds
<1>7. WorkerOnSession'
  BY <1>3 DEF WorkerOnSession
<1> QED
  BY <1>4, <1>5, <1>6, <1>7, OneSession, Zenon DEF ReapGet

\* The reaper closes the version it found stale, or nothing.
LEMMA ReapUpdateInv == ASSUME IInv, ReapUpdate PROVE IInv'
<1>0. PICK c \in Conns : rec.c = c
  BY DEF IInv, WorkerOnSession, ReapUpdate
<1>1. /\ rec' = NoWork
      /\ UNCHANGED <<clock, conn, beat, closeAt, fin, lastActivity, laCache>>
  BY DEF ReapUpdate
<1>2. NoWork \in [at : {"idle", "reap", "bump", "collect"},
                  c : Conns \cup {Nil}, end : Time]
  BY DEF NoWork, Time
<1>3. WorkerOnSession'
  BY <1>1, Zenon DEF WorkerOnSession, NoWork
<1>4. \A d \in Conns \ {c} : "reaper" \notin holds[d]
  BY <1>0, Zenon DEF IInv, ConnInv, ReaperHolds
<1>5. CASE /\ "reaper" \in holds[c]
           /\ Store(c, [session[c] EXCEPT !.state = "Closed", !.end = rec.end,
                                          !.exitReason = "StaleHeartbeat"])
  <2>0. Active(c) /\ conn[c] \notin {"start", "creating"}
    BY <1>5 DEF IInv, ConnInv, ReaperHolds, NotYetOpen, Active
  <2>1. /\ rec.end \in Nat
        /\ session[c].last <= rec.end /\ rec.end <= clock
    BY <1>5, <2>0 DEF IInv, ConnInv, ReaperHolds, ActiveInOrder
  <2>2. /\ session' \in [Conns -> Session]
        /\ holds' \in [Conns -> SUBSET Clients]
        /\ \A d \in Conns \ {c} : /\ session'[d] = session[d]
                                  /\ holds'[d] = holds[d]
        /\ ConnInv(c)'
    BY <1>1, <1>5, <2>0, <2>1, ClosingStore, Zenon DEF Reasons
  <2>3. RecordsOK'
    BY <1>1, <1>2, <2>2, Zenon DEF IInv, RecordsOK
  <2>4. OthersSame(c)
    BY <1>1, <1>4, <2>2 DEF OthersSame
  <2> QED
    BY <1>1, <1>3, <2>2, <2>3, <2>4, OneSession
<1>6. CASE Drop(c, "reaper")
  <2>1. /\ session' = session
        /\ holds' \in [Conns -> SUBSET Clients]
        /\ holds'[c] = holds[c] \ {"reaper"}
        /\ \A d \in Conns \ {c} : holds'[d] = holds[d]
    BY <1>1, <1>6, DropFacts, Zenon DEF IInv
  <2>2. RecordsOK'
    BY <1>1, <1>2, <2>1, Zenon DEF IInv, RecordsOK
  <2>3. ConnInv(c)'
    <3>1. /\ ActiveInOrder(c)' /\ EndCovers(c)'
          /\ NotYetOpen(c)' /\ OpenIsActive(c)'
      BY <1>1, <2>1, ZenonT(60)
         DEF IInv, ConnInv, ActiveInOrder, NotYetOpen, EndCovers,
         OpenIsActive, Active, Closed
    <3>2. HeartbeatHolds(c)' /\ CloserHolds(c)'
      BY <1>1, <2>1, Zenon DEF IInv, ConnInv, HeartbeatHolds, CloserHolds, Active
    <3>3. ReaperHolds(c)' /\ FinalizerHolds(c)'
      BY <1>1, <2>1, Zenon DEF IInv, ConnInv, ReaperHolds, FinalizerHolds, Active
    <3> QED
      BY <3>1, <3>2, <3>3 DEF ConnInv
  <2>4. OthersSame(c)
    BY <1>1, <1>4, <2>1 DEF OthersSame
  <2> QED
    BY <1>1, <1>3, <2>2, <2>3, <2>4, OneSession, Zenon
<1> QED
  BY <1>0, <1>5, <1>6 DEF ReapUpdate, StatusUpdate

(***************************************************************************)
(* Steps that touch neither sessions, copies nor handlers: the worker or   *)
(* the sandbox's idle clock moves.                                         *)
(***************************************************************************)
LEMMA QuietStep ==
    ASSUME IInv, RecordsOK', WorkerOnSession', rec.at # "reap" \/ rec' = rec,
           UNCHANGED <<clock, session, holds, conn, beat, closeAt, fin>>
    PROVE  IInv'
<1>1. ASSUME NEW d \in Conns PROVE ConnInv(d)'
  <2>1. ConnInv(d) /\ clock \in Nat /\ rec.end \in Int
    BY DEF IInv, RecordsOK, Time, Nil
  <2>2. /\ "reaper" \in holds'[d] => rec' = rec
        /\ "finalizer" \in holds'[d] => d \in fin'.todo
    BY <2>1, Zenon DEF ConnInv, ReaperHolds, FinalizerHolds
  <2> QED
    BY <2>1, <2>2, Frame
<1> QED
  BY <1>1, Zenon DEF IInv

\* A pass that only queues, or does not queue, the session.
LEMMA LookInv ==
    ASSUME IInv, NEW c \in Conns, Ignore(c) \/ Recheck(c) PROVE IInv'
<1>1. UNCHANGED <<clock, session, holds, conn, beat, closeAt, rec, fin,
                  lastActivity, laCache>>
  BY Zenon DEF Ignore, Recheck
<1>2. RecordsOK'
  BY <1>1, ZenonT(60) DEF IInv, RecordsOK
<1>3. WorkerOnSession'
  BY <1>1 DEF IInv, WorkerOnSession, Closed
<1> QED
  BY <1>1, <1>2, <1>3, QuietStep, Zenon

(***************************************************************************)
(* A pass that fails, or whose operator is replaced: the worker and its    *)
(* copies are gone.                                                        *)
(***************************************************************************)
LEMMA PassEndsInv == ASSUME IInv, PassFails \/ OperatorRestart PROVE IInv'
<1>1. /\ rec' = NoWork
      /\ UNCHANGED <<clock, session, conn, beat, closeAt, fin, lastActivity>>
      /\ laCache' \in Time
  BY Zenon DEF IInv, RecordsOK, PassFails, OperatorRestart
<1>2. NoWork \in [at : {"idle", "reap", "bump", "collect"},
                  c : Conns \cup {Nil}, end : Time]
  BY DEF NoWork, Time
<1>3. /\ holds' \in [Conns -> SUBSET Clients]
      /\ \A d \in Conns : holds'[d] \subseteq holds[d] /\ "reaper" \notin holds'[d]
  <2>1. CASE PassFails
    <3>1. PICK c \in Conns : rec.c = c
      BY <2>1, Zenon DEF IInv, WorkerOnSession, PassFails
    <3>2. \A d \in Conns \ {c} : "reaper" \notin holds[d]
      BY <3>1, Zenon DEF IInv, ConnInv, ReaperHolds
    <3> QED
      BY <2>1, <3>1, <3>2 DEF IInv, RecordsOK, PassFails
  <2>2. CASE OperatorRestart
    BY <2>2 DEF IInv, RecordsOK, OperatorRestart
  <2> QED
    BY <2>1, <2>2
<1>4. RecordsOK'
  BY <1>1, <1>2, <1>3, Zenon DEF IInv, RecordsOK
<1>5. ASSUME NEW d \in Conns PROVE ConnInv(d)'
  <2>1. ConnInv(d) /\ clock \in Nat /\ rec.end \in Int
    BY Clocks, Zenon DEF IInv
  <2>2. /\ clock' \in Nat /\ clock <= clock'
        /\ session'[d] = session[d] /\ conn'[d] = conn[d]
        /\ beat'[d] = beat[d] /\ closeAt'[d] = closeAt[d] /\ fin' = fin
    BY <1>1, <2>1
  <2>3. "finalizer" \in holds'[d] => d \in fin'.todo
    BY <1>3, <2>1, <2>2, Zenon DEF ConnInv, FinalizerHolds
  <2> QED
    BY <1>3, <2>1, <2>2, <2>3, Frame, Zenon
<1>6. WorkerOnSession'
  BY <1>1, Zenon DEF WorkerOnSession, NoWork
<1> QED
  BY <1>4, <1>5, <1>6, Zenon DEF IInv

\* The worker takes up a Closed session; no session is touched.
LEMMA BumpGetInv == ASSUME IInv, NEW c \in Conns, BumpGet(c) PROVE IInv'
<1>1. RecordsOK'
  BY Zenon DEF IInv, RecordsOK, BumpGet, Time
<1>2. WorkerOnSession'
  BY DEF BumpGet, WorkerOnSession, Closed
<1> QED
  BY <1>1, <1>2, QuietStep, Zenon DEF BumpGet, Take

\* The patch is on the sandbox; the worker stays on its Closed session.
LEMMA BumpPatchInv == ASSUME IInv, BumpPatch PROVE IInv'
<1>1. /\ rec.c \in Conns /\ Closed(rec.c)
      /\ rec'.at = "collect" /\ rec'.c = rec.c
      /\ rec' \in [at : {"idle", "reap", "bump", "collect"},
                   c : Conns \cup {Nil}, end : Time]
  BY DEF IInv, RecordsOK, WorkerOnSession, BumpPatch
<1>2. lastActivity' \in Time
  BY <1>1 DEF IInv, RecordsOK, BumpPatch, ConnInv, EndCovers, Time
<1>3. RecordsOK'
  BY <1>1, <1>2 DEF IInv, RecordsOK, BumpPatch
<1>4. WorkerOnSession'
  BY <1>1 DEF BumpPatch, WorkerOnSession, Closed
<1> QED
  BY <1>3, <1>4, QuietStep DEF BumpPatch

\* Starting the idle clock touches no session.
LEMMA StartIdleClockInv == ASSUME IInv, StartIdleClock PROVE IInv'
<1>1. RecordsOK'
  BY DEF IInv, RecordsOK, StartIdleClock, Time
<1>2. WorkerOnSession'
  BY DEF IInv, StartIdleClock, WorkerOnSession, Closed
<1> QED
  BY <1>1, <1>2, QuietStep, Zenon DEF StartIdleClock

\* The operator's cache of the sandbox touches no session.
LEMMA CacheSyncInv == ASSUME IInv, CacheSync PROVE IInv'
<1>1. RecordsOK'
  BY DEF IInv, RecordsOK, CacheSync
<1>2. WorkerOnSession'
  BY Zenon DEF IInv, CacheSync, WorkerOnSession, Closed
<1> QED
  BY <1>1, <1>2, QuietStep, Zenon DEF CacheSync

\* Only a Closed session is collected; why it ended is kept.
LEMMA CollectInv == ASSUME IInv, Collect PROVE IInv'
<1>0. PICK c \in Conns : rec.c = c
  BY Zenon DEF IInv, WorkerOnSession, Collect
<1>1. /\ Closed(c) /\ session[c] \in Session
      /\ rec' = NoWork /\ rec.at = "collect"
      /\ UNCHANGED <<clock, conn, beat, closeAt, fin, lastActivity, laCache>>
  BY <1>0, Zenon DEF IInv, RecordsOK, WorkerOnSession, Collect
<1>2. NoWork \in [at : {"idle", "reap", "bump", "collect"},
                  c : Conns \cup {Nil}, end : Time]
  BY DEF NoWork, Time
<1>3. WorkerOnSession'
  BY <1>1, Zenon DEF WorkerOnSession, NoWork
<1>4. \A d \in Conns : "reaper" \notin holds[d]
  BY <1>1 DEF IInv, ConnInv, ReaperHolds
<1>5. CASE Store(c, Removed(session[c]))
  <2>1. /\ Removed(session[c]) \in Session
        /\ Removed(session[c]).state = "removed"
        /\ Removed(session[c]).exitReason = session[c].exitReason
    BY <1>1, RemovedRecord, Zenon
  <2>2. /\ session' \in [Conns -> Session]
        /\ holds' \in [Conns -> SUBSET Clients]
        /\ session'[c] = Removed(session[c]) /\ holds'[c] = {}
        /\ \A d \in Conns \ {c} : /\ session'[d] = session[d]
                                  /\ holds'[d] = holds[d]
    BY <1>1, <1>5, <2>1, StoreFacts, Zenon DEF IInv
  <2>3. RecordsOK'
    BY <1>1, <1>2, <2>2, Zenon DEF IInv, RecordsOK
  <2>4. ConnInv(c)'
    <3>1. ActiveInOrder(c)' /\ EndCovers(c)'
      BY <2>1, <2>2, ZenonT(60) DEF ActiveInOrder, EndCovers, Active, Closed
    <3>2. NotYetOpen(c)' /\ OpenIsActive(c)'
      BY <1>1, <2>1, <2>2, ZenonT(60)
         DEF IInv, ConnInv, NotYetOpen, OpenIsActive, Active,
         Closed
    <3>3. /\ HeartbeatHolds(c)' /\ CloserHolds(c)'
          /\ ReaperHolds(c)' /\ FinalizerHolds(c)'
      BY <2>2, ZenonT(60) DEF HeartbeatHolds, CloserHolds, ReaperHolds, FinalizerHolds
    <3> QED
      BY <3>1, <3>2, <3>3, Zenon DEF ConnInv
  <2>5. OthersSame(c)
    BY <1>1, <1>4, <2>2 DEF OthersSame
  <2> QED
    BY <1>1, <1>3, <2>3, <2>4, <2>5, OneSession
<1>6. CASE UNCHANGED <<session, holds>>
  <2>1. RecordsOK'
    BY <1>1, <1>2, <1>6 DEF IInv, RecordsOK
  <2> QED
    BY <1>1, <1>3, <1>6, <2>1, QuietStep, Zenon
<1> QED
  BY <1>0, <1>5, <1>6, Zenon DEF Collect

\* The finalizer's copies are current and its stamp is now.
LEMMA ListSessionsInv == ASSUME IInv, ListSessions PROVE IInv'
<1>1. PICK seen \in SUBSET {c \in Conns : Active(c)} :
          /\ fin' = [at |-> "closing", todo |-> seen, now |-> clock]
          /\ holds' = [c \in Conns |-> IF c \in seen
                                       THEN holds[c] \cup {"finalizer"}
                                       ELSE holds[c]]
  BY ZenonT(60) DEF ListSessions
<1>2. /\ fin.at = "idle" /\ clock \in Nat
      /\ UNCHANGED <<clock, session, conn, beat, closeAt, rec, lastActivity,
                     laCache>>
  BY DEF IInv, RecordsOK, ListSessions
<1>3. RecordsOK'
  <2>1. holds' \in [Conns -> SUBSET Clients]
    BY <1>1 DEF IInv, RecordsOK, Clients
  <2>2. fin' \in [at : {"idle", "closing", "gone"}, todo : SUBSET Conns,
                  now : Time]
    BY <1>1, <1>2 DEF Time
  <2> QED
    BY <1>2, <2>1, <2>2 DEF IInv, RecordsOK
<1>4. ASSUME NEW d \in Conns PROVE ConnInv(d)'
  <2>1. /\ ConnInv(d) /\ "finalizer" \notin holds[d]
        /\ d \in seen => Active(d)
        /\ holds'[d] = IF d \in seen THEN holds[d] \cup {"finalizer"}
                       ELSE holds[d]
    BY <1>1, <1>2 DEF IInv, ConnInv, FinalizerHolds
  <2>0. \A w : w # "finalizer" => (w \in holds'[d] <=> w \in holds[d])
    BY <2>1, ZenonT(60)
  <2>2. ActiveInOrder(d)' /\ EndCovers(d)'
    BY <1>2, <2>1 DEF ConnInv, ActiveInOrder, EndCovers, Active, Closed
  <2>3. NotYetOpen(d)' /\ OpenIsActive(d)'
    <3>1. NotYetOpen(d)'
      BY <1>2, <2>1 DEF ConnInv, NotYetOpen
    <3>2. OpenIsActive(d)'
      BY <1>2, <2>1 DEF ConnInv, OpenIsActive, Active
    <3> QED
      BY <3>1, <3>2, ZenonT(60)
  <2>4. HeartbeatHolds(d)' /\ CloserHolds(d)' /\ ReaperHolds(d)'
    <3>1. HeartbeatHolds(d)'
      BY <1>2, <2>0, <2>1, Zenon DEF ConnInv, HeartbeatHolds, Active
    <3>2. CloserHolds(d)'
      BY <1>2, <2>0, <2>1, ZenonT(60) DEF ConnInv, CloserHolds, Active
    <3>3. ReaperHolds(d)'
      BY <1>2, <2>0, <2>1 DEF ConnInv, ReaperHolds, Active
    <3> QED
      BY <3>1, <3>2, <3>3, Zenon
  <2>5. FinalizerHolds(d)'
    <3>1. CASE d \in seen
      <4>1. Active(d)' /\ fin'.at = "closing" /\ d \in fin'.todo
        BY <1>1, <1>2, <2>1, <3>1, Zenon DEF Active
      <4>2. fin'.now = clock /\ session[d].last <= clock
        BY <1>1, <2>1, <3>1, Zenon DEF ConnInv, ActiveInOrder
      <4> QED
        BY <1>2, <4>1, <4>2 DEF FinalizerHolds
    <3>2. CASE d \notin seen
      BY <2>1, <3>2, Zenon DEF FinalizerHolds
    <3> QED
      BY <3>1, <3>2, Zenon
  <2> QED
    BY <2>2, <2>3, <2>4, <2>5 DEF ConnInv
<1>5. WorkerOnSession'
  BY <1>2 DEF IInv, WorkerOnSession, Closed
<1> QED
  BY <1>3, <1>4, <1>5, Zenon DEF IInv

\* The finalizer closes the version it listed, skips a removed one, or aborts.
LEMMA CloseListedInv ==
    ASSUME IInv, NEW c \in Conns, CloseListed(c) PROVE IInv'
<1>1. /\ fin.at = "closing" /\ fin \in [at : {"idle", "closing", "gone"},
                                        todo : SUBSET Conns, now : Time]
      /\ UNCHANGED <<clock, conn, beat, closeAt, rec, lastActivity, laCache>>
  BY ZenonT(60) DEF IInv, RecordsOK, CloseListed
<1>2. CASE /\ "finalizer" \in holds[c]
           /\ Store(c, [session[c] EXCEPT !.state = "Closed",
                                          !.end = fin.now,
                                          !.exitReason = "SandboxDeleted"])
           /\ fin' = [fin EXCEPT !.todo = @ \ {c}]
  <2>0. Active(c) /\ conn[c] \notin {"start", "creating"}
    BY <1>2 DEF IInv, ConnInv, FinalizerHolds, NotYetOpen, Active
  <2>1. /\ fin.now \in Nat
        /\ session[c].last <= fin.now /\ fin.now <= clock
    BY <1>2, Zenon DEF IInv, ConnInv, FinalizerHolds
  <2>2. /\ session' \in [Conns -> Session]
        /\ holds' \in [Conns -> SUBSET Clients]
        /\ \A d \in Conns \ {c} : /\ session'[d] = session[d]
                                  /\ holds'[d] = holds[d]
        /\ Closed(c)'
        /\ ConnInv(c)'
    BY <1>1, <1>2, <2>0, <2>1, ClosingStore, Zenon DEF Reasons
  <2>3. /\ fin' \in [at : {"idle", "closing", "gone"}, todo : SUBSET Conns,
                     now : Time]
        /\ fin'.at = fin.at /\ fin'.now = fin.now
        /\ fin'.todo = fin.todo \ {c}
    BY <1>1, <1>2, Zenon
  <2>4. RecordsOK'
    BY <1>1, <2>2, <2>3, Zenon DEF IInv, RecordsOK
  <2>5. OthersSame(c)
    BY <1>1, <2>2, <2>3, ZenonT(60) DEF OthersSame
  <2>6. WorkerOnSession'
    BY <1>1, <2>2, Zenon DEF IInv, WorkerOnSession, Closed
  <2> QED
    BY <1>1, <2>2, <2>4, <2>5, <2>6, OneSession
<1>3. CASE /\ session[c].state = "removed"
           /\ fin' = [fin EXCEPT !.todo = @ \ {c}]
           /\ UNCHANGED <<session, holds>>
  <2>1. /\ fin' \in [at : {"idle", "closing", "gone"}, todo : SUBSET Conns,
                     now : Time]
        /\ fin'.at = fin.at /\ fin'.now = fin.now
        /\ fin'.todo = fin.todo \ {c}
    BY <1>1, <1>3
  <2>2. RecordsOK'
    BY <1>1, <1>3, <2>1 DEF IInv, RecordsOK
  <2>3. OthersSame(c)
    BY <1>1, <1>3, <2>1 DEF OthersSame
  <2>4. ConnInv(c)'
    <3>1. holds[c] \cap Clients = {}
      BY <1>3 DEF IInv, ConnInv, HeartbeatHolds, CloserHolds, ReaperHolds,
         FinalizerHolds, Active, Clients
    <3>2. /\ HeartbeatHolds(c)' /\ CloserHolds(c)'
          /\ ReaperHolds(c)' /\ FinalizerHolds(c)'
      BY <1>3, <3>1, Zenon DEF HeartbeatHolds, CloserHolds, ReaperHolds,
         FinalizerHolds, Clients
    <3>3. /\ ActiveInOrder(c)' /\ EndCovers(c)'
          /\ NotYetOpen(c)' /\ OpenIsActive(c)'
      BY <1>1, <1>3 DEF IInv, ConnInv, ActiveInOrder, EndCovers, NotYetOpen,
         OpenIsActive, Active, Closed
    <3> QED
      BY <3>2, <3>3 DEF ConnInv
  <2>5. WorkerOnSession'
    BY <1>1, <1>3 DEF IInv, WorkerOnSession, Closed
  <2> QED
    BY <1>1, <2>2, <2>3, <2>4, <2>5, OneSession
<1>4. CASE /\ fin' = [at |-> "idle", todo |-> {}, now |-> Nil]
           /\ holds' = [d \in Conns |-> holds[d] \ {"finalizer"}]
           /\ UNCHANGED session
  <2>1. holds' \in [Conns -> SUBSET Clients]
    BY <1>4, Zenon DEF IInv, RecordsOK
  <2>2. fin' \in [at : {"idle", "closing", "gone"}, todo : SUBSET Conns,
                  now : Time]
    BY <1>4, Zenon DEF Time
  <2>3. RecordsOK'
    BY <1>1, <1>4, <2>1, <2>2, Zenon DEF IInv, RecordsOK
  <2>4. ASSUME NEW d \in Conns PROVE ConnInv(d)'
    <3>1. holds'[d] = holds[d] \ {"finalizer"}
      BY <1>4, Zenon
    <3>2. ConnInv(d) /\ clock \in Nat /\ rec.end \in Int
      BY Clocks, Zenon DEF IInv
    <3>3. /\ clock' \in Nat /\ clock <= clock' /\ rec' = rec
          /\ session'[d] = session[d] /\ conn'[d] = conn[d]
          /\ beat'[d] = beat[d] /\ closeAt'[d] = closeAt[d]
      BY <1>1, <1>4, <3>2
    <3>4. holds'[d] \subseteq holds[d] /\ "finalizer" \notin holds'[d]
      BY <3>1, Zenon
    <3> QED
      BY <3>2, <3>3, <3>4, Frame, Zenon
  <2>5. WorkerOnSession'
    BY <1>1, <1>4, Zenon DEF IInv, WorkerOnSession, Closed
  <2> QED
    BY <2>3, <2>4, <2>5, Zenon DEF IInv
<1> QED
  BY <1>2, <1>3, <1>4 DEF CloseListed

\* The finalizer is done: it holds no copy.
LEMMA SandboxGoneInv == ASSUME IInv, SandboxGone PROVE IInv'
<1>1. RecordsOK'
  BY Zenon DEF IInv, RecordsOK, SandboxGone, Time
<1>2. ASSUME NEW d \in Conns PROVE ConnInv(d)'
  <2>1. ConnInv(d) /\ clock \in Nat /\ rec.end \in Int
    BY Clocks, Zenon DEF IInv
  <2>2. "finalizer" \notin holds[d]
    BY <2>1, Zenon DEF SandboxGone, ConnInv, FinalizerHolds
  <2>3. /\ clock' \in Nat /\ clock <= clock' /\ rec' = rec
        /\ session'[d] = session[d] /\ conn'[d] = conn[d]
        /\ beat'[d] = beat[d] /\ closeAt'[d] = closeAt[d]
        /\ holds'[d] = holds[d]
    BY <2>1 DEF SandboxGone
  <2> QED
    BY <2>1, <2>2, <2>3, Frame, Zenon
<1>3. WorkerOnSession'
  BY DEF IInv, SandboxGone, WorkerOnSession, Closed
<1> QED
  BY <1>1, <1>2, <1>3 DEF IInv

-----------------------------------------------------------------------------

\* No session, no copy and no work at the start.
LEMMA InitIInv == Init => IInv
<1> SUFFICES ASSUME Init PROVE IInv
  BY Zenon
<1>1. NoSession \in Session /\ NoSession.state = "absent"
  BY Zenon DEF NoSession, Session, States, Reasons, Time, Nil
<1>2. RecordsOK
  BY <1>1, Zenon DEF Init, RecordsOK, NoWork, Handlers, Time, Nil
<1>3. WorkerOnSession
  BY Zenon DEF Init, WorkerOnSession, NoWork
<1>4. ASSUME NEW c \in Conns PROVE ConnInv(c)
  <2>1. session[c].state = "absent" /\ holds[c] = {} /\ conn[c] = "start"
    BY <1>1, Zenon DEF Init
  <2> QED
    BY <2>1, Zenon DEF ConnInv, ActiveInOrder, HeartbeatHolds, CloserHolds,
       ReaperHolds, FinalizerHolds, NotYetOpen, EndCovers, OpenIsActive,
       Active, Closed
<1> QED
  BY <1>2, <1>3, <1>4 DEF IInv

\* The invariant is about vars only.
LEMMA StutterIInv == ASSUME IInv, UNCHANGED vars PROVE IInv'
<1>1. RecordsOK'
  BY ZenonT(60) DEF IInv, RecordsOK, vars
<1>2. WorkerOnSession'
  BY DEF IInv, WorkerOnSession, Closed, vars
<1> QED
  BY <1>1, <1>2, QuietStep, Zenon DEF vars

\* The invariant is inductive: one case per action.
LEMMA NextIInv == IInv /\ [Next]_vars => IInv'
<1> SUFFICES ASSUME IInv, [Next]_vars PROVE IInv'
  OBVIOUS
<1>1. CASE Tick
  BY <1>1, TickInv
<1>2. CASE \E c \in Conns : Gateway(c)
  BY <1>2, CreateInv, MarkActiveInv, HeartbeatGetInv, HeartbeatUpdateInv,
     CloseGetInv, CloseUpdateInv, Zenon DEF Gateway
<1>3. CASE GatewayCrash
  BY <1>3, GatewayCrashInv
<1>4. CASE \E c \in Conns : Reconcile(c)
  BY <1>4, LookInv, ReapGetInv, BumpGetInv, Zenon DEF Reconcile
<1>5. CASE \/ ReapUpdate \/ BumpPatch \/ Collect \/ PassFails \/ OperatorRestart
         \/ StartIdleClock \/ CacheSync
  BY <1>5, ReapUpdateInv, BumpPatchInv, CollectInv, PassEndsInv,
     StartIdleClockInv, CacheSyncInv
<1>6. CASE ListSessions \/ SandboxGone
  BY <1>6, ListSessionsInv, SandboxGoneInv
<1>7. CASE \E c \in Conns : CloseListed(c)
  BY <1>7, CloseListedInv
<1>8. CASE UNCHANGED vars
  BY <1>8, StutterIInv
<1> QED
  BY <1>1, <1>2, <1>3, <1>4, <1>5, <1>6, <1>7, <1>8 DEF Next

(***************************************************************************)
(* Whoever may still write a session read it while Active and brings a     *)
(* stamp that fits: the inductive invariant behind the theorems below.     *)
(***************************************************************************)
THEOREM InductiveInvariant == Spec => []IInv
BY InitIInv, NextIInv, PTL DEF Spec

(***************************************************************************)
(* The recorded end of a session covers its activity and is not in the     *)
(* future, whoever closed it.                                              *)
(***************************************************************************)
THEOREM EndCoversActivityHolds == Spec => []EndCoversActivity
<1>1. IInv => EndCoversActivity
  BY Zenon DEF IInv, ConnInv, EndCovers, EndCoversActivity, Closed
<1> QED
  BY <1>1, InductiveInvariant, PTL

(***************************************************************************)
(* The session of an open connection ends only by the reaper or by the     *)
(* deletion of the sandbox.                                                *)
(***************************************************************************)
THEOREM OpenMeansActiveHolds == Spec => []OpenMeansActive
<1>1. IInv => OpenMeansActive
  BY Zenon DEF IInv, ConnInv, OpenIsActive, OpenMeansActive, Active
<1> QED
  BY <1>1, InductiveInvariant, PTL

-----------------------------------------------------------------------------
(***************************************************************************)
(* What a step does to a session: opens one that was neither Active nor    *)
(* Closed, beats or closes an Active one, or removes a Closed one; the     *)
(* reaper acts only on an Active session whose current copy it holds.      *)
(***************************************************************************)
LEMMA SessionWrites ==
    ASSUME IInv, [Next]_vars, NEW c \in Conns
    PROVE  \/ session'[c] = session[c]
           \/ ~Closed(c) /\ ~Active(c)
           \/ /\ Active(c) /\ session'[c].state = "Active"
           \/ /\ Active(c) /\ session'[c].state = "Closed"
              /\ session'[c].exitReason \in {"Disconnected", "SandboxDeleted"}
           \/ /\ Active(c) /\ "reaper" \in holds[c]
           \/ Closed(c) /\ session'[c] = Removed(session[c])
<1> session \in [Conns -> Session] /\ session[c] \in Session
  BY DEF IInv, RecordsOK
<1> ConnInv(c)
  BY ZenonT(60) DEF IInv
<1>1. CASE \E d \in Conns : Create(d) \/ MarkActive(d)
  <2>1. PICK d \in Conns : Create(d) \/ MarkActive(d)
    BY <1>1
  <2>2. ~Closed(d) /\ ~Active(d)
    BY <2>1 DEF IInv, ConnInv, NotYetOpen, Create, MarkActive, Closed, Active
  <2>3. c # d => session'[c] = session[c]
    BY <2>1 DEF Create, MarkActive, Store
  <2> QED
    BY <2>2, <2>3
<1>2. CASE \E d \in Conns : HeartbeatUpdate(d)
  <2>1. PICK d \in Conns : HeartbeatUpdate(d)
    BY <1>2
  <2>2. \/ UNCHANGED session
        \/ /\ "heartbeat" \in holds[d]
           /\ session' = [session EXCEPT
                            ![d] = [session[d] EXCEPT !.last = beat[d]]]
    BY <2>1, ZenonT(60) DEF HeartbeatUpdate, StatusUpdate, Store, Drop
  <2>3. CASE /\ c = d /\ "heartbeat" \in holds[d]
             /\ session' = [session EXCEPT
                            ![c] = [session[c] EXCEPT !.last = beat[c]]]
    <3>1. session'[c] = [session[c] EXCEPT !.last = beat[c]]
      BY <2>3
    <3>2. session'[c].state = session[c].state
      BY <3>1 DEF Session
    <3>3. Active(c)
      BY <2>3 DEF ConnInv, HeartbeatHolds
    <3> QED
      BY <3>2, <3>3 DEF Active
  <2> QED
    BY <2>2, <2>3
<1>3. CASE \E d \in Conns : CloseUpdate(d)
  <2>1. PICK d \in Conns : CloseUpdate(d)
    BY <1>3
  <2>2. \/ UNCHANGED session
        \/ /\ "closer" \in holds[d]
           /\ session' = [session EXCEPT ![d] =
                 [session[d] EXCEPT !.state = "Closed", !.end = closeAt[d],
                                    !.exitReason = "Disconnected"]]
    BY <2>1, ZenonT(60) DEF CloseUpdate, StatusUpdate, Store, Drop
  <2>3. CASE /\ c = d /\ "closer" \in holds[d]
             /\ session' = [session EXCEPT ![d] =
                 [session[d] EXCEPT !.state = "Closed", !.end = closeAt[d],
                                    !.exitReason = "Disconnected"]]
    <3>1. Active(c)
      BY <2>3 DEF ConnInv, CloserHolds
    <3>2. /\ session'[c].state = "Closed"
          /\ session'[c].exitReason = "Disconnected"
      BY <2>3, ZenonT(60) DEF Session
    <3> QED
      BY <3>1, <3>2
  <2> QED
    BY <2>2, <2>3
<1>4. CASE ReapUpdate
  <2>1. PICK d \in Conns : rec.c = d
    BY <1>4 DEF IInv, WorkerOnSession, ReapUpdate
  <2>2. \/ UNCHANGED session
        \/ /\ "reaper" \in holds[d]
           /\ c # d => session'[c] = session[c]
    BY <1>4, <2>1, Zenon DEF ReapUpdate, StatusUpdate, Store, Drop
  <2>3. "reaper" \in holds[c] => Active(c)
    BY Zenon DEF ConnInv, ReaperHolds
  <2> QED
    BY <2>2, <2>3
<1>5. CASE Collect
  <2>1. PICK d \in Conns : rec.c = d /\ Closed(d)
    BY <1>5, ZenonT(60) DEF IInv, WorkerOnSession, Collect
  <2>2. \/ UNCHANGED session
        \/ session' = [session EXCEPT ![d] = Removed(session[d])]
    BY <1>5, <2>1 DEF Collect, Store
  <2> QED
    BY <2>1, <2>2, Zenon
<1>6. CASE \E d \in Conns : CloseListed(d)
  <2>1. PICK d \in Conns : CloseListed(d)
    BY <1>6
  <2>2. \/ UNCHANGED session
        \/ /\ "finalizer" \in holds[d]
           /\ session' = [session EXCEPT ![d] =
                 [session[d] EXCEPT !.state = "Closed", !.end = fin.now,
                                    !.exitReason = "SandboxDeleted"]]
    BY <2>1, ZenonT(60) DEF CloseListed, Store
  <2>3. CASE /\ c = d /\ "finalizer" \in holds[d]
             /\ session' = [session EXCEPT ![d] =
                 [session[d] EXCEPT !.state = "Closed", !.end = fin.now,
                                    !.exitReason = "SandboxDeleted"]]
    <3>1. Active(c)
      BY <2>3 DEF ConnInv, FinalizerHolds
    <3>2. /\ session'[c].state = "Closed"
          /\ session'[c].exitReason = "SandboxDeleted"
      BY <2>3, ZenonT(60) DEF Session
    <3> QED
      BY <3>1, <3>2
  <2> QED
    BY <2>2, <2>3
<1>7. CASE UNCHANGED session
  BY <1>7
<1> QED
  BY <1>1, <1>2, <1>3, <1>4, <1>5, <1>6, <1>7, ZenonT(60)
     DEF Next, Gateway, Reconcile, Tick, HeartbeatGet, CloseGet, GatewayCrash,
         Ignore, Recheck, ReapGet, BumpGet, BumpPatch, PassFails,
         OperatorRestart, StartIdleClock, CacheSync, ListSessions, SandboxGone,
         vars

(***************************************************************************)
(* A Closed session is never reopened or rewritten, only collected.        *)
(***************************************************************************)
THEOREM ClosedIsFinalHolds == Spec => ClosedIsFinal
<1>1. IInv /\ [Next]_vars =>
        [\A c \in Conns : Closed(c) =>
            session'[c] \in {session[c], Removed(session[c])}]_vars
  BY SessionWrites DEF Active, Closed
<1> QED
  BY <1>1, InductiveInvariant, PTL DEF Spec, ClosedIsFinal

(***************************************************************************)
(* The reaper closes a session only if its stored last heartbeat is past   *)
(* the deadline at that moment.                                            *)
(***************************************************************************)
THEOREM ReapedOnlyWhenStaleHolds == Spec => ReapedOnlyWhenStale
<1>1. ASSUME IInv, [Next]_vars, NEW c \in Conns,
             Active(c), session'[c].state = "Closed",
             session'[c].exitReason = "StaleHeartbeat"
      PROVE  clock - session[c].last > Deadline
  <2>1. "reaper" \in holds[c]
    BY <1>1, SessionWrites, Zenon DEF Active, Closed
  <2> QED
    BY <1>1, <2>1, Zenon DEF IInv, ConnInv, ReaperHolds
<1>2. IInv /\ [Next]_vars =>
        [\A c \in Conns :
            (/\ Active(c)
             /\ session'[c].state = "Closed"
             /\ session'[c].exitReason = "StaleHeartbeat")
            => clock - session[c].last > Deadline]_vars
  BY <1>1
<1> QED
  BY <1>2, InductiveInvariant, PTL DEF Spec, ReapedOnlyWhenStale

-----------------------------------------------------------------------------
(***************************************************************************)
(* The workqueue.  A step leaves a session queued if it queues it at once, *)
(* or touches neither the session nor its place in the queue and leaves    *)
(* the worker at it.                                                       *)
(***************************************************************************)
Queued(c) ==
    /\ Active(c) => QueuedBy(c, session[c].last + Deadline)
    /\ Closed(c) => QueuedBy(c, session[c].end + ClosedSessionRetention)
    /\ InHand(c) => due[c] \in {Nil, Soon}

QInv ==
    /\ due \in [Conns -> Time]
    /\ \A c \in Conns : Queued(c)

\* The deadline is a number.
LEMMA DeadlineNat == Deadline \in Nat
BY IntervalAssumption DEF Deadline, staleHeartbeatFactor

\* The two sorts of session end in numbers.
LEMMA Stamps ==
    ASSUME IInv, NEW c \in Conns
    PROVE  /\ Active(c) => session[c].last \in Nat
           /\ Closed(c) => session[c].end \in Nat
BY Zenon DEF IInv, ConnInv, ActiveInOrder, EndCovers

\* What is queued at once is queued.
LEMMA SoonQueued ==
    ASSUME IInv, NEW c \in Conns, due[c] = Soon PROVE Queued(c)
<1>1. Active(c) => Soon \in 0..(session[c].last + Deadline)
  BY Stamps, DeadlineNat DEF Soon
<1>2. Closed(c) => Soon \in 0..(session[c].end + ClosedSessionRetention)
  BY Stamps, RetentionAssumption DEF Soon
<1> QED
  BY <1>1, <1>2, Zenon DEF Queued, QueuedBy

LEMMA KeptQueued ==
    ASSUME IInv', NEW c \in Conns, Queued(c),
           \/ due'[c] = Soon
           \/ /\ session'[c] = session[c] /\ due'[c] = due[c]
              /\ InHand(c) <=> InHand(c)'
    PROVE  Queued(c)'
<1>1. CASE due'[c] = Soon
  <2>1. (IInv /\ due[c] = Soon => Queued(c))'
    BY SoonQueued, PTL
  <2> QED
    BY <1>1, <2>1, Zenon
<1>2. CASE /\ session'[c] = session[c] /\ due'[c] = due[c]
           /\ InHand(c) <=> InHand(c)'
  BY <1>2, Zenon DEF Queued, QueuedBy, Active, Closed
<1> QED
  BY <1>1, <1>2, Zenon

\* Sessions that change are queued; the worker does not move.
LEMMA WatchQueued ==
    ASSUME IInv', QInv, Watch, rec' = rec PROVE QInv'
<1>1. due' \in [Conns -> Time]
  BY Zenon DEF QInv, Watch, Soon, Time
<1>2. ASSUME NEW c \in Conns PROVE Queued(c)'
  <2>1. due'[c] = Soon \/ (session'[c] = session[c] /\ due'[c] = due[c])
    BY Zenon DEF Watch
  <2> QED
    BY <2>1, KeptQueued, Zenon DEF QInv, InHand
<1> QED
  BY <1>1, <1>2 DEF QInv

\* A step that leaves the sessions, the queue and the worker alone.
LEMMA QuietQueued ==
    ASSUME IInv', QInv, UNCHANGED <<session, due>>,
           \A c \in Conns : InHand(c) <=> InHand(c)'
    PROVE  QInv'
BY KeptQueued, Zenon DEF QInv

\* A pass that takes up session c takes it out of the queue.
LEMMA TakenQueued ==
    ASSUME IInv', QInv, NEW c \in Conns, ReapGet(c) \/ BumpGet(c) PROVE QInv'
<1>1. /\ rec.at = "idle" /\ session' = session
      /\ due' = [due EXCEPT ![c] = Nil]
      /\ rec'.at # "idle" /\ rec'.c = c
  BY DEF ReapGet, BumpGet, Take
<1>2. due' \in [Conns -> Time]
  BY <1>1, Zenon DEF QInv, Time
<1>3. Queued(c)'
  <2>1. due'[c] = Nil
    BY <1>1, Zenon DEF QInv
  <2> QED
    BY <1>1, <2>1, Zenon DEF Queued, QueuedBy, InHand
<1>4. ASSUME NEW d \in Conns \ {c} PROVE Queued(d)'
  <2>1. /\ due'[d] = due[d] /\ session'[d] = session[d]
        /\ ~InHand(d) /\ ~InHand(d)'
    BY <1>1, Zenon DEF QInv, InHand
  <2> QED
    BY <2>1, KeptQueued, Zenon DEF QInv
<1> QED
  BY <1>2, <1>3, <1>4, Zenon DEF QInv

\* A pass that writes nothing: no reason to come back, or the deadline.
LEMMA LookQueued ==
    ASSUME IInv, IInv', QInv, NEW c \in Conns, Ignore(c) \/ Recheck(c)
    PROVE  QInv'
<1>1. session' = session /\ rec' = rec /\ rec.at = "idle"
  BY DEF Ignore, Recheck, Take
<1>2. ASSUME NEW t, due' = [due EXCEPT ![c] = t], t \in Time, Queued(c)'
      PROVE  QInv'
  <2>1. due' \in [Conns -> Time]
    BY <1>2, Zenon DEF QInv
  <2>2. ASSUME NEW d \in Conns \ {c} PROVE Queued(d)'
    <3>1. due'[d] = due[d] /\ session'[d] = session[d]
      BY <1>1, <1>2, Zenon DEF QInv
    <3> QED
      BY <1>1, <3>1, KeptQueued, Zenon DEF QInv, InHand
  <2> QED
    BY <1>2, <2>1, <2>2, Zenon DEF QInv
<1>3. CASE Ignore(c)
  <2>1. due' = [due EXCEPT ![c] = Nil] /\ ~Active(c)' /\ ~Closed(c)'
    BY <1>1, <1>3, Zenon DEF Ignore, Active, Closed
  <2> QED
    BY <1>1, <1>2, <2>1, Zenon DEF Queued, InHand, Time
<1>4. CASE Recheck(c)
  <2>1. /\ Active(c) /\ Active(c)' /\ ~Closed(c)' /\ session[c].last \in Nat
        /\ session'[c].last = session[c].last
    BY <1>1, <1>4, Stamps DEF Recheck, Active, Closed
  <2>2. due' = [due EXCEPT ![c] = session[c].last + Deadline]
    <3>1. lastSeen(session[c]) = session[c].last
      BY <2>1 DEF lastSeen, Nil
    <3> QED
      BY <1>4, <3>1, Zenon DEF Recheck, RequeueAfter
  <2>3. session[c].last + Deadline \in Nat
    BY <2>1, DeadlineNat
  <2>4. due'[c] = session[c].last + Deadline
    BY <2>2, Zenon DEF QInv
  <2>5. due'[c] \in 0..(session'[c].last + Deadline)
    BY <2>1, <2>3, <2>4
  <2>6. Queued(c)'
    BY <1>1, <2>1, <2>5 DEF Queued, QueuedBy, InHand, Deadline
  <2> QED
    BY <1>2, <2>2, <2>3, <2>6, Zenon DEF Time
<1> QED
  BY <1>3, <1>4, Zenon

\* The worker is done with its session: queued again, or collected.
LEMMA DoneQueued ==
    ASSUME IInv, IInv', QInv, ReapUpdate \/ Collect \/ PassFails PROVE QInv'
<1>1. PICK c \in Conns : rec.c = c
  BY Zenon DEF IInv, WorkerOnSession, ReapUpdate, Collect, PassFails
<1>0. rec' = NoWork /\ \A d \in Conns : ~InHand(d)'
  <2>1. rec' = NoWork
    BY Zenon DEF ReapUpdate, Collect, PassFails
  <2>2. rec'.at = "idle"
    BY <2>1 DEF NoWork
  <2> QED
    BY <2>1, <2>2, Zenon DEF InHand
<1>2. \A d \in Conns \ {c} : /\ session'[d] = session[d]
                              /\ ~InHand(d) /\ ~InHand(d)'
  <2>1. \A d \in Conns \ {c} : session'[d] = session[d]
    BY <1>1, ZenonT(60)
       DEF IInv, RecordsOK, ReapUpdate, StatusUpdate, Collect, PassFails, Store,
           Drop
  <2> QED
    BY <1>0, <1>1, <2>1, Zenon DEF InHand
<1>3. CASE ReapUpdate \/ PassFails
  <2>1. due' = [due EXCEPT ![c] = Soon]
    BY <1>1, <1>3, Zenon DEF ReapUpdate, PassFails
  <2>2. due' \in [Conns -> Time]
    BY <2>1, Zenon DEF QInv, Soon, Time
  <2>3. \A d \in Conns : due'[d] = Soon \/ (d # c /\ due'[d] = due[d])
    BY <2>1, Zenon DEF QInv
  <2> QED
    BY <1>2, <2>2, <2>3, KeptQueued, Zenon DEF QInv
<1>4. CASE Collect /\ Store(c, Removed(session[c])) /\ Watch
  <2>1. due' \in [Conns -> Time]
    BY <1>4, Zenon DEF QInv, Watch, Soon, Time
  <2>2. \A d \in Conns \ {c} : due'[d] = due[d]
    BY <1>2, <1>4, Zenon DEF Watch
  <2>3. session'[c] = Removed(session[c])
    BY <1>4, Zenon DEF Store, IInv, RecordsOK
  <2>4. session'[c].state = "removed"
    <3>1. session[c] \in Session
      BY DEF IInv, RecordsOK
    <3> QED
      BY <2>3, <3>1, RemovedRecord
  <2>5. Queued(c)'
    BY <1>0, <2>4 DEF Queued, Active, Closed
  <2> QED
    BY <1>2, <2>1, <2>2, <2>5, KeptQueued, Zenon DEF QInv
<1> DEFINE t == IF due[c] # Nil THEN due[c]
                ELSE session[c].end + ClosedSessionRetention
<1>5. CASE Collect /\ session' = session /\ due' = [due EXCEPT ![c] = t]
  <2>1. Closed(c) /\ session[c].end \in Nat /\ due[c] \in Time
    BY <1>1, <1>5, Stamps, Zenon DEF IInv, WorkerOnSession, Collect, QInv
  <2>2. t \in Time
    BY <2>1, RetentionAssumption DEF Time
  <2> HIDE DEF t
  <2>3. due' \in [Conns -> Time] /\ due'[c] = t
    BY <1>5, <2>2, Zenon DEF QInv
  <2>4. \A d \in Conns \ {c} : due'[d] = due[d]
    BY <1>5, Zenon DEF QInv
  <2>5. due[c] \in {Nil, Soon}
    BY <1>1, <1>5 DEF QInv, Queued, InHand, Collect
  <2>6. t \in 0..(session[c].end + ClosedSessionRetention)
    BY <2>1, <2>5, RetentionAssumption DEF t, Nil, Soon
  <2>7. Closed(c)' /\ ~Active(c)' /\ session'[c].end = session[c].end
    BY <1>5, <2>1 DEF Closed, Active
  <2>8. Queued(c)'
    BY <1>0, <2>3, <2>6, <2>7, Zenon DEF Queued, QueuedBy
  <2> QED
    BY <1>2, <2>3, <2>4, <2>8, KeptQueued, Zenon DEF QInv
<1>6. Collect =>
        \/ Store(c, Removed(session[c])) /\ Watch
        \/ session' = session /\ due' = [due EXCEPT ![c] = t]
  BY <1>1 DEF Collect, RequeueAfter
<1> QED
  BY <1>3, <1>4, <1>5, <1>6, Zenon

\* The first list of a new operator queues every session there is.
LEMMA RestartQueued ==
    ASSUME IInv', QInv, OperatorRestart PROVE QInv'
<1>1. due' \in [Conns -> Time]
  BY Zenon DEF OperatorRestart, Soon, Time
<1>2. ASSUME NEW c \in Conns PROVE Queued(c)'
  <2>1. CASE session[c].state \in {"absent", "removed"}
    <3>1. ~Active(c)' /\ ~Closed(c)' /\ ~InHand(c)'
      BY <2>1 DEF OperatorRestart, Active, Closed, InHand, NoWork
    <3> QED
      BY <3>1, Zenon DEF Queued
  <2>2. CASE session[c].state \notin {"absent", "removed"}
    <3>1. due'[c] = Soon
      BY <2>2, Zenon DEF OperatorRestart
    <3> QED
      BY <3>1, KeptQueued, Zenon DEF QInv
  <2> QED
    BY <2>1, <2>2, Zenon
<1> QED
  BY <1>1, <1>2, Zenon DEF QInv

\* One case per action.
LEMMA NextQueued == IInv /\ IInv' /\ QInv /\ [Next]_vars => QInv'
<1> SUFFICES ASSUME IInv, IInv', QInv, [Next]_vars PROVE QInv'
  OBVIOUS
<1>1. CASE \/ \E c \in Conns : \/ Create(c) \/ MarkActive(c)
                               \/ HeartbeatUpdate(c) \/ CloseUpdate(c)
                               \/ CloseListed(c)
  <2>1. Watch /\ rec' = rec
    BY <1>1, ZenonT(60)
       DEF Create, MarkActive, HeartbeatUpdate, CloseUpdate, CloseListed
  <2> QED
    BY <2>1, WatchQueued
<1>2. CASE \/ \E c \in Conns : HeartbeatGet(c) \/ CloseGet(c)
           \/ Tick \/ GatewayCrash \/ BumpPatch \/ StartIdleClock
           \/ CacheSync \/ ListSessions \/ SandboxGone \/ UNCHANGED vars
  <2>1. UNCHANGED <<session, due>>
    BY <1>2, ZenonT(60)
       DEF HeartbeatGet, CloseGet, Tick, GatewayCrash, BumpPatch,
           StartIdleClock, CacheSync, ListSessions, SandboxGone, vars
  <2>2. rec' = rec \/ BumpPatch
    BY <1>2, ZenonT(60)
       DEF HeartbeatGet, CloseGet, Tick, GatewayCrash, StartIdleClock,
           CacheSync, ListSessions, SandboxGone, vars
  <2>3. \A c \in Conns : InHand(c) <=> InHand(c)'
    <3>1. CASE BumpPatch
      BY <3>1 DEF IInv, RecordsOK, BumpPatch, InHand
    <3> QED
      BY <2>2, <3>1, Zenon DEF InHand
  <2> QED
    BY <2>1, <2>3, QuietQueued, Zenon
<1>3. CASE \E c \in Conns : Reconcile(c)
  BY <1>3, TakenQueued, LookQueued, Zenon DEF Reconcile
<1>4. CASE ReapUpdate \/ Collect \/ PassFails
  BY <1>4, DoneQueued
<1>5. CASE OperatorRestart
  BY <1>5, RestartQueued
<1> QED
  BY <1>1, <1>2, <1>3, <1>4, <1>5, ZenonT(60) DEF Next, Gateway

\* Nothing is queued at the start, and there is no session.
LEMMA InitQueued == Init => QInv
<1> SUFFICES ASSUME Init PROVE QInv
  OBVIOUS
<1>1. due \in [Conns -> Time]
  BY Zenon DEF Init, Time
<1>2. \A c \in Conns : ~Active(c) /\ ~Closed(c) /\ ~InHand(c)
  BY DEF Init, Active, Closed, InHand, NoSession, NoWork
<1> QED
  BY <1>1, <1>2, Zenon DEF QInv, Queued

\* The queue is right in every behaviour.
LEMMA AlwaysQueued == Spec => []QInv
BY InitQueued, NextQueued, InductiveInvariant, PTL DEF Spec

(***************************************************************************)
(* The sessions, copies, handlers, worker and queue keep their types.      *)
(***************************************************************************)
THEOREM TypeCorrect == Spec => []TypeOK
<1>1. IInv /\ QInv => TypeOK
  BY Zenon DEF IInv, QInv, TypeOK
<1> QED
  BY <1>1, InductiveInvariant, AlwaysQueued, PTL

(***************************************************************************)
(* The reconciler never forgets a session, for any number of them: an      *)
(* Active one is looked at when its deadline is over at the latest, a      *)
(* Closed one when its retention is, whatever passes fail and however      *)
(* often the operator is replaced.                                         *)
(***************************************************************************)
THEOREM SessionQueuedHolds == Spec => []SessionQueued
<1>1. QInv => SessionQueued
  BY Zenon DEF QInv, Queued, SessionQueued
<1> QED
  BY <1>1, AlwaysQueued, PTL

=============================================================================
