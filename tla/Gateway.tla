------------------------------ MODULE Gateway ------------------------------
(***************************************************************************)
(* The SSH jump host and one sandbox: each connection's handler is         *)
(* authorized from the gateway's cached copy of the Sandbox, records a     *)
(* session, wakes the sandbox and waits for a route, dials it, bridges,    *)
(* and closes the session.                                                 *)
(*                                                                         *)
(* The sandbox follows SandboxLife.  The operator is taken from what       *)
(* SandboxController shows of it: unless something fails it ends up doing  *)
(* what the stored Sandbox, its sessions and its pod call for, provided    *)
(* template, home claim and access profile are in order; a pass from       *)
(* outdated caches, which may do anything else, is an outside event.       *)
(***************************************************************************)
EXTENDS SandboxLife, Integers

CONSTANTS
    Conns,       \* clients of the owner, each with one connection at a time
    WakePolls,   \* polls within the wake timeout
    MaxEvents    \* bound: edits, faults, outdated passes, departures

ASSUME WakeAssumption == WakePolls \in Nat
ASSUME EventAssumption == MaxEvents \in Nat

VARIABLES
    idle,       \* the idle timeout has passed since the last activity
    blocked,    \* template, claim or profile is missing or not permitted
    sessions,   \* connections whose handler has an Active SandboxSession
    abandoned,  \* an Active SandboxSession is left that nobody will close
    view,       \* the gateway's cached copy of the Sandbox
    conn,       \* [Conns -> the handler]
    events

vars == <<life, idle, blocked, sessions, abandoned, view, conn, events>>

records == <<sessions, abandoned>>
gateway == <<view, conn>>

-----------------------------------------------------------------------------

View == [alive : {"live", "deleting", "gone"},
         desired : {"Running", "Stopped"}, route : IPs \cup {""}]

Handler == [at : {"off", "open", "wake", "poll", "dial", "bridged", "astray",
                  "closing"},
            desired : {"Running", "Stopped"}, route : IPs \cup {""},
            left : 0..WakePolls]

Off == [at |-> "off", desired |-> "Running", route |-> "", left |-> 0]

Event == events < MaxEvents /\ events' = events + 1

Init ==
    /\ LifeInit
    /\ idle = FALSE
    /\ blocked = FALSE
    /\ sessions = {}
    /\ abandoned = FALSE
    /\ view = [alive |-> "live", desired |-> "Running", route |-> ""]
    /\ conn = [c \in Conns |-> Off]
    /\ events = 0

-----------------------------------------------------------------------------
(***************************************************************************)
(* The handler of connection c.                                            *)
(***************************************************************************)
Step(c, h) == conn' = [conn EXCEPT ![c] = h]

\* authorize: the owner, of a sandbox that the cache shows.
authorize(c) ==
    /\ conn[c].at = "off"
    /\ view.alive # "gone"
    /\ Step(c, [Off EXCEPT !.at = "open", !.desired = view.desired,
                           !.route = view.route])
    /\ UNCHANGED <<life, idle, blocked, records, view, events>>

\* Mutant: the session is opened only for a sandbox that has a route.
openSessionRouted(c) ==
    /\ conn[c].at = "open"
    /\ Step(c, [conn[c] EXCEPT !.at = "wake"])
    /\ sessions' = IF conn[c].route # "" THEN sessions \cup {c} ELSE sessions
    /\ UNCHANGED <<life, idle, blocked, abandoned, view, events>>

(***************************************************************************)
(* A session that could not be recorded does not stop the connection.  It  *)
(* may have been stored Active all the same, the answer being lost.        *)
(***************************************************************************)
openSession(c) ==
    /\ conn[c].at = "open"
    /\ Step(c, [conn[c] EXCEPT !.at = "wake"])
    /\ \/ /\ sessions' = sessions \cup {c}
          /\ UNCHANGED <<abandoned, events>>
       \/ /\ Event
          /\ abandoned' \in {abandoned, TRUE}
          /\ UNCHANGED sessions
    /\ UNCHANGED <<life, idle, blocked, view>>

(***************************************************************************)
(* wakeAndWait.  A sandbox with a route that should run needs no waking;   *)
(* otherwise its desired state is patched, unless the copy says Running.   *)
(***************************************************************************)
Awake(c) ==
    /\ conn[c].at = "wake"
    /\ conn[c].route # "" /\ conn[c].desired = "Running"
    /\ Step(c, [conn[c] EXCEPT !.at = "dial"])
    /\ UNCHANGED <<life, idle, blocked, records, view, events>>

SetDesiredRunning(c) ==
    /\ conn[c].at = "wake"
    /\ conn[c].route = "" \/ conn[c].desired = "Stopped"
    /\ \/ /\ conn[c].desired = "Running"
          /\ Step(c, [conn[c] EXCEPT !.at = "poll", !.left = WakePolls])
          /\ UNCHANGED <<life, events>>
       \/ /\ conn[c].desired = "Stopped"
          /\ SetDesired("Running")
          /\ Step(c, [conn[c] EXCEPT !.at = "poll", !.left = WakePolls])
          /\ UNCHANGED events
       \/ /\ conn[c].desired = "Stopped"   \* the sandbox is gone
          /\ alive = "gone"
          /\ Step(c, [conn[c] EXCEPT !.at = "closing"])
          /\ UNCHANGED <<life, events>>
       \/ /\ conn[c].desired = "Stopped"   \* the patch fails
          /\ Event
          /\ Step(c, [conn[c] EXCEPT !.at = "closing"])
          /\ UNCHANGED life
    /\ UNCHANGED <<idle, blocked, records, view>>

\* Mutant: the deadline is not looked at.
pollForever(c) ==
    /\ conn[c].at = "poll"
    /\ view.alive # "gone" /\ view.route # ""
    /\ Step(c, [conn[c] EXCEPT !.at = "dial", !.route = view.route])
    /\ UNCHANGED <<life, idle, blocked, records, view, events>>

\* The first copy with a route will do; after the deadline, give up.
poll(c) ==
    /\ conn[c].at = "poll"
    /\ \/ /\ view.alive # "gone" /\ view.route # ""
          /\ Step(c, [conn[c] EXCEPT !.at = "dial", !.route = view.route])
       \/ /\ view.alive = "gone" \/ view.route = ""
          /\ IF conn[c].left = 0
             THEN Step(c, [conn[c] EXCEPT !.at = "closing"])
             ELSE Step(c, [conn[c] EXCEPT !.left = @ - 1])
    /\ UNCHANGED <<life, idle, blocked, records, view, events>>

(***************************************************************************)
(* DialSandbox and bridge.  A pod that is not ready may refuse; at the     *)
(* address of a pod that is gone there is nobody, or somebody else, whom   *)
(* the client does not take for its sandbox.                               *)
(***************************************************************************)
Answers(ip) == pod.ip = ip /\ pod.state \in {"NotReady", "Ready"}

\* Mutant: a dial that fails is tried again from the start.
DialSandboxRetried(c) ==
    /\ conn[c].at = "dial"
    /\ Step(c, [conn[c] EXCEPT !.at = IF Answers(conn[c].route) THEN "bridged"
                                      ELSE "wake"])
    /\ UNCHANGED <<life, idle, blocked, records, view, events>>

DialSandbox(c) ==
    /\ conn[c].at = "dial"
    /\ \E at \in IF ~Answers(conn[c].route) THEN {"closing", "astray"}
                 ELSE IF pod.state = "Ready" THEN {"bridged"}
                 ELSE {"bridged", "closing"} :
          Step(c, [conn[c] EXCEPT !.at = at])
    /\ UNCHANGED <<life, idle, blocked, records, view, events>>

bridge(c) ==
    /\ \/ conn[c].at = "astray"
       \/ conn[c].at = "bridged" /\ ~Answers(conn[c].route)
    /\ Step(c, [conn[c] EXCEPT !.at = "closing"])
    /\ UNCHANGED <<life, idle, blocked, records, view, events>>

(***************************************************************************)
(* Deferred, whichever way the handler ends; a close is an activity, one   *)
(* of a session that is closed already is none.  A close that fails is not *)
(* retried and leaves the session to the reaper.                           *)
(***************************************************************************)
closeSession(c) ==
    /\ conn[c].at = "closing"
    /\ Step(c, Off)
    /\ sessions' = sessions \ {c}
    /\ \/ /\ idle' = (idle /\ c \notin sessions)
          /\ UNCHANGED <<abandoned, events>>
       \/ /\ c \in sessions
          /\ Event
          /\ abandoned' = TRUE
          /\ UNCHANGED idle
    /\ UNCHANGED <<life, blocked, view>>

handleDirectTCPIP(c) ==
    \/ openSession(c) \/ Awake(c) \/ SetDesiredRunning(c) \/ poll(c)
    \/ DialSandbox(c) \/ bridge(c) \/ closeSession(c)

\* The client goes away: the wait is cancelled, the bridge torn down.
Leave(c) ==
    /\ Event
    /\ conn[c].at \in {"poll", "bridged"}
    /\ Step(c, [conn[c] EXCEPT !.at = "closing"])
    /\ UNCHANGED <<life, idle, blocked, records, view>>

\* The gateway restarts: its sessions stay Active until they are reaped.
Restart ==
    /\ Event
    /\ conn' = [c \in Conns |-> Off]
    /\ view' = [alive |-> alive, desired |-> desired, route |-> route]
    /\ sessions' = {}
    /\ abandoned' = (abandoned \/ sessions # {})
    /\ UNCHANGED <<life, idle, blocked>>

SyncView ==
    /\ view # [alive |-> alive, desired |-> desired, route |-> route]
    /\ view' = [alive |-> alive, desired |-> desired, route |-> route]
    /\ UNCHANGED <<life, idle, blocked, records, conn, events>>

-----------------------------------------------------------------------------
(***************************************************************************)
(* The sandbox: what the operator does next, once its caches are current.  *)
(***************************************************************************)
Wanted == desired = "Running" /\ (sessions # {} \/ abandoned \/ ~idle)

\* Nothing is done about a sandbox that is blocked; its pod and route stay.
Operate ==
    /\ alive = "live" /\ ~blocked
    /\ \/ Wanted /\ CreatePod
       \/ Wanted /\ pod.state = "Ready" /\ route # pod.ip /\ Publish(pod.ip)
       \/ /\ Wanted /\ pod.state \in {"Pending", "NotReady", "Dead"}
          /\ route # "" /\ Publish("")
       \/ Wanted /\ pod.state = "Dead" /\ StopPod
       \/ ~Wanted /\ StopPod
       \/ ~Wanted /\ route # "" /\ Publish("")
    /\ UNCHANGED <<idle, blocked, records, gateway, events>>

(***************************************************************************)
(* finalize deletes the pod, closes the sessions its list shows, those of  *)
(* handlers that are there included, and lets the sandbox go; an update    *)
(* that is refused ends the pass early, and it is tried again.             *)
(***************************************************************************)
finalize ==
    /\ alive = "deleting"
    /\ \/ StopPod /\ UNCHANGED records
       \/ /\ pod = NoPod \/ pod.terminating
          /\ sessions' \in SUBSET sessions
          /\ abandoned' \in {abandoned, FALSE}
          /\ Removed \/ UNCHANGED life
    /\ UNCHANGED <<idle, blocked, gateway, events>>

\* A session nobody beats for is closed once three heartbeats are missing.
Reap ==
    /\ abandoned
    /\ abandoned' = FALSE
    /\ idle' = FALSE
    /\ UNCHANGED <<life, blocked, sessions, gateway, events>>

\* So is that of a handler whose heartbeats failed three times.
ReapLive(c) ==
    /\ Event
    /\ c \in sessions
    /\ sessions' = sessions \ {c}
    /\ idle' = FALSE
    /\ UNCHANGED <<life, blocked, abandoned, gateway>>

\* A pass from outdated caches stores an old route, stops or starts the pod.
OperateOutdated ==
    /\ Event
    /\ \/ \E r \in (IPs \cup {""}) \ {route} : Publish(r)
       \/ CreatePod \/ StopPod
    /\ UNCHANGED <<idle, blocked, records, gateway>>

Kubelet ==
    /\ PodStarts \/ PodGone
    /\ UNCHANGED <<idle, blocked, records, gateway, events>>

Disturb ==
    /\ Event
    /\ \/ \E d \in {"Running", "Stopped"} \ {desired} : SetDesired(d)
       \/ Delete \/ PodFails
    /\ UNCHANGED <<idle, blocked, records, gateway>>

\* Somebody takes away or restores the template, the claim or the profile.
Block ==
    /\ Event
    /\ blocked' = ~blocked
    /\ UNCHANGED <<life, idle, records, gateway>>

\* The idle timeout passes.
GoIdle ==
    /\ Event
    /\ ~idle
    /\ idle' = TRUE
    /\ UNCHANGED <<life, blocked, records, gateway>>

-----------------------------------------------------------------------------

Next ==
    \/ \E c \in Conns :
          authorize(c) \/ handleDirectTCPIP(c) \/ Leave(c) \/ ReapLive(c)
    \/ Restart \/ SyncView
    \/ Operate \/ finalize \/ Reap \/ OperateOutdated
    \/ Kubelet \/ Disturb \/ Block \/ GoIdle

Spec == Init /\ [][Next]_vars

(***************************************************************************)
(* Handlers, watch, operator, reaper and kubelet go on.  Clients owe       *)
(* nothing.                                                                *)
(***************************************************************************)
Fairness ==
    /\ \A c \in Conns : WF_vars(handleDirectTCPIP(c))
    /\ WF_vars(SyncView) /\ WF_vars(Operate) /\ WF_vars(Reap)
    /\ WF_vars(Kubelet)

FairSpec == Spec /\ Fairness

-----------------------------------------------------------------------------

\* The type invariant of the module.
TypeOK ==
    /\ LifeTypeOK
    /\ idle \in BOOLEAN
    /\ blocked \in BOOLEAN
    /\ sessions \in SUBSET Conns
    /\ abandoned \in BOOLEAN
    /\ view \in View
    /\ conn \in [Conns -> Handler]
    /\ events \in Nat

(***************************************************************************)
(* What a handler has still to do at most: no path through it goes back,   *)
(* whatever the sandbox, its cached copy and other connections do, and the *)
(* deadline bounds the polls.                                              *)
(***************************************************************************)
StepsLeft(h) ==
    CASE h.at = "off" -> 0
      [] h.at = "closing" -> 1
      [] h.at \in {"bridged", "astray"} -> 2
      [] h.at = "dial" -> 3
      [] h.at = "poll" -> h.left + 4
      [] h.at = "wake" -> WakePolls + 5
      [] h.at = "open" -> WakePolls + 6

HandlerAdvances ==
    [][\A c \in Conns :
          conn[c].at # "off" /\ conn'[c] # conn[c]
              => StepsLeft(conn'[c]) \in 0..(StepsLeft(conn[c]) - 1)]_vars

(***************************************************************************)
(* No handler hangs, and none keeps its sandbox awake for nothing: unless  *)
(* it is bridged a connection comes to its end, and the session with it.   *)
(***************************************************************************)
HandlerEnds ==
    \A c \in Conns :
        c \in sessions ~> conn[c].at = "bridged" \/ c \notin sessions

(***************************************************************************)
(* Wake on connect: a client that tries again whenever it is turned away   *)
(* ends up bridged to the sandbox's pod, whatever copies were outdated,    *)
(* whoever stopped the sandbox, however often the pod died and whichever   *)
(* session was lost, closed late or reaped before, if the disturbances end *)
(* with the sandbox neither deleted nor blocked.                           *)
(***************************************************************************)
Bridged(c) == conn[c].at = "bridged" /\ Answers(conn[c].route)

ClientServed ==
    \A c \in Conns :
        WF_vars(authorize(c))
            => <>[](Bridged(c) \/ alive # "live" \/ blocked)

=============================================================================
