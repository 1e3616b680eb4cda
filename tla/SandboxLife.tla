---------------------------- MODULE SandboxLife ----------------------------
(***************************************************************************)
(* What everybody but the operator may rely on about one Sandbox: its      *)
(* desired state, the route it publishes (status.podIP) and the life of    *)
(* its pod.  SandboxController implements this module; Gateway is built    *)
(* on it.                                                                  *)
(***************************************************************************)
CONSTANT IPs   \* pod IPs

ASSUME AddressAssumption == "" \notin IPs

VARIABLES alive, desired, route, pod

life == <<alive, desired, route, pod>>

PodOf(s, t, a) == [state |-> s, terminating |-> t, ip |-> a]

NoPod == PodOf("none", FALSE, "")

Pod == [state : {"none", "Pending", "NotReady", "Ready", "Dead"},
        terminating : BOOLEAN, ip : IPs \cup {""}]

LifeInit ==
    /\ alive = "live"
    /\ desired = "Running"
    /\ route = ""
    /\ pod = NoPod

LifeTypeOK ==
    /\ alive \in {"live", "deleting", "gone"}
    /\ desired \in {"Running", "Stopped"}
    /\ route \in IPs \cup {""}
    /\ pod \in Pod

-----------------------------------------------------------------------------

SetDesired(d) ==
    /\ alive # "gone"
    /\ desired' = d
    /\ UNCHANGED <<alive, route, pod>>

\* Until the finalizer is there, and so before there is a pod, at once.
Delete ==
    /\ alive = "live"
    /\ \/ alive' = "deleting"
       \/ alive' = "gone" /\ pod = NoPod
    /\ UNCHANGED <<desired, route, pod>>

\* A sandbox goes only after its pod was deleted.
Removed ==
    /\ alive = "deleting"
    /\ pod = NoPod \/ pod.terminating
    /\ alive' = "gone"
    /\ UNCHANGED <<desired, route, pod>>

\* Any pass may store a route, from whatever it had read of the pod.
Publish(r) ==
    /\ alive # "gone"
    /\ r \in IPs \cup {""}
    /\ route' = r
    /\ UNCHANGED <<alive, desired, pod>>

\* There is one pod at a time, and none is created once the sandbox is gone.
CreatePod ==
    /\ alive # "gone"
    /\ pod = NoPod
    /\ pod' = PodOf("Pending", FALSE, "")
    /\ UNCHANGED <<alive, desired, route>>

StopPod ==
    /\ pod.state # "none" /\ ~pod.terminating
    /\ pod' = PodOf(pod.state, TRUE, pod.ip)
    /\ UNCHANGED <<alive, desired, route>>

\* A pod keeps the address it was given.
PodStarts ==
    /\ pod.state \in {"Pending", "NotReady"} /\ ~pod.terminating
    /\ \E ip \in IPs :
          /\ pod.ip \in {"", ip}
          /\ pod' = PodOf("Ready", FALSE, ip)
    /\ UNCHANGED <<alive, desired, route>>

PodFails ==
    /\ \/ /\ pod.state = "Ready"
          /\ pod' = PodOf("NotReady", pod.terminating, pod.ip)
       \/ /\ pod.state \in {"Pending", "NotReady", "Ready"}
          /\ pod' = PodOf("Dead", pod.terminating, pod.ip)
    /\ UNCHANGED <<alive, desired, route>>

PodGone ==
    /\ pod.terminating
    /\ pod' = NoPod
    /\ UNCHANGED <<alive, desired, route>>

LifeNext ==
    \/ \E d \in {"Running", "Stopped"} : SetDesired(d)
    \/ Delete \/ Removed
    \/ \E r \in IPs \cup {""} : Publish(r)
    \/ CreatePod \/ StopPod
    \/ PodStarts \/ PodFails \/ PodGone

LifeSpec == LifeInit /\ [][LifeNext]_life

=============================================================================
