----------------------------- MODULE AgentShell -----------------------------
(***************************************************************************)
(* The sessionManager of the in-pod agent: interactive clients share one   *)
(* shell under a PTY, started on first use and surviving disconnects;      *)
(* commands run on their own.                                              *)
(*                                                                         *)
(* Shells are numbered in the order they are started.  A shell's process   *)
(* exits, is waited for (ProcessState is set, outside the mutex) and is    *)
(* reaped (under the mutex).  Its background jobs may outlive it and keep  *)
(* the terminal side of its PTY open.  Each attached client has two        *)
(* copies, in for its input and out for the PTY's output; the handler      *)
(* returns when the first of them ends and does not stop the other.        *)
(***************************************************************************)
EXTENDS Integers, FiniteSets

CONSTANTS
    Clients,    \* SSH sessions
    MaxShells   \* bound: shells started

ASSUME ShellsAssumption == MaxShells \in Nat
ASSUME ClientsAssumption == IsFiniteSet(Clients)

VARIABLES
    started,    \* shells started so far
    proc,       \* [Shells -> the shell's process]
    jobs,       \* shells that exited and left a job on their terminal
    fd,         \* [Shells -> whether the PTY master is open]
    shell,      \* m.ptmx and m.shellCmd: the shared shell, or None
    attached,   \* m.attached
    at,         \* [Clients -> where the session handler is]
    connected,  \* clients whose SSH channel is open
    on,         \* [Clients -> the shell whose PTY the handler got]
    in, out     \* clients with a copy to, from the PTY running

vars == <<started, proc, jobs, fd, shell, attached, at, connected, on, in,
          out>>

shells == <<started, proc, jobs, fd, shell>>

-----------------------------------------------------------------------------

None == 0
Shells == 1..MaxShells

Init ==
    /\ started = 0
    /\ proc = [k \in Shells |-> "none"]
    /\ jobs = {}
    /\ fd = [k \in Shells |-> "none"]
    /\ shell = None
    /\ attached = 0
    /\ at = [c \in Clients |-> "new"]
    /\ connected = Clients
    /\ on = [c \in Clients |-> None]
    /\ in = {}
    /\ out = {}

(***************************************************************************)
(* handle: a command, or a session without a PTY, runs as its own child.   *)
(***************************************************************************)
runExec(c) ==
    /\ at[c] = "new"
    /\ at' = [at EXCEPT ![c] = "exec"]
    /\ UNCHANGED <<shells, attached, connected, on, in, out>>

ExecEnds(c) ==
    /\ at[c] = "exec"
    /\ at' = [at EXCEPT ![c] = "left"]
    /\ connected' = connected \ {c}
    /\ UNCHANGED <<shells, attached, on, in, out>>

(***************************************************************************)
(* ensureShell, under the mutex: the shared shell unless it was seen to    *)
(* have exited; otherwise a new one replaces it.                           *)
(***************************************************************************)
ShellUp == shell # None /\ proc[shell] # "waited"

ensureShell(c) ==
    /\ at[c] = "new"
    /\ \/ /\ ShellUp
          /\ at' = [at EXCEPT ![c] = "starting"]
          /\ on' = [on EXCEPT ![c] = shell]
          /\ UNCHANGED <<shells, connected>>
       \/ /\ ~ShellUp
          /\ started < MaxShells
          /\ LET k == started + 1 IN
             /\ started' = k
             /\ proc' = [proc EXCEPT ![k] = "running"]
             /\ fd' = [fd EXCEPT ![k] = "open"]
             /\ shell' = k
             /\ on' = [on EXCEPT ![c] = k]
          /\ at' = [at EXCEPT ![c] = "starting"]
          /\ UNCHANGED <<jobs, connected>>
       \/ /\ ~ShellUp  \* pty.Start fails
          /\ at' = [at EXCEPT ![c] = "left"]
          /\ connected' = connected \ {c}
          /\ UNCHANGED <<shells, on>>
    /\ UNCHANGED <<attached, in, out>>

\* attachShell goes on: the client is counted and bridged.
Bridge(c) ==
    /\ at[c] = "starting"
    /\ at' = [at EXCEPT ![c] = "attached"]
    /\ attached' = attached + 1
    /\ in' = in \cup {c}
    /\ out' = out \cup {c}
    /\ UNCHANGED <<shells, connected, on>>

(***************************************************************************)
(* Nothing looks at the connection before the copies run, so a client that *)
(* disconnects earlier does the same as one that disconnects here.         *)
(***************************************************************************)
Disconnect(c) ==
    /\ at[c] # "new"
    /\ connected' = connected \ {c}
    /\ UNCHANGED <<shells, attached, at, on, in, out>>

\* The client is gone: its input is at its end.
InputEnds(c) ==
    /\ c \in in
    /\ c \notin connected
    /\ in' = in \ {c}
    /\ UNCHANGED <<shells, attached, at, connected, on, out>>

(***************************************************************************)
(* Nobody has the terminal side of k's PTY open any more.  Only then does  *)
(* a read of the master fail for sure: Close does not recall a read that   *)
(* blocks in the kernel, as creack/pty leaves the master in blocking mode. *)
(***************************************************************************)
HungUp(k) == proc[k] # "running" /\ k \notin jobs

\* The client types into a PTY that is closed or that nobody reads any more.
InputFails(c) ==
    /\ c \in in
    /\ HungUp(on[c]) \/ fd[on[c]] = "closed"
    /\ in' = in \ {c}
    /\ UNCHANGED <<shells, attached, at, connected, on, out>>

\* Mutant: the copy carries on after a failed read, until the PTY is closed.
OutputEndsClosed(c) ==
    /\ c \in out
    /\ HungUp(on[c])
    /\ fd[on[c]] = "closed"
    /\ out' = out \ {c}
    /\ UNCHANGED <<shells, attached, at, connected, on, in>>

OutputEnds(c) ==
    /\ c \in out
    /\ HungUp(on[c])
    /\ out' = out \ {c}
    /\ UNCHANGED <<shells, attached, at, connected, on, in>>

\* A read that begins after the PTY was closed fails.
OutputClosed(c) ==
    /\ c \in out
    /\ fd[on[c]] = "closed"
    /\ out' = out \ {c}
    /\ UNCHANGED <<shells, attached, at, connected, on, in>>

\* A copy left behind gets the next output and cannot write it: it is lost.
OutputLost(c) ==
    /\ c \in out
    /\ ~HungUp(on[c])
    /\ c \notin connected
    /\ out' = out \ {c}
    /\ UNCHANGED <<shells, attached, at, connected, on, in>>

\* Mutant: the handler waits for both copies.
LeaveBoth(c) ==
    /\ at[c] = "attached"
    /\ c \notin in /\ c \notin out
    /\ at' = [at EXCEPT ![c] = "left"]
    /\ attached' = attached - 1
    /\ connected' = connected \ {c}
    /\ UNCHANGED <<shells, on, in, out>>

\* <-done: one copy ended, the handler returns and the session is closed.
Leave(c) ==
    /\ at[c] = "attached"
    /\ c \notin in \/ c \notin out
    /\ at' = [at EXCEPT ![c] = "left"]
    /\ attached' = attached - 1
    /\ connected' = connected \ {c}
    /\ UNCHANGED <<shells, on, in, out>>

-----------------------------------------------------------------------------
(***************************************************************************)
(* The shell's process, and the goroutine that waits for it.               *)
(***************************************************************************)
clients == <<attached, at, connected, on, in, out>>

\* What the shell runs in the background need not end with it.
ShellExits(k) ==
    /\ proc[k] = "running"
    /\ proc' = [proc EXCEPT ![k] = "exited"]
    /\ jobs' \in {jobs, jobs \cup {k}}
    /\ UNCHANGED <<started, fd, shell, clients>>

JobsEnd(k) ==
    /\ k \in jobs
    /\ jobs' = jobs \ {k}
    /\ UNCHANGED <<started, proc, fd, shell, clients>>

Wait(k) ==
    /\ proc[k] = "exited"
    /\ proc' = [proc EXCEPT ![k] = "waited"]
    /\ UNCHANGED <<started, jobs, fd, shell, clients>>

\* Mutant: the goroutine does not look whether the shell is still its own.
OwnShellAnyway(k) == shell # None

OwnShell(k) == shell = k

Reap(k) ==
    /\ proc[k] = "waited"
    /\ proc' = [proc EXCEPT ![k] = "reaped"]
    /\ IF OwnShell(k)
       THEN fd' = [fd EXCEPT ![shell] = "closed"] /\ shell' = None
       ELSE UNCHANGED <<fd, shell>>
    /\ UNCHANGED <<started, jobs, clients>>

Client(c) ==
    \/ runExec(c) \/ ExecEnds(c) \/ ensureShell(c) \/ Bridge(c)
    \/ Disconnect(c) \/ InputEnds(c) \/ InputFails(c)
    \/ OutputEnds(c) \/ OutputClosed(c) \/ OutputLost(c) \/ Leave(c)

Process(k) == ShellExits(k) \/ JobsEnd(k) \/ Wait(k) \/ Reap(k)

Next == (\E c \in Clients : Client(c)) \/ (\E k \in Shells : Process(k))

Spec == Init /\ [][Next]_vars

(***************************************************************************)
(* The handlers and goroutines run; reads of a client that is gone or of a *)
(* PTY that is hung up return.  Neither clients nor the shell and its jobs *)
(* owe anything: no input, no output, no exit.                             *)
(***************************************************************************)
Fairness ==
    /\ \A c \in Clients :
          /\ WF_vars(Bridge(c)) /\ WF_vars(Leave(c))
          /\ WF_vars(InputEnds(c)) /\ WF_vars(OutputEnds(c))
    /\ \A k \in Shells : WF_vars(Wait(k)) /\ WF_vars(Reap(k))

FairSpec == Spec /\ Fairness

-----------------------------------------------------------------------------

(***************************************************************************)
(* The types; a handler past ensureShell, and a copy, has a shell's PTY.   *)
(***************************************************************************)
TypeOK ==
    /\ started \in 0..MaxShells
    /\ proc \in [Shells -> {"none", "running", "exited", "waited", "reaped"}]
    /\ jobs \subseteq Shells
    /\ fd \in [Shells -> {"none", "open", "closed"}]
    /\ shell \in Shells \cup {None}
    /\ attached \in Int
    /\ at \in [Clients -> {"new", "exec", "starting", "attached", "left"}]
    /\ connected \subseteq Clients
    /\ on \in [Clients -> Shells \cup {None}]
    /\ in \subseteq Clients
    /\ out \subseteq Clients
    /\ \A c \in Clients :
          at[c] \in {"starting", "attached"} \/ c \in in \cup out
              => on[c] \in Shells

(***************************************************************************)
(* Continuity: a shell that runs is the one the next client is attached    *)
(* to, under an open PTY, although clients come and go and the goroutine   *)
(* of an earlier shell may reap late.  So there is never a second one.     *)
(***************************************************************************)
RunningIsShared ==
    \A k \in Shells : proc[k] = "running" => shell = k /\ fd[k] = "open"

\* m.attached counts the handlers inside attachShell's bridge.
AttachedCounts == attached = Cardinality({c \in Clients : at[c] = "attached"})

(***************************************************************************)
(* A client that disconnects is released: its handler returns, in whatever *)
(* step of attachShell it is and although its copy of the output may go on *)
(* reading the shared PTY for as long as the shell is silent.              *)
(***************************************************************************)
HandlerReturns ==
    \A c \in Clients :
        (at[c] \in {"starting", "attached"} /\ c \notin connected)
            ~> at[c] = "left"

(***************************************************************************)
(* Nothing of an attach outlives the terminal it was for: once the shell   *)
(* and its jobs are gone, the handlers attached to it return and both      *)
(* copies of every client end, those left behind included, although the    *)
(* PTY of a shell that was replaced before it was reaped is never closed.  *)
(***************************************************************************)
AttachEnds ==
    \A c \in Clients :
        (on[c] # None /\ HungUp(on[c]))
            ~> (at[c] = "left" /\ c \notin in \cup out)

=============================================================================
