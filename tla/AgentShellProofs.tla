-------------------------- MODULE AgentShellProofs --------------------------
(***************************************************************************)
(* Continuity of the shared shell, for any number of clients and shells.   *)
(***************************************************************************)
EXTENDS AgentShell, FiniteSetTheorems, TLAPS

(***************************************************************************)
(* RunningIsShared is not inductive: a shell that runs must not be         *)
(* replaced, which needs that the shared one is alive or still to be       *)
(* reaped, and a shell not yet started has no process.                     *)
(***************************************************************************)
IInv ==
    /\ TypeOK
    /\ \A k \in Shells : k > started => proc[k] = "none"
    /\ \A k \in Shells :
          proc[k] \in {"running", "exited"} => shell = k /\ fd[k] = "open"

\* Initially no shell exists.
LEMMA InitIInv == Init => IInv
  <1> SUFFICES ASSUME Init PROVE IInv
    OBVIOUS
  <1> USE ShellsAssumption DEF Init, None, Shells
  <1>1. TypeOK
    BY DEF TypeOK
  <1> QED
    BY <1>1 DEF IInv

\* No step of a client's handler, or of its copies, disturbs a shell that runs.
LEMMA ClientIInv ==
    ASSUME IInv, NEW c \in Clients, Client(c)
    PROVE  IInv'
  <1> USE ShellsAssumption DEF None, Shells
  <1>1. TypeOK
    BY DEF IInv
  <1>2. CASE UNCHANGED shells
    <2>1. TypeOK'
      <3> USE <1>1, <1>2 DEF TypeOK, shells
      <3>1. CASE runExec(c) \/ ExecEnds(c)
        BY <3>1 DEF runExec, ExecEnds
      <3>2. CASE ensureShell(c)
        <4>1. /\ UNCHANGED <<attached, in, out>>
              /\ at' \in [Clients -> {"new", "exec", "starting", "attached", "left"}]
              /\ connected' \subseteq Clients
          BY <3>2 DEF ensureShell
        <4>2. \/ on' = [on EXCEPT ![c] = shell] /\ shell \in Shells
              \/ UNCHANGED on /\ at' = [at EXCEPT ![c] = "left"]
          BY <3>2 DEF ensureShell, ShellUp
        <4>3. \A d \in Clients \ {c} : at'[d] = at[d]
          BY <3>2 DEF ensureShell
        <4> QED
          BY <4>1, <4>2, <4>3, ZenonT(60)
      <3>3. CASE Bridge(c) \/ Disconnect(c)
        BY <3>3 DEF Bridge, Disconnect
      <3>4. CASE InputEnds(c) \/ InputFails(c)
        BY <3>4 DEF InputEnds, InputFails
      <3>5. CASE OutputEnds(c) \/ OutputClosed(c) \/ OutputLost(c)
        BY <3>5 DEF OutputEnds, OutputClosed, OutputLost
      <3>6. CASE Leave(c)
        BY <3>6 DEF Leave
      <3> QED
        BY <3>1, <3>2, <3>3, <3>4, <3>5, <3>6, ZenonT(60) DEF Client
    <2> QED
      BY <1>2, <2>1, Zenon DEF IInv, shells
  <1>3. CASE ensureShell(c) /\ ~UNCHANGED shells
    <2> DEFINE k == started + 1
    <2>1. /\ ~ShellUp
          /\ started < MaxShells
          /\ started' = k
          /\ proc' = [proc EXCEPT ![k] = "running"]
          /\ fd' = [fd EXCEPT ![k] = "open"]
          /\ shell' = k
          /\ on' = [on EXCEPT ![c] = k]
          /\ at' = [at EXCEPT ![c] = "starting"]
          /\ UNCHANGED <<jobs, connected, attached, in, out>>
      BY <1>3 DEF ensureShell, shells
    <2>2. k \in Shells
      BY <1>1, <2>1 DEF TypeOK
    <2>3. TypeOK'
      BY <1>1, <2>1, <2>2 DEF TypeOK
    <2>4. \A j \in Shells : proc[j] \notin {"running", "exited"}
      BY <1>1, <2>1 DEF IInv, ShellUp, TypeOK
    <2>5. \A j \in Shells : j > k => proc'[j] = "none"
      BY <1>1, <2>1, <2>2 DEF IInv, TypeOK
    <2>6. \A j \in Shells : proc'[j] \in {"running", "exited"} => j = k
      BY <1>1, <2>1, <2>2, <2>4 DEF TypeOK
    <2>7. fd'[k] = "open"
      BY <1>1, <2>1, <2>2 DEF TypeOK
    <2> QED
      BY <2>1, <2>3, <2>5, <2>6, <2>7 DEF IInv
  <1>4. ensureShell(c) \/ UNCHANGED shells
    BY DEF Client, runExec, ExecEnds, Bridge, Disconnect, InputEnds, InputFails,
           OutputEnds, OutputClosed, OutputLost, Leave
  <1> QED
    BY <1>2, <1>3, <1>4

(***************************************************************************)
(* A process is waited for after it exited; the goroutine of a shell that  *)
(* was replaced leaves the new one alone.                                  *)
(***************************************************************************)
LEMMA ProcessIInv ==
    ASSUME IInv, NEW k \in Shells, Process(k)
    PROVE  IInv'
  <1> USE ShellsAssumption DEF None, Shells
  <1>1. TypeOK
    BY DEF IInv
  <1>2. CASE JobsEnd(k)
    BY <1>1, <1>2 DEF IInv, TypeOK, JobsEnd, clients
  <1>3. CASE ShellExits(k) \/ Wait(k)
    <2>1. TypeOK'
      BY <1>1, <1>3 DEF TypeOK, ShellExits, Wait, clients
    <2>2. /\ UNCHANGED <<started, fd, shell>>
          /\ proc[k] \in {"running", "exited"}
          /\ \A j \in Shells \ {k} : proc'[j] = proc[j]
      BY <1>1, <1>3 DEF TypeOK, ShellExits, Wait
    <2> QED
      BY <1>1, <2>1, <2>2 DEF IInv, TypeOK
  <1>4. CASE Reap(k)
    <2>1. /\ proc[k] = "waited"
          /\ proc' = [proc EXCEPT ![k] = "reaped"]
          /\ UNCHANGED started
          /\ \/ shell = k /\ fd' = [fd EXCEPT ![k] = "closed"] /\ shell' = None
             \/ shell # k /\ UNCHANGED <<fd, shell>>
      BY <1>4 DEF Reap, OwnShell
    <2>2. TypeOK'
      BY <1>1, <1>4, <2>1 DEF TypeOK, Reap, clients
    <2>3. k <= started
      BY <1>1, <2>1 DEF IInv, TypeOK
    <2>4. \A j \in Shells : j > started' => proc'[j] = "none"
      BY <1>1, <2>1, <2>3 DEF IInv, TypeOK
    <2>5. ASSUME NEW j \in Shells, proc'[j] \in {"running", "exited"}
          PROVE  shell' = j /\ fd'[j] = "open"
      <3>1. j # k /\ proc[j] \in {"running", "exited"}
        BY <1>1, <2>1, <2>5 DEF TypeOK
      <3>2. shell = j /\ fd[j] = "open"
        BY <3>1 DEF IInv
      <3> QED
        BY <2>1, <3>1, <3>2
    <2> QED
      BY <2>2, <2>4, <2>5 DEF IInv
  <1> QED
    BY <1>2, <1>3, <1>4 DEF Process

\* The inductive invariant holds of every behaviour of the session manager.
THEOREM InductiveInvariant == Spec => []IInv
  <1>1. IInv /\ [Next]_vars => IInv'
    <2> SUFFICES ASSUME IInv, [Next]_vars PROVE IInv'
      OBVIOUS
    <2>1. CASE UNCHANGED vars
      BY <2>1 DEF IInv, TypeOK, vars
    <2>2. CASE Next
      BY <2>2, ClientIInv, ProcessIInv DEF Next
    <2> QED
      BY <2>1, <2>2
  <1> QED
    BY InitIInv, <1>1, PTL DEF Spec

\* TypeOK for any number of clients and shells.
THEOREM TypeCorrect == Spec => []TypeOK
  <1>1. IInv => TypeOK
    BY DEF IInv
  <1> QED
    BY <1>1, InductiveInvariant, PTL

(***************************************************************************)
(* The running shell is the shared one and its PTY is open, whatever the   *)
(* order in which clients attach and old shells are reaped.                *)
(***************************************************************************)
THEOREM RunningIsSharedHolds == Spec => []RunningIsShared
  <1>1. IInv => RunningIsShared
    BY DEF IInv, RunningIsShared
  <1> QED
    BY <1>1, InductiveInvariant, PTL

-----------------------------------------------------------------------------

\* The handlers inside attachShell's bridge, which AttachedCounts counts.
Attached == {c \in Clients : at[c] = "attached"}

\* Only Bridge adds a handler to them, and only Leave removes one.
LEMMA AttachedStep ==
    ASSUME TypeOK, [Next]_vars
    PROVE  \/ Attached' = Attached /\ attached' = attached
           \/ \E c \in Clients \ Attached :
                 Attached' = Attached \cup {c} /\ attached' = attached + 1
           \/ \E c \in Attached :
                 Attached' = Attached \ {c} /\ attached' = attached - 1
  <1> USE DEF TypeOK
  <1>1. CASE UNCHANGED <<at, attached>>
    BY <1>1 DEF Attached
  <1>2. ASSUME NEW c \in Clients,
               runExec(c) \/ ExecEnds(c) \/ ensureShell(c)
        PROVE  Attached' = Attached /\ attached' = attached
    <2>1. attached' = attached
      BY <1>2 DEF runExec, ExecEnds, ensureShell
    <2>2. at[c] \in {"new", "exec"}
      BY <1>2, Zenon DEF runExec, ExecEnds, ensureShell
    <2>3. \E v \in {"exec", "left", "starting"} : at' = [at EXCEPT ![c] = v]
      BY <1>2 DEF runExec, ExecEnds, ensureShell
    <2> QED
      BY <2>1, <2>2, <2>3, ZenonT(60) DEF Attached
  <1>3. ASSUME NEW c \in Clients, Bridge(c)
        PROVE  /\ c \in Clients \ Attached
               /\ Attached' = Attached \cup {c} /\ attached' = attached + 1
    BY <1>3 DEF Bridge, Attached
  <1>4. ASSUME NEW c \in Clients, Leave(c)
        PROVE  /\ c \in Attached
               /\ Attached' = Attached \ {c} /\ attached' = attached - 1
    BY <1>4, Zenon DEF Leave, Attached
  <1>5. ASSUME NEW c \in Clients,
               \/ Disconnect(c) \/ InputEnds(c) \/ InputFails(c)
               \/ OutputEnds(c) \/ OutputClosed(c) \/ OutputLost(c)
        PROVE  UNCHANGED <<at, attached>>
    BY <1>5 DEF Disconnect, InputEnds, InputFails, OutputEnds,
                OutputClosed, OutputLost
  <1>6. ASSUME NEW k \in Shells, Process(k)
        PROVE  UNCHANGED <<at, attached>>
    BY <1>6 DEF Process, ShellExits, JobsEnd, Wait, Reap, clients
  <1> QED
    BY <1>1, <1>2, <1>3, <1>4, <1>5, <1>6, Zenon DEF Next, Client, vars

(***************************************************************************)
(* m.attached is the number of handlers inside the bridge, for any finite  *)
(* number of clients: each deferred decrement undoes its own increment.    *)
(***************************************************************************)
THEOREM AttachedCountsHolds == Spec => []AttachedCounts
  <1>1. Init => AttachedCounts
    <2> SUFFICES ASSUME Init PROVE AttachedCounts
      OBVIOUS
    <2>1. {c \in Clients : at[c] = "attached"} = {}
      BY DEF Init
    <2> QED
      BY <2>1, FS_EmptySet DEF AttachedCounts, Init
  <1>2. TypeOK /\ AttachedCounts /\ [Next]_vars => AttachedCounts'
    <2> SUFFICES ASSUME TypeOK, AttachedCounts, [Next]_vars
                 PROVE  AttachedCounts'
      OBVIOUS
    <2>1. IsFiniteSet(Attached) /\ attached = Cardinality(Attached)
      BY ClientsAssumption, FS_Subset DEF Attached, AttachedCounts
    <2>2. Cardinality(Attached) \in Nat
      BY <2>1, FS_CardinalityType
    <2>3. CASE Attached' = Attached /\ attached' = attached
      BY <2>1, <2>3, Zenon DEF Attached, AttachedCounts
    <2>4. ASSUME NEW c \in Clients \ Attached,
                 Attached' = Attached \cup {c}, attached' = attached + 1
          PROVE  attached' = Cardinality(Attached')
      BY <2>1, <2>2, <2>4, FS_AddElement
    <2>5. ASSUME NEW c \in Attached,
                 Attached' = Attached \ {c}, attached' = attached - 1
          PROVE  attached' = Cardinality(Attached')
      BY <2>1, <2>2, <2>5, FS_RemoveElement, Zenon
    <2>6. attached' = Cardinality(Attached')
      BY <2>1, <2>3, <2>4, <2>5, AttachedStep
    <2> QED
      BY <2>6 DEF Attached, AttachedCounts
  <1> QED
    BY <1>1, <1>2, TypeCorrect, PTL DEF Spec

=============================================================================
