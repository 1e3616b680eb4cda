--------------------------- MODULE BootstrapProofs --------------------------
(***************************************************************************)
(* For any number of gateways, operators and sandboxes the keys agree.     *)
(* Agreed says who may rely on the stored Secrets: a process past          *)
(* EnsureCASecret holds the stored CA, one that is about to create holds a *)
(* key of its own, and caches, host keys, agents and the certificate have  *)
(* the stored CA or nothing.  A stored Secret is never replaced, so only   *)
(* the step that stores the first one has more than its own process to     *)
(* care about, and before it nobody has anything.                          *)
(***************************************************************************)
EXTENDS Bootstrap, TLAPS

CAHeld(p) ==
    /\ at[p] \in {"held", "createHost", "fetchHost", "loaded", "up"} =>
         ca # NoKey /\ heldCA[p] = ca
    /\ at[p] = "create" => heldCA[p] # NoKey
    /\ at[p] = "fetch" => ca # NoKey

HostHeld(g) ==
    /\ at[g] \in {"loaded", "up"} => gw # NoKey /\ heldHost[g] = gw
    /\ at[g] = "createHost" => heldHost[g] # NoKey
    /\ at[g] = "fetchHost" => gw # NoKey

Pass(o) ==
    /\ at[o] \in {"idle", "get", "create", "fetch", "held"}
    /\ at[o] # "idle" => \E s \in Sandboxes : work[o] = {s}

Agreed ==
    /\ \A p \in Processes : CAHeld(p)
    /\ \A g \in Gateways : HostHeld(g)
    /\ \A o \in Operators : Pass(o) /\ caCache[o] \in {NoKey, ca}
    /\ \A s \in Sandboxes : hostKey[s] \in {NoKey, ca} /\ agent[s] \in {NoKey, ca}
    /\ cert # NoCert => ca # NoKey /\ cert.ca = ca

IInv == TypeOK /\ Agreed

USE KeysAssumption, ProcessAssumption, TTLAssumption, EventsAssumption
    DEF Processes, MaybeKey

\* Initially nobody holds a key.
LEMMA InitIInv == ASSUME Init PROVE IInv
  <1>1. \A p \in Processes : at[p] \in {"get", "idle"}
    BY DEF Init, Rest
  <1>2. \A o \in Operators : at[o] = "idle"
    BY DEF Init, Rest
  <1>3. TypeOK
    <2>1. at \in [Processes -> {"get", "idle"}]
      BY DEF Init, Rest
    <2>2. cert \in Certs \cup {NoCert} /\ events \in 0..MaxEvents
      BY DEF Init
    <2>3. at \in [Processes -> {"idle", "get", "create", "fetch", "held",
                               "createHost", "fetchHost", "loaded", "up"}]
      BY <2>1
    <2> QED
      BY <2>2, <2>3 DEF Init, TypeOK
  <1>4. Agreed
    BY <1>1, <1>2 DEF Init, Agreed, CAHeld, HostHeld, Pass
  <1> QED
    BY <1>3, <1>4 DEF IInv

\* A new key is a key.
LEMMA NewKey == GenerateKeyPair \subseteq Keys
  BY DEF GenerateKeyPair

\* EnsureCASecret reads the stored CA or generates a fresh one.
LEMMA GetCAIInv == ASSUME IInv, NEW p \in Processes, GetCA(p) PROVE IInv'
  <1>1. TypeOK'
    BY NewKey DEF IInv, GetCA, Goes, CASeenBy, TypeOK
  <1>2. heldCA'[p] # NoKey
    BY NewKey DEF IInv, GetCA, TypeOK
  <1>3. at'[p] = "held" => ca # NoKey /\ heldCA'[p] = ca
    BY DEF IInv, GetCA, Goes, CASeenBy, TypeOK, Agreed
  <1>4. Agreed'
    BY <1>2, <1>3 DEF IInv, GetCA, Goes, TypeOK, Agreed, CAHeld, HostHeld, Pass
  <1> QED
    BY <1>1, <1>4 DEF IInv

\* A Create stores the CA unless there is one.
LEMMA CreateCAIInv == ASSUME IInv, NEW p \in Processes, CreateCA(p) PROVE IInv'
  <1>1. TypeOK'
    BY DEF IInv, CreateCA, Goes, TypeOK
  <1>2. Agreed'
    BY DEF IInv, CreateCA, Goes, TypeOK, Agreed, CAHeld, HostHeld, Pass
  <1> QED
    BY <1>1, <1>2 DEF IInv

\* What the end of a pass or process does to the invariant, whoever stops.
LEMMA StopIInv ==
  ASSUME IInv, NEW p \in Processes, Stop(p), events' \in 0..MaxEvents,
         UNCHANGED <<ca, gw, hostKey, caCache, keyCache, agent, cert>>
  PROVE  IInv'
  <1>1. Rest(p) \in {"get", "idle"} /\ (p \in Operators => Rest(p) = "idle")
    BY DEF Rest
  <1>2. TypeOK'
    BY <1>1 DEF IInv, Stop, Goes, TypeOK
  <1>3. Agreed'
    BY <1>1 DEF IInv, Stop, Goes, TypeOK, Agreed, CAHeld, HostHeld, Pass
  <1> QED
    BY <1>2, <1>3 DEF IInv

\* The loser of the race reads the stored CA.
LEMMA FetchCAIInv == ASSUME IInv, NEW p \in Processes, FetchCA(p) PROVE IInv'
  <1>1. CASE CASeenBy(p) = NoKey
    BY <1>1, StopIInv DEF FetchCA, IInv, TypeOK
  <1>2. CASE CASeenBy(p) # NoKey
    <2>1. CASeenBy(p) = ca
      BY <1>2 DEF IInv, Agreed, CASeenBy
    <2>2. TypeOK'
      BY <1>2, <2>1 DEF FetchCA, IInv, Goes, TypeOK
    <2>3. Agreed'
      BY <1>2, <2>1 DEF FetchCA, IInv, Goes, TypeOK, Agreed, CAHeld, HostHeld, Pass
    <2> QED
      BY <2>2, <2>3 DEF IInv
  <1> QED
    BY <1>1, <1>2

\* The same three steps for the host key of the gateways.
LEMMA GatewayHostKeyIInv ==
  ASSUME IInv, NEW g \in Gateways, gatewayHostKey(g) \/ Serve(g) PROVE IInv'
  <1>1. CASE GetHostKey(g)
    <2>1. TypeOK'
      BY <1>1, NewKey DEF GetHostKey, IInv, Goes, TypeOK
    <2>2. heldHost'[g] # NoKey
      BY <1>1, NewKey DEF GetHostKey, IInv, TypeOK
    <2>3. Agreed'
      BY <1>1, <2>2 DEF GetHostKey, IInv, Goes, TypeOK, Agreed, CAHeld, HostHeld, Pass
    <2> QED
      BY <2>1, <2>3 DEF IInv
  <1>2. CASE CreateHostKey(g)
    <2>1. TypeOK'
      BY <1>2 DEF CreateHostKey, IInv, Goes, TypeOK
    <2>2. Agreed'
      BY <1>2 DEF CreateHostKey, IInv, Goes, TypeOK, Agreed, CAHeld, HostHeld, Pass
    <2> QED
      BY <2>1, <2>2 DEF IInv
  <1>3. CASE FetchHostKey(g) \/ Serve(g)
    <2>1. TypeOK'
      BY <1>3 DEF FetchHostKey, Serve, IInv, Goes, TypeOK
    <2>2. Agreed'
      BY <1>3
         DEF FetchHostKey, Serve, IInv, Goes, TypeOK, Agreed, CAHeld, HostHeld, Pass
    <2> QED
      BY <2>1, <2>2 DEF IInv
  <1> QED
    BY <1>1, <1>2, <1>3 DEF gatewayHostKey

\* A pass of reconcileHostKey begins.
LEMMA BeginHostKeyIInv ==
  ASSUME IInv, NEW o \in Operators, NEW s \in Sandboxes, BeginHostKey(o, s)
  PROVE  IInv'
  <1>1. TypeOK'
    BY ZenonT(60) DEF BeginHostKey, IInv, Goes, TypeOK
  <1>2. Agreed'
    BY DEF BeginHostKey, IInv, Goes, TypeOK, Agreed, CAHeld, HostHeld, Pass
  <1> QED
    BY <1>1, <1>2 DEF IInv

\* A sandbox host key is stored with the CA the operator holds.
LEMMA CreateSandboxKeyIInv ==
  ASSUME IInv, NEW o \in Operators, CreateSandboxKey(o) PROVE IInv'
  <1>1. ca # NoKey /\ heldCA[o] = ca /\ Rest(o) = "idle"
    BY DEF CreateSandboxKey, IInv, Agreed, CAHeld, Rest
  <1>2. TypeOK'
    BY <1>1, Zenon DEF CreateSandboxKey, Stop, IInv, Goes, TypeOK
  <1>3. Agreed'
    BY <1>1
       DEF CreateSandboxKey, Stop, IInv, Goes, TypeOK, Agreed, CAHeld, HostHeld, Pass
  <1> QED
    BY <1>2, <1>3 DEF IInv

\* The caches move to what is stored.
LEMMA WatchIInv ==
  ASSUME IInv, NEW o \in Operators,
         SyncCA(o) \/ \E s \in Sandboxes : SyncKey(o, s)
  PROVE  IInv'
  <1>1. TypeOK'
    BY DEF SyncCA, SyncKey, IInv, TypeOK
  <1>2. Agreed'
    BY DEF SyncCA, SyncKey, IInv, TypeOK, Agreed, CAHeld, HostHeld, Pass
  <1> QED
    BY <1>1, <1>2 DEF IInv

\* Agents start from the stored key, and stop.
LEMMA AgentIInv ==
  ASSUME IInv, NEW s \in Sandboxes, AgentStarts(s) \/ AgentStops(s) PROVE IInv'
  <1>1. TypeOK'
    BY Zenon DEF AgentStarts, AgentStops, IInv, TypeOK
  <1>2. Agreed'
    BY DEF AgentStarts, AgentStops, IInv, TypeOK, Agreed, CAHeld, HostHeld, Pass
  <1> QED
    BY <1>1, <1>2 DEF IInv

\* Either signer signs with the stored CA.
LEMMA SignIInv ==
  ASSUME IInv, NEW u \in Principals,
         runSignCert(u) \/ \E g \in Gateways : handleSign(g, u)
  PROVE  IInv'
  <1>1. ca # NoKey /\ SignUserCert(ca, u)
    BY DEF runSignCert, handleSign, IInv, Agreed, CAHeld
  <1>2. cert' \in Certs /\ cert'.ca = ca
    BY <1>1 DEF SignUserCert, IInv, TypeOK, Certs
  <1>3. TypeOK'
    BY <1>1, <1>2, Zenon DEF SignUserCert, IInv, TypeOK
  <1>4. Agreed'
    BY <1>1, <1>2 DEF SignUserCert, IInv, Agreed, CAHeld, HostHeld, Pass
  <1> QED
    BY <1>3, <1>4 DEF IInv

\* Time passes: certificates expire.
LEMMA TickIInv == ASSUME IInv, Tick PROVE IInv'
  <1>1. cert # NoCert
    <2>1. NoCert.left = 0
      BY DEF NoCert
    <2>2. cert.left > 0
      BY DEF Tick
    <2>3. ~(0 > 0)
      OBVIOUS
    <2> QED
      BY <2>1, <2>2, <2>3, Zenon
  <1>2. cert \in Certs
    BY <1>1 DEF IInv, TypeOK
  <1>3. cert' \in Certs /\ cert'.ca = cert.ca
    BY <1>2 DEF Tick, Certs
  <1>4. TypeOK'
    BY <1>3 DEF Tick, IInv, TypeOK
  <1>5. Agreed'
    BY <1>1, <1>3 DEF Tick, IInv, Agreed, CAHeld, HostHeld, Pass
  <1> QED
    BY <1>4, <1>5 DEF IInv

\* Failing calls and lost answers.
LEMMA FaultIInv ==
  ASSUME IInv, NEW p \in Processes, Fails(p) \/ AnswerLost(p) PROVE IInv'
  <1>0. Event => events' \in 0..MaxEvents
    BY DEF IInv, TypeOK, Event
  <1>1. CASE Fails(p)
    BY <1>0, <1>1, StopIInv DEF Fails
  <1>2. CASE AnswerLost(p)
    <2>1. Rest(p) \in {"get", "idle"} /\ (p \in Operators => Rest(p) = "idle")
      BY Zenon DEF Rest
    <2>2. at[p] = "createHost" => p \in Gateways
      BY Zenon DEF IInv, Agreed, Pass
    <2>3. ca' \in MaybeKey /\ gw' \in MaybeKey
      BY <1>2, <2>2, ZenonT(60) DEF AnswerLost, IInv, TypeOK
    <2>4. TypeOK'
      BY <1>0, <1>2, <2>1, <2>3 DEF AnswerLost, Stop, Goes, IInv, TypeOK
    <2>5. (ca' = ca \/ ca = NoKey) /\ (gw' = gw \/ gw = NoKey)
      BY <1>2, ZenonT(60) DEF AnswerLost
    <2>6. Agreed'
      BY <1>2, <2>1, <2>5
         DEF AnswerLost, Stop, Goes, IInv, TypeOK, Agreed, CAHeld, HostHeld, Pass
    <2> QED
      BY <2>4, <2>6 DEF IInv
  <1> QED
    BY <1>1, <1>2

\* An operator restarts: its caches are filled again.
LEMMA RestartIInv ==
  ASSUME IInv, NEW o \in Operators, OperatorRestarts(o) PROVE IInv'
  <1>1. Rest(o) = "idle"
    BY Zenon DEF Rest
  <1>2. TypeOK'
    BY <1>1 DEF OperatorRestarts, Stop, Goes, Event, IInv, TypeOK
  <1>3. Agreed'
    BY <1>1
       DEF OperatorRestarts, Stop, Goes, IInv, TypeOK, Agreed, CAHeld, HostHeld, Pass
  <1> QED
    BY <1>2, <1>3 DEF IInv

-----------------------------------------------------------------------------

\* Every step preserves the invariant.
LEMMA StepIInv == ASSUME IInv, [Next]_vars PROVE IInv'
  <1>1. CASE Next
    BY <1>1, GetCAIInv, CreateCAIInv, FetchCAIInv, GatewayHostKeyIInv,
       BeginHostKeyIInv, CreateSandboxKeyIInv, WatchIInv, AgentIInv, SignIInv,
       TickIInv, FaultIInv, RestartIInv
       DEF Next, GatewayStep, OperatorStep, EnsureCASecret
  <1>2. CASE UNCHANGED vars
    <2>1. TypeOK'
      BY <1>2, Zenon DEF IInv, TypeOK, vars
    <2>2. Agreed'
      BY <1>2 DEF IInv, Agreed, CAHeld, HostHeld, Pass, vars
    <2> QED
      BY <2>1, <2>2, Zenon DEF IInv
  <1> QED
    BY <1>1, <1>2, Zenon

\* Keys are typed, and whoever is past the bootstrap has the stored ones.
THEOREM InductiveInvariant == Spec => []IInv
  <1>1. Init => IInv
    BY InitIInv
  <1>2. IInv /\ [Next]_vars => IInv'
    BY StepIInv
  <1> QED
    BY <1>1, <1>2, PTL DEF Spec

\* Types are preserved for any number of processes, sandboxes and faults.
THEOREM TypeCorrect == Spec => []TypeOK
  <1>1. IInv => TypeOK
    BY Zenon DEF IInv
  <1> QED
    BY <1>1, InductiveInvariant, PTL

(***************************************************************************)
(* A certificate issued by any gateway or by the administrator is accepted *)
(* by every gateway, and by the agents of its principal's sandboxes only,  *)
(* until it expires: CheckUserCert compares with a CA that is the signer's.*)
(***************************************************************************)
THEOREM CertOpensItsSandboxesHolds == Spec => []CertOpensItsSandboxes
  <1>1. IInv => CertOpensItsSandboxes
    BY DEF IInv, Agreed, CAHeld, CertOpensItsSandboxes, JumpHostAccepts,
           AgentAccepts, CheckUserCert
  <1> QED
    BY <1>1, InductiveInvariant, PTL

-----------------------------------------------------------------------------

(***************************************************************************)
(* The two implementation proofs.  A step chooses the key, or lets one     *)
(* user begin or cease to use it, or does not touch the mapped variables.  *)
(***************************************************************************)

\* What a serving gateway has.
Serving(g) == IF at[g] = "up" THEN heldCA[g] ELSE NoKey

\* Who uses the CA: gateways, host key Secrets and agents.
LEMMA CAUserKinds ==
  ASSUME NEW u \in CAUsers
  PROVE  \/ \E g \in Gateways : u = <<"gateway", g>>
         \/ \E s \in Sandboxes : u = <<"secret", s>>
         \/ \E s \in Sandboxes : u = <<"agent", s>>
  BY DEF CAUsers

\* The CA each of them uses.
LEMMA CAUsesOf ==
  /\ \A g \in Gateways : /\ <<"gateway", g>> \in CAUsers
                         /\ CAUses[<<"gateway", g>>] = Serving(g)
  /\ \A s \in Sandboxes : /\ <<"secret", s>> \in CAUsers
                          /\ CAUses[<<"secret", s>>] = hostKey[s]
                          /\ <<"agent", s>> \in CAUsers
                          /\ CAUses[<<"agent", s>>] = agent[s]
  BY DEF CAUses, CAUsers, Serving

\* The CA each of them uses after a step.
LEMMA CAUsesNext ==
  /\ \A g \in Gateways : CAUses'[<<"gateway", g>>] = Serving(g)'
  /\ \A s \in Sandboxes : /\ CAUses'[<<"secret", s>>] = hostKey'[s]
                          /\ CAUses'[<<"agent", s>>] = agent'[s]
  BY DEF CAUses, CAUsers, Serving

\* A step that changes what one user has is an update of CAUses there.
LEMMA CAUsesUpdate ==
  ASSUME NEW u \in CAUsers, \A v \in CAUsers : v # u => CAUses'[v] = CAUses[v]
  PROVE  CAUses' = [CAUses EXCEPT ![u] = CAUses'[u]]
  <1>1. CAUses = [v \in CAUsers |-> CAUses[v]]
    BY Zenon DEF CAUses
  <1>2. CAUses' = [v \in CAUsers |-> CAUses'[v]]
    BY DEF CAUses
  <1> QED
    BY <1>1, <1>2, Zenon

\* A step that changes none of them.
LEMMA CAUsesUnchanged ==
  ASSUME UNCHANGED <<hostKey, agent>>,
         \A g \in Gateways : Serving(g)' = Serving(g)
  PROVE  CAUses' = CAUses
  BY DEF CAUses, CAUsers, Serving

\* A step that changes one gateway.
LEMMA CAUsesGateway ==
  ASSUME UNCHANGED <<hostKey, agent>>, NEW g \in Gateways,
         \A h \in Gateways \ {g} : Serving(h)' = Serving(h)
  PROVE  CAUses' = [CAUses EXCEPT ![<<"gateway", g>>] = Serving(g)']
  <1>1. ASSUME NEW v \in CAUsers, v # <<"gateway", g>>
        PROVE  CAUses'[v] = CAUses[v]
    <2>1. CASE \E h \in Gateways : v = <<"gateway", h>>
      BY <1>1, <2>1, CAUsesOf, CAUsesNext, ZenonT(60)
    <2>2. CASE \E r \in Sandboxes : v = <<"secret", r>>
      BY <1>1, <2>2, CAUsesOf, CAUsesNext, ZenonT(60)
    <2>3. CASE \E r \in Sandboxes : v = <<"agent", r>>
      BY <1>1, <2>3, CAUsesOf, CAUsesNext, ZenonT(60)
    <2> QED
      BY <2>1, <2>2, <2>3, CAUserKinds, Zenon
  <1>2. /\ <<"gateway", g>> \in CAUsers
        /\ CAUses'[<<"gateway", g>>] = Serving(g)'
    BY CAUsesOf, CAUsesNext
  <1>3. CAUses' = [CAUses EXCEPT ![<<"gateway", g>>] = CAUses'[<<"gateway", g>>]]
    BY <1>1, <1>2, CAUsesUpdate
  <1> QED
    BY <1>2, <1>3

\* A step that changes one host key Secret.
LEMMA CAUsesSecret ==
  ASSUME NEW s \in Sandboxes, UNCHANGED agent,
         \A r \in Sandboxes \ {s} : hostKey'[r] = hostKey[r],
         \A g \in Gateways : Serving(g)' = Serving(g)
  PROVE  CAUses' = [CAUses EXCEPT ![<<"secret", s>>] = hostKey'[s]]
  <1>1. ASSUME NEW v \in CAUsers, v # <<"secret", s>>
        PROVE  CAUses'[v] = CAUses[v]
    <2>1. CASE \E h \in Gateways : v = <<"gateway", h>>
      BY <1>1, <2>1, CAUsesOf, CAUsesNext, ZenonT(60)
    <2>2. CASE \E r \in Sandboxes : v = <<"secret", r>>
      BY <1>1, <2>2, CAUsesOf, CAUsesNext, ZenonT(60)
    <2>3. CASE \E r \in Sandboxes : v = <<"agent", r>>
      BY <1>1, <2>3, CAUsesOf, CAUsesNext, ZenonT(60)
    <2> QED
      BY <2>1, <2>2, <2>3, CAUserKinds, Zenon
  <1>2. /\ <<"secret", s>> \in CAUsers
        /\ CAUses'[<<"secret", s>>] = hostKey'[s]
    BY CAUsesOf, CAUsesNext, Zenon
  <1>3. CAUses' = [CAUses EXCEPT ![<<"secret", s>>] = CAUses'[<<"secret", s>>]]
    BY <1>1, <1>2, CAUsesUpdate
  <1> QED
    BY <1>2, <1>3, Zenon

\* A step that changes one agent.
LEMMA CAUsesAgent ==
  ASSUME NEW s \in Sandboxes, UNCHANGED hostKey,
         \A r \in Sandboxes \ {s} : agent'[r] = agent[r],
         \A g \in Gateways : Serving(g)' = Serving(g)
  PROVE  CAUses' = [CAUses EXCEPT ![<<"agent", s>>] = agent'[s]]
  <1>1. ASSUME NEW v \in CAUsers, v # <<"agent", s>>
        PROVE  CAUses'[v] = CAUses[v]
    <2>1. CASE \E h \in Gateways : v = <<"gateway", h>>
      BY <1>1, <2>1, CAUsesOf, CAUsesNext
    <2>2. CASE \E r \in Sandboxes : v = <<"secret", r>>
      BY <1>1, <2>2, CAUsesOf, CAUsesNext, ZenonT(60)
    <2>3. CASE \E r \in Sandboxes : v = <<"agent", r>>
      BY <1>1, <2>3, CAUsesOf, CAUsesNext, ZenonT(60)
    <2> QED
      BY <2>1, <2>2, <2>3, CAUserKinds
  <1>2. /\ <<"agent", s>> \in CAUsers
        /\ CAUses'[<<"agent", s>>] = agent'[s]
    BY CAUsesOf, CAUsesNext, Zenon
  <1>3. CAUses' = [CAUses EXCEPT ![<<"agent", s>>] = CAUses'[<<"agent", s>>]]
    BY <1>1, <1>2, CAUsesUpdate
  <1> QED
    BY <1>2, <1>3

\* Initial states map to initial states of KeyAgreement.
LEMMA CAInit == Init => CA!Init
  <1> SUFFICES ASSUME Init PROVE CA!Init
    OBVIOUS
  <1>1. \A g \in Gateways : at[g] # "up"
    BY DEF Init, Rest
  <1> QED
    BY <1>1 DEF Init, CA!Init, CAUses, CAUsers

\* Every step maps to a step of KeyAgreement for the CA, or to none.
LEMMA CAStep == ASSUME IInv, [Next]_vars PROVE [CA!Next]_<<ca, CAUses>>
  <1>0. TypeOK /\ Agreed
    BY DEF IInv
  <1>1. ASSUME NEW p \in Processes, GetCA(p) \/ CreateCA(p)
        PROVE  [CA!Next]_<<ca, CAUses>>
    <2>1. \A g \in Gateways : Serving(g)' = Serving(g)
      BY <1>0, <1>1, ZenonT(60) DEF GetCA, CreateCA, Goes, TypeOK, Serving
    <2>2. CAUses' = CAUses
      BY <1>1, <2>1, CAUsesUnchanged, Zenon DEF GetCA, CreateCA
    <2>3. ca' = ca \/ (ca = NoKey /\ ca' \in Keys)
      BY <1>0, <1>1 DEF GetCA, CreateCA, TypeOK, Agreed, CAHeld
    <2> QED
      BY <2>2, <2>3 DEF CA!Next, CA!Choose
  <1>2. ASSUME NEW p \in Processes, Stop(p), UNCHANGED <<hostKey, agent>>,
               ca' = ca \/ (ca = NoKey /\ ca' \in Keys /\ at[p] # "up")
        PROVE  [CA!Next]_<<ca, CAUses>>
    <2>1. CASE at[p] # "up"
      <3>1. \A g \in Gateways : Serving(g)' = Serving(g)
        BY <1>0, <1>2, <2>1 DEF Stop, Goes, Rest, TypeOK, Serving
      <3>2. CAUses' = CAUses
        BY <1>2, <3>1, CAUsesUnchanged, Zenon
      <3> QED
        BY <1>2, <3>2, Zenon DEF CA!Next, CA!Choose
    <2>2. CASE at[p] = "up"
      <3>1. p \in Gateways
        BY <1>0, <2>2 DEF Agreed, Pass
      <3>2. Serving(p)' = NoKey /\ \A g \in Gateways \ {p} : Serving(g)' = Serving(g)
        BY <1>0, <1>2, <3>1 DEF Stop, Goes, Rest, TypeOK, Serving
      <3>3. CAUses' = [CAUses EXCEPT ![<<"gateway", p>>] = NoKey] /\ ca' = ca
        BY <1>2, <2>2, <3>1, <3>2, CAUsesGateway
      <3> QED
        BY <3>1, <3>3, CAUsesOf, Zenon DEF CA!Next, CA!Drop
    <2> QED
      BY <2>1, <2>2
  <1>3. ASSUME NEW p \in Processes, FetchCA(p) PROVE [CA!Next]_<<ca, CAUses>>
    <2>1. CASE Stop(p)
      BY <1>2, <1>3, <2>1 DEF FetchCA
    <2>2. CASE Goes(p, "held")
      <3>1. \A g \in Gateways : Serving(g)' = Serving(g)
        BY <1>0, <1>3, <2>2 DEF FetchCA, Stop, Goes, TypeOK, Serving
      <3> QED
        BY <1>3, <3>1, CAUsesUnchanged DEF FetchCA
    <2> QED
      BY <1>3, <2>1, <2>2 DEF FetchCA
  <1>4. ASSUME NEW p \in Processes, Fails(p) \/ AnswerLost(p)
        PROVE  [CA!Next]_<<ca, CAUses>>
    <2>1. ca' = ca \/ (ca = NoKey /\ ca' \in Keys /\ at[p] # "up")
      BY <1>0, <1>4 DEF Fails, AnswerLost, TypeOK, Agreed, CAHeld
    <2> QED
      BY <1>2, <1>4, <2>1 DEF Fails, AnswerLost
  <1>5. ASSUME NEW g \in Gateways, gatewayHostKey(g)
        PROVE  [CA!Next]_<<ca, CAUses>>
    <2>1. \A h \in Gateways : Serving(h)' = Serving(h)
      BY <1>0, <1>5 DEF gatewayHostKey, GetHostKey, CreateHostKey, FetchHostKey,
                        Goes, TypeOK, Serving
    <2> QED
      BY <1>5, <2>1, CAUsesUnchanged
         DEF gatewayHostKey, GetHostKey, CreateHostKey, FetchHostKey
  <1>6. ASSUME NEW g \in Gateways, Serve(g) PROVE [CA!Next]_<<ca, CAUses>>
    <2>1. ca # NoKey /\ Serving(g)' = ca
      BY <1>0, <1>6 DEF Serve, Goes, TypeOK, Serving, Agreed, CAHeld
    <2>2. \A h \in Gateways \ {g} : Serving(h)' = Serving(h)
      BY <1>0, <1>6 DEF Serve, Goes, TypeOK, Serving
    <2>3. CAUses' = [CAUses EXCEPT ![<<"gateway", g>>] = ca]
      BY <1>6, <2>1, <2>2, CAUsesGateway DEF Serve
    <2> QED
      BY <1>6, <2>1, <2>3, CAUsesOf, Zenon DEF Serve, CA!Next, CA!Use
  <1>7. ASSUME NEW o \in Operators, CreateSandboxKey(o)
        PROVE  [CA!Next]_<<ca, CAUses>>
    <2>0. at[o] = "held" /\ ca # NoKey /\ heldCA[o] = ca
      BY <1>0, <1>7 DEF CreateSandboxKey, Agreed, CAHeld
    <2>1. \A g \in Gateways : Serving(g)' = Serving(g)
      BY <1>0, <1>7 DEF CreateSandboxKey, Stop, Goes, TypeOK, Serving
    <2>2. PICK s \in Sandboxes : work[o] = {s}
      BY <1>0, <2>0 DEF Agreed, Pass
    <2>3. /\ hostKey'[s] = ca
          /\ \A r \in Sandboxes \ {s} : hostKey'[r] = hostKey[r]
      BY <1>0, <1>7, <2>0, <2>2, Zenon DEF CreateSandboxKey, Agreed
    <2>4. CAUses' = [CAUses EXCEPT ![<<"secret", s>>] = ca]
      BY <1>7, <2>1, <2>3, CAUsesSecret, Zenon DEF CreateSandboxKey
    <2> QED
      BY <1>7, <2>0, <2>4, CAUsesOf, ZenonT(60) DEF CreateSandboxKey, CA!Next, CA!Use
  <1>8. ASSUME NEW s \in Sandboxes, AgentStarts(s) \/ AgentStops(s)
        PROVE  [CA!Next]_<<ca, CAUses>>
    <2>1. \A g \in Gateways : Serving(g)' = Serving(g)
      BY <1>8 DEF AgentStarts, AgentStops, Serving
    <2>2. /\ ca' = ca
          /\ agent'[s] = NoKey \/ (agent'[s] = ca /\ ca # NoKey)
          /\ \A r \in Sandboxes \ {s} : agent'[r] = agent[r]
      BY <1>0, <1>8 DEF AgentStarts, AgentStops, TypeOK, Agreed
    <2>3. CAUses' = [CAUses EXCEPT ![<<"agent", s>>] = agent'[s]]
      BY <1>8, <2>1, <2>2, CAUsesAgent DEF AgentStarts, AgentStops
    <2> QED
      BY <2>2, <2>3, CAUsesOf, ZenonT(60) DEF CA!Next, CA!Use, CA!Drop
  <1>9. ASSUME UNCHANGED <<ca, hostKey, agent, heldCA>>,
               \A g \in Gateways : at'[g] = at[g]
        PROVE  [CA!Next]_<<ca, CAUses>>
    <2>1. \A g \in Gateways : Serving(g)' = Serving(g)
      BY <1>9 DEF Serving
    <2> QED
      BY <1>9, <2>1, CAUsesUnchanged
  <1>10. ASSUME NEW o \in Operators, OperatorRestarts(o)
         PROVE  [CA!Next]_<<ca, CAUses>>
    BY <1>2, <1>10 DEF OperatorRestarts
  <1>11. ASSUME NEW o \in Operators, NEW s \in Sandboxes, BeginHostKey(o, s)
         PROVE  [CA!Next]_<<ca, CAUses>>
    BY <1>0, <1>9, <1>11 DEF BeginHostKey, Goes, TypeOK
  <1>12. ASSUME NEW o \in Operators, SyncCA(o) \/ \E s \in Sandboxes : SyncKey(o, s)
         PROVE  [CA!Next]_<<ca, CAUses>>
    BY <1>9, <1>12 DEF SyncCA, SyncKey
  <1>13. ASSUME \/ Tick \/ UNCHANGED vars
                \/ \E u \in Principals : \/ runSignCert(u)
                                         \/ \E g \in Gateways : handleSign(g, u)
         PROVE  [CA!Next]_<<ca, CAUses>>
    BY <1>9, <1>13 DEF Tick, vars, runSignCert, handleSign, SignUserCert
  <1> QED
    BY <1>1, <1>3, <1>4, <1>5, <1>6, <1>7, <1>8, <1>10, <1>11, <1>12, <1>13
       DEF Next, GatewayStep, OperatorStep, EnsureCASecret

(***************************************************************************)
(* Gateways, host key Secrets and agents agree on one CA for ever, for any *)
(* number of them and any faults: Bootstrap implements KeyAgreement.       *)
(***************************************************************************)
THEOREM CAAgreementHolds == Spec => CAAgreement
  <1>1. Init => CA!Init
    BY CAInit
  <1>2. IInv /\ [Next]_vars => [CA!Next]_<<ca, CAUses>>
    BY CAStep, Zenon
  <1> QED
    BY <1>1, <1>2, InductiveInvariant, PTL DEF Spec, CAAgreement, CA!Spec

\* Every step maps to a step of KeyAgreement for the host key, or to none.
LEMMA HostKeyStep ==
  ASSUME IInv, [Next]_vars PROVE [HostKeys!Next]_<<gw, HostKeyUses>>
  <1>0. TypeOK /\ Agreed
    BY DEF IInv
  <1>1. ASSUME NEW p \in Processes, GetCA(p) \/ CreateCA(p) \/ FetchCA(p)
        PROVE  UNCHANGED <<gw, HostKeyUses>>
    <2>1. gw' = gw /\ \A g \in Gateways : (at'[g] = "up") = (at[g] = "up")
      BY <1>0, <1>1, ZenonT(60) DEF GetCA, CreateCA, FetchCA, Stop, Goes, Rest, TypeOK
    <2>2. \A g \in Gateways : at[g] = "up" => heldHost'[g] = heldHost[g]
      BY <1>0, <1>1, ZenonT(60) DEF GetCA, CreateCA, FetchCA, Stop, Goes, TypeOK
    <2> QED
      BY <2>1, <2>2, Zenon DEF HostKeyUses
  <1>2. ASSUME NEW p \in Processes, Fails(p) \/ AnswerLost(p)
        PROVE  [HostKeys!Next]_<<gw, HostKeyUses>>
    <2>1. CASE at[p] # "up"
      <3>1. HostKeyUses' = HostKeyUses
        BY <1>0, <1>2, <2>1, ZenonT(60)
           DEF Fails, AnswerLost, Stop, Goes, Rest, TypeOK, HostKeyUses
      <3>2. gw' = gw \/ (gw = NoKey /\ gw' \in Keys)
        BY <1>0, <1>2 DEF Fails, AnswerLost, TypeOK, Agreed, Pass, HostHeld
      <3> QED
        BY <3>1, <3>2, Zenon DEF HostKeys!Next, HostKeys!Choose
    <2>2. CASE at[p] = "up"
      <3>1. p \in Gateways /\ gw' = gw /\ Stop(p)
        BY <1>0, <1>2, <2>2 DEF Fails, AnswerLost, Agreed, Pass
      <3>2. HostKeyUses' = [HostKeyUses EXCEPT ![p] = NoKey]
        BY <1>0, <3>1, Zenon DEF Stop, Goes, Rest, TypeOK, HostKeyUses
      <3> QED
        BY <3>1, <3>2, ZenonT(60) DEF HostKeys!Next, HostKeys!Drop
    <2> QED
      BY <2>1, <2>2
  <1>3. ASSUME NEW g \in Gateways, gatewayHostKey(g)
        PROVE  [HostKeys!Next]_<<gw, HostKeyUses>>
    <2>1. HostKeyUses' = HostKeyUses
      BY <1>0, <1>3 DEF gatewayHostKey, GetHostKey, CreateHostKey, FetchHostKey,
                        Goes, TypeOK, HostKeyUses
    <2>2. gw' = gw \/ (gw = NoKey /\ gw' \in Keys)
      <3>1. CASE CreateHostKey(g)
        <4>1. heldHost[g] \in MaybeKey /\ HostHeld(g)
          BY <1>0, Zenon DEF TypeOK, Agreed
        <4> QED
          BY <3>1, <4>1 DEF CreateHostKey, HostHeld
      <3>2. CASE GetHostKey(g) \/ FetchHostKey(g)
        BY <3>2, Zenon DEF GetHostKey, FetchHostKey
      <3> QED
        BY <1>3, <3>1, <3>2, Zenon DEF gatewayHostKey
    <2> QED
      BY <2>1, <2>2 DEF HostKeys!Next, HostKeys!Choose
  <1>4. ASSUME NEW g \in Gateways, Serve(g)
        PROVE  [HostKeys!Next]_<<gw, HostKeyUses>>
    <2>1. gw # NoKey /\ heldHost[g] = gw
      BY <1>0, <1>4 DEF Serve, Agreed, HostHeld
    <2>2. HostKeyUses' = [HostKeyUses EXCEPT ![g] = gw]
      BY <1>0, <1>4, <2>1, Zenon DEF Serve, Goes, TypeOK, HostKeyUses
    <2> QED
      BY <1>4, <2>1, <2>2, ZenonT(60) DEF Serve, HostKeys!Next, HostKeys!Use
  <1>5. ASSUME NEW o \in Operators,
               \/ CreateSandboxKey(o) \/ OperatorRestarts(o) \/ SyncCA(o)
               \/ \E s \in Sandboxes : BeginHostKey(o, s) \/ SyncKey(o, s)
        PROVE  UNCHANGED <<gw, HostKeyUses>>
    <2>1. gw' = gw /\ \A g \in Gateways : at'[g] = at[g]
      BY <1>0, <1>5, ZenonT(60)
         DEF CreateSandboxKey, OperatorRestarts, SyncCA, BeginHostKey,
                        SyncKey, Stop, Goes, TypeOK
    <2>2. \A g \in Gateways : heldHost'[g] = heldHost[g]
      BY <1>5 DEF CreateSandboxKey, OperatorRestarts, SyncCA, BeginHostKey,
                  SyncKey, Stop
    <2> QED
      BY <2>1, <2>2 DEF HostKeyUses
  <1>6. ASSUME \/ Tick \/ UNCHANGED vars
               \/ \E s \in Sandboxes : AgentStarts(s) \/ AgentStops(s)
               \/ \E u \in Principals : \/ runSignCert(u)
                                        \/ \E g \in Gateways : handleSign(g, u)
        PROVE  UNCHANGED <<gw, HostKeyUses>>
    BY <1>6, Zenon DEF Tick, vars, AgentStarts, AgentStops, runSignCert, handleSign,
                SignUserCert, HostKeyUses
  <1> QED
    BY <1>1, <1>2, <1>3, <1>4, <1>5, <1>6, Zenon
       DEF Next, GatewayStep, OperatorStep, EnsureCASecret

\* The replicas of the gateway show one host key for ever, for any number.
THEOREM HostKeyAgreementHolds == Spec => HostKeyAgreement
  <1>1. Init => HostKeys!Init
    BY DEF Init, Rest, HostKeys!Init, HostKeyUses
  <1>2. IInv /\ [Next]_vars => [HostKeys!Next]_<<gw, HostKeyUses>>
    BY HostKeyStep
  <1> QED
    BY <1>1, <1>2, InductiveInvariant, PTL
       DEF Spec, HostKeyAgreement, HostKeys!Spec

\* Both keys are agreed on, for any number of processes, keys and faults.
THEOREM KeysAgreeHolds == Spec => KeysAgree
  BY CAAgreementHolds, HostKeyAgreementHolds, Zenon DEF KeysAgree

-----------------------------------------------------------------------------
(***************************************************************************)
(* A starting gateway gets nearer to serving with every call.  Fairness    *)
(* and a bounded number of faults then make GatewaysServe; that part is    *)
(* TLC's.                                                                  *)
(***************************************************************************)

\* At most how many steps a gateway still has to take before it serves.
StepsLeft(g) ==
    CASE at[g] = "get" -> 7
      [] at[g] = "create" -> 6
      [] at[g] = "fetch" -> 5
      [] at[g] = "held" -> 4
      [] at[g] = "createHost" -> 3
      [] at[g] = "fetchHost" -> 2
      [] at[g] = "loaded" -> 1
      [] OTHER -> 0

(***************************************************************************)
(* Every step of a gateway's start-up leaves it fewer, whoever wins the    *)
(* races for the two Secrets; and only a fault sets it back.               *)
(***************************************************************************)
GatewayAdvances ==
    [][\A g \in Gateways :
          /\ GatewayStep(g) => StepsLeft(g)' < StepsLeft(g)
          /\ events' = events => StepsLeft(g)' <= StepsLeft(g)]_vars

\* What StepsLeft is at each step.
LEMMA StepsTable ==
    ASSUME NEW g \in Gateways
    PROVE  /\ at[g] = "get" => StepsLeft(g) = 7
           /\ at[g] = "create" => StepsLeft(g) = 6
           /\ at[g] = "fetch" => StepsLeft(g) = 5
           /\ at[g] = "held" => StepsLeft(g) = 4
           /\ at[g] = "createHost" => StepsLeft(g) = 3
           /\ at[g] = "fetchHost" => StepsLeft(g) = 2
           /\ at[g] = "loaded" => StepsLeft(g) = 1
           /\ at[g] = "up" => StepsLeft(g) = 0
           /\ at'[g] = "create" => StepsLeft(g)' = 6
           /\ at'[g] = "fetch" => StepsLeft(g)' = 5
           /\ at'[g] = "held" => StepsLeft(g)' = 4
           /\ at'[g] = "createHost" => StepsLeft(g)' = 3
           /\ at'[g] = "fetchHost" => StepsLeft(g)' = 2
           /\ at'[g] = "loaded" => StepsLeft(g)' = 1
           /\ at'[g] = "up" => StepsLeft(g)' = 0
  BY Zenon DEF StepsLeft

(***************************************************************************)
(* A call takes the gateway forward.  The second Get of a gateway that     *)
(* lost a race does not miss: its client has no cache, and the Secret it   *)
(* ran into stays.                                                         *)
(***************************************************************************)
LEMMA StepForward ==
    ASSUME IInv, NEW g \in Gateways, GatewayStep(g)
    PROVE  StepsLeft(g)' < StepsLeft(g)
  <1>0. /\ g \in Processes /\ g \notin Operators
        /\ at \in [Processes -> {"idle", "get", "create", "fetch", "held",
                                 "createHost", "fetchHost", "loaded", "up"}]
    BY Zenon DEF IInv, TypeOK
  <1>1. CASE GetCA(g)
    <2>1. at[g] = "get" /\ at'[g] \in {"held", "create"}
      BY <1>0, <1>1, Zenon DEF GetCA, Goes
    <2> QED
      BY <2>1, StepsTable
  <1>2. CASE CreateCA(g)
    <2>1. at[g] = "create" /\ at'[g] \in {"held", "fetch"}
      BY <1>0, <1>2, Zenon DEF CreateCA, Goes
    <2> QED
      BY <2>1, StepsTable
  <1>3. CASE FetchCA(g)
    <2>1. CASeenBy(g) # NoKey
      BY <1>0, <1>3, Zenon DEF FetchCA, CASeenBy, IInv, Agreed, CAHeld
    <2>2. at[g] = "fetch" /\ at'[g] = "held"
      BY <1>0, <1>3, <2>1, Zenon DEF FetchCA, Goes
    <2> QED
      BY <2>2, StepsTable
  <1>4. CASE GetHostKey(g)
    <2>1. at[g] = "held" /\ at'[g] \in {"loaded", "createHost"}
      BY <1>0, <1>4, Zenon DEF GetHostKey, Goes
    <2> QED
      BY <2>1, StepsTable
  <1>5. CASE CreateHostKey(g)
    <2>1. at[g] = "createHost" /\ at'[g] \in {"loaded", "fetchHost"}
      BY <1>0, <1>5, Zenon DEF CreateHostKey, Goes
    <2> QED
      BY <2>1, StepsTable
  <1>6. CASE FetchHostKey(g)
    <2>1. at[g] = "fetchHost" /\ at'[g] = "loaded"
      BY <1>0, <1>6, Zenon DEF FetchHostKey, Goes
    <2> QED
      BY <2>1, StepsTable
  <1>7. CASE Serve(g)
    <2>1. at[g] = "loaded" /\ at'[g] = "up"
      BY <1>0, <1>7, Zenon DEF Serve, Goes
    <2> QED
      BY <2>1, StepsTable
  <1> QED
    BY <1>1, <1>2, <1>3, <1>4, <1>5, <1>6, <1>7, Zenon
       DEF GatewayStep, EnsureCASecret, gatewayHostKey

\* Nothing else but a fault moves a gateway.
LEMMA OthersLeave ==
    ASSUME IInv, Next, events' = events, NEW g \in Gateways, ~GatewayStep(g)
    PROVE  at'[g] = at[g]
  <1>0. /\ g \in Processes /\ g \notin Operators
        /\ at \in [Processes -> {"idle", "get", "create", "fetch", "held",
                                 "createHost", "fetchHost", "loaded", "up"}]
    BY DEF IInv, TypeOK
  <1>1. ~Event
    <2>1. events \in 0..MaxEvents
      BY Zenon DEF IInv, TypeOK
    <2> QED
      BY <2>1 DEF Event
  <1>2. ASSUME NEW h \in Gateways, GatewayStep(h) PROVE at'[g] = at[g]
    <2>1. h # g
      BY <1>2, Zenon
    <2>2. \/ \E step : Goes(h, step)
          \/ Stop(h)
      BY <1>2, Zenon DEF GatewayStep, EnsureCASecret, gatewayHostKey, GetCA, CreateCA,
         FetchCA, GetHostKey, CreateHostKey, FetchHostKey, Serve
    <2> QED
      BY <1>0, <2>1, <2>2 DEF Goes, Stop
  <1>3. ASSUME NEW o \in Operators,
               \/ OperatorStep(o) \/ SyncCA(o)
               \/ \E s \in Sandboxes : BeginHostKey(o, s) \/ SyncKey(o, s)
        PROVE  at'[g] = at[g]
    <2>1. o # g
      BY <1>0, <1>3, ZenonT(60)
    <2>2. \/ \E step : Goes(o, step)
          \/ Stop(o)
          \/ UNCHANGED at
      BY <1>3 DEF OperatorStep, EnsureCASecret, GetCA, CreateCA, FetchCA,
         CreateSandboxKey, SyncCA, BeginHostKey, SyncKey
    <2> QED
      BY <1>0, <2>1, <2>2, Zenon DEF Goes, Stop
  <1>4. ASSUME \/ \E s \in Sandboxes : AgentStarts(s) \/ AgentStops(s)
               \/ \E u \in Principals :
                     runSignCert(u) \/ \E h \in Gateways : handleSign(h, u)
               \/ Tick
        PROVE  at'[g] = at[g]
    BY <1>4, ZenonT(60)
       DEF AgentStarts, AgentStops, runSignCert, handleSign, SignUserCert, Tick
  <1>5. /\ ~(\E o \in Operators : OperatorRestarts(o))
        /\ ~(\E p \in Processes : Fails(p) \/ AnswerLost(p))
    BY <1>1 DEF OperatorRestarts, Fails, AnswerLost
  <1> QED
    BY <1>2, <1>3, <1>4, <1>5, Zenon DEF Next

(***************************************************************************)
(* A gateway serves at most seven steps after its last fault, however many *)
(* gateways and operators bootstrap beside it.                             *)
(***************************************************************************)
THEOREM GatewayAdvancesHolds == Spec => GatewayAdvances
  <1>1. IInv /\ [Next]_vars
        => [\A g \in Gateways :
               /\ GatewayStep(g) => StepsLeft(g)' < StepsLeft(g)
               /\ events' = events => StepsLeft(g)' <= StepsLeft(g)]_vars
    <2> SUFFICES ASSUME IInv, Next, NEW g \in Gateways
                 PROVE  /\ GatewayStep(g) => StepsLeft(g)' < StepsLeft(g)
                        /\ events' = events => StepsLeft(g)' <= StepsLeft(g)
      BY Zenon
    <2>1. CASE GatewayStep(g)
      <3>1. StepsLeft(g)' < StepsLeft(g)
        BY <2>1, StepForward
      <3>2. StepsLeft(g) \in 0..7 /\ StepsLeft(g)' \in 0..7
        BY DEF StepsLeft
      <3> QED
        BY <3>1, <3>2
    <2>2. CASE ~GatewayStep(g) /\ events' = events
      <3>1. StepsLeft(g)' = StepsLeft(g)
        BY <2>2, OthersLeave DEF StepsLeft
      <3>2. StepsLeft(g) \in 0..7
        BY DEF StepsLeft
      <3> QED
        BY <2>2, <3>1, <3>2
    <2> QED
      BY <2>1, <2>2, Zenon
  <1> QED
    BY <1>1, InductiveInvariant, PTL DEF Spec, GatewayAdvances

=============================================================================
