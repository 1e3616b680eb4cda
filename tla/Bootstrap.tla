----------------------------- MODULE Bootstrap ------------------------------
(***************************************************************************)
(* How the keys of an installation come to be, with no manual step.  The   *)
(* CA Secret is generated by whoever misses it first, a gateway that       *)
(* starts or the operator that needs it for a sandbox's host key.  The     *)
(* gateways' host key is generated by the first gateway.  Gateways read    *)
(* with a direct client, the operator through its cache.                   *)
(*                                                                         *)
(* A key stands for all that one generation puts into a Secret: for the CA *)
(* the pairs of user and host CA and the cookie HMAC key.  A sandbox's     *)
(* host key Secret is named by the CA that signed its certificate and      *)
(* whose user-ca.pub it carries.  Nobody deletes or edits these Secrets.   *)
(***************************************************************************)
EXTENDS Integers

CONSTANTS
    Gateways,     \* gateway replicas
    Operators,    \* operator processes; several while they overlap
    Sandboxes,
    Principals,
    owner,        \* [Sandboxes -> Principals], spec.owner
    Keys,         \* what GenerateKeyPair may return
    NoKey,
    TTL,          \* the signer's certificate validity
    MaxEvents     \* bound: failing calls and crashes

ASSUME OwnerAssumption == owner \in [Sandboxes -> Principals]
ASSUME KeysAssumption == Keys \subseteq Nat /\ NoKey \notin Keys
ASSUME ProcessAssumption == Gateways \cap Operators = {}
ASSUME TTLAssumption == TTL \in Nat \ {0}
ASSUME EventsAssumption == MaxEvents \in Nat

VARIABLES
    ca,           \* the stored CA Secret
    gw,           \* the stored gateway host key Secret
    hostKey,      \* [Sandboxes -> stored host key Secret]
    caCache,      \* [Operators -> cached CA Secret]
    keyCache,     \* [Operators -> sandboxes whose host key is cached]
    at,           \* [Processes -> where it is]
    heldCA,       \* [Processes -> the CA it generated or read]
    heldHost,     \* [Gateways -> the host key it generated or read]
    work,         \* [Operators -> the sandbox of its pass, in a set]
    agent,        \* [Sandboxes -> the CA its running agent was given]
    cert,         \* the user certificate a client holds
    events        \* events so far

vars == <<ca, gw, hostKey, caCache, keyCache, at, heldCA, heldHost, work,
          agent, cert, events>>

-----------------------------------------------------------------------------

Processes == Gateways \cup Operators

MaybeKey == Keys \cup {NoKey}

\* A user certificate; left is ValidBefore minus the time of the clock.
NoCert == [ca |-> NoKey, principal |-> "", left |-> 0]

Certs == [ca : Keys, principal : Principals, left : 0..TTL]

\* An operator between passes; a gateway that exits and is started again.
Rest(p) == IF p \in Gateways THEN "get" ELSE "idle"

Init ==
    /\ ca = NoKey
    /\ gw = NoKey
    /\ hostKey = [s \in Sandboxes |-> NoKey]
    /\ caCache = [o \in Operators |-> NoKey]
    /\ keyCache = [o \in Operators |-> {}]
    /\ at = [p \in Processes |-> Rest(p)]
    /\ heldCA = [p \in Processes |-> NoKey]
    /\ heldHost = [g \in Gateways |-> NoKey]
    /\ work = [o \in Operators |-> {}]
    /\ agent = [s \in Sandboxes |-> NoKey]
    /\ cert = NoCert
    /\ events = 0

-----------------------------------------------------------------------------

KeysInUse == {ca, gw, cert.ca} \cup {heldCA[p] : p \in Processes}
             \cup {heldHost[g] : g \in Gateways} \cup {caCache[o] : o \in Operators}
             \cup {hostKey[s] : s \in Sandboxes} \cup {agent[s] : s \in Sandboxes}

\* A new key is one that nobody has; which one makes no difference.
GenerateKeyPair ==
    {k \in Keys \ KeysInUse : \A j \in Keys \ KeysInUse : k <= j}

Event == events < MaxEvents /\ events' = events + 1

Goes(p, step) == at' = [at EXCEPT ![p] = step]

\* The pass, or the process, of p is over: what it held is gone.
Stop(p) ==
    /\ Goes(p, Rest(p))
    /\ heldCA' = [heldCA EXCEPT ![p] = NoKey]
    /\ heldHost' = [g \in Gateways |-> IF g = p THEN NoKey ELSE heldHost[g]]
    /\ work' = [o \in Operators |-> IF o = p THEN {} ELSE work[o]]

-----------------------------------------------------------------------------

(***************************************************************************)
(* EnsureCASecret, in three calls: Get, Create, and Get again for the      *)
(* loser of a create race.                                                 *)
(***************************************************************************)

\* What the client of p reads of the CA Secret.
CASeenBy(p) == IF p \in Operators THEN caCache[p] ELSE ca

\* Mutant: NotFound is an error like any other.
GetCAStrict(p) ==
    /\ at[p] = "get"
    /\ \/ /\ CASeenBy(p) # NoKey
          /\ heldCA' = [heldCA EXCEPT ![p] = CASeenBy(p)]
          /\ Goes(p, "held")
       \/ /\ CASeenBy(p) = NoKey
          /\ Goes(p, Rest(p))
          /\ UNCHANGED heldCA
    /\ UNCHANGED <<ca, gw, hostKey, caCache, keyCache, heldHost, work, agent,
                   cert, events>>

GetCA(p) ==
    /\ at[p] = "get"
    /\ \/ /\ CASeenBy(p) # NoKey
          /\ heldCA' = [heldCA EXCEPT ![p] = CASeenBy(p)]
          /\ Goes(p, "held")
       \/ /\ CASeenBy(p) = NoKey
          /\ \E k \in GenerateKeyPair : heldCA' = [heldCA EXCEPT ![p] = k]
          /\ Goes(p, "create")
    /\ UNCHANGED <<ca, gw, hostKey, caCache, keyCache, heldHost, work, agent,
                   cert, events>>

\* Mutant: AlreadyExists is taken for success.
CreateCAOwn(p) ==
    /\ at[p] = "create"
    /\ ca' = IF ca = NoKey THEN heldCA[p] ELSE ca
    /\ Goes(p, "held")
    /\ UNCHANGED <<gw, hostKey, caCache, keyCache, heldCA, heldHost, work, agent,
                   cert, events>>

CreateCA(p) ==
    /\ at[p] = "create"
    /\ \/ /\ ca = NoKey
          /\ ca' = heldCA[p]
          /\ Goes(p, "held")
          /\ UNCHANGED heldCA
       \/ /\ ca # NoKey
          /\ Goes(p, "fetch")
          /\ heldCA' = [heldCA EXCEPT ![p] = NoKey]
          /\ UNCHANGED ca
    /\ UNCHANGED <<gw, hostKey, caCache, keyCache, heldHost, work, agent, cert, events>>

\* The operator's cache may not have the winner yet: an error.
FetchCA(p) ==
    /\ at[p] = "fetch"
    /\ \/ /\ CASeenBy(p) # NoKey
          /\ heldCA' = [heldCA EXCEPT ![p] = CASeenBy(p)]
          /\ Goes(p, "held")
          /\ UNCHANGED <<heldHost, work>>
       \/ /\ CASeenBy(p) = NoKey
          /\ Stop(p)
    /\ UNCHANGED <<ca, gw, hostKey, caCache, keyCache, agent, cert, events>>

-----------------------------------------------------------------------------

(***************************************************************************)
(* A gateway: EnsureCASecret, then gatewayHostKey in the same three calls, *)
(* then the servers are built from what it holds.                          *)
(***************************************************************************)
GetHostKey(g) ==
    /\ at[g] = "held"
    /\ \/ /\ gw # NoKey
          /\ heldHost' = [heldHost EXCEPT ![g] = gw]
          /\ Goes(g, "loaded")
       \/ /\ gw = NoKey
          /\ \E k \in GenerateKeyPair : heldHost' = [heldHost EXCEPT ![g] = k]
          /\ Goes(g, "createHost")
    /\ UNCHANGED <<ca, gw, hostKey, caCache, keyCache, heldCA, work, agent,
                   cert, events>>

\* Mutant: AlreadyExists is taken for success.
CreateHostKeyOwn(g) ==
    /\ at[g] = "createHost"
    /\ gw' = IF gw = NoKey THEN heldHost[g] ELSE gw
    /\ Goes(g, "loaded")
    /\ UNCHANGED <<ca, hostKey, caCache, keyCache, heldCA, heldHost, work, agent,
                   cert, events>>

CreateHostKey(g) ==
    /\ at[g] = "createHost"
    /\ \/ /\ gw = NoKey
          /\ gw' = heldHost[g]
          /\ Goes(g, "loaded")
          /\ UNCHANGED heldHost
       \/ /\ gw # NoKey
          /\ Goes(g, "fetchHost")
          /\ heldHost' = [heldHost EXCEPT ![g] = NoKey]
          /\ UNCHANGED gw
    /\ UNCHANGED <<ca, hostKey, caCache, keyCache, heldCA, work, agent, cert, events>>

FetchHostKey(g) ==
    /\ at[g] = "fetchHost"
    /\ heldHost' = [heldHost EXCEPT ![g] = gw]
    /\ Goes(g, "loaded")
    /\ UNCHANGED <<ca, gw, hostKey, caCache, keyCache, heldCA, work, agent,
                   cert, events>>

\* NewSSHServer and buildHTTPHandler; from here on the gateway serves.
Serve(g) ==
    /\ at[g] = "loaded"
    /\ Goes(g, "up")
    /\ UNCHANGED <<ca, gw, hostKey, caCache, keyCache, heldCA, heldHost, work,
                   agent, cert, events>>

-----------------------------------------------------------------------------

(***************************************************************************)
(* The operator: reconcileHostKey of a pass for sandbox s, which does      *)
(* nothing when the cache has the Secret.                                  *)
(***************************************************************************)
BeginHostKey(o, s) ==
    /\ at[o] = "idle"
    /\ s \notin keyCache[o]
    /\ Goes(o, "get")
    /\ work' = [work EXCEPT ![o] = {s}]
    /\ UNCHANGED <<ca, gw, hostKey, caCache, keyCache, heldCA, heldHost, agent,
                   cert, events>>

\* The sandbox's key is generated and signed; AlreadyExists is not an error.
CreateSandboxKey(o) ==
    /\ at[o] = "held"
    /\ hostKey' = [s \in Sandboxes |->
                     IF s \in work[o] /\ hostKey[s] = NoKey
                     THEN heldCA[o] ELSE hostKey[s]]
    /\ Stop(o)
    /\ UNCHANGED <<ca, gw, caCache, keyCache, agent, cert, events>>

\* The watches of the operator's Secret cache.
SyncCA(o) ==
    /\ caCache[o] # ca
    /\ caCache' = [caCache EXCEPT ![o] = ca]
    /\ UNCHANGED <<ca, gw, hostKey, keyCache, at, heldCA, heldHost, work, agent,
                   cert, events>>

SyncKey(o, s) ==
    /\ s \notin keyCache[o] /\ hostKey[s] # NoKey
    /\ keyCache' = [keyCache EXCEPT ![o] = @ \cup {s}]
    /\ UNCHANGED <<ca, gw, hostKey, caCache, at, heldCA, heldHost, work, agent,
                   cert, events>>

-----------------------------------------------------------------------------

(***************************************************************************)
(* The users of the keys: agents, which read the mounted Secret when they  *)
(* start, and the signers.                                                 *)
(***************************************************************************)
AgentStarts(s) ==
    /\ agent[s] = NoKey /\ hostKey[s] # NoKey
    /\ agent' = [agent EXCEPT ![s] = hostKey[s]]
    /\ UNCHANGED <<ca, gw, hostKey, caCache, keyCache, at, heldCA, heldHost,
                   work, cert, events>>

AgentStops(s) ==
    /\ agent[s] # NoKey
    /\ agent' = [agent EXCEPT ![s] = NoKey]
    /\ UNCHANGED <<ca, gw, hostKey, caCache, keyCache, at, heldCA, heldHost,
                   work, cert, events>>

SignUserCert(k, principal) ==
    /\ cert' = [ca |-> k, principal |-> principal, left |-> TTL]
    /\ UNCHANGED <<ca, gw, hostKey, caCache, keyCache, at, heldCA, heldHost,
                   work, agent, events>>

handleSign(g, principal) ==
    at[g] = "up" /\ SignUserCert(heldCA[g], principal)

\* kubepark admin sign-cert, with the Secret itself.
runSignCert(principal) == ca # NoKey /\ SignUserCert(ca, principal)

\* The check of gateway and agent, against the user CA they were given.
CheckUserCert(c, caPub, principal) ==
    /\ c.ca = caPub
    /\ c.principal = principal
    /\ c.left > 0

\* The PublicKeyHandlers of the jump host and of a sandbox's agent.
JumpHostAccepts(g, c) ==
    at[g] = "up" /\ CheckUserCert(c, heldCA[g], c.principal)

AgentAccepts(s, c) ==
    agent[s] # NoKey /\ CheckUserCert(c, agent[s], owner[s])

-----------------------------------------------------------------------------

(***************************************************************************)
(* Faults.  A call fails, or the process dies, with nothing stored; or the *)
(* Secret is stored and the answer lost, which EnsureCASecret and          *)
(* gatewayHostKey report as an error.                                      *)
(***************************************************************************)
Fails(p) ==
    /\ at[p] # Rest(p)
    /\ Event
    /\ Stop(p)
    /\ UNCHANGED <<ca, gw, hostKey, caCache, keyCache, agent, cert>>

AnswerLost(p) ==
    /\ \/ /\ at[p] = "create" /\ ca = NoKey
          /\ ca' = heldCA[p]
          /\ UNCHANGED gw
       \/ /\ at[p] = "createHost" /\ gw = NoKey
          /\ gw' = heldHost[p]
          /\ UNCHANGED ca
    /\ Event
    /\ Stop(p)
    /\ UNCHANGED <<hostKey, caCache, keyCache, agent, cert>>

\* A new operator lists all Secrets before its first pass.
OperatorRestarts(o) ==
    /\ Event
    /\ Stop(o)
    /\ caCache' = [caCache EXCEPT ![o] = ca]
    /\ keyCache' = [keyCache EXCEPT ![o] = {s \in Sandboxes : hostKey[s] # NoKey}]
    /\ UNCHANGED <<ca, gw, hostKey, agent, cert>>

Tick ==
    /\ cert.left > 0
    /\ cert' = [cert EXCEPT !.left = @ - 1]
    /\ UNCHANGED <<ca, gw, hostKey, caCache, keyCache, at, heldCA, heldHost,
                   work, agent, events>>

-----------------------------------------------------------------------------

EnsureCASecret(p) == GetCA(p) \/ CreateCA(p) \/ FetchCA(p)

gatewayHostKey(g) == GetHostKey(g) \/ CreateHostKey(g) \/ FetchHostKey(g)

GatewayStep(g) == EnsureCASecret(g) \/ gatewayHostKey(g) \/ Serve(g)

OperatorStep(o) == EnsureCASecret(o) \/ CreateSandboxKey(o)

Next ==
    \/ \E g \in Gateways : GatewayStep(g)
    \/ \E o \in Operators : \/ OperatorStep(o) \/ SyncCA(o) \/ OperatorRestarts(o)
                            \/ \E s \in Sandboxes : BeginHostKey(o, s) \/ SyncKey(o, s)
    \/ \E s \in Sandboxes : AgentStarts(s) \/ AgentStops(s)
    \/ \E u \in Principals : runSignCert(u) \/ \E g \in Gateways : handleSign(g, u)
    \/ \E p \in Processes : Fails(p) \/ AnswerLost(p)
    \/ Tick

Spec == Init /\ [][Next]_vars

(***************************************************************************)
(* The kubelet restarts a gateway that exits, a pass that fails is queued  *)
(* again, running processes run, watches deliver.                          *)
(***************************************************************************)
Fairness ==
    /\ \A g \in Gateways : WF_vars(GatewayStep(g))
    /\ \A o \in Operators :
         /\ WF_vars(OperatorStep(o))
         /\ WF_vars(SyncCA(o) \/ \E s \in Sandboxes : SyncKey(o, s))
         /\ \A s \in Sandboxes : WF_vars(BeginHostKey(o, s))

FairSpec == Spec /\ Fairness

-----------------------------------------------------------------------------

TypeOK ==
    /\ ca \in MaybeKey /\ gw \in MaybeKey
    /\ hostKey \in [Sandboxes -> MaybeKey] /\ agent \in [Sandboxes -> MaybeKey]
    /\ caCache \in [Operators -> MaybeKey]
    /\ keyCache \in [Operators -> SUBSET Sandboxes]
    /\ at \in [Processes -> {"idle", "get", "create", "fetch", "held",
                             "createHost", "fetchHost", "loaded", "up"}]
    /\ heldCA \in [Processes -> MaybeKey] /\ heldHost \in [Gateways -> MaybeKey]
    /\ work \in [Operators -> SUBSET Sandboxes]
    /\ cert \in Certs \cup {NoCert}
    /\ events \in 0..MaxEvents

(***************************************************************************)
(* Every serving gateway, every sandbox's Secret and every running agent   *)
(* has the same CA generation (user CA, host CA, cookie key), for good,    *)
(* whatever races, lags, fails or restarts: EnsureCASecret implements      *)
(* KeyAgreement.                                                           *)
(***************************************************************************)
CAUsers == ({"gateway"} \X Gateways) \cup ({"secret", "agent"} \X Sandboxes)

CAUses == [u \in CAUsers |->
             IF u[1] = "gateway" THEN IF at[u[2]] = "up" THEN heldCA[u[2]] ELSE NoKey
             ELSE IF u[1] = "secret" THEN hostKey[u[2]] ELSE agent[u[2]]]

CA == INSTANCE KeyAgreement WITH Users <- CAUsers, chosen <- ca, uses <- CAUses

CAAgreement == CA!Spec

(***************************************************************************)
(* All replicas of the gateway show clients the same host key, across      *)
(* restarts: gatewayHostKey implements KeyAgreement.                       *)
(***************************************************************************)
HostKeyUses == [g \in Gateways |-> IF at[g] = "up" THEN heldHost[g] ELSE NoKey]

HostKeys == INSTANCE KeyAgreement
              WITH Users <- Gateways, chosen <- gw, uses <- HostKeyUses

HostKeyAgreement == HostKeys!Spec

\* Both keys of an installation are agreed on.
KeysAgree == CAAgreement /\ HostKeyAgreement

(***************************************************************************)
(* A client's certificate, whichever signer issued it, opens every gateway *)
(* and the sandboxes of its principal, and no other, until it expires.     *)
(***************************************************************************)
CertOpensItsSandboxes ==
    cert # NoCert =>
      /\ \A g \in Gateways :
           at[g] = "up" => (JumpHostAccepts(g, cert) <=> cert.left > 0)
      /\ \A s \in Sandboxes :
           agent[s] # NoKey =>
             (AgentAccepts(s, cert) <=> cert.left > 0 /\ cert.principal = owner[s])

\* A gateway that starts, or is restarted after a failing call, serves.
GatewaysServe == \A g \in Gateways : at[g] = "get" ~> at[g] = "up"

(***************************************************************************)
(* Every sandbox gets its host key, although the operator's second Get may *)
(* miss the CA Secret that its Create just ran into.                       *)
(***************************************************************************)
SandboxesKeyed == \A s \in Sandboxes : <>(hostKey[s] # NoKey)

=============================================================================
