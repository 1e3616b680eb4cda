-------------------------------- MODULE CLI --------------------------------
(***************************************************************************)
(* The kubepark commands a user runs on one machine (login, admin          *)
(* sign-cert, ssh), each its own process, over the files they share in     *)
(* ~/.kubepark: the key pair, the certificate and the ssh_config.          *)
(*                                                                         *)
(* os.WriteFile truncates a file and then writes it, so a file may be      *)
(* found empty.  A process's key pair is named after the process, a        *)
(* certificate after the key it certifies, an ssh_config after its writer. *)
(***************************************************************************)
EXTENDS Naturals

CONSTANTS
    Procs,      \* processes, each one run of one command, numbered in the
                \* order they start
    MaxFaults   \* bound: kills, failing calls and writes, strange callbacks

ASSUME ProcsAssumption == Procs \subseteq Nat \ {0, 1}
ASSUME FaultsAssumption == MaxFaults \in Nat

VARIABLES
    cmd,       \* the command each process runs
    at,        \* where it is
    pending,   \* results its callback handlers have still to send
    result,    \* resultCh, of capacity 1
    redeemed,  \* whether the code of its flow was exchanged
    read,      \* the public key it read
    priv, pub, cert, config,  \* the files
    damaged,   \* two runs generated at once, or one was cut short doing so
    faults

files == <<priv, pub, cert, config>>
flow == <<pending, result, redeemed>>
vars == <<cmd, at, flow, read, files, damaged, faults>>

-----------------------------------------------------------------------------

Commands == {"login", "admin", "ssh"}

\* What a file may hold: it is not there, or empty, or holds a key.
Absent == 0
Empty == 1
File == Procs \cup {Absent, Empty}

Generating == {"privOpen", "privWrite", "pubOpen", "pubWrite"}
Signing == {"readPub", "requestCert", "certOpen", "certWrite"}
Connecting == {"configOpen", "configWrite", "exec"}
Writing == Generating \cup {"certOpen", "certWrite", "configOpen",
                           "configWrite"}
Ended == {"done", "failed", "killed"}

Places == {"idle", "fetchConfig", "waiting", "stat"} \cup Generating
             \cup Signing \cup Connecting \cup Ended

Init ==
    /\ cmd = [p \in Procs |-> "login"]
    /\ at = [p \in Procs |-> "idle"]
    /\ pending = [p \in Procs |-> {}]
    /\ result = [p \in Procs |-> "none"]
    /\ redeemed = [p \in Procs |-> FALSE]
    /\ read = [p \in Procs |-> Absent]
    /\ priv = Absent /\ pub = Absent /\ cert = Absent
    /\ config = Absent
    /\ damaged = FALSE
    /\ faults = 0

Goto(p, place) == at' = [at EXCEPT ![p] = place]

Move(p, from, to) == at[p] = from /\ Goto(p, to)

Fault == faults < MaxFaults /\ faults' = faults + 1

Start(p) ==
    /\ \A q \in Procs : q < p => at[q] # "idle"
    /\ \E c \in Commands :
          /\ cmd' = [cmd EXCEPT ![p] = c]
          /\ Move(p, "idle", IF c = "login" THEN "fetchConfig" ELSE "stat")
    /\ UNCHANGED <<flow, read, files, damaged, faults>>

\* The callback server ends with the flow.
Closed(p) ==
    /\ pending' = [pending EXCEPT ![p] = {}]
    /\ result' = [result EXCEPT ![p] = "none"]
    /\ redeemed' = [redeemed EXCEPT ![p] = FALSE]

\* The process ends where it is; half a key pair is left as it is.
CutShort(p, end) ==
    /\ Fault
    /\ Goto(p, end)
    /\ damaged' = (damaged \/ at[p] \in Generating \ {"privOpen"})
    /\ UNCHANGED <<cmd, read, files>>

\* The process is killed, or the user gives up (Ctrl-C).
Kill(p) ==
    /\ at[p] \notin {"idle"} \cup Ended
    /\ CutShort(p, "killed")
    /\ Closed(p)

\* os.WriteFile fails, opening the file or writing it.
WriteFails(p) ==
    /\ at[p] \in Writing
    /\ CutShort(p, "failed")
    /\ UNCHANGED flow

-----------------------------------------------------------------------------
(***************************************************************************)
(* The OIDC flow of login.                                                 *)
(***************************************************************************)

\* The gateway is unreachable or has no issuer, or discovery fails.
fetchGatewayConfig(p) ==
    /\ \/ Move(p, "fetchConfig", "waiting") /\ UNCHANGED faults
       \/ Move(p, "fetchConfig", "failed") /\ Fault
    /\ UNCHANGED <<cmd, flow, read, files, damaged>>

\* The user signs in, and the browser comes back with this flow's state.
callback(p) ==
    /\ at[p] = "waiting"
    /\ ~redeemed[p]
    /\ redeemed' = [redeemed EXCEPT ![p] = TRUE]
    /\ pending' = [pending EXCEPT ![p] = @ \cup {"token"}]
    /\ UNCHANGED <<cmd, at, result, read, files, damaged, faults>>

(***************************************************************************)
(* A callback of another flow (its tab comes back late to a port used      *)
(* again), a reloaded tab whose code was already exchanged, a failing      *)
(* exchange, an answer without an ID token.                                *)
(***************************************************************************)
callbackRefused(p) ==
    /\ Fault
    /\ at[p] = "waiting"
    /\ pending' = [pending EXCEPT ![p] = @ \cup {"error"}]
    /\ UNCHANGED <<cmd, at, result, redeemed, read, files, damaged>>

\* A handler sends its result; the channel holds one.
send(p) ==
    /\ at[p] = "waiting"
    /\ result[p] = "none"
    /\ \E r \in pending[p] :
          /\ result' = [result EXCEPT ![p] = r]
          /\ pending' = [pending EXCEPT ![p] = @ \ {r}]
    /\ UNCHANGED <<cmd, at, redeemed, read, files, damaged, faults>>

\* The select: the first result decides.
receive(p) ==
    /\ result[p] # "none"
    /\ Move(p, "waiting", IF result[p] = "token" THEN "stat" ELSE "failed")
    /\ Closed(p)
    /\ UNCHANGED <<cmd, read, files, damaged, faults>>

\* Mutant: the flow waits for ever.
timeoutNever(p) == FALSE /\ UNCHANGED vars

\* The select: five minutes.
timeout(p) ==
    /\ Move(p, "waiting", "failed")
    /\ Closed(p)
    /\ UNCHANGED <<cmd, read, files, damaged, faults>>

-----------------------------------------------------------------------------
(***************************************************************************)
(* ensureKeyPair.  Only the private key is looked for.                     *)
(***************************************************************************)
\* Where the command goes on with a key pair.
Proceed(p) == IF cmd[p] = "ssh" THEN "configOpen" ELSE "readPub"

\* Mutant: a key pair is generated whether or not there is one.
statAlways(p) ==
    /\ Move(p, "stat", "privOpen")
    /\ damaged' = (damaged \/ \E q \in Procs \ {p} : at[q] \in Generating)
    /\ UNCHANGED <<cmd, flow, read, files, faults>>

stat(p) ==
    /\ \/ /\ priv # Absent
          /\ Move(p, "stat", Proceed(p))
          /\ UNCHANGED damaged
       \/ /\ priv = Absent
          /\ Move(p, "stat", "privOpen")
          /\ damaged' = (damaged \/ \E q \in Procs \ {p} : at[q] \in Generating)
    /\ UNCHANGED <<cmd, flow, read, files, faults>>

writePriv(p) ==
    /\ \/ Move(p, "privOpen", "privWrite") /\ priv' = Empty
       \/ Move(p, "privWrite", "pubOpen") /\ priv' = p
    /\ UNCHANGED <<cmd, flow, read, pub, cert, config, damaged, faults>>

writePub(p) ==
    /\ \/ Move(p, "pubOpen", "pubWrite") /\ pub' = Empty
       \/ Move(p, "pubWrite", Proceed(p)) /\ pub' = p
    /\ UNCHANGED <<cmd, flow, read, priv, cert, config, damaged, faults>>

-----------------------------------------------------------------------------
(***************************************************************************)
(* The certificate: runLogin posts the public key and the ID token to      *)
(* handleSign of the gateway; runSignCert signs it with the CA's Secret.   *)
(***************************************************************************)
readPub(p) ==
    /\ \/ pub = Absent /\ Move(p, "readPub", "failed")
       \/ pub # Absent /\ Move(p, "readPub", "requestCert")
    /\ read' = [read EXCEPT ![p] = pub]
    /\ UNCHANGED <<cmd, flow, files, damaged, faults>>

\* Sign refuses what does not parse as a public key.
handleSign(p) ==
    /\ \/ read[p] # Empty /\ Move(p, "requestCert", "certOpen")
          /\ UNCHANGED faults
       \/ read[p] = Empty /\ Move(p, "requestCert", "failed")
          /\ UNCHANGED faults
       \/ Move(p, "requestCert", "failed") /\ Fault  \* refused, unreachable
    /\ UNCHANGED <<cmd, flow, read, files, damaged>>

writeCert(p) ==
    /\ \/ Move(p, "certOpen", "certWrite") /\ cert' = Empty
       \/ Move(p, "certWrite", "done") /\ cert' = read[p]
    /\ UNCHANGED <<cmd, flow, read, priv, pub, config, damaged, faults>>

-----------------------------------------------------------------------------
(***************************************************************************)
(* ssh: the ssh_config is rewritten, then, unless it was only asked for    *)
(* (--print-config), ssh runs with it.                                     *)
(***************************************************************************)
writeSSHConfig(p) ==
    /\ \/ Move(p, "configOpen", "configWrite") /\ config' = Empty
       \/ Move(p, "configWrite", "exec") /\ config' = p
       \/ Move(p, "configWrite", "done") /\ config' = p
    /\ UNCHANGED <<cmd, flow, read, priv, pub, cert, damaged, faults>>

\* ssh offers the key with its certificate through the jump host.
Usable == config \in Procs /\ priv \in Procs /\ cert = priv

execSSH(p) ==
    /\ Move(p, "exec", IF Usable THEN "done" ELSE "failed")
    /\ UNCHANGED <<cmd, flow, read, files, damaged, faults>>

\* What a command does by itself, and what it waits for without a deadline.
Step(p) ==
    \/ send(p) \/ receive(p) \/ timeout(p)
    \/ stat(p) \/ writePriv(p) \/ writePub(p)
    \/ readPub(p) \/ writeCert(p) \/ writeSSHConfig(p)

Answered(p) == fetchGatewayConfig(p) \/ handleSign(p) \/ execSSH(p)

Next ==
    \E p \in Procs :
        \/ Start(p) \/ Step(p) \/ Answered(p)
        \/ callback(p) \/ callbackRefused(p) \/ WriteFails(p) \/ Kill(p)

Spec == Init /\ [][Next]_vars

(***************************************************************************)
(* A started process runs.  Whether the user signs in is up to the user,   *)
(* how long ssh runs too, and http.DefaultClient waits for an answer as    *)
(* long as it takes.                                                       *)
(***************************************************************************)
Fairness == WF_vars(\E p \in Procs : Step(p))

FairSpec == Spec /\ Fairness

-----------------------------------------------------------------------------

\* The type invariant of the module.
TypeOK ==
    /\ cmd \in [Procs -> Commands]
    /\ at \in [Procs -> Places]
    /\ pending \in [Procs -> SUBSET {"token", "error"}]
    /\ result \in [Procs -> {"none", "token", "error"}]
    /\ redeemed \in [Procs -> BOOLEAN]
    /\ read \in [Procs -> File]
    /\ priv \in File /\ pub \in File /\ cert \in File /\ config \in File
    /\ damaged \in BOOLEAN
    /\ faults \in Nat

Quiet == \A p \in Procs : at[p] \notin Generating

(***************************************************************************)
(* ensureKeyPair, readers included, keeps one key pair, and the            *)
(* certificate, whichever command asked for it, is for that key, as long   *)
(* as no two first uses overlap and none is cut short between its writes.  *)
(***************************************************************************)
KeyPairMatches ==
    ~damaged =>
        /\ Quiet => \/ priv = Absent /\ pub = Absent
                    \/ priv \in Procs /\ pub = priv
        /\ cert \in Procs => cert = priv

(***************************************************************************)
(* The flow of runLogin ends within its five minutes and no command hangs  *)
(* by itself, whatever callbacks come, come twice or never come: in the    *)
(* end each has ended, or waits for an answer of the gateway or for ssh.   *)
(***************************************************************************)
CommandsEnd ==
    <>[](\A p \in Procs :
            at[p] \in Ended \cup {"idle", "fetchConfig", "requestCert", "exec"})

(***************************************************************************)
(* The damage is confined to the first use.  A key pair that is complete,  *)
(* with nobody generating one and nobody asking for a certificate with     *)
(* another key, stays, and every certificate written from then on is for   *)
(* it: also after first uses that overlapped or were cut short, whichever  *)
(* commands are run, fail or are killed.                                   *)
(***************************************************************************)
Complete ==
    /\ Quiet
    /\ priv \in Procs /\ pub = priv
    /\ \A p \in Procs :
          at[p] \in {"requestCert", "certOpen", "certWrite"} => read[p] = priv

PairKept ==
    [][Complete =>
          /\ Complete' /\ priv' = priv
          /\ cert' \in {cert, Empty, priv}]_vars

=============================================================================
