# kubepark in TLA+

A verification project for kubepark: models of its controllers and of the
processes that race with them, TLC runs on small instances, and TLAPS proofs
for every value of the constants. `PROJECT.json` lists the runs, the source
lines behind every definition, the hazards and the theorems.

## The system

kubepark runs persistent workspaces on Kubernetes. Its state lives in the API
server; everything else reads it, mostly through informer caches, and writes it
back.

| Part | Code | What it does |
|---|---|---|
| Sandbox reconciler | `internal/controller/sandbox_controller.go`, `sandbox_rbac.go` | children, pod, idle suspension, status, finalizer |
| Session reconciler | `internal/controller/sandboxsession_controller.go` | reaps stale sessions, moves the sandbox's idle clock, collects |
| Profile reconciler | `internal/controller/accessprofile_controller.go` | one Role per grant namespace |
| SSH jump host | `internal/gateway/sshjump.go`, `store.go`, `dialer.go`, `routing.go` | authorizes, records a session, wakes the sandbox, dials its pod |
| HTTP proxy | `internal/gateway/httpproxy.go`, `httproute.go`, `cookieauth.go` | routes browser traffic to exposed ports |
| Signing | `internal/sshca`, `internal/gateway/signer.go`, `signhttp.go` | user and host certificates |
| Bootstrap | `internal/controller/ca.go`, `cmd/gateway.go` | CA and host-key secrets |
| Agent | `internal/agent` | in-pod SSH server with a shared shell |
| Manifests | `internal/controller/podspec` | pod, claim, network policy |
| CLI | `cmd/kubepark` | login, ssh |

A connection through the jump host opens a `SandboxSession`, heartbeats it and
closes it. The sandbox reconciler counts Active sessions: a connection keeps or
wakes the sandbox, the last close starts the idle window. Deleting a Sandbox
runs its finalizer, which removes the children and closes the sessions.

Three facts about Kubernetes carry most of the difficulty, and all models
keep them:

* `Update` and `Status().Update` send the resourceVersion of the copy they
  were computed from and are refused when the object moved on; a merge `Patch`
  and a `Delete` are not checked.
* Both reconcilers read through informer caches, which lag.
* A reconcile pass is a sequence of API calls. Anything may happen between
  two of them, including the end of the process.

## Modules

### SandboxSession

One sandbox, any number of connections. `session[c]` is the stored record and
`holds[c]` the set of clients whose copy of it is the stored version: a read
adds the reader, a write empties the set, and `StatusUpdate` goes through only
for a member. A copy read from a lagging cache can only end in a refused update
or in none, so such a read is an operation that ends without a write.

| Action | Code |
|---|---|
| `Create`, `MarkActive` | the two calls of `CreateSession`; each may fail before or after it was stored |
| `HeartbeatGet`, `HeartbeatUpdate` | the heartbeat goroutine of `openSession` and `Heartbeat` |
| `CloseGet`, `CloseUpdate` | the closer of `openSession` and `CloseSession`, never retried |
| `GatewayCrash` | every handler, heartbeat and closer is lost |
| `Ignore`, `Recheck` | a pass that finds no state or nothing to do yet; `Recheck` requeues for the deadline |
| `ReapGet`, `ReapUpdate` | `reconcileActive` |
| `BumpGet`, `BumpPatch`, `Collect` | `reconcileClosed` with `bumpSandboxActivity` |
| `StartIdleClock` | the part of `run` that sets `lastActivityTime` |
| `ListSessions`, `CloseListed`, `SandboxGone` | `closeSessions` and the end of `finalize` |

`due[c]` is the session's place in the reconciler's work queue: the time it is queued
for, or none. Every stored change queues it at once (`Watch`), a pass takes it out
(`Take`) and puts it back for later (`RequeueAfter`), a pass whose call fails puts it
back at once (`PassFails`), and a restarted operator lists every session
(`OperatorRestart`). Nothing else brings a session back: informer resync is left out.
A timer fires strictly after its instant. The code compares `elapsed <= deadline`
and asks for `RequeueAfter: deadline - elapsed`, and zero means no requeue: a pass at
exactly the deadline, to the nanosecond, would drop the session until the next resync.

### SandboxController

One Sandbox (`sb`), its pod, its other children, and the reconciler with one
worker. `current` is the set of copies of the Sandbox (the cache's, the pass's)
that are the stored version. A pass is split at every call that another process
can come between: `BeginPass` (read, add the finalizer), `ReconcileChildren`,
`suspend` or one of `runCreate`, `runDead`, `runReady`, `runWaiting`, then
`patchStatus`; for a deleted Sandbox `finalizeStatus`, `teardown`,
`closeSession`, `finishFinalize`. Each has the branches in which its calls fail.
The outside edits and deletes the Sandbox, changes template, profile and claim,
opens and closes sessions, bumps the idle clock, starts, fails and removes the
pod, and restarts the operator. The watches are `SyncSandbox`, `SyncPod`,
`SyncSessions`; `SyncChild` refreshes the cached claims and RoleBindings, which
queue nothing.

Data left out: names, labels, the text of conditions, `observedGeneration` (a
status write that changes only these is not a step). The RoleBindings of all
namespaces are one child. Template, profile and claim change when the change
reaches the operator's cache. Requeues after 10 s and 30 s are immediate.
Informer resync (hours) is left out here: no liveness property leans on it, and
no run reports a violation that it would repair.

### AgentShell

The agent's `sessionManager`. `ensureShell` is one step because it holds the
mutex; `Bridge` counts the client and starts its two copies; `Leave` is the
return of the handler when the first copy ends. The shell's process is seen by
the goroutine that waits for it in two steps, `Wait` (ProcessState is set, no
mutex) and `Reap` (under the mutex), between which a client may start the next
shell. A shell may leave background jobs (`jobs`) on its terminal, and reads of the
PTY fail only when these are gone too (`HungUp`). Closing the master may or may not
end a read that is blocked in it (`OutputClosed`), so no property relies on it.
The output copy of a client that left ends when it fails to pass on the next
output. Window sizes, bytes and exit codes are left out.

### AccessRBAC

One AccessProfile and one live, unblocked sandbox that may name it, over any
namespaces. `profile` is stored, `pCache` cached; `roles` and `bindings` are
what exists in each namespace. A pass of the profile reconciler is `PBegin`
(read, add the finalizer), `syncRoles`, the status write, or `finalize`; a pass
of the sandbox reconciler is `reconcileRBAC` and its condition. Writing the
Roles, or the bindings, of all namespaces is one step, with branches in which it
fails after any part of them, because each worker is the only writer of its
objects.
The nudge of the sandboxes changes nothing from the second time on, and may
fail, as in the code. Roles and RoleBindings are not watched; informer resync is an
action here, since without it a Role or binding missed in a stale cache would be
repaired only by the next edit. A namespace changes when the operator's cache
sees it. A sandbox that switches between two profiles is left out.

### Bootstrap and KeyAgreement

How the keys come to be. Gateways (direct client) and operators (cached client)
run `EnsureCASecret` as `GetCA`, `CreateCA`, `FetchCA`; gateways go on with
`gatewayHostKey` in the same three calls and then `Serve`; operators sign a
sandbox's host key in `CreateSandboxKey`. Agents read the mounted Secret, the
gateway's sign endpoint and `admin sign-cert` issue certificates, and
`CheckUserCert` is applied by jump host and agent. A key stands for everything
one generation puts into a Secret. A new key is one that nobody holds, so that
regenerating for ever stays finite. A certificate carries the time it has left.
Nobody deletes or edits the Secrets: the code has no rotation. Clock skew
between pods is left out.

`KeyAgreement` is the abstract specification: one key is chosen for good, and
whoever uses a key uses that one. `Bootstrap` implements it twice, for the CA
(users: serving gateways, host key Secrets, running agents) and for the
gateways' host key.

### HomeClaims

Any number of sandboxes that name one home claim: an existing claim, or one that
a sandbox (`owner`) generates and others reuse. `claimConflict` decides from the
cache who has to wait, `wins` is its tie-break (the earlier second, then the UID);
the generator itself asks nobody. `watch` is the queue of stored versions that the informer
has still to deliver, so the cache is always an earlier state of all sandboxes
together. A pass reads caches only and stores last, and is one step: `ClaimInUse`
(phase `InUse`, queued again after 30 s), `ClaimMissing` (phase `Missing`, not queued again),
`suspend`, `run`, `finalize`, `NotFound`. Its status update is refused when the
cached copy is outdated. The outside creates, stops, resumes and deletes
sandboxes, lets them go idle, and restarts the operator.

### SandboxLife and Gateway

`SandboxLife` is the abstract specification of a Sandbox as everybody but the operator
sees it: desired state, published route, life of the pod. `SandboxController`
implements it (`FollowsLife`), and `Gateway` is built on it.

`Gateway` follows a connection through `handleDirectTCPIP`: `authorize` reads the
gateway's cached copy (`view`), `openSession` records the session or goes on
without one, `SetDesiredRunning` and `poll` are `wakeAndWait`, then `DialSandbox`,
`bridge` and `closeSession`. The certificate check is in `Bootstrap`; a connection of
anybody but the owner ends in `authorize` and changes nothing. A session that a
restarted gateway, or a close that failed, left behind is `abandoned` and counts as
Active until the reaper ends it; the reaper may also end that of a live handler whose
heartbeats failed (`ReapLive`). The operator is seen through `SandboxLife`:
`Operate` is what its passes come to once its caches are current, `finalize` what they
come to on a deleted sandbox, and `OperateOutdated` is any step that `SandboxLife`
allows, for a pass that was not current. While template, claim or profile is not in
order (`blocked`) the operator neither starts nor stops the pod.
A dialled address answers if it is that of the present pod.

### CLI

The commands `login`, `admin sign-cert` and `ssh` as processes over the files of
`~/.kubepark`. `os.WriteFile` is two steps, truncate and write, so others may find a
file empty. `ensureKeyPair` is `stat`, `writePriv`, `writePub`, `readPub`; login's
browser flow is `fetchGatewayConfig`, `callback` and `callbackRefused` (handlers of
the local server), `send` and `receive` on the channel with room for one result, and
`timeout`. Then `handleSign`, `writeCert`; for ssh `writeSSHConfig`, which with
`--print-config` is the end, and `execSSH`. `Kill` ends a process anywhere and
`WriteFails` fails one at a file it writes, which is left as it was or empty. Calls to
the gateway may fail or never be answered: the code sets no timeout on them.

### WebProxy

The HTTP proxy with its cookie login: a browser with tabs, whose state and session
cookies belong to the host that set them. `ServeHTTP` decides per request (unknown
host, callback, `auth: none`, login, forbidden, suspended, proxied), `StartLogin` sets
the state cookie and leads to the provider, `Callback` compares, sets the session
cookie and redirects. Signatures, expiry arithmetic and the parsing of host names are
abstracted.

### Composition

`SandboxSession` and `SandboxController` meet in the session list and `lastActivityTime`: what
`SandboxSession` does is `SessionOpens`, `SessionCloses` and `BumpActivity` in
`SandboxController`, and what the reconciler does to sessions is
`StartIdleClock`, `ListSessions`, `CloseListed`, `SandboxGone` there. What
`AccessRBAC` does to bindings is the RoleBinding child of `SandboxController`, what
`HomeClaims` decides is its `gate`, and `CreateSandboxKey` of `Bootstrap` is one of its
children. Each module leaves the other's steps free, so it covers whatever the other
does. `Gateway` composed with all of `SandboxController` is out of TLC's reach (over
14 million states without an end, with no event at all). Hence the composition
with `SandboxLife`, which is proved to be implemented.

## Runs

| Run | Instance | Shows |
|---|---|---|
| `session` | 1 connection, 7 ticks, fair | closed records are final, ends cover the activity, the reaper spares fresh sessions; sessions stay queued for their deadline; abandoned sessions close, closed ones are collected |
| `controller_safety` | 2 IPs, 1 session, home to delete, idle timeout 1, 1 tick, 2 events | consistent status, no wake-up lost, nothing deleted by name left of a deleted sandbox; `SandboxLife` is implemented |
| `controller_live` | existing claim, 1 session, 2 events, fair | stopping, deletion |
| `controller_idle` | retained home, idle timeout 1, 2 ticks, 1 event, fair | idle suspension; a sandbox that is wanted gets its route |
| `home_claims` | 2 sandboxes, claim existing or generated, 2 events, fair | the older one keeps the claim; none is forgotten, one runs; a late claim is found |
| `gateway` | 1 connection, 2 IPs, deadline of 1 poll, 3 events, fair | every step of a handler leads to its end; none hangs with its session; a client that tries again is served |
| `agent_shell` | 2 clients, 2 shells, fair | one shared shell, handlers return, nothing outlives its terminal |
| `access_rbac` | 2 namespaces, 2 rules, 2 grants, 1 event, fair | Roles only under the finalizer; access ends up as the profile says, conditions true, deletion completes |
| `bootstrap` | 2 gateways, 1 operator, 1 sandbox, 2 users, 1 event, fair | `KeyAgreement` for both keys, certificates open what they should; gateways serve, sandboxes get keys |
| `cli` | 3 commands, 1 fault, fair | key pair and certificate match; no command hangs by itself; a complete pair is kept |
| `web_login` | 1 host, 1 tab, 2 logins, 1 event | violated: the callback comes to a host that the state cookie is not sent to |
| `deletion_removes_all` | home to delete, 2 events | violated: just-created RoleBindings and home outlive the sandbox |

Each violated statement is a sentence of the repository; `PROJECT.json` quotes
it under `findings`.

**Bounds.** `MaxEvents` counts what the outside does on its own (edits, faults,
failing calls, sessions opened): two are enough for every pair, such as a
failing call during a deletion or an edit between a read and its write, while
pods starting, watches, passes and time are not counted. `MaxTime` reaches past
deadline plus retention in `session` and past the idle timeout in `controller_idle`; in
`controller_safety` it only equals the idle timeout, so the timer is armed there but no
window ends: idle suspension is left to `controller_idle`, and to the proofs, which hold
for any clock. One session record shares
nothing with another but the reaper's worker and the idle clock, and the safety
properties are proved for any number. Two shells and two clients are
a restart with a client on either side of it. In `SandboxSession`, `Horizon` and
`CloseHorizon` stop new work early enough for every deadline to expire within
`MaxTime`. Symmetry is used for IPs, in `controller_safety` only.
`access_rbac` has one event, on top of an initial state that already holds a
history: left-over Roles and bindings, a profile edited or being deleted while
the operator was down. In `bootstrap` one event is one failing call, lost answer
or restart, two gateways and the operator are a race of three, and six keys are
more than they can hold at a time.
In `home_claims` two sandboxes are every pair the tie-break compares, created in the
same second or not; `OlderKeepsClaim` and `NoneForgotten` are proved for any number. When sandbox 1 is the
generator the run starts without the claim. In `gateway` two addresses let an old
route be nobody's or the next pod's, and three events are, for instance, a stop, an
outdated pass and a restart within one connection. Three commands in
`cli` are one that generates the keys, one that signs in and one that connects; its
fault is a kill, a failing call or write, or a strange callback.
Deadlock is checked in `access_rbac` and `bootstrap`. In the others it is not: the bounds stop
the clock and the outside, and a reconciler with an empty queue rightly does
nothing.

**Fairness.** The worker serves its queue and finishes its pass, the watches
deliver, the kubelet starts and removes pods, time passes: this is what
controller-runtime and the kubelet promise. Strong fairness is used once, for
the session reconciler: it gets to every session that is due again and again, because
its work queue is first-in first-out, and its calls go through if they are tried again
and again. In the
agent, handlers and goroutines run and a read at its end returns; the shell and its jobs
owe neither output nor an end. In `AccessRBAC` the periodic resync (10 h by default) happens again and
again. In `Bootstrap` the kubelet restarts a gateway that exits, and a pass that
fails is queued again. In `HomeClaims` the one worker gets to each queued sandbox, and
the resync owes nothing: `ClaimAppears` says what follows once it happens. In `Gateway`
handlers, watch, operator, reaper and kubelet go on; `ClientServed` is conditional on a
client that connects again, which it states as fairness of `authorize` in the formula.
In `CLI` some command that can go on by itself does; the gateway and ssh owe it no answer, and
`CommandsEnd` allows for that. Clients, users and faults owe nothing.

## Proofs

`SandboxSessionProofs`, `SandboxControllerProofs`, `AgentShellProofs`,
`AccessRBACProofs`, `BootstrapProofs`, `HomeClaimsProofs`, `GatewayProofs` and
`CLIProofs` prove the safety properties of the passing runs, and, beyond what the runs
state, the type invariants of their modules, `SuspendedHasNoRoute`, `AttachedCounts`,
`HeldIsQueued`, and the safety half of several liveness properties, for all
constants (any number of connections, sessions, templates, IPs, namespaces,
sandboxes, processes; any timeouts; any bounds), from the assumptions named in the
modules: times are naturals, the heartbeat interval and the certificate validity
are positive, the "none" values are not members of the constant sets, grants map
namespaces to rules, gateways are not operators, clients of the agent are finitely
many, UIDs and processes are numbers.

*Sessions.* The properties are not inductive: a step that closes a record may
use a copy read long ago. `IInv` adds what a client whose copy is current knows:
the session is Active and the stamp it is about to write lies between the last
stored heartbeat and now; for the reaper, the heartbeat it judged is the stored
one and is past the deadline. Any other write empties `holds`, which makes those
clauses vacuous, so each action is checked against its own clause only.
`SessionQueuedHolds` is the safety half of `AbandonedSessionCloses` and
`ClosedSessionCollected`: no session is dropped from the work queue before its time. Its
invariant `QInv` says for each session that it is queued for its deadline at the latest,
or that the worker is at it; while it is, only a stored change queues it as well. Each
pass then ends in a requeue for the deadline, a requeue at once, or a write, which the
watch turns into one.

*Sandbox.* `IInv` is `TypeOK`, `Routed` (every status around, stored, cached or
being computed, is publishable and a ready pod has an IP), `Life` (how far the
cache may lag behind the stored Sandbox) and `Staged` (what is known at each
point of a pass: one that creates runs under a stored finalizer, one that tears
down runs after the deletion, and past `teardown` nothing deleted by name is
left). `Life` is what rules out a creating pass after the object is gone.
`ImplementsLife` is the refinement theorem: every step writes the Sandbox or the pod,
never both, and with `IInv` each such write is a step of `SandboxLife`. It needs `IInv`
because a pod must not be created, nor a route published, once the Sandbox is gone.
`SettledIsRightHolds` says that no wake-up is lost: once nothing is queued, undelivered
or running, the Sandbox is what its spec, sessions and pod call for, with the timer armed
for the idle deadline. It is the safety half of `StopSuspends`, `IdleSuspends`,
`WantedRuns` and `DeletionCompletes`: nothing can stop short of them in silence. Its
invariant `Settling` follows a pass that nobody disturbs: while the Sandbox is not queued
again the caches are what the pass read (`ReadsCache`), the branch it took fits them
(`Decided`), so does the status it computed (`Computed`), and a pass that stores nothing
new and leaves the pod alone ends in such a status (`Resting`). These clauses are vacuous
while the Sandbox is queued, and every change that the reconciler watches queues it.

*Agent.* A running shell must not be replaced: `IInv` says that a shell which runs,
or exited and was not waited for, is the shared one and its PTY is open, and that
shells not yet started have no process. `ensureShell` starts one only if the
shared one was waited for, and a late reaper finds another shell in its place.
`AttachedCounts` is proved by itself: each step moves at most one client into or out
of the bridge, so the count moves with the cardinality.

*Access.* That a pass writes Roles only under a stored finalizer depends on what it
read. `IInv` adds `Copies` (a current copy, cached or of the pass, equals the stored
profile) and `Seen` (what an older copy still tells: if it is live with the
finalizer, the finalizer is stored; if it is being deleted, or the worker
finalizes, the stored profile is not a live one with the finalizer, because only
this worker adds it). A pass that read too early ends with the refused update of
the finalizer.
`AccessRevoked` and `AccessGranted` are proved but for their "eventually". `Settled` is a
state in which all copies show the stored spec and the Roles and RoleBindings are those
it asks for; no step but one of the outside leaves it (`SettledStaysHolds`), and one pass of each reconciler
from up-to-date copies makes the Roles and the RoleBindings right, whatever was there
(`FreshPassIsRightHolds`).

*Bootstrap.* `Agreed` says who may rely on the stored Secrets: a process past
`EnsureCASecret` or `gatewayHostKey` holds the stored key, one about to create
holds a key of its own, and caches, host key Secrets, agents and certificates
have the stored CA or nothing. Only the Create of the first Secret concerns
others, and before it they have nothing. With `Agreed` every step is a step of
`KeyAgreement` or leaves its variables alone: `CAAgreementHolds` and
`HostKeyAgreementHolds` are refinement theorems, and `KeysAgreeHolds` is both.
`GatewayAdvancesHolds`: each step of a starting gateway leaves it fewer to serving, seven
at most, and only a fault sets it back. The loser of a race does not miss the winner's
Secret, because a gateway reads without a cache and nobody deletes Secrets.

*Home claims.* `OneWins`: of two sandboxes exactly one wins. That a pod comes only after
every older sandbox released the claim depends on the cache. `History` says that cached
and undelivered versions are earlier ones of the stored sandboxes (same creation time;
a version that released the claim is remembered), `InOrder` that a sandbox is not known
before an older one. So a pass that finds no conflict has seen every older sandbox, in a
version that released the claim.
`NoStandoff`: in any cache, however old, some sandbox on the claim is held by no other;
it is the one with the least creation time and, among those, the least UID.
`NoneForgottenHolds` and `HeldIsQueuedHolds` show that the sandboxes that do wait are
seen to again. Their invariant `JInv` says that the last undelivered version of a sandbox
is the stored one, that the cached pod is at most one stage behind, and that a sandbox
with nothing queued is finished or as its last pass left it. With `NoStandoff` this is
the safety half of `WinnerRuns`.

*Gateway.* `StepsLeft` counts down along `handleDirectTCPIP`, the polls of `wakeAndWait`
included, from at most `WakePolls + 6`: `HandlerAdvancesHolds` shows that each step of a
handler lowers it, for any wake timeout and whatever else happens; that the steps are
taken is fairness, and `HandlerEnds`. `KeepsToLife` shows that the operator, kubelet and users of `Gateway`,
and its own wake-up patch, take only steps that `SandboxLife` allows.

*CLI.* While nothing was damaged (`damaged`: two commands generated at once, or one was
cut short at it) `KeysOK` holds: at most one command generates, it finds only files of its
own, and otherwise both files are absent or one pair. The damage
itself is no property of the code but a name for the two cases it does not handle.
`PairKeptHolds` needs no such condition: a complete pair that nobody generates over or
certifies otherwise stays, because `stat` finds its private key.
`CommandsAdvanceHolds`: each step of a command leaves it fewer to take, and no callback,
kill or other command adds one. The channel
counts for one step: a flow without a result may be handed one, and only one.

Only model-checked: the liveness properties (`AbandonedSessionCloses`,
`ClosedSessionCollected`, `StopSuspends`, `DeletionCompletes`,
`IdleSuspends`, `WantedRuns`, `WinnerRuns`, `ClaimAppears`,
`HandlerEnds`, `ClientServed`, `HandlerReturns`, `AttachEnds`, `AccessRevoked`,
`AccessGranted`, `ValidTruthful`, `ReadyTruthful`, `ProfileDeleted`, `GatewaysServe`,
`SandboxesKeyed`, `CommandsEnd`), which need fairness and are out of the prover's reach,
and the violated statements. The theorems above that take a liveness property as far as
safety goes do not replace its run: they say that every step leads on, or that nothing
rests in the wrong place, and not that steps are taken.

## Where the code and its documents differ

Two statements have a run that refutes them (`findings` in `PROJECT.json`). The
following came up while modelling; the properties above are stated so that they
hold of the code as it is.

* `lastActivityTime` can move back: the later-than check reads the cache and the patch
  is unconditional (`sandboxsession_controller.go:143`; `design/state-machine.md:49`: "It is
  then advanced whenever a session closes."). With several sessions an end may be lost;
  no property is stated about it.
* A session whose first status update never happened has no phase: it is neither reaped
  nor collected (`sandboxsession_controller.go`, "keeping the audit trail bounded").
  `AbandonedSessionCloses` is about sessions that became Active.
* Setting `desiredState` to Running does not resume a sandbox past its idle window
  unless a session is open (`sandbox_controller.go:185`). `WantedRuns` is about sandboxes
  with a session, or within the window.
* The pod is deleted before the status without `podIP` is stored
  (`sandbox_controller.go:501`; `design/state-machine.md:38`: "`status.podIP` is **cleared
  first** so the gateway never dials a terminating pod"). `ClientServed` says that a
  client gets through all the same.
* A claim may back two running sandboxes: an older sandbox that was stopped and
  suspended, and is resumed after a newer one took the claim, wins and starts, while
  the newer one is held with `ClaimInUse` but its pod is not removed; and the sandbox
  that generates a claim does not look who else uses it
  (`docs/src/content/docs/guides/storage.md:40`: "A claim can only back one live sandbox
  at a time"). `OlderKeepsClaim` says what the tie-break does ensure.
* `reconcileSandbox` returns before it looks at `desiredState` when template, profile or
  claim are not in order, so a stop waits for them; `StopSuspends` is about the others.
* The output copy of a client that left the agent does not end with the disconnect, as the
  comment at `session.go:114` has it: it blocks until the shell's next output, which it
  takes from the other clients and loses, or until the terminal is hung up. `AttachEnds`
  bounds it.
* A CLI cut short between the two key files leaves a private key without a public one, and
  later logins fail until it is removed (`cmd/kubepark/keys.go:51`); two first uses at
  once may leave a mixed pair. `KeyPairMatches` excludes both, `PairKept` neither.
* Concurrent `kubepark ssh` commands rewrite one ssh_config; ssh may read it empty.

## Not modelled

Cryptography, key and token formats, the signatures of cookies; the bytes that the
agent, the bridge and the proxy copy; sftp; the contents of manifests and of network
policies; host parsing; the CLI's known_hosts for `--host-ca`;
flag parsing, manager start-up and generated code. They are I/O or data without a
protocol of their own: what they do is a function of their input, most of it text, and
is better tested than modelled. The heartbeat interval is a constant of `SandboxSession`:
its properties hold for every positive value, whatever the formula of the gateway gives.
The HTTP proxy has a run only for the refuted statement: beyond it `ServeHTTP` is one
decision per request that keeps nothing.
