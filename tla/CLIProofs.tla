----------------------------- MODULE CLIProofs -----------------------------
(***************************************************************************)
(* Proofs about the commands of the CLI, for any number of them.           *)
(*                                                                         *)
(* The invariant follows the one command that generates the key pair       *)
(* through its four writes, and says of every other place a public key may *)
(* be (the file, a command that read it, the certificate) that it is the   *)
(* private key's.  That commands end is bounded by the steps they have     *)
(* left, which only get fewer.                                             *)
(***************************************************************************)
EXTENDS CLI, TLAPS

\* The files while p generates the key pair.
Progress(p) ==
    /\ at[p] = "privOpen" => priv = Absent /\ pub = Absent
    /\ at[p] = "privWrite" => priv = Empty /\ pub = Absent
    /\ at[p] = "pubOpen" => priv = p /\ pub = Absent
    /\ at[p] = "pubWrite" => priv = p /\ pub = Empty

OneGenerates ==
    \A p, q \in Procs :
        at[p] \in Generating /\ at[q] \in Generating => p = q

Settled == \/ priv = Absent /\ pub = Absent
           \/ priv \in Procs /\ pub = priv

KeysOK ==
    /\ OneGenerates
    /\ \A p \in Procs : Progress(p)
    /\ Quiet => Settled
    /\ pub \in Procs => pub = priv
    /\ cert \in Procs => cert = priv
    /\ \A p \in Procs : read[p] \in Procs => read[p] = priv

IInv == /\ TypeOK
        /\ ~damaged => KeysOK

\* A step of command p.
Acts(p) ==
    \/ Start(p) \/ Step(p) \/ Answered(p)
    \/ callback(p) \/ callbackRefused(p) \/ WriteFails(p) \/ Kill(p)

-----------------------------------------------------------------------------
(***************************************************************************)
(* Types.                                                                  *)
(***************************************************************************)

\* A file is not a key when it is absent or empty.
LEMMA FileValues ==
    /\ Absent \notin Procs /\ Empty \notin Procs /\ Absent # Empty
    /\ Absent \in File /\ Empty \in File /\ Procs \subseteq File
BY ProcsAssumption DEF Absent, Empty, File

\* The groups of places.
LEMMA PlaceNames ==
    /\ Generating \subseteq Places /\ Signing \subseteq Places
    /\ Connecting \subseteq Places /\ Ended \subseteq Places
    /\ {"idle", "fetchConfig", "waiting", "stat"} \subseteq Places
BY DEF Places

\* Moving one process keeps the type of at.
LEMMA GotoType ==
    ASSUME TypeOK, NEW p \in Procs, NEW place \in Places, Goto(p, place)
    PROVE  at' \in [Procs -> Places]
BY DEF TypeOK, Goto

\* A finished flow.
LEMMA ClosedType ==
    ASSUME TypeOK, NEW p \in Procs, Closed(p)
    PROVE  /\ pending' \in [Procs -> SUBSET {"token", "error"}]
           /\ result' \in [Procs -> {"none", "token", "error"}]
           /\ redeemed' \in [Procs -> BOOLEAN]
BY DEF TypeOK, Closed

\* The fault counter stays a natural number.
LEMMA FaultType == ASSUME TypeOK, Fault PROVE faults' \in Nat
<1>1. faults \in Nat
  BY DEF TypeOK
<1> QED
  BY <1>1 DEF Fault

\* Where a command may go from where it is.
Reaches(p) ==
    at' = at \/ \E place \in Places : Goto(p, place)

\* No step leads out of the places.
LEMMA StepReaches ==
    ASSUME NEW p \in Procs, Acts(p)
    PROVE  Reaches(p)
<1>1. CASE Start(p)
  BY <1>1 DEF Start, Move, Reaches, Places
<1>2. CASE callback(p) \/ callbackRefused(p) \/ send(p)
  BY <1>2 DEF callback, callbackRefused, send, Reaches
<1>3. CASE Kill(p) \/ WriteFails(p) \/ timeout(p)
  BY <1>3 DEF Kill, WriteFails, CutShort, timeout, Move, Reaches, Places,
              Ended
<1>4. CASE fetchGatewayConfig(p) \/ receive(p)
  BY <1>4 DEF fetchGatewayConfig, receive, Move, Reaches, Places, Ended
<1>5. CASE stat(p) \/ writePriv(p) \/ writePub(p)
  BY <1>5 DEF stat, writePriv, writePub, Move, Proceed, Reaches, Places,
              Generating, Signing, Connecting
<1>6. CASE readPub(p) \/ handleSign(p) \/ writeCert(p)
  BY <1>6 DEF readPub, handleSign, writeCert, Move, Reaches, Places, Ended,
              Signing
<1>7. CASE writeSSHConfig(p) \/ execSSH(p)
  BY <1>7 DEF writeSSHConfig, execSSH, Move, Reaches, Places, Ended,
              Connecting
<1> QED
  BY <1>1, <1>2, <1>3, <1>4, <1>5, <1>6, <1>7 DEF Acts, Step, Answered

\* Every step preserves the types.
LEMMA NextType == ASSUME TypeOK, [Next]_vars PROVE TypeOK'
<1>1. CASE UNCHANGED vars
  BY <1>1 DEF TypeOK, vars, flow, files
<1>2. ASSUME NEW p \in Procs, Acts(p)
      PROVE  TypeOK'
  <2>1. at' \in [Procs -> Places]
    BY <1>2, StepReaches, GotoType DEF Reaches, TypeOK
  <2>2. CASE Start(p)
    BY <2>1, <2>2 DEF Start, TypeOK, flow, files
  <2>3. CASE Kill(p) \/ WriteFails(p)
    <3>1. faults' \in Nat /\ UNCHANGED <<cmd, read, files>>
      BY <2>3, FaultType, Zenon DEF Kill, WriteFails, CutShort
    <3>2. damaged' \in BOOLEAN
      BY <2>3, Zenon DEF Kill, WriteFails, CutShort, TypeOK
    <3>3. Closed(p) \/ UNCHANGED flow
      BY <2>3 DEF Kill, WriteFails
    <3> QED
      BY <2>1, <3>1, <3>2, <3>3, ClosedType DEF TypeOK, flow, files
  <2>4. CASE callback(p) \/ callbackRefused(p) \/ send(p)
    <3>1. pending' \in [Procs -> SUBSET {"token", "error"}]
      BY <2>4 DEF callback, callbackRefused, send, TypeOK
    <3>2. result' \in [Procs -> {"none", "token", "error"}]
      BY <2>4 DEF callback, callbackRefused, send, TypeOK
    <3>3. redeemed' \in [Procs -> BOOLEAN]
      BY <2>4, Zenon DEF callback, callbackRefused, send, TypeOK
    <3>4. faults' \in Nat
      BY <2>4, FaultType DEF callback, callbackRefused, send, TypeOK
    <3> QED
      BY <2>1, <2>4, <3>1, <3>2, <3>3, <3>4
         DEF callback, callbackRefused, send, TypeOK, files
  <2>5. CASE timeout(p)
    BY <2>1, <2>5, ClosedType DEF timeout, TypeOK, files
  <2>6. CASE fetchGatewayConfig(p)
    BY <2>1, <2>6, FaultType DEF fetchGatewayConfig, TypeOK, flow, files
  <2>7. CASE receive(p)
    BY <2>1, <2>7, ClosedType DEF receive, TypeOK, files
  <2>8. CASE stat(p)
    BY <2>1, <2>8, Zenon DEF stat, TypeOK, flow, files
  <2>9. CASE writePriv(p) \/ writePub(p)
    <3>1. priv' \in File /\ pub' \in File
      BY <2>9, FileValues DEF writePriv, writePub, TypeOK
    <3> QED
      BY <2>1, <2>9, <3>1 DEF writePriv, writePub, TypeOK, flow, files
  <2>10. CASE readPub(p)
    BY <2>1, <2>10 DEF readPub, TypeOK, flow, files
  <2>11. CASE handleSign(p)
    BY <2>1, <2>11, FaultType DEF handleSign, TypeOK, flow, files
  <2>12. CASE writeCert(p)
    <3>1. cert' \in File
      BY <2>12, FileValues DEF writeCert, TypeOK
    <3> QED
      BY <2>1, <2>12, <3>1 DEF writeCert, TypeOK, flow
  <2>13. CASE writeSSHConfig(p)
    <3>1. config' \in File
      BY <2>13, FileValues DEF writeSSHConfig, TypeOK
    <3> QED
      BY <2>1, <2>13, <3>1 DEF writeSSHConfig, TypeOK, flow
  <2>14. CASE execSSH(p)
    BY <2>1, <2>14 DEF execSSH, TypeOK, flow, files
  <2> QED
    BY <1>2, <2>2, <2>3, <2>4, <2>5, <2>6, <2>7, <2>8, <2>9, <2>10, <2>11,
       <2>12, <2>13, <2>14 DEF Acts, Step, Answered
<1> QED
  BY <1>1, <1>2, Zenon DEF Next, Acts

-----------------------------------------------------------------------------
(***************************************************************************)
(* The key pair.                                                           *)
(***************************************************************************)

\* A step away from ensureKeyPair.
Aside(p) ==
    \/ at' = at
    \/ /\ at[p] \notin Generating
       /\ \E place \in Places \ Generating : Goto(p, place)

\* A step aside from key generation leaves the keys in order.
LEMMA AsideKeys ==
    ASSUME TypeOK, KeysOK, NEW p \in Procs, Aside(p), UNCHANGED <<priv, pub>>,
           cert' \in Procs => cert' = priv,
           \A q \in Procs : read'[q] \in Procs => read'[q] = priv
    PROVE  KeysOK'
<1>1. \A q \in Procs : at'[q] \in Generating => at'[q] = at[q]
  BY DEF Aside, Goto, TypeOK
<1>2. \A q \in Procs : at[q] \in Generating => at'[q] = at[q]
  BY DEF Aside, Goto, TypeOK
<1>3. OneGenerates'
  BY <1>1 DEF KeysOK, OneGenerates
<1>4. \A q \in Procs : Progress(q)'
  BY <1>1 DEF KeysOK, Progress, Generating
<1>5. Quiet' => Settled'
  BY <1>2 DEF KeysOK, Quiet, Settled
<1> QED
  BY <1>3, <1>4, <1>5 DEF KeysOK

\* A command that finds no private key is the first to generate one.
LEMMA StatKeys ==
    ASSUME TypeOK, KeysOK, NEW p \in Procs, stat(p), ~damaged'
    PROVE  KeysOK'
<1>1. CASE priv # Absent
  <2>1. at[p] = "stat" /\ Goto(p, Proceed(p))
    BY <1>1 DEF stat, Move
  <2>2. Proceed(p) \in Places \ Generating
    BY DEF Proceed, Places, Generating, Signing, Connecting
  <2>3. Aside(p)
    BY <2>1, <2>2, Zenon DEF Aside, Generating
  <2> QED
    BY <2>3, AsideKeys DEF stat, files, KeysOK
<1>2. CASE priv = Absent
  <2>1. /\ at[p] = "stat" /\ Goto(p, "privOpen")
        /\ \A q \in Procs \ {p} : at[q] \notin Generating
        /\ UNCHANGED <<priv, pub, cert, read>>
    BY <1>2, Zenon DEF stat, Move, files
  <2>2. Quiet
    BY <2>1 DEF Quiet, Generating
  <2>3. pub = Absent
    BY <1>2, <2>2, FileValues DEF KeysOK, Settled
  <2>4. at'[p] = "privOpen" /\ \A q \in Procs \ {p} : at'[q] = at[q]
    BY <2>1 DEF Goto, TypeOK
  <2>5. OneGenerates' /\ ~Quiet'
    BY <2>1, <2>4 DEF OneGenerates, Quiet, Generating
  <2>6. \A q \in Procs : Progress(q)'
    BY <1>2, <2>1, <2>3, <2>4 DEF Progress, Generating
  <2> QED
    BY <2>1, <2>5, <2>6 DEF KeysOK
<1> QED
  BY <1>1, <1>2, ZenonT(60)

\* The generator is at one of its writes: nobody else is in the way.
LEMMA Generator ==
    ASSUME TypeOK, KeysOK, NEW p \in Procs, at[p] \in Generating,
           NEW place \in Places, Goto(p, place)
    PROVE  /\ at'[p] = place
           /\ \A q \in Procs \ {p} : at'[q] = at[q]
           /\ \A q \in Procs \ {p} : at[q] \notin Generating
           /\ OneGenerates'
           /\ \A q \in Procs \ {p} : Progress(q)'
<1>1. at'[p] = place /\ \A q \in Procs \ {p} : at'[q] = at[q]
  BY DEF Goto, TypeOK
<1>2. \A q \in Procs \ {p} : at[q] \notin Generating
  BY DEF KeysOK, OneGenerates
<1>3. OneGenerates'
  BY <1>1, <1>2 DEF OneGenerates
<1>4. \A q \in Procs \ {p} : Progress(q)'
  BY <1>1, <1>2 DEF Progress, Generating
<1> QED
  BY <1>1, <1>2, <1>3, <1>4

\* The writes of the one command that generates.
LEMMA WriteKeys ==
    ASSUME TypeOK, KeysOK, NEW p \in Procs, writePriv(p) \/ writePub(p)
    PROVE  KeysOK'
<1>1. /\ priv \notin Procs \/ priv = p
      /\ UNCHANGED <<cert, read>>
      /\ at[p] \in Generating
  BY FileValues
     DEF KeysOK, Progress, writePriv, writePub, Move, Generating
<1>2. CASE Move(p, "privOpen", "privWrite") /\ priv' = Empty /\ pub' = pub
  <2>1. at'[p] = "privWrite" /\ priv' = Empty /\ pub' = Absent /\ priv = Absent
    BY <1>2, Zenon DEF Move, Goto, TypeOK, KeysOK, Progress
  <2>2. OneGenerates' /\ \A q \in Procs \ {p} : Progress(q)'
    BY <1>1, <1>2, Generator, Zenon DEF Move, Places, Generating
  <2>3. Progress(p)' /\ ~Quiet'
    BY <2>1, Zenon DEF Progress, Quiet, Generating
  <2> QED
    BY <1>1, <2>1, <2>2, <2>3, FileValues DEF KeysOK
<1>3. CASE Move(p, "privWrite", "pubOpen") /\ priv' = p /\ pub' = pub
  <2>1. at'[p] = "pubOpen" /\ priv' = p /\ pub' = Absent /\ priv = Empty
    BY <1>3, Zenon DEF Move, Goto, TypeOK, KeysOK, Progress
  <2>2. OneGenerates' /\ \A q \in Procs \ {p} : Progress(q)'
    BY <1>1, <1>3, Generator DEF Move, Places, Generating
  <2>3. Progress(p)' /\ ~Quiet'
    BY <2>1, ZenonT(60) DEF Progress, Quiet, Generating
  <2> QED
    BY <1>1, <2>1, <2>2, <2>3, FileValues DEF KeysOK
<1>4. CASE Move(p, "pubOpen", "pubWrite") /\ pub' = Empty /\ priv' = priv
  <2>1. at'[p] = "pubWrite" /\ priv' = p /\ pub' = Empty /\ priv = p
    BY <1>4, Zenon DEF Move, Goto, TypeOK, KeysOK, Progress
  <2>2. OneGenerates' /\ \A q \in Procs \ {p} : Progress(q)'
    BY <1>1, <1>4, Generator DEF Move, Places, Generating
  <2>3. Progress(p)' /\ ~Quiet'
    BY <2>1, ZenonT(60) DEF Progress, Quiet, Generating
  <2> QED
    BY <1>1, <2>1, <2>2, <2>3, FileValues DEF KeysOK
<1>5. CASE Move(p, "pubWrite", Proceed(p)) /\ pub' = p /\ priv' = priv
  <2>0. Proceed(p) \in {"configOpen", "readPub"}
    BY DEF Proceed
  <2>1. at'[p] = Proceed(p) /\ priv' = p /\ pub' = p /\ priv = p
    BY <1>5, ZenonT(60) DEF Move, Goto, TypeOK, KeysOK, Progress
  <2>2. OneGenerates' /\ \A q \in Procs \ {p} : Progress(q)'
    BY <1>1, <1>5, <2>0, Generator
       DEF Move, Places, Connecting, Signing
  <2>3. Progress(p)' /\ Settled'
    BY <2>0, <2>1 DEF Progress, Settled
  <2> QED
    BY <1>1, <2>1, <2>2, <2>3, FileValues DEF KeysOK
<1> QED
  BY <1>2, <1>3, <1>4, <1>5 DEF writePriv, writePub

\* Unless it does damage, every step leaves the keys in order.
LEMMA NextKeys ==
    ASSUME IInv, [Next]_vars, ~damaged' PROVE KeysOK'
<1> USE DEF IInv
<1>1. CASE UNCHANGED vars
  BY <1>1 DEF vars, files, KeysOK, OneGenerates, Progress, Quiet, Settled
<1>2. ASSUME NEW p \in Procs, Acts(p)
      PROVE  KeysOK'
  <2>a. KeysOK
    <3>1. CASE Kill(p) \/ WriteFails(p)
      BY <3>1, Zenon DEF Kill, WriteFails, CutShort
    <3>2. CASE stat(p)
      BY <3>2, Zenon DEF stat
    <3>3. CASE damaged' = damaged
      BY <3>3
    <3> QED
      BY <1>2, <3>1, <3>2, <3>3
         DEF Acts, Start, Step, Answered, callback, callbackRefused,
             fetchGatewayConfig, send,
             receive, timeout, writePriv, writePub, readPub, handleSign,
             writeCert, writeSSHConfig, execSSH
  <2>1. CASE stat(p)
    BY <2>1, <2>a, StatKeys
  <2>2. CASE writePriv(p) \/ writePub(p)
    BY <2>2, <2>a, WriteKeys, ZenonT(60)
  <2>3. CASE readPub(p)
    <3>1. Aside(p)
      BY <2>3 DEF readPub, Move, Aside, Generating, Places, Signing, Ended
    <3>2. \A q \in Procs : read'[q] \in Procs => read'[q] = priv
      BY <2>3, <2>a, Zenon DEF readPub, TypeOK, KeysOK
    <3> QED
      BY <2>3, <2>a, <3>1, <3>2, AsideKeys DEF readPub, files, KeysOK
  <2>4. CASE writeCert(p)
    <3>1. Aside(p)
      BY <2>4, Zenon DEF writeCert, Move, Aside, Generating, Places, Signing, Ended
    <3>2. cert' \in Procs => cert' = priv
      BY <2>4, <2>a, FileValues DEF writeCert, KeysOK
    <3> QED
      BY <2>4, <2>a, <3>1, <3>2, AsideKeys, Zenon DEF writeCert, KeysOK
  <2>5. CASE \/ Start(p) \/ callback(p) \/ callbackRefused(p)
             \/ Kill(p) \/ WriteFails(p) \/ fetchGatewayConfig(p) \/ send(p) \/ receive(p) \/ timeout(p)
             \/ handleSign(p) \/ writeSSHConfig(p) \/ execSSH(p)
    <3>1. UNCHANGED <<priv, pub, cert, read>>
      BY <2>5, ZenonT(60)
         DEF Start, callback, callbackRefused, Kill, WriteFails, CutShort,
                  fetchGatewayConfig, send, receive, timeout, handleSign, writeSSHConfig, execSSH,
                  files
    <3>2. CASE \/ Start(p) \/ callback(p) \/ callbackRefused(p)
               \/ fetchGatewayConfig(p) \/ send(p) \/ receive(p)
      BY <2>a, <3>1, <3>2, AsideKeys, ZenonT(60)
         DEF Start, callback, callbackRefused, fetchGatewayConfig, send,
             receive, Move, Aside, Generating, Places, Ended, KeysOK
    <3>3. CASE Kill(p) \/ WriteFails(p)
      <4>1. PICK end \in Ended : Goto(p, end)
        BY <3>3 DEF Kill, WriteFails, CutShort, Ended
      <4>2. at[p] \notin Generating \/ at[p] = "privOpen"
        BY <3>3, ZenonT(60) DEF Kill, WriteFails, CutShort
      <4>3. CASE at[p] \notin Generating
        <5>1. Aside(p)
          BY <4>1, <4>3 DEF Aside, Generating, Places, Ended
        <5> QED
          BY <2>a, <3>1, <5>1, AsideKeys DEF KeysOK
      <4>4. CASE at[p] = "privOpen"
        <5>1. end \in Places /\ end \notin Generating
          BY DEF Ended, Places, Generating
        <5>2. /\ at'[p] = end /\ OneGenerates'
              /\ \A q \in Procs \ {p} : Progress(q)'
          BY <2>a, <4>1, <4>4, <5>1, Generator DEF Generating
        <5>3. priv = Absent /\ pub = Absent
          BY <2>a, <4>4, Zenon DEF KeysOK, Progress
        <5>4. Progress(p)'
          BY <5>1, <5>2 DEF Progress, Generating
        <5> QED
          BY <2>a, <3>1, <5>2, <5>3, <5>4 DEF KeysOK, Settled
      <4> QED
        BY <4>2, <4>3, <4>4
    <3>4. CASE timeout(p) \/ handleSign(p) \/ writeSSHConfig(p) \/ execSSH(p)
      <4>1. Aside(p)
        BY <3>4 DEF timeout, handleSign, writeSSHConfig, execSSH, Move, Aside,
                    Generating, Places, Ended, Signing, Connecting
      <4> QED
        BY <2>a, <3>1, <4>1, AsideKeys DEF KeysOK
    <3> QED
      BY <2>5, <3>2, <3>3, <3>4, Zenon
  <2> QED
    BY <1>2, <2>1, <2>2, <2>3, <2>4, <2>5, ZenonT(60) DEF Acts, Step, Answered
<1> QED
  BY <1>1, <1>2, Zenon DEF Next, Acts

\* Initially no file exists and no command runs.
LEMMA InitIInv == Init => IInv
<1>1. ASSUME Init PROVE TypeOK
  BY <1>1, FileValues, ZenonT(60) DEF Init, TypeOK, Commands, Places
<1>2. ASSUME Init PROVE KeysOK
  BY <1>2, FileValues
     DEF Init, KeysOK, OneGenerates, Progress, Quiet, Settled, Generating
<1> QED
  BY <1>1, <1>2 DEF IInv

-----------------------------------------------------------------------------

\* The invariant the theorems below follow from.
THEOREM InductiveInvariant == Spec => []IInv
<1>1. IInv /\ [Next]_vars => IInv'
  BY NextType, NextKeys DEF IInv
<1> QED
  BY <1>1, InitIInv, PTL DEF Spec

\* The type invariant, for any number of commands.
THEOREM TypeCorrect == Spec => []TypeOK
<1>1. IInv => TypeOK
  BY DEF IInv
<1> QED
  BY <1>1, InductiveInvariant, PTL

(***************************************************************************)
(* ensureKeyPair: unless first uses overlap or one is cut short, there is  *)
(* one key pair and every certificate written is for it, however many      *)
(* commands sign in, sign and connect at the same time.                    *)
(***************************************************************************)
THEOREM KeyPairMatchesHolds == Spec => []KeyPairMatches
<1>1. IInv => KeyPairMatches
  BY Zenon DEF IInv, KeysOK, Settled, KeyPairMatches
<1> QED
  BY <1>1, InductiveInvariant, PTL

(***************************************************************************)
(* Whatever went wrong at first use: a complete key pair that nobody is    *)
(* about to replace stays, and every later certificate is for it.  Of all  *)
(* the writes only those of writeCert are left, and they write a key that  *)
(* was read from this pair.                                                *)
(***************************************************************************)
THEOREM PairKeptHolds == Spec => PairKept
<1>1. ASSUME TypeOK, Complete, NEW p \in Procs, Acts(p)
      PROVE  Complete' /\ priv' = priv /\ cert' \in {cert, Empty, priv}
  <2> DEFINE asking == {"requestCert", "certOpen", "certWrite"}
  <2>1. /\ at[p] \notin Generating /\ priv # Absent /\ pub # Absent
        /\ at[p] \in asking => read[p] = priv
    BY <1>1, FileValues, Zenon DEF Complete, Quiet
  <2>2. ~writePriv(p) /\ ~writePub(p)
    BY <2>1 DEF writePriv, writePub, Move, Generating
  <2>3. priv' = priv /\ pub' = pub
    BY <1>1, <2>2, ZenonT(60)
       DEF Acts, Start, Step, Answered, WriteFails, CutShort, callback,
           callbackRefused, Kill, fetchGatewayConfig, send, receive, timeout,
           stat, readPub, handleSign, writeCert, writeSSHConfig, execSSH, files
  <2>4. cert' \in {cert, Empty, priv}
    <3>1. CASE writeCert(p)
      BY <2>1, <3>1 DEF writeCert, Move
    <3>2. CASE cert' = cert
      BY <3>2
    <3> QED
      BY <1>1, <2>2, <3>1, <3>2, ZenonT(60)
         DEF Acts, Start, Step, Answered, WriteFails, CutShort, callback,
             callbackRefused, Kill, fetchGatewayConfig, send, receive,
             timeout, stat, readPub, handleSign, writeSSHConfig, execSSH, files
  <2>5. /\ at'[p] \notin Generating
        /\ at'[p] \in asking => read'[p] = priv
    <3>1. CASE readPub(p)
      BY <1>1, <3>1 DEF readPub, Move, Goto, TypeOK, Complete, Generating
    <3>2. CASE handleSign(p) \/ writeCert(p)
      BY <1>1, <2>1, <3>2
         DEF handleSign, writeCert, Move, Goto, TypeOK, Generating
    <3>3. CASE callback(p) \/ callbackRefused(p) \/ send(p)
      BY <2>1, <3>3 DEF callback, callbackRefused, send
    <3>4. CASE stat(p)
      BY <1>1, <2>1, <3>4 DEF stat, Move, Goto, Proceed, TypeOK, Generating
    <3>5. CASE \/ Start(p) \/ Kill(p) \/ WriteFails(p) \/ receive(p)
               \/ timeout(p) \/ fetchGatewayConfig(p) \/ writeSSHConfig(p)
               \/ execSSH(p)
      <4>1. at'[p] \notin Generating \cup asking
        BY <1>1, <3>5
           DEF Start, Kill, WriteFails, CutShort, receive, timeout,
               fetchGatewayConfig, writeSSHConfig, execSSH, Move, Goto,
               TypeOK, Generating
      <4> QED
        BY <4>1
    <3> QED
      BY <1>1, <2>2, <3>1, <3>2, <3>3, <3>4, <3>5, Zenon
         DEF Acts, Step, Answered
  <2>6. \A q \in Procs \ {p} : at'[q] = at[q] /\ read'[q] = read[q]
    <3>1. \A q \in Procs \ {p} : at'[q] = at[q]
      BY <1>1, StepReaches, ZenonT(60) DEF Reaches, Goto, TypeOK
    <3>2. read' = read \/ read' = [read EXCEPT ![p] = pub]
      BY <1>1, ZenonT(60)
         DEF Acts, Start, Step, Answered, WriteFails, CutShort, callback,
             callbackRefused, Kill, fetchGatewayConfig, send, receive, timeout,
             stat, writePriv, writePub, readPub, handleSign, writeCert,
             writeSSHConfig, execSSH
    <3> QED
      BY <1>1, <3>1, <3>2 DEF TypeOK
  <2>7. Complete'
    BY <1>1, <2>3, <2>5, <2>6 DEF Complete, Quiet
  <2> QED
    BY <2>3, <2>4, <2>7
<1>2. TypeOK /\ [Next]_vars =>
        [Complete =>
            /\ Complete' /\ priv' = priv
            /\ cert' \in {cert, Empty, priv}]_vars
  BY <1>1, Zenon DEF Next, Acts
<1> QED
  BY <1>2, TypeCorrect, PTL DEF Spec, PairKept

-----------------------------------------------------------------------------
(***************************************************************************)
(* Commands only go forward.                                               *)
(***************************************************************************)

\* How many places a command may still pass through.
Ahead(place) ==
    CASE place = "idle"         -> 12
      [] place = "fetchConfig"  -> 11
      [] place = "waiting"      -> 10
      [] place = "stat"         -> 9
      [] place = "privOpen"     -> 8
      [] place = "privWrite"    -> 7
      [] place = "pubOpen"      -> 6
      [] place = "pubWrite"     -> 5
      [] place \in {"readPub", "configOpen"}      -> 4
      [] place \in {"requestCert", "configWrite"} -> 3
      [] place \in {"certOpen", "exec"}           -> 2
      [] place = "certWrite"    -> 1
      [] OTHER                  -> 0

\* How many steps it may still take: a flow hands over one result at most.
StepsLeft(p) == 2 * Ahead(at[p]) + (IF result[p] = "none" THEN 1 ELSE 0)

(***************************************************************************)
(* Each step of its own, and each answer, brings a command nearer to its   *)
(* end, and no other command, callback or kill takes it further away; the  *)
(* steps left are a natural number.                                        *)
(***************************************************************************)
CommandsAdvance ==
    [][\A p \in Procs :
          /\ Step(p) \/ Answered(p) => StepsLeft(p)' < StepsLeft(p)
          /\ StepsLeft(p)' \in 0..StepsLeft(p)]_vars

LEMMA AheadBounds ==
    ASSUME NEW place \in Places
    PROVE  /\ Ahead(place) \in 0..12
           /\ place \notin Ended => Ahead(place) >= 1
BY DEF Ahead, Places, Generating, Signing, Connecting, Ended

\* Where a step that moves a command takes it.
Forward(p) ==
    /\ at[p] \notin Ended
    /\ \E place \in Places : /\ Goto(p, place)
                             /\ Ahead(place) < Ahead(at[p])

\* What lies ahead of each place.
LEMMA AheadOf ==
    /\ Ahead("idle") = 12 /\ Ahead("fetchConfig") = 11 /\ Ahead("waiting") = 10
    /\ Ahead("stat") = 9 /\ Ahead("privOpen") = 8 /\ Ahead("privWrite") = 7
    /\ Ahead("pubOpen") = 6 /\ Ahead("pubWrite") = 5
    /\ Ahead("readPub") = 4 /\ Ahead("requestCert") = 3
    /\ Ahead("certOpen") = 2 /\ Ahead("certWrite") = 1
    /\ Ahead("configOpen") = 4 /\ Ahead("configWrite") = 3 /\ Ahead("exec") = 2
    /\ Ahead("done") = 0 /\ Ahead("failed") = 0 /\ Ahead("killed") = 0
BY DEF Ahead

LEMMA MoveForward ==
    ASSUME NEW p \in Procs, NEW from \in Places \ Ended, NEW to \in Places,
           Move(p, from, to), Ahead(to) < Ahead(from)
    PROVE  Forward(p)
BY Zenon DEF Move, Forward

LEMMA MovesForward ==
    ASSUME TypeOK, NEW p \in Procs,
           \/ Start(p) \/ Step(p) \/ Answered(p) \/ WriteFails(p) \/ Kill(p)
    PROVE  send(p) \/ Forward(p)
<1>0. /\ {"idle", "fetchConfig", "waiting", "stat", "privOpen", "privWrite",
          "pubOpen", "pubWrite", "readPub", "requestCert", "certOpen",
          "certWrite", "configOpen", "configWrite", "exec"} = Places \ Ended
      /\ {"done", "failed", "killed"} \subseteq Places
  BY Zenon DEF Places, Ended, Generating, Signing, Connecting
<1>1. CASE Start(p)
  <2>1. Move(p, "idle", "fetchConfig") \/ Move(p, "idle", "stat")
    BY <1>1, Zenon DEF Start
  <2> QED
    BY <1>0, <2>1, AheadOf, MoveForward
<1>2. CASE Kill(p) \/ WriteFails(p)
  <2>1. at[p] \in Places \ Ended /\ (Goto(p, "killed") \/ Goto(p, "failed"))
    BY <1>2 DEF Kill, WriteFails, CutShort, TypeOK, Writing, Generating, Ended
  <2>2. Ahead(at[p]) >= 1 /\ Ahead(at[p]) \in 0..12
    BY <2>1, AheadBounds, Zenon
  <2> QED
    BY <1>0, <2>1, <2>2, AheadOf DEF Forward
<1>3. CASE fetchGatewayConfig(p)
  <2>1. Move(p, "fetchConfig", "waiting") \/ Move(p, "fetchConfig", "failed")
    BY <1>3, Zenon DEF fetchGatewayConfig
  <2> QED
    BY <1>0, <2>1, AheadOf, MoveForward
<1>4. CASE receive(p) \/ timeout(p)
  <2>1. Move(p, "waiting", "stat") \/ Move(p, "waiting", "failed")
    BY <1>4, Zenon DEF receive, timeout
  <2> QED
    BY <1>0, <2>1, AheadOf, MoveForward
<1>5. CASE stat(p)
  <2>1. \/ Move(p, "stat", "privOpen")
        \/ Move(p, "stat", "readPub") \/ Move(p, "stat", "configOpen")
    BY <1>5, Zenon DEF stat, Proceed
  <2> QED
    BY <1>0, <2>1, AheadOf, MoveForward
<1>6. CASE writePriv(p)
  <2>1. Move(p, "privOpen", "privWrite") \/ Move(p, "privWrite", "pubOpen")
    BY <1>6, Zenon DEF writePriv
  <2> QED
    BY <1>0, <2>1, AheadOf, MoveForward
<1>7. CASE writePub(p)
  <2>1. \/ Move(p, "pubOpen", "pubWrite")
        \/ Move(p, "pubWrite", "readPub") \/ Move(p, "pubWrite", "configOpen")
    BY <1>7, Zenon DEF writePub, Proceed
  <2> QED
    BY <1>0, <2>1, AheadOf, MoveForward
<1>8. CASE readPub(p) \/ handleSign(p)
  <2>1. \/ Move(p, "readPub", "failed") \/ Move(p, "readPub", "requestCert")
        \/ Move(p, "requestCert", "failed") \/ Move(p, "requestCert", "certOpen")
    BY <1>8, Zenon DEF readPub, handleSign
  <2> QED
    BY <1>0, <2>1, AheadOf, MoveForward
<1>9. CASE writeCert(p)
  <2>1. Move(p, "certOpen", "certWrite") \/ Move(p, "certWrite", "done")
    BY <1>9, Zenon DEF writeCert
  <2> QED
    BY <1>0, <2>1, AheadOf, MoveForward
<1>10. CASE writeSSHConfig(p) \/ execSSH(p)
  <2>1. \/ Move(p, "configOpen", "configWrite") \/ Move(p, "configWrite", "exec")
        \/ Move(p, "configWrite", "done")
        \/ Move(p, "exec", "done") \/ Move(p, "exec", "failed")
    BY <1>10, Zenon DEF writeSSHConfig, execSSH
  <2> QED
    BY <1>0, <2>1, AheadOf, MoveForward
<1> QED
  BY <1>1, <1>2, <1>3, <1>4, <1>5, <1>6, <1>7, <1>8, <1>9, <1>10,
     ZenonT(60) DEF Step, Answered

\* What happens to the result of a flow.
LEMMA OneResult ==
    ASSUME TypeOK, NEW p \in Procs, Acts(p)
    PROVE  /\ \A q \in Procs \ {p} : result'[q] = result[q] /\ at'[q] = at[q]
           /\ send(p) => /\ result[p] = "none" /\ result'[p] # "none"
                         /\ at' = at
           /\ callback(p) \/ callbackRefused(p) => result' = result /\ at' = at
<1>1. \A q \in Procs \ {p} : at'[q] = at[q]
  BY StepReaches, Zenon DEF Reaches, Goto, TypeOK
<1>2. \A q \in Procs \ {p} : result'[q] = result[q]
  <2>1. CASE Closed(p)
    BY <2>1, ZenonT(60) DEF Closed, TypeOK
  <2>2. CASE send(p)
    BY <2>2 DEF send, TypeOK
  <2>3. CASE result' = result
    BY <2>3, Zenon
  <2> QED
    BY <2>1, <2>2, <2>3, Zenon
       DEF Acts, Start, Step, Answered, WriteFails, CutShort, callback, callbackRefused, Kill, fetchGatewayConfig,
           receive, timeout, stat, writePriv, writePub, readPub, handleSign,
           writeCert, writeSSHConfig, execSSH, flow
<1>3. ASSUME send(p)
      PROVE  result[p] = "none" /\ result'[p] # "none" /\ at' = at
  <2>1. PICK r \in pending[p] : result' = [result EXCEPT ![p] = r]
    BY <1>3, Zenon DEF send
  <2>2. r \in {"token", "error"} /\ result'[p] = r
    BY <2>1 DEF TypeOK
  <2> QED
    BY <1>3, <2>2 DEF send
<1>4. callback(p) \/ callbackRefused(p) => result' = result /\ at' = at
  BY DEF callback, callbackRefused
<1> QED
  BY <1>1, <1>2, <1>3, <1>4, Zenon

(***************************************************************************)
(* For any number of commands, callbacks and kills: a command that is run  *)
(* and gets its answers ends after at most 25 steps, which is what it has  *)
(* left before it starts.  That it is run is left to the run of            *)
(* CommandsEnd; that it gets its answers nobody promises.                  *)
(***************************************************************************)
THEOREM CommandsAdvanceHolds == Spec => CommandsAdvance
<1>1. ASSUME TypeOK, NEW p \in Procs, Forward(p)
      PROVE  StepsLeft(p)' < StepsLeft(p)
  <2>1. PICK place \in Places : Goto(p, place) /\ Ahead(place) < Ahead(at[p])
    BY <1>1 DEF Forward
  <2>2. at[p] \in Places /\ at'[p] = place
    BY <1>1, <2>1 DEF TypeOK, Goto
  <2>3. Ahead(place) \in 0..12 /\ Ahead(at[p]) \in 0..12
    BY <2>2, AheadBounds
  <2> QED
    BY <2>1, <2>2, <2>3 DEF StepsLeft
<1>2. ASSUME TypeOK, NEW p \in Procs, send(p)
      PROVE  StepsLeft(p)' < StepsLeft(p)
  <2>1. result[p] = "none" /\ result'[p] # "none" /\ at' = at
    BY <1>2, OneResult DEF Acts, Step
  <2>2. at[p] \in Places
    BY <1>2, Zenon DEF TypeOK
  <2>3. Ahead(at[p]) \in 0..12
    BY <2>2, AheadBounds
  <2> QED
    BY <2>1, <2>3 DEF StepsLeft
<1>3. ASSUME TypeOK, TypeOK', [Next]_vars, NEW p \in Procs
      PROVE  /\ Step(p) \/ Answered(p) => StepsLeft(p)' < StepsLeft(p)
             /\ StepsLeft(p)' \in 0..StepsLeft(p)
  <2>1. Step(p) \/ Answered(p) => StepsLeft(p)' < StepsLeft(p)
    BY <1>1, <1>2, <1>3, MovesForward, Zenon
  <2>2. StepsLeft(p) \in Nat /\ StepsLeft(p)' \in Nat
    <3>1. at[p] \in Places /\ at'[p] \in Places
      BY <1>3, ZenonT(60) DEF TypeOK
    <3>2. Ahead(at[p]) \in 0..12 /\ Ahead(at'[p]) \in 0..12
      BY <3>1, AheadBounds
    <3> QED
      BY <3>2 DEF StepsLeft
  <2>3. ASSUME UNCHANGED vars PROVE StepsLeft(p)' \in 0..StepsLeft(p)
    <3>1. StepsLeft(p)' = StepsLeft(p)
      BY <2>3 DEF StepsLeft, vars, flow
    <3> QED
      BY <2>2, <3>1
  <2>4. ASSUME NEW q \in Procs, Acts(q)
        PROVE  StepsLeft(p)' \in 0..StepsLeft(p)
    <3>1. CASE q = p /\ ~callback(q) /\ ~callbackRefused(q)
      <4>1. StepsLeft(p)' < StepsLeft(p)
        BY <1>1, <1>2, <1>3, <2>4, <3>1, MovesForward, Zenon DEF Acts
      <4> QED
        BY <2>2, <4>1
    <3>2. CASE q # p \/ callback(q) \/ callbackRefused(q)
      <4>1. result'[p] = result[p] /\ at'[p] = at[p]
        BY <1>3, <2>4, <3>2, OneResult, Zenon
      <4>2. StepsLeft(p)' = StepsLeft(p)
        BY <4>1 DEF StepsLeft
      <4> QED
        BY <2>2, <4>2
    <3> QED
      BY <3>1, <3>2
  <2>5. StepsLeft(p)' \in 0..StepsLeft(p)
    BY <1>3, <2>3, <2>4, Zenon DEF Next, Acts
  <2> QED
    BY <2>1, <2>5
<1>4. TypeOK /\ TypeOK' /\ [Next]_vars =>
        [\A p \in Procs :
            /\ Step(p) \/ Answered(p) => StepsLeft(p)' < StepsLeft(p)
            /\ StepsLeft(p)' \in 0..StepsLeft(p)]_vars
  BY <1>3
<1> QED
  BY <1>4, TypeCorrect, PTL DEF Spec, CommandsAdvance

=============================================================================
