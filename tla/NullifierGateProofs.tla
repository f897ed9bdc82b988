------------------------ MODULE NullifierGateProofs ------------------------
(***************************************************************************)
(* Proofs about NullifierGate, for any requests, scopes and nullifiers:    *)
(* the types, and that what was accepted stays refused.                    *)
(***************************************************************************)
EXTENDS NullifierGate, TLAPS

(* The file of an accepted nullifier is never one that lets a request      *)
(* through: it holds the nullifier, or a crash in a second save tore it.   *)
AcceptedIsFiled ==
  \A q \in Requests : status[q] = 200 => file[nullifierName(q)] \in {"used", "torn"}

GateInv == TypeOK /\ AcceptedIsFiled

-----------------------------------------------------------------------------
(* The initial states have the types, and nothing is accepted in them.     *)
LEMMA GateInit == Init => GateInv
  BY DEF Init, GateInv, TypeOK, AcceptedIsFiled

(* Stopping loses every request in verification, and answers none.         *)
LEMMA StopKeeps ==
  ASSUME TypeOK, NEW r \in Requests, Stop(r), phase[r] # "answered",
         UNCHANGED <<body, status>>, file' \in [NullifierNames -> {"absent", "empty", "used", "torn"}]
  PROVE  TypeOK'
  BY DEF TypeOK, Stop

(* The file of a request does not change with anything but its body.       *)
LEMMA NameKept ==
  ASSUME TypeOK, NEW q \in Requests, UNCHANGED body
  PROVE  nullifierName(q) \in NullifierNames /\ nullifierName(q)' = nullifierName(q)
  BY DEF TypeOK, Bodies, nullifierName, NullifierNames

(* A write leaves every file with a content of its type.                   *)
LEMMA WriteKeepsTypes ==
  ASSUME TypeOK, NEW r \in Requests, UNCHANGED body,
         NEW content \in {"absent", "empty", "used", "torn"}, Write(r, content)
  PROVE  file' \in [NullifierNames -> {"absent", "empty", "used", "torn"}]
  BY NameKept DEF TypeOK, Write

(* Every step keeps the types.                                             *)
LEMMA TypesKept == TypeOK /\ [Next]_vars => TypeOK'
<1> SUFFICES ASSUME TypeOK, [Next]_vars PROVE TypeOK'
  OBVIOUS
<1> USE DEF TypeOK
<1>1. ASSUME NEW r \in Requests, RefuseIncomplete(r) PROVE TypeOK'
  BY <1>1 DEF RefuseIncomplete, Answer
<1>2. ASSUME NEW r \in Requests, RefuseUsed(r) PROVE TypeOK'
  BY <1>2 DEF RefuseUsed, Answer
<1>3. ASSUME NEW r \in Requests, StartVerification(r) PROVE TypeOK'
  <2>1. file' \in [NullifierNames -> {"absent", "empty", "used", "torn"}]
    BY <1>3, WriteKeepsTypes DEF StartVerification
  <2> QED
    BY <1>3, <2>1 DEF StartVerification
<1>4. ASSUME NEW r \in Requests, ReadTornFile(r) PROVE TypeOK'
  BY <1>4, StopKeeps DEF ReadTornFile
<1>5. ASSUME NEW r \in Requests, Accept(r) PROVE TypeOK'
  <2>1. file' \in [NullifierNames -> {"absent", "empty", "used", "torn"}]
    BY <1>5, WriteKeepsTypes DEF Accept
  <2>2. /\ status' \in [Requests -> {0, 200, 400, 500}]
        /\ phase' \in [Requests -> {"unsent", "verifying", "answered", "lost"}]
    BY <1>5 DEF Accept, Answer
  <2>3. \A q \in Requests : /\ phase'[q] = "answered" <=> status'[q] # 0
                            /\ phase'[q] = "verifying" => up'
    BY <1>5 DEF Accept, Answer
  <2> QED
    BY <1>5, <2>1, <2>2, <2>3 DEF Accept
<1>6. ASSUME NEW r \in Requests, Reject(r) PROVE TypeOK'
  BY <1>6 DEF Reject, Answer
<1>7. ASSUME NEW r \in Requests, CrashInWrite(r) PROVE TypeOK'
  <2>1. phase[r] # "answered" /\ file' \in [NullifierNames -> {"absent", "empty", "used", "torn"}]
    BY <1>7, WriteKeepsTypes DEF CrashInWrite
  <2> QED
    BY <1>7, <2>1, StopKeeps DEF CrashInWrite
<1>8. ASSUME NEW r \in Requests, ConnectionRefused(r) PROVE TypeOK'
  BY <1>8 DEF ConnectionRefused
<1>9. CASE Crash
  BY <1>9, StopKeeps DEF Crash
<1>10. CASE Restart
  BY <1>10 DEF Restart
<1>11. CASE UNCHANGED vars
  BY <1>11 DEF vars
<1> QED
  BY <1>1, <1>2, <1>3, <1>4, <1>5, <1>6, <1>7, <1>8, <1>9, <1>10, <1>11 DEF Next, Before, After

(* A write keeps the files of what is accepted, if it tears a file, saves  *)
(* the nullifier, or finds nothing saved.                                  *)
LEMMA WriteKeeps ==
  ASSUME TypeOK, AcceptedIsFiled, UNCHANGED <<body, status>>,
         NEW r \in Requests, NEW content, Write(r, content),
         content \in {"used", "torn"} \/ FileOf(r) \in {"absent", "empty"}
  PROVE  AcceptedIsFiled'
<1> SUFFICES ASSUME NEW q \in Requests, status[q] = 200
             PROVE  file'[nullifierName(q)'] \in {"used", "torn"}
  BY DEF AcceptedIsFiled
<1>1. /\ nullifierName(q) \in NullifierNames /\ nullifierName(q)' = nullifierName(q)
      /\ file[nullifierName(q)] \in {"used", "torn"}
  BY NameKept DEF AcceptedIsFiled
<1>2. CASE nullifierName(q) = nullifierName(r)
  BY <1>1, <1>2 DEF TypeOK, Write, FileOf
<1>3. CASE nullifierName(q) # nullifierName(r)
  BY <1>1, <1>3 DEF TypeOK, Write
<1> QED
  BY <1>2, <1>3

(* Every step keeps the file of an accepted nullifier.                     *)
LEMMA AcceptedKept == GateInv /\ [Next]_vars => AcceptedIsFiled'
<1> SUFFICES ASSUME TypeOK, AcceptedIsFiled, [Next]_vars PROVE AcceptedIsFiled'
  BY DEF GateInv
<1>1. ASSUME UNCHANGED <<body, file>>, \A q \in Requests : status'[q] = 200 => status[q] = 200
      PROVE  AcceptedIsFiled'
  BY <1>1, NameKept DEF AcceptedIsFiled
<1>2. ASSUME NEW r \in Requests, RefuseIncomplete(r) \/ RefuseUsed(r) \/ Reject(r)
      PROVE  AcceptedIsFiled'
  BY <1>1, <1>2 DEF TypeOK, RefuseIncomplete, RefuseUsed, Reject, Answer
<1>3. ASSUME NEW r \in Requests, StartVerification(r) PROVE AcceptedIsFiled'
  BY <1>3, WriteKeeps DEF StartVerification
<1>4. ASSUME NEW r \in Requests, Accept(r) PROVE AcceptedIsFiled'
  <2> SUFFICES ASSUME NEW q \in Requests, status'[q] = 200
               PROVE  file'[nullifierName(q)'] \in {"used", "torn"}
    BY DEF AcceptedIsFiled
  <2>1. nullifierName(q) \in NullifierNames /\ nullifierName(q)' = nullifierName(q)
    BY <1>4, NameKept DEF Accept
  <2>2. CASE nullifierName(q) = nullifierName(r)
    BY <1>4, <2>1, <2>2 DEF TypeOK, Accept, Write
  <2>3. CASE nullifierName(q) # nullifierName(r)
    <3>1. status[q] = 200
      BY <1>4, <2>3 DEF TypeOK, Accept, Answer
    <3> QED
      BY <1>4, <2>1, <2>3, <3>1 DEF TypeOK, AcceptedIsFiled, Accept, Write
  <2> QED
    BY <2>2, <2>3
<1>5. ASSUME NEW r \in Requests, CrashInWrite(r) PROVE AcceptedIsFiled'
  <2>1. PICK content \in {"torn", "empty", "used"} :
          /\ Write(r, content)
          /\ content \in {"used", "torn"} \/ FileOf(r) \in {"absent", "empty"}
    BY <1>5 DEF CrashInWrite
  <2> QED
    BY <1>5, <2>1, WriteKeeps DEF CrashInWrite
<1>6. ASSUME NEW r \in Requests, ReadTornFile(r) \/ ConnectionRefused(r) PROVE AcceptedIsFiled'
  BY <1>1, <1>6 DEF ReadTornFile, ConnectionRefused
<1>7. CASE Crash \/ Restart \/ UNCHANGED vars
  BY <1>1, <1>7 DEF Crash, Restart, vars
<1> QED
  BY <1>2, <1>3, <1>4, <1>5, <1>6, <1>7 DEF Next, Before, After

(* The two parts together are inductive.                                   *)
LEMMA GateInvariant == Spec => []GateInv
<1>1. GateInv /\ [Next]_vars => GateInv'
  BY TypesKept, AcceptedKept DEF GateInv
<1> QED
  BY GateInit, <1>1, PTL DEF Spec

-----------------------------------------------------------------------------
(* Every variable of the gate keeps its type; only a running server has    *)
(* requests in verification, whenever it crashes.                          *)
THEOREM GateTypeCorrect == Spec => []TypeOK
<1>1. GateInv => TypeOK
  BY DEF GateInv
<1> QED
  BY GateInvariant, <1>1, PTL

(* modtrain-proof begins no verification for a scope and nullifier it has  *)
(* answered with 200, through crashes, torn files and restarts.            *)
THEOREM AcceptedStaysRefused == Spec => NoVerificationOnceAccepted
<1> DEFINE Safe == \A r, q \in Requests :
             /\ phase[r] = "unsent" /\ phase'[r] = "verifying"
             /\ nullifierName(q) = nullifierName(r)
             => status[q] # 200
<1>1. GateInv /\ [Next]_vars => [Safe]_vars
  <2> SUFFICES ASSUME GateInv, Next,
                      NEW r \in Requests, NEW q \in Requests,
                      phase[r] = "unsent", phase'[r] = "verifying",
                      nullifierName(q) = nullifierName(r)
               PROVE  status[q] # 200
    BY DEF vars
  <2>1. StartVerification(r)
    <3> USE DEF GateInv, TypeOK
    <3>1. ASSUME NEW p \in Requests, Before(p) PROVE StartVerification(r)
      BY <3>1 DEF Before, RefuseIncomplete, RefuseUsed, StartVerification, ReadTornFile, Answer, Stop
    <3>2. ASSUME NEW p \in Requests, After(p) PROVE FALSE
      BY <3>2 DEF After, Accept, Reject, Answer
    <3>3. ASSUME NEW p \in Requests, CrashInWrite(p) \/ ConnectionRefused(p) PROVE FALSE
      BY <3>3 DEF CrashInWrite, ConnectionRefused, Stop
    <3>4. CASE Crash \/ Restart
      BY <3>4 DEF Crash, Restart, Stop
    <3> QED
      BY <3>1, <3>2, <3>3, <3>4 DEF Next
  <2>2. file[nullifierName(q)] \in {"absent", "empty"}
    BY <2>1 DEF StartVerification, FileOf
  <2> QED
    BY <2>2 DEF GateInv, AcceptedIsFiled
<1> QED
  BY GateInvariant, <1>1, PTL DEF Spec, NoVerificationOnceAccepted
=============================================================================
