-------------------------- MODULE ClientJoinProofs --------------------------
(***************************************************************************)
(* The invariant of ClientJoin, for any number of devices, runs, groups,   *)
(* members and subgroups, and what follows from it: the types, the         *)
(* credentials of a device, its one place in all groups, that the subgroup *)
(* a run takes is its own, that its wait is answered, and that the server  *)
(* accepts its join proof.                                                 *)
(*                                                                         *)
(* The invariant has one part per owner of state: the credentials of a     *)
(* device, the chain (its forest, the sizes of the subgroups, its log),    *)
(* the device's requests, and the state of its run.  The acceptance of a   *)
(* proof also needs the depth of a path in a subgroup of a given size.     *)
(***************************************************************************)
EXTENDS ClientJoin, SemaphoreGroupsProofs, SequenceTheorems

-----------------------------------------------------------------------------
(***************************************************************************)
(* Credentials.                                                            *)
(***************************************************************************)
Contents == {"whole", "torn"}

(* The phases in which a run knows who it is.                              *)
Identified == Phases \ {"off", "issuer", "holder", "credential", "identity"}

OneFor(f) == f = [d \in Devices |-> f[d]]

(* What is on file for device d and what its run r works with: a phase     *)
(* after the writing of a document finds the document whole.               *)
DeviceOK(d, r, p, docs, vc, file, id) ==
  /\ r \in 0 .. MaxRuns /\ p \in Phases
  /\ docs \subseteq [role : Roles, run : 1 .. r, content : Contents]
  /\ vc \in (1 .. r) \cup {Nobody, Torn}
  /\ file \in {d, Nobody, Torn}
  /\ id \in {d, Nobody}
  /\ vc \notin {Nobody, Torn} => \A role \in Roles : Document(role, vc, "whole") \in docs
  /\ p # "off" => r >= 1
  /\ p \in {"holder", "credential"} => Document("issuer", r, "whole") \in docs
  /\ p = "credential" => Document("holder", r, "whole") \in docs
  /\ p \in Identified => id = d

CredentialsInv ==
  /\ OneFor(run) /\ OneFor(phase) /\ OneFor(didDocs) /\ OneFor(vcFile)
  /\ OneFor(idFile) /\ OneFor(identity)
  /\ \A d \in Devices :
       DeviceOK(d, run[d], phase[d], didDocs[d], vcFile[d], idFile[d], identity[d])

(* A step of one device that leaves that device in order.                  *)
LEMMA CredentialsStep ==
  ASSUME CredentialsInv, NEW d \in Devices,
         OneFor(run') /\ OneFor(phase') /\ OneFor(didDocs') /\ OneFor(vcFile')
           /\ OneFor(idFile') /\ OneFor(identity'),
         \A e \in Devices : e # d =>
           /\ run'[e] = run[e] /\ phase'[e] = phase[e] /\ didDocs'[e] = didDocs[e]
           /\ vcFile'[e] = vcFile[e] /\ idFile'[e] = idFile[e] /\ identity'[e] = identity[e],
         DeviceOK(d, run'[d], phase'[d], didDocs'[d], vcFile'[d], idFile'[d], identity'[d])
  PROVE  CredentialsInv'
BY DEF CredentialsInv, OneFor, DeviceOK

(* A run that is past its credentials, or stays in its phase.              *)
LEMMA CredentialsMove ==
  ASSUME CredentialsInv, NEW d \in Devices, NEW p, GoTo(d, p),
         \/ p = phase[d]
         \/ p \in Identified /\ phase[d] \in Identified,
         UNCHANGED <<run, credentialFiles, identity>>
  PROVE  CredentialsInv'
<1>1. OneFor(phase') /\ phase'[d] = p /\ \A e \in Devices : e # d => phase'[e] = phase[e]
  BY DEF OneFor, GoTo, CredentialsInv
<1>2. UNCHANGED <<run, didDocs, vcFile, idFile, identity>>
  BY DEF credentialFiles
<1>3. DeviceOK(d, run[d], phase[d], didDocs[d], vcFile[d], idFile[d], identity[d])
  BY DEF CredentialsInv
<1>4. DeviceOK(d, run[d], p, didDocs[d], vcFile[d], idFile[d], identity[d])
  <2>1. CASE p = phase[d]
    BY <1>3, <2>1
  <2>2. CASE p \in Identified /\ phase[d] \in Identified
    BY <1>3, <2>2 DEF DeviceOK, Identified, Phases
  <2> QED
    BY <2>1, <2>2
<1> QED
  BY <1>1, <1>2, <1>4, CredentialsStep DEF CredentialsInv

LEMMA CredentialsUnchanged ==
  ASSUME CredentialsInv, UNCHANGED credentialVars
  PROVE  CredentialsInv'
BY DEF CredentialsInv, credentialVars, credentialFiles, OneFor, DeviceOK

LEMMA CredentialsInitially == CredentialsInit => CredentialsInv
BY RunsAreCounted DEF CredentialsInit, CredentialsInv, OneFor, DeviceOK, Phases, Identified

(* The documents of a role, one of them added.                             *)
LEMMA DocumentAdded ==
  ASSUME NEW r \in 0 .. MaxRuns, r >= 1, NEW role \in Roles, NEW content \in Contents,
         NEW docs, docs \subseteq [role : Roles, run : 1 .. r, content : Contents]
  PROVE  docs \cup {Document(role, r, content)}
           \subseteq [role : Roles, run : 1 .. r, content : Contents]
BY RunsAreCounted DEF Document

(* The steps of getMyIdentityCommitment, and a run that is started.        *)
LEMMA CredentialsKeepInv ==
  ASSUME CredentialsInv, NEW d \in Devices, StartRun(d) \/ getMyIdentityCommitment(d)
  PROVE  CredentialsInv'
<1>0. /\ DeviceOK(d, run[d], phase[d], didDocs[d], vcFile[d], idFile[d], identity[d])
      /\ OneFor(run) /\ OneFor(phase) /\ OneFor(didDocs) /\ OneFor(vcFile)
      /\ OneFor(idFile) /\ OneFor(identity)
      /\ run[d] \in 0 .. MaxRuns /\ MaxRuns \in Nat
  BY RunsAreCounted DEF CredentialsInv, DeviceOK
<1>1. CASE StartRun(d)
  <2>1. /\ run' = [run EXCEPT ![d] = run[d] + 1] /\ phase' = [phase EXCEPT ![d] = "issuer"]
        /\ UNCHANGED <<didDocs, vcFile, idFile, identity>> /\ run[d] < MaxRuns
    BY <1>1 DEF StartRun, GoTo, credentialFiles
  <2>2. /\ OneFor(run') /\ run'[d] = run[d] + 1 /\ \A e \in Devices : e # d => run'[e] = run[e]
    BY <1>0, <2>1 DEF OneFor
  <2>3. /\ OneFor(phase') /\ phase'[d] = "issuer"
        /\ \A e \in Devices : e # d => phase'[e] = phase[e]
    BY <1>0, <2>1 DEF OneFor
  <2>4. DeviceOK(d, run[d] + 1, "issuer", didDocs[d], vcFile[d], idFile[d], identity[d])
    <3>1. [role : Roles, run : 1 .. run[d], content : Contents]
            \subseteq [role : Roles, run : 1 .. run[d] + 1, content : Contents]
      BY <1>0
    <3> QED
      BY <1>0, <2>1, <3>1 DEF DeviceOK, Phases, Identified
  <2> QED
    BY <1>0, <2>1, <2>2, <2>3, <2>4, CredentialsStep
<1>2. CASE createIssuerDID(d)
  <2>1. /\ didDocs' = [didDocs EXCEPT ![d] = didDocs[d] \cup {Document("issuer", run[d], "whole")}]
        /\ phase[d] = "issuer" /\ phase' = [phase EXCEPT ![d] = "holder"]
        /\ UNCHANGED <<run, vcFile, idFile, identity>>
    BY <1>2 DEF createIssuerDID, createAndSaveDIDDocument, GoTo
  <2>2. /\ OneFor(didDocs') /\ didDocs'[d] = didDocs[d] \cup {Document("issuer", run[d], "whole")}
        /\ \A e \in Devices : e # d => didDocs'[e] = didDocs[e]
    BY <1>0, <2>1 DEF OneFor
  <2>3. /\ OneFor(phase') /\ phase'[d] = "holder"
        /\ \A e \in Devices : e # d => phase'[e] = phase[e]
    BY <1>0, <2>1 DEF OneFor
  <2>4. didDocs'[d] \subseteq [role : Roles, run : 1 .. run[d], content : Contents]
    BY <1>0, <2>1, <2>2, DocumentAdded DEF DeviceOK, Roles, Contents
  <2>5. DeviceOK(d, run[d], "holder", didDocs'[d], vcFile[d], idFile[d], identity[d])
    BY <1>0, <2>1, <2>2, <2>4 DEF DeviceOK, Phases, Identified
  <2> QED
    BY <1>0, <2>1, <2>2, <2>3, <2>5, CredentialsStep
<1>3. CASE createHolderDID(d)
  <2>1. /\ didDocs' = [didDocs EXCEPT ![d] = didDocs[d] \cup {Document("holder", run[d], "whole")}]
        /\ phase[d] = "holder" /\ phase' = [phase EXCEPT ![d] = "credential"]
        /\ UNCHANGED <<run, vcFile, idFile, identity>>
    BY <1>3 DEF createHolderDID, createAndSaveDIDDocument, GoTo
  <2>2. /\ OneFor(didDocs') /\ didDocs'[d] = didDocs[d] \cup {Document("holder", run[d], "whole")}
        /\ \A e \in Devices : e # d => didDocs'[e] = didDocs[e]
    BY <1>0, <2>1 DEF OneFor
  <2>3. /\ OneFor(phase') /\ phase'[d] = "credential"
        /\ \A e \in Devices : e # d => phase'[e] = phase[e]
    BY <1>0, <2>1 DEF OneFor
  <2>4. didDocs'[d] \subseteq [role : Roles, run : 1 .. run[d], content : Contents]
    BY <1>0, <2>1, <2>2, DocumentAdded DEF DeviceOK, Roles, Contents
  <2>5. DeviceOK(d, run[d], "credential", didDocs'[d], vcFile[d], idFile[d], identity[d])
    BY <1>0, <2>1, <2>2, <2>4 DEF DeviceOK, Phases, Identified
  <2> QED
    BY <1>0, <2>1, <2>2, <2>3, <2>5, CredentialsStep
<1>4. CASE saveVC(d)
  <2>1. /\ vcFile' = [vcFile EXCEPT ![d] = run[d]]
        /\ phase[d] = "credential" /\ phase' = [phase EXCEPT ![d] = "identity"]
        /\ UNCHANGED <<run, didDocs, idFile, identity>>
    BY <1>4 DEF saveVC, saveJSON, issueVC, GoTo
  <2>2. OneFor(vcFile') /\ vcFile'[d] = run[d] /\ \A e \in Devices : e # d => vcFile'[e] = vcFile[e]
    BY <1>0, <2>1 DEF OneFor
  <2>3. /\ OneFor(phase') /\ phase'[d] = "identity"
        /\ \A e \in Devices : e # d => phase'[e] = phase[e]
    BY <1>0, <2>1 DEF OneFor
  <2>4. DeviceOK(d, run[d], "identity", didDocs[d], run[d], idFile[d], identity[d])
    BY <1>0, <2>1 DEF DeviceOK, Phases, Identified, Roles
  <2> QED
    BY <1>0, <2>1, <2>2, <2>3, <2>4, CredentialsStep
<1>5. CASE generateIdentityFromVC(d)
  <2>1. PICK mine :
          /\ mine = IF Loadable(d) THEN loadIdentity(d) ELSE Identity(d)
          /\ identity' = [identity EXCEPT ![d] = mine] /\ idFile' = [idFile EXCEPT ![d] = mine]
          /\ phase[d] = "identity" /\ phase' = [phase EXCEPT ![d] = "start"]
          /\ UNCHANGED <<run, didDocs, vcFile>>
    BY <1>5 DEF generateIdentityFromVC, saveIdentity, GoTo
  <2>2. mine = d
    BY <1>0, <2>1 DEF Loadable, loadIdentity, Identity, DeviceOK
  <2>3. OneFor(idFile') /\ idFile'[d] = d /\ \A e \in Devices : e # d => idFile'[e] = idFile[e]
    BY <1>0, <2>1, <2>2 DEF OneFor
  <2>4. OneFor(identity') /\ identity'[d] = d /\ \A e \in Devices : e # d => identity'[e] = identity[e]
    BY <1>0, <2>1, <2>2 DEF OneFor
  <2>5. OneFor(phase') /\ phase'[d] = "start" /\ \A e \in Devices : e # d => phase'[e] = phase[e]
    BY <1>0, <2>1 DEF OneFor
  <2>6. DeviceOK(d, run[d], "start", didDocs[d], vcFile[d], d, d)
    BY <1>0, <2>1 DEF DeviceOK, Phases, Identified
  <2> QED
    BY <1>0, <2>1, <2>3, <2>4, <2>5, <2>6, CredentialsStep
<1> QED
  BY <1>1, <1>2, <1>3, <1>4, <1>5 DEF getMyIdentityCommitment

(* A process that is killed, perhaps while it writes one of these files.   *)
LEMMA KillKeepsCredentials ==
  ASSUME CredentialsInv, NEW d \in Devices, GoTo(d, "off"),
         identity' = [identity EXCEPT ![d] = Nobody],
         UNCHANGED run, UNCHANGED credentialFiles \/ TearFile(d)
  PROVE  CredentialsInv'
<1>0. /\ DeviceOK(d, run[d], phase[d], didDocs[d], vcFile[d], idFile[d], identity[d])
      /\ OneFor(run) /\ OneFor(phase) /\ OneFor(didDocs) /\ OneFor(vcFile)
      /\ OneFor(idFile) /\ OneFor(identity)
      /\ run[d] \in 0 .. MaxRuns /\ MaxRuns \in Nat
  BY RunsAreCounted DEF CredentialsInv, DeviceOK
<1>1. /\ OneFor(phase') /\ phase'[d] = "off" /\ \A e \in Devices : e # d => phase'[e] = phase[e]
      /\ OneFor(identity') /\ identity'[d] = Nobody
      /\ \A e \in Devices : e # d => identity'[e] = identity[e]
  BY <1>0 DEF OneFor, GoTo
<1>2. CASE UNCHANGED credentialFiles
  <2>1. UNCHANGED <<didDocs, vcFile, idFile>>
    BY <1>2 DEF credentialFiles
  <2>2. DeviceOK(d, run[d], "off", didDocs[d], vcFile[d], idFile[d], Nobody)
    BY <1>0 DEF DeviceOK, Phases, Identified
  <2> QED
    BY <1>0, <1>1, <2>1, <2>2, CredentialsStep
<1>3. CASE phase[d] \in {"issuer", "holder"} /\ createAndSaveDIDDocument(d, phase[d], "torn")
           /\ UNCHANGED <<vcFile, idFile>>
  <2>1. /\ OneFor(didDocs') /\ didDocs'[d] = didDocs[d] \cup {Document(phase[d], run[d], "torn")}
        /\ \A e \in Devices : e # d => didDocs'[e] = didDocs[e]
    BY <1>0, <1>3 DEF OneFor, createAndSaveDIDDocument
  <2>2. didDocs'[d] \subseteq [role : Roles, run : 1 .. run[d], content : Contents]
    BY <1>0, <1>3, <2>1, DocumentAdded DEF DeviceOK, Roles, Contents
  <2>3. DeviceOK(d, run[d], "off", didDocs'[d], vcFile[d], idFile[d], Nobody)
    BY <1>0, <1>3, <2>1, <2>2 DEF DeviceOK, Phases, Identified
  <2> QED
    BY <1>0, <1>1, <1>3, <2>1, <2>3, CredentialsStep
<1>4. CASE saveJSON(d, Torn) /\ UNCHANGED <<didDocs, idFile>>
  <2>1. OneFor(vcFile') /\ vcFile'[d] = Torn /\ \A e \in Devices : e # d => vcFile'[e] = vcFile[e]
    BY <1>0, <1>4 DEF OneFor, saveJSON
  <2>2. DeviceOK(d, run[d], "off", didDocs[d], Torn, idFile[d], Nobody)
    BY <1>0 DEF DeviceOK, Phases, Identified
  <2> QED
    BY <1>0, <1>1, <1>4, <2>1, <2>2, CredentialsStep
<1>5. CASE saveIdentity(d, Torn) /\ UNCHANGED <<didDocs, vcFile>>
  <2>1. OneFor(idFile') /\ idFile'[d] = Torn /\ \A e \in Devices : e # d => idFile'[e] = idFile[e]
    BY <1>0, <1>5 DEF OneFor, saveIdentity
  <2>2. DeviceOK(d, run[d], "off", didDocs[d], vcFile[d], Torn, Nobody)
    BY <1>0 DEF DeviceOK, Phases, Identified
  <2> QED
    BY <1>0, <1>1, <1>5, <2>1, <2>2, CredentialsStep
<1> QED
  BY <1>2, <1>3, <1>4, <1>5 DEF TearFile

-----------------------------------------------------------------------------
(***************************************************************************)
(* The depth of a proof.  SiblingCount is a recursive function; that there *)
(* is one, and that it has its defining equation, is shown by building it  *)
(* up to every number, which is where a least number stands in for         *)
(* induction.                                                              *)
(***************************************************************************)
(* A set that has a number once it has all smaller ones has them all.      *)
LEMMA AllNumbers ==
  ASSUME NEW T, \A n \in Nat : (\A m \in Nat : m < n => m \in T) => n \in T
  PROVE  Nat \subseteq T
<1> DEFINE Missing == Nat \ T
<1> SUFFICES ASSUME Missing # {} PROVE FALSE
  OBVIOUS
<1>1. Missing \subseteq Nat
  OBVIOUS
<1> HIDE DEF Missing
<1>2. PICK n \in Missing : \A m \in Missing : n <= m
  BY <1>1, LeastNumber
<1>3. n \in Nat /\ n \notin T /\ \A m \in Nat : m < n => m \notin Missing
  BY <1>1, <1>2 DEF Missing
<1>4. \A m \in Nat : m < n => m \in T
  BY <1>3 DEF Missing
<1> QED
  BY <1>3, <1>4

(* The siblings at one level, given those above it.                        *)
Siblings(n, i, above) == (IF i = n - 1 /\ i % 2 = 0 THEN 0 ELSE 1) + above

Counts(n, f) == [i \in Nat |-> IF n <= 1 THEN 0 ELSE Siblings(n, i, f[(n + 1) \div 2][i \div 2])]

(* f counts the siblings in every tree of fewer than n leaves.             *)
CountsBelow(n, f) == \A m \in Nat : m < n => f[m] = Counts(m, f)

LEMMA Halves ==
  ASSUME NEW n \in Nat, n > 1
  PROVE  (n + 1) \div 2 \in Nat /\ (n + 1) \div 2 < n
OBVIOUS

LEMMA CountsAgree ==
  ASSUME NEW a \in Nat, NEW b \in Nat, NEW f, NEW h, CountsBelow(a, f), CountsBelow(b, h)
  PROVE  \A n \in Nat : n < a /\ n < b => f[n] = h[n]
<1> DEFINE T == {n \in Nat : n < a /\ n < b => f[n] = h[n]}
<1>1. ASSUME NEW n \in Nat, \A m \in Nat : m < n => m \in T PROVE n \in T
  <2> SUFFICES ASSUME n < a, n < b PROVE f[n] = h[n]
    OBVIOUS
  <2>1. f[n] = Counts(n, f) /\ h[n] = Counts(n, h)
    BY DEF CountsBelow
  <2>2. CASE n <= 1
    BY <2>1, <2>2 DEF Counts
  <2>3. CASE n > 1
    <3>1. f[(n + 1) \div 2] = h[(n + 1) \div 2]
      BY <1>1, <2>3, Halves
    <3> QED
      BY <2>1, <3>1 DEF Counts
  <2> QED
    BY <2>2, <2>3
<1>2. \A n \in T : n < a /\ n < b => f[n] = h[n]
  OBVIOUS
<1> HIDE DEF T
<1>3. Nat \subseteq T
  BY <1>1, AllNumbers
<1> QED
  BY <1>2, <1>3

LEMMA CountsBelowExist == \A n \in Nat : \E f : CountsBelow(n, f)
<1> DEFINE T == {n \in Nat : \E f : CountsBelow(n, f)}
<1>1. ASSUME NEW n \in Nat, \A m \in Nat : m < n => m \in T PROVE n \in T
  <2>1. CASE n = 0
    <3>1. CountsBelow(0, 0)
      BY DEF CountsBelow
    <3> QED
      BY <2>1, <3>1
  <2>2. CASE n > 0
    <3>1. n - 1 \in Nat /\ n - 1 < n
      BY <2>2
    <3>2. PICK f : CountsBelow(n - 1, f)
      BY <1>1, <3>1
    <3> DEFINE h == [m \in Nat |-> IF m = n - 1 THEN Counts(m, f) ELSE f[m]]
    <3>3. h[n - 1] = Counts(n - 1, f) /\ \A m \in Nat : m # n - 1 => h[m] = f[m]
      BY <3>1
    <3> HIDE DEF h
    <3>4. ASSUME NEW m \in Nat, m < n PROVE h[m] = Counts(m, h)
      <4>1. h[m] = Counts(m, f)
        <5>1. CASE m = n - 1
          BY <3>3, <5>1
        <5>2. CASE m # n - 1
          BY <3>1, <3>2, <3>3, <3>4, <5>2 DEF CountsBelow
        <5> QED
          BY <5>1, <5>2
      <4>2. CASE m <= 1
        BY <4>1, <4>2 DEF Counts
      <4>3. CASE m > 1
        <5>1. (m + 1) \div 2 \in Nat /\ (m + 1) \div 2 < m
          BY <4>3, Halves
        <5>2. h[(m + 1) \div 2] = f[(m + 1) \div 2]
          BY <3>1, <3>3, <3>4, <5>1
        <5> QED
          BY <4>1, <5>2 DEF Counts
      <4> QED
        BY <4>2, <4>3
    <3>5. CountsBelow(n, h)
      BY <3>4 DEF CountsBelow
    <3> QED
      BY <3>5
  <2> QED
    BY <2>1, <2>2
<1>2. \A n \in T : \E f : CountsBelow(n, f)
  OBVIOUS
<1> HIDE DEF T
<1>3. Nat \subseteq T
  BY <1>1, AllNumbers
<1> QED
  BY <1>2, <1>3

(* SiblingCount is what its definition says.                               *)
LEMMA SiblingCountDefined ==
  \A n \in Nat : SiblingCount[n] = Counts(n, SiblingCount)
<1> DEFINE upTo == [n \in Nat |-> CHOOSE f : CountsBelow(n + 1, f)]
           g == [n \in Nat |-> upTo[n][n]]
           Step(f) == [n \in Nat |-> Counts(n, f)]
<1>1. ASSUME NEW n \in Nat PROVE CountsBelow(n + 1, upTo[n])
  <2>1. n + 1 \in Nat
    OBVIOUS
  <2>2. \E f : CountsBelow(n + 1, f)
    BY <2>1, CountsBelowExist
  <2>3. upTo[n] = CHOOSE f : CountsBelow(n + 1, f)
    OBVIOUS
  <2> QED
    BY <2>2, <2>3, Zenon
<1>2. \A n \in Nat : g[n] = upTo[n][n]
  OBVIOUS
<1>3. g = [n \in Nat |-> g[n]]
  OBVIOUS
<1> HIDE DEF upTo, g
<1>4. ASSUME NEW n \in Nat PROVE g[n] = Counts(n, g)
  <2>1. n + 1 \in Nat /\ n < n + 1
    OBVIOUS
  <2>2. upTo[n][n] = Counts(n, upTo[n])
    BY <1>1, <2>1 DEF CountsBelow
  <2>3. CASE n <= 1
    BY <1>2, <2>2, <2>3 DEF Counts
  <2>4. CASE n > 1
    <3> DEFINE m == (n + 1) \div 2
    <3>1. m \in Nat /\ m < n
      BY <2>4, Halves
    <3> HIDE DEF m
    <3>2. m + 1 \in Nat /\ m < m + 1 /\ m < n + 1
      BY <3>1
    <3>3. CountsBelow(m + 1, upTo[m]) /\ CountsBelow(n + 1, upTo[n])
      BY <1>1, <3>1
    <3>4. upTo[m][m] = upTo[n][m]
      BY <2>1, <3>1, <3>2, <3>3, CountsAgree
    <3>5. g[m] = upTo[n][m]
      BY <1>2, <3>1, <3>4
    <3>6. Counts(n, upTo[n]) = Counts(n, g)
      BY <3>5 DEF Counts, m
    <3> QED
      BY <1>2, <2>2, <3>6
  <2> QED
    BY <2>3, <2>4
<1>5. g = Step(g)
  BY <1>3, <1>4
<1>6. SiblingCount = CHOOSE f : f = Step(f)
  BY DEF SiblingCount, Counts, Siblings
<1>7. SiblingCount = Step(SiblingCount)
  <2> HIDE DEF Step
  <2> QED
    BY <1>5, <1>6
<1> QED
  BY <1>7

(* A tree of at most n leaves has paths of at most k siblings.             *)
Within(n, k) == \A m, i \in Nat : m <= n => SiblingCount[m][i] \in 0 .. k

LEMMA OneLeafWithin == Within(1, 0)
<1> SUFFICES ASSUME NEW m \in Nat, NEW i \in Nat, m <= 1
             PROVE  SiblingCount[m][i] \in 0 .. 0
  BY DEF Within
<1>1. SiblingCount[m] = Counts(m, SiblingCount)
  BY SiblingCountDefined
<1>2. SiblingCount[m][i] = 0
  BY <1>1 DEF Counts
<1> QED
  BY <1>2

(* Twice the leaves, one more level.                                       *)
LEMMA TwiceWithin ==
  ASSUME NEW n \in Nat, NEW k \in Nat, Within(n, k)
  PROVE  Within(2 * n, k + 1)
<1> SUFFICES ASSUME NEW m \in Nat, NEW i \in Nat, m <= 2 * n
             PROVE  SiblingCount[m][i] \in 0 .. k + 1
  BY DEF Within
<1>1. SiblingCount[m][i] =
        IF m <= 1 THEN 0 ELSE Siblings(m, i, SiblingCount[(m + 1) \div 2][i \div 2])
  <2>1. SiblingCount[m] = Counts(m, SiblingCount)
    BY SiblingCountDefined
  <2> QED
    BY <2>1 DEF Counts
<1>2. (m + 1) \div 2 \in Nat /\ i \div 2 \in Nat /\ (m + 1) \div 2 <= n
  OBVIOUS
<1>3. SiblingCount[(m + 1) \div 2][i \div 2] \in 0 .. k
  BY <1>2 DEF Within
<1> QED
  BY <1>1, <1>3 DEF Siblings

LEMMA SixteenfoldWithin ==
  ASSUME NEW n \in Nat, NEW k \in Nat, Within(n, k)
  PROVE  Within(16 * n, k + 4)
<1>1. Within(2 * n, k + 1)
  BY TwiceWithin
<1>2. Within(4 * n, k + 2)
  <2>1. Within(2 * (2 * n), (k + 1) + 1)
    BY <1>1, TwiceWithin
  <2>2. 2 * (2 * n) = 4 * n /\ (k + 1) + 1 = k + 2
    OBVIOUS
  <2> QED
    BY <2>1, <2>2
<1>3. Within(8 * n, k + 3)
  <2>1. Within(2 * (4 * n), (k + 2) + 1)
    BY <1>2, TwiceWithin
  <2>2. 2 * (4 * n) = 8 * n /\ (k + 2) + 1 = k + 3
    OBVIOUS
  <2> QED
    BY <2>1, <2>2
<1> QED
  <2>1. Within(2 * (8 * n), (k + 3) + 1)
    BY <1>3, TwiceWithin
  <2>2. 2 * (8 * n) = 16 * n /\ (k + 3) + 1 = k + 4
    OBVIOUS
  <2> QED
    BY <2>1, <2>2

(* 2 ^ MAX_DEPTH leaves: the widest tree of which the server takes proofs. *)
Widest == 4294967296

LEMMA WidestWithin == Within(Widest, MAX_DEPTH)
<1>1. Within(16, 4)
  BY OneLeafWithin, SixteenfoldWithin
<1>2. Within(256, 8)
  BY <1>1, SixteenfoldWithin
<1>3. Within(4096, 12)
  BY <1>2, SixteenfoldWithin
<1>4. Within(65536, 16)
  BY <1>3, SixteenfoldWithin
<1>5. Within(1048576, 20)
  BY <1>4, SixteenfoldWithin
<1>6. Within(16777216, 24)
  BY <1>5, SixteenfoldWithin
<1>7. Within(268435456, 28)
  BY <1>6, SixteenfoldWithin
<1>8. Within(4294967296, 32)
  BY <1>7, SixteenfoldWithin
<1> QED
  BY <1>8 DEF Widest, MAX_DEPTH

LEMMA DepthAccepted ==
  ASSUME NEW n \in Nat, NEW i \in Nat, n <= Widest
  PROVE  DepthOf(n, i) \in MIN_DEPTH .. MAX_DEPTH
<1>1. SiblingCount[n][i] \in 0 .. MAX_DEPTH
  BY WidestWithin DEF Within
<1> QED
  BY <1>1 DEF DepthOf, MIN_DEPTH, MAX_DEPTH

-----------------------------------------------------------------------------
(***************************************************************************)
(* The chain: the forest, the sizes of the subgroups, and what a           *)
(* transaction logs.                                                       *)
(***************************************************************************)
MembersIn(g, t) == Len(subgroupMembers[<<g, t>>])

(* No subgroup outgrows its group's size (or one member, if that is 0),    *)
(* and one that is not open yet is empty.                                  *)
SizesInv ==
  /\ groupCounter \in 0 .. MaxGroups
  /\ groupTreeCount \in [GroupIds -> Nat] /\ maxTreeSize \in [GroupIds -> Nat]
  /\ admins \in [GroupIds -> Addresses]
  /\ \A g \in GroupIds :
       /\ maxTreeSize[g] \in TreeSizes \cup {0}
       /\ g >= groupCounter => groupTreeCount[g] = 0
       /\ groupTreeCount[g] = 0 => admins[g] = NoAddress
       /\ \A t \in TreeIds :
            /\ MembersIn(g, t) <= 1 \/ MembersIn(g, t) <= maxTreeSize[g]
            /\ t >= groupTreeCount[g] => MembersIn(g, t) = 0

ChainInv == ForestInv /\ SizesInv /\ additions \in [Commitments -> Seq(Subgroups)]

LEMMA TreeIdsAreNumbers ==
  /\ \A t \in TreeIds : t \in Nat
  /\ \A g \in GroupIds : g \in Nat
BY BoundsArePositive DEF TreeIds, GroupIds

LEMMA SubgroupSizes ==
  ASSUME ForestInv, NEW g \in GroupIds, NEW t \in TreeIds
  PROVE  /\ <<g, t>> \in Subgroups /\ subgroupMembers[<<g, t>>] \in Seq(Leaves)
         /\ MembersIn(g, t) \in Nat /\ Size(merkleTrees[<<g, t>>]) = MembersIn(g, t)
<1>1. <<g, t>> \in Subgroups
  BY DEF Subgroups
<1> QED
  BY <1>1 DEF ForestInv, ForestTypeOK, TreesConsistent, MembersIn, Size

LEMMA SizesUnchanged ==
  ASSUME SizesInv, UNCHANGED <<forestVars, maxTreeSize, adminVars, groupCounter>>
  PROVE  SizesInv'
BY DEF SizesInv, MembersIn, forestVars, adminVars

LEMMA CreateKeepsSizes ==
  ASSUME SizesInv, groupCounter \in GroupIds, groupCounter' = groupCounter + 1,
         NEW admin \in Accounts, NEW size \in TreeSizes, _createGroup(groupCounter, admin, size)
  PROVE  SizesInv'
<1> DEFINE G == groupCounter
<1>1. /\ admins' = [admins EXCEPT ![G] = admin]
      /\ maxTreeSize' = [maxTreeSize EXCEPT ![G] = size]
      /\ groupTreeCount' = [groupTreeCount EXCEPT ![G] = 1]
      /\ UNCHANGED subgroupMembers /\ G \in GroupIds
  BY DEF _createGroup
<1>2. size \in Nat /\ admin \in Addresses /\ G \in Nat /\ groupCounter' \in 0 .. MaxGroups
  BY TreeSizesAreNumbers, TreeIdsAreNumbers, BoundsArePositive DEF Addresses, GroupIds
<1>3. /\ groupTreeCount' \in [GroupIds -> Nat] /\ maxTreeSize' \in [GroupIds -> Nat]
      /\ admins' \in [GroupIds -> Addresses]
  BY <1>1, <1>2 DEF SizesInv
<1>4. ASSUME NEW g \in GroupIds
      PROVE  /\ maxTreeSize'[g] \in TreeSizes \cup {0}
             /\ g >= groupCounter' => groupTreeCount'[g] = 0
             /\ groupTreeCount'[g] = 0 => admins'[g] = NoAddress
             /\ \A t \in TreeIds :
                  /\ MembersIn(g, t)' <= 1 \/ MembersIn(g, t)' <= maxTreeSize'[g]
                  /\ t >= groupTreeCount'[g] => MembersIn(g, t)' = 0
  <2>0. \A t \in TreeIds : MembersIn(g, t)' = MembersIn(g, t) /\ t \in Nat
    BY <1>1, TreeIdsAreNumbers DEF MembersIn
  <2>1. CASE g = G
    <3>1. groupTreeCount[g] = 0 /\ groupTreeCount'[g] = 1 /\ maxTreeSize'[g] = size
      BY <1>1, <1>2, <2>1 DEF SizesInv
    <3>2. \A t \in TreeIds : MembersIn(g, t) = 0
      BY <2>0, <3>1 DEF SizesInv
    <3> QED
      BY <1>2, <2>0, <2>1, <3>1, <3>2
  <2>2. CASE g # G
    <3>1. /\ groupTreeCount'[g] = groupTreeCount[g] /\ maxTreeSize'[g] = maxTreeSize[g]
          /\ admins'[g] = admins[g]
      BY <1>1, <2>2 DEF SizesInv
    <3>2. g \in Nat /\ (g >= groupCounter' => g >= groupCounter)
      BY <1>2, TreeIdsAreNumbers
    <3> QED
      BY <2>0, <3>1, <3>2 DEF SizesInv
  <2> QED
    BY <2>1, <2>2
<1> QED
  BY <1>2, <1>3, <1>4 DEF SizesInv

LEMMA AddKeepsSizes ==
  ASSUME SizesInv, ForestInv, UNCHANGED groupCounter,
         NEW sender \in Accounts, NEW g0 \in GroupIds, NEW c \in Leaves,
         _addMember(sender, g0, c)
  PROVE  SizesInv'
<1>0. PICK t0 \in TreeIds : t0 = TargetTree(g0)
  BY DEF _addMember
<1>1. /\ groupTreeCount' = [groupTreeCount EXCEPT ![g0] = t0 + 1]
      /\ subgroupMembers' =
           [subgroupMembers EXCEPT ![<<g0, t0>>] = Append(subgroupMembers[<<g0, t0>>], c)]
      /\ UNCHANGED <<maxTreeSize, admins, groupCounter>> /\ admins[g0] = sender
  BY <1>0 DEF _addMember, adminVars, OnlyGroupAdmin
<1>2. groupTreeCount[g0] \in Nat /\ groupTreeCount[g0] # 0 /\ maxTreeSize[g0] \in Nat
  BY <1>1, NoAddressSendsNothing DEF SizesInv
<1>3. \/ t0 = groupTreeCount[g0]
      \/ t0 = groupTreeCount[g0] - 1 /\ MembersIn(g0, t0) < maxTreeSize[g0]
  <2>1. CASE LastTreeIsFull(g0)
    BY <1>0, <2>1 DEF TargetTree
  <2>2. CASE ~ LastTreeIsFull(g0)
    <3>1. t0 = LastTree(g0)
      BY <1>0, <2>2 DEF TargetTree
    <3>2. Size(merkleTrees[<<g0, t0>>]) = MembersIn(g0, t0) /\ MembersIn(g0, t0) \in Nat
      BY SubgroupSizes
    <3> QED
      BY <1>2, <2>2, <3>1, <3>2 DEF LastTreeIsFull, LastTree
  <2> QED
    BY <2>1, <2>2
<1>4. t0 \in Nat
  BY TreeIdsAreNumbers
<1>5. /\ groupTreeCount' \in [GroupIds -> Nat] /\ groupTreeCount'[g0] = t0 + 1
      /\ \A g \in GroupIds : g # g0 => groupTreeCount'[g] = groupTreeCount[g]
  BY <1>1, <1>4 DEF SizesInv
<1>6. ASSUME NEW g \in GroupIds, NEW u \in TreeIds
      PROVE  MembersIn(g, u)' =
               IF g = g0 /\ u = t0 THEN MembersIn(g, u) + 1 ELSE MembersIn(g, u)
  <2>1. /\ subgroupMembers[<<g0, t0>>] \in Seq(Leaves) /\ <<g0, t0>> \in Subgroups
        /\ <<g, u>> \in Subgroups /\ DOMAIN subgroupMembers = Subgroups
    BY SubgroupSizes DEF ForestInv, ForestTypeOK
  <2>2. CASE g = g0 /\ u = t0
    <3>1. Len(Append(subgroupMembers[<<g0, t0>>], c)) = Len(subgroupMembers[<<g0, t0>>]) + 1
      BY <2>1
    <3>2. subgroupMembers'[<<g0, t0>>] = Append(subgroupMembers[<<g0, t0>>], c)
      BY <1>1, <2>1
    <3> QED
      BY <2>2, <3>1, <3>2 DEF MembersIn
  <2>3. CASE ~ (g = g0 /\ u = t0)
    <3>1. <<g, u>> # <<g0, t0>>
      BY <2>3
    <3> QED
      BY <1>1, <2>1, <2>3, <3>1 DEF MembersIn
  <2> QED
    BY <2>2, <2>3
<1>7. ASSUME NEW g \in GroupIds, NEW u \in TreeIds
      PROVE  /\ MembersIn(g, u)' <= 1 \/ MembersIn(g, u)' <= maxTreeSize[g]
             /\ u >= groupTreeCount'[g] => MembersIn(g, u)' = 0
  <2>1. /\ MembersIn(g, u) \in Nat /\ u \in Nat /\ maxTreeSize[g] \in Nat
        /\ MembersIn(g, u) <= 1 \/ MembersIn(g, u) <= maxTreeSize[g]
        /\ u >= groupTreeCount[g] => MembersIn(g, u) = 0
    BY SubgroupSizes, TreeIdsAreNumbers DEF SizesInv
  <2>2. CASE g = g0 /\ u = t0
    <3>1. MembersIn(g, u) < maxTreeSize[g] \/ MembersIn(g, u) = 0
      BY <1>2, <1>3, <2>1, <2>2
    <3>2. MembersIn(g, u)' = MembersIn(g, u) + 1 /\ ~ (u >= groupTreeCount'[g])
      BY <1>4, <1>5, <1>6, <2>2
    <3> QED
      BY <2>1, <3>1, <3>2
  <2>3. CASE g = g0 /\ u # t0
    <3>1. u >= groupTreeCount'[g] => u >= groupTreeCount[g]
      BY <1>2, <1>3, <1>4, <1>5, <2>1, <2>3
    <3> QED
      BY <1>6, <2>1, <2>3, <3>1
  <2>4. CASE g # g0
    BY <1>5, <1>6, <2>1, <2>4
  <2> QED
    BY <2>2, <2>3, <2>4
<1>8. ASSUME NEW g \in GroupIds
      PROVE  /\ maxTreeSize'[g] \in TreeSizes \cup {0}
             /\ g >= groupCounter' => groupTreeCount'[g] = 0
             /\ groupTreeCount'[g] = 0 => admins'[g] = NoAddress
  <2>1. CASE g = g0
    <3>1. groupTreeCount[g] # 0 /\ groupTreeCount'[g] # 0
      BY <1>2, <1>4, <1>5, <2>1
    <3> QED
      BY <1>1, <3>1 DEF SizesInv
  <2>2. CASE g # g0
    BY <1>1, <1>5, <2>2 DEF SizesInv
  <2> QED
    BY <2>1, <2>2
<1> QED
  BY <1>1, <1>5, <1>7, <1>8 DEF SizesInv

(* Writing over a leaf changes no size.                                    *)
LEMMA WriteKeepsSizes ==
  ASSUME SizesInv, ForestInv, NEW s0 \in Subgroups, NEW i \in Nat, NEW leaf,
         subgroupMembers' = [subgroupMembers EXCEPT ![s0] =
                               [subgroupMembers[s0] EXCEPT ![i] = leaf]],
         UNCHANGED <<groupTreeCount, maxTreeSize, adminVars, groupCounter>>
  PROVE  SizesInv'
<1>1. ASSUME NEW g \in GroupIds, NEW u \in TreeIds
      PROVE  MembersIn(g, u)' = MembersIn(g, u)
  <2>1. /\ <<g, u>> \in Subgroups /\ subgroupMembers[<<g, u>>] \in Seq(Leaves)
        /\ DOMAIN subgroupMembers = Subgroups
    BY SubgroupSizes DEF ForestInv, ForestTypeOK
  <2>2. CASE <<g, u>> = s0
    <3>1. subgroupMembers'[<<g, u>>] = [subgroupMembers[<<g, u>>] EXCEPT ![i] = leaf]
      BY <2>1, <2>2
    <3>2. Len([subgroupMembers[<<g, u>>] EXCEPT ![i] = leaf]) = Len(subgroupMembers[<<g, u>>])
      BY <2>1
    <3> QED
      BY <3>1, <3>2 DEF MembersIn
  <2>3. CASE <<g, u>> # s0
    BY <2>1, <2>3 DEF MembersIn
  <2> QED
    BY <2>2, <2>3
<1> QED
  BY <1>1 DEF SizesInv, adminVars

LEMMA UpdateKeepsSizes ==
  ASSUME SizesInv, ForestInv, UNCHANGED groupCounter, NEW sender, NEW g \in GroupIds,
         NEW t \in TreeIds, NEW old, NEW new, _updateMember(sender, g, t, old, new)
  PROVE  SizesInv'
<1> DEFINE i == IndexOf(merkleTrees[<<g, t>>], old)
<1>1. /\ subgroupMembers' = [subgroupMembers EXCEPT ![<<g, t>>][i + 1] = new]
      /\ UNCHANGED <<groupTreeCount, maxTreeSize, adminVars>>
      /\ Has(merkleTrees[<<g, t>>], old)
  BY DEF _updateMember, Updatable
<1>2. i + 1 \in Nat /\ <<g, t>> \in Subgroups
  <2>1. <<g, t>> \in Subgroups
    BY DEF Subgroups
  <2>2. i \in Nat
    BY <1>1, <2>1, IndexOfIsPlace DEF ForestInv, TreesConsistent
  <2> QED
    BY <2>1, <2>2
<1> HIDE DEF i
<1>3. subgroupMembers' = [subgroupMembers EXCEPT ![<<g, t>>] =
                            [subgroupMembers[<<g, t>>] EXCEPT ![i + 1] = new]]
  BY <1>1
<1> QED
  BY <1>1, <1>2, <1>3, WriteKeepsSizes

LEMMA RemoveKeepsSizes ==
  ASSUME SizesInv, ForestInv, UNCHANGED groupCounter, NEW sender, NEW g \in GroupIds,
         NEW t \in TreeIds, NEW c, _removeMember(sender, g, t, c)
  PROVE  SizesInv'
<1> DEFINE i == IndexOf(merkleTrees[<<g, t>>], c)
<1>1. /\ \/ subgroupMembers' = [subgroupMembers EXCEPT ![<<g, t>>][i + 1] = Zero]
         \/ subgroupMembers' = subgroupMembers
      /\ UNCHANGED <<groupTreeCount, maxTreeSize, adminVars>>
      /\ Has(merkleTrees[<<g, t>>], c)
  BY DEF _removeMember
<1>2. i + 1 \in Nat /\ <<g, t>> \in Subgroups
  <2>1. <<g, t>> \in Subgroups
    BY DEF Subgroups
  <2>2. i \in Nat
    BY <1>1, <2>1, IndexOfIsPlace DEF ForestInv, TreesConsistent
  <2> QED
    BY <2>1, <2>2
<1> HIDE DEF i
<1>3. CASE subgroupMembers' = [subgroupMembers EXCEPT ![<<g, t>>][i + 1] = Zero]
  <2>1. subgroupMembers' = [subgroupMembers EXCEPT ![<<g, t>>] =
                              [subgroupMembers[<<g, t>>] EXCEPT ![i + 1] = Zero]]
    BY <1>3
  <2> QED
    BY <1>1, <1>2, <2>1, WriteKeepsSizes
<1>4. CASE subgroupMembers' = subgroupMembers
  BY <1>1, <1>4 DEF SizesInv, MembersIn, adminVars
<1> QED
  BY <1>1, <1>3, <1>4

(* What a transaction leaves: the chain in order, and an event of which    *)
(* the clients can make a notice.                                          *)
TransactionOK ==
  /\ ForestInv' /\ SizesInv'
  /\ emitted' # << >>
  /\ emitted'[1].event = "GroupCreated" => emitted'[1].groupId \in GroupIds
  /\ emitted'[1].event = "MemberAdded" =>
       /\ emitted'[1].groupId \in GroupIds /\ emitted'[1].treeIndex \in TreeIds
       /\ emitted'[1].identityCommitment \in Commitments

LEMMA CreateGroupIsOK ==
  ASSUME ForestInv, SizesInv, groupCounter \in GroupIds, groupCounter' = groupCounter + 1,
         NEW admin \in Accounts, NEW size \in TreeSizes, _createGroup(groupCounter, admin, size)
  PROVE  TransactionOK
<1>1. ForestInv'
  BY ForestUnchanged DEF _createGroup
<1>2. SizesInv'
  BY CreateKeepsSizes
<1>3. emitted' # << >> /\ emitted'[1] = GroupCreated(groupCounter)
  BY DEF _createGroup
<1>4. GroupCreated(groupCounter).event = "GroupCreated" /\ GroupCreated(groupCounter).groupId = groupCounter
  BY DEF GroupCreated
<1> QED
  BY <1>1, <1>2, <1>3, <1>4 DEF TransactionOK

LEMMA AddMemberIsOK ==
  ASSUME ForestInv, SizesInv, UNCHANGED groupCounter, NEW sender \in Accounts,
         NEW g \in GroupIds, NEW c \in Commitments, ~ globalMembers[c], _addMember(sender, g, c)
  PROVE  TransactionOK
<1>0. c \in Leaves
  BY DEF Leaves
<1>1. ForestInv'
  BY <1>0, AddMemberKeepsForest
<1>2. SizesInv'
  BY <1>0, AddKeepsSizes
<1>3. PICK t, i, root : t \in TreeIds /\ emitted' = <<MemberAdded(g, t, i, c, root)>>
  <2>1. /\ TargetTree(g) \in TreeIds
        /\ emitted' = <<MemberAdded(g, TargetTree(g), TargetIndex(g), c,
                          Root(Insert(merkleTrees[<<g, TargetTree(g)>>], c)))>>
    BY DEF _addMember
  <2> QED
    BY <2>1
<1>4. emitted' # << >> /\ emitted'[1] = MemberAdded(g, t, i, c, root)
  BY <1>3
<1>5. /\ MemberAdded(g, t, i, c, root).event = "MemberAdded"
      /\ MemberAdded(g, t, i, c, root).groupId = g
      /\ MemberAdded(g, t, i, c, root).treeIndex = t
      /\ MemberAdded(g, t, i, c, root).identityCommitment = c
  BY DEF MemberAdded
<1> QED
  BY <1>1, <1>2, <1>3, <1>4, <1>5 DEF TransactionOK

LEMMA UpdateMemberIsOK ==
  ASSUME ForestInv, SizesInv, UNCHANGED groupCounter, NEW sender, NEW g \in GroupIds,
         NEW t \in TreeIds, NEW old, NEW new \in Leaves, ~ globalMembers[new],
         _updateMember(sender, g, t, old, new)
  PROVE  TransactionOK
<1>1. ForestInv'
  BY UpdateMemberKeepsForest
<1>2. SizesInv'
  BY UpdateKeepsSizes
<1>3. PICK i, root : emitted' = <<MemberUpdated(g, t, i, old, new, root)>>
  BY DEF _updateMember
<1>4. emitted' # << >> /\ emitted'[1] = MemberUpdated(g, t, i, old, new, root)
  BY <1>3
<1>5. MemberUpdated(g, t, i, old, new, root).event = "MemberUpdated"
  BY DEF MemberUpdated
<1> QED
  BY <1>1, <1>2, <1>4, <1>5 DEF TransactionOK

LEMMA RemoveMemberIsOK ==
  ASSUME ForestInv, SizesInv, UNCHANGED groupCounter, NEW sender, NEW g \in GroupIds,
         NEW t \in TreeIds, NEW c, _removeMember(sender, g, t, c)
  PROVE  TransactionOK
<1>1. ForestInv'
  BY RemoveMemberKeepsForest
<1>2. SizesInv'
  BY RemoveKeepsSizes
<1>3. PICK i, root : emitted' = <<MemberRemoved(g, t, i, c, root)>>
  BY DEF _removeMember
<1>4. emitted' # << >> /\ emitted'[1] = MemberRemoved(g, t, i, c, root)
  BY <1>3
<1>5. MemberRemoved(g, t, i, c, root).event = "MemberRemoved"
  BY DEF MemberRemoved
<1> QED
  BY <1>1, <1>2, <1>4, <1>5 DEF TransactionOK

LEMMA MemberTransactionIsOK ==
  ASSUME ForestInv, SizesInv, UNCHANGED groupCounter, NEW sender \in Accounts,
         NEW g \in GroupIds, MemberTransaction(sender, g)
  PROVE  TransactionOK
BY AddMemberIsOK, UpdateMemberIsOK, RemoveMemberIsOK DEF MemberTransaction

-----------------------------------------------------------------------------
(***************************************************************************)
(* The requests, and the state of a run.                                   *)
(***************************************************************************)
RequestStates == {"none", "received", "sent", "added", "present", "failed"}

(* A device asks for its own membership only.                              *)
RequestsInv ==
  /\ request \in [Devices -> [1 .. MaxRuns ->
       [state : RequestStates, member : Devices \cup {Nobody}, groupId : GroupIds \cup {NoGroup}]]]
  /\ \A d \in Devices, r \in 1 .. MaxRuns :
       /\ request[d][r].member \in {d, Nobody}
       /\ request[d][r].state # "none" =>
            request[d][r].member = d /\ request[d][r].groupId \in GroupIds

(* The subgroups a device was ever added to, and its notices and entries   *)
(* of IDs.json, which name no other subgroup.                              *)
Own(d) == Seqs!ToSet(additions[d])

Known(own) == own \cup (GroupIds \X {NoTree})

Entries(own) ==
  {entry \in [groupId : GroupIds, subtree : TreeIds \cup {NoTree}] :
     <<entry.groupId, entry.subtree>> \in Known(own)}

FileOK(own, ids) == ids \in {Nobody, Torn} \cup Seq(Entries(own))

States == {"off", "starting", "on"}

SubscriptionOK(own, s) ==
  /\ s \in [Names -> [state : States, queue : Seq(Known(own))]]
  /\ s["MemberAdded"].queue \in Seq(own)
  /\ s["GroupCreated"].queue \in Seq(GroupIds \X {NoTree})

Waiting == {"adding", "await"}
Placed  == {"list", "listed", "joinProof", "modTrain"}
Grouped == {"check", "member", "newcomer"} \cup Waiting \cup Placed

(* The sizes for which the server takes proofs of any depth there can be.  *)
NoWiderTrees == \A size \in TreeSizes : size <= Widest

IsNarrow(list) ==
  /\ list \in Seq(Leaves)
  /\ \E size \in TreeSizes \cup {0, 1} : Len(list) <= size

(* What a run relies on in its phase p, given the subgroups of its own.    *)
RunOK(own, p, s, g, t, ids, list, pr, code, awaited) ==
  /\ SubscriptionOK(own, s) /\ (p = "off" => s = NoSubscription)
  /\ FileOK(own, ids)
  /\ g \in GroupIds \cup {NoGroup} /\ (p \in Grouped => g # NoGroup)
  /\ t \in TreeIds \cup {NoTree} /\ (p \in Placed => t # NoTree)
  /\ t # NoTree => <<g, t>> \in own /\ p \in Placed \cup {"adding", "ended"}
  /\ awaited => p \in Waiting \cup Placed \cup {"ended"}
  /\ awaited /\ p \in Waiting /\ t = NoTree =>
       \E i \in DOMAIN s["MemberAdded"].queue : s["MemberAdded"].queue[i][1] = g
  /\ p = "listed" => IsNarrow(list)
  /\ code \in {0, 200, 400, 500}
  /\ NoWiderTrees =>
       code \in {0, 200} /\ (p = "joinProof" => ~ DepthRefused(pr) /\ verifyProof(pr))

RunsInv ==
  /\ OneFor(subscription) /\ OneFor(group) /\ OneFor(tree) /\ OneFor(idsFile)
  /\ OneFor(members) /\ OneFor(proof) /\ OneFor(answer) /\ OneFor(due)
  /\ \A d \in Devices :
       RunOK(Own(d), phase[d], subscription[d], group[d], tree[d], idsFile[d], members[d],
             proof[d], answer[d], due[d])

JoinInv == CredentialsInv /\ ChainInv /\ RequestsInv /\ RunsInv

LEMMA DeviceIsCommitment ==
  ASSUME NEW d \in Devices
  PROVE  d \in Commitments /\ d \in Leaves /\ d # Nobody /\ Nobody \notin Leaves
BY DevicesHaveIdentities DEF Leaves, Commitments

LEMMA NoGroupIsNone == NoGroup \notin GroupIds /\ NoTree \notin TreeIds
BY BoundsArePositive DEF NoGroup, GroupIds, NoTree, TreeIds

LEMMA OwnSubgroups ==
  ASSUME ChainInv, NEW d \in Devices
  PROVE  /\ additions[d] \in Seq(Subgroups) /\ Own(d) \subseteq Subgroups
         /\ \A s \in Own(d) : s[1] \in GroupIds /\ s[2] \in TreeIds /\ s = <<s[1], s[2]>>
<1>1. additions[d] \in Seq(Subgroups)
  BY DeviceIsCommitment DEF ChainInv
<1>2. Own(d) \subseteq Subgroups
  BY <1>1 DEF Own, Seqs!ToSet
<1> QED
  BY <1>1, <1>2 DEF Subgroups

-----------------------------------------------------------------------------
(***************************************************************************)
(* IDs.json.                                                               *)
(***************************************************************************)
LEMMA KnownNotices ==
  ASSUME NEW own, own \subseteq Subgroups, NEW notice \in Known(own)
  PROVE  /\ notice = <<notice[1], notice[2]>>
         /\ notice[1] \in GroupIds /\ notice[2] \in TreeIds \cup {NoTree}
         /\ notice[2] # NoTree => notice \in own
BY DEF Known, Subgroups

LEMMA SavedIsKnown ==
  ASSUME NEW own, own \subseteq Subgroups, NEW ids, FileOK(own, ids), NEW notice \in Known(own)
  PROVE  saveGroupId(ids, notice) \in Seq(Entries(own))
<1> DEFINE read     == IF ids \in {Nobody, Torn} THEN << >> ELSE ids
           isOf(i)  == read[i].groupId = notice[1]
           first(i) == IF isOf(i) /\ read[i].subtree = NoTree THEN notice[2] ELSE read[i].subtree
           changed  == [i \in DOMAIN read |-> [read[i] EXCEPT !.subtree = first(i)]]
           entry    == [groupId |-> notice[1], subtree |-> notice[2]]
<1>1. read \in Seq(Entries(own))
  BY EmptySeq DEF FileOK
<1>2. saveGroupId(ids, notice) =
        IF \E i \in DOMAIN read : isOf(i) THEN changed ELSE Append(read, entry)
  BY DEF saveGroupId
<1>3. entry \in Entries(own)
  BY KnownNotices DEF Entries
<1>4. changed \in Seq(Entries(own))
  <2>1. DOMAIN read = 1 .. Len(read) /\ Len(read) \in Nat
    BY <1>1, LenProperties
  <2>2. ASSUME NEW i \in 1 .. Len(read)
        PROVE  [read[i] EXCEPT !.subtree = first(i)] \in Entries(own)
    <3>1. read[i] \in Entries(own)
      BY <1>1
    <3>2. /\ read[i] \in [groupId : GroupIds, subtree : TreeIds \cup {NoTree}]
          /\ <<read[i].groupId, read[i].subtree>> \in Known(own)
      BY <3>1 DEF Entries
    <3> HIDE DEF read
    <3>3. CASE isOf(i) /\ read[i].subtree = NoTree
      <4>1. first(i) = notice[2] /\ <<read[i].groupId, notice[2]>> = notice
        BY <3>3, KnownNotices
      <4> QED
        BY <3>2, <4>1, KnownNotices DEF Entries
    <3>4. CASE ~ (isOf(i) /\ read[i].subtree = NoTree)
      BY <3>2, <3>4 DEF Entries
    <3> QED
      BY <3>3, <3>4
  <2> HIDE DEF read, first
  <2>3. changed = [i \in 1 .. Len(read) |-> [read[i] EXCEPT !.subtree = first(i)]]
    BY <2>1
  <2> QED
    BY <2>1, <2>2, <2>3
<1> HIDE DEF read, isOf, changed, entry
<1> QED
  BY <1>1, <1>2, <1>3, <1>4, AppendProperties

(* One call after the other.                                               *)
SavedUpTo(ids, notices, n, f) ==
  f = [i \in 0 .. n |-> IF i = 0 THEN ids ELSE saveGroupId(f[i - 1], notices[i])]

LEMMA SavesExist ==
  ASSUME NEW ids, NEW notices, Len(notices) \in Nat
  PROVE  \E f : SavedUpTo(ids, notices, Len(notices), f)
<1> DEFINE n == Len(notices)
           T == {k \in 0 .. n : \E f : SavedUpTo(ids, notices, k, f)}
<1>1. 0 \in T
  <2> DEFINE f == [i \in 0 .. 0 |-> ids]
  <2>1. f = [i \in 0 .. 0 |-> IF i = 0 THEN ids ELSE saveGroupId(f[i - 1], notices[i])]
    OBVIOUS
  <2>2. SavedUpTo(ids, notices, 0, f)
    BY <2>1 DEF SavedUpTo
  <2> HIDE DEF f
  <2> QED
    BY <2>2
<1>2. ASSUME NEW k \in 1 .. n, k - 1 \in T PROVE k \in T
  <2>1. PICK f : SavedUpTo(ids, notices, k - 1, f)
    BY <1>2
  <2>2. \A i \in 0 .. k - 1 : f[i] = IF i = 0 THEN ids ELSE saveGroupId(f[i - 1], notices[i])
    BY <2>1 DEF SavedUpTo
  <2> DEFINE g == [i \in 0 .. k |-> IF i = k THEN saveGroupId(f[k - 1], notices[k]) ELSE f[i]]
  <2>3. ASSUME NEW i \in 0 .. k
        PROVE  g[i] = IF i = 0 THEN ids ELSE saveGroupId(g[i - 1], notices[i])
    <3>1. CASE i = 0
      BY <2>2, <3>1
    <3>2. CASE i # 0
      <4>1. i - 1 \in 0 .. k /\ i - 1 # k /\ (i = k \/ i \in 0 .. k - 1)
        BY <3>2
      <4>2. g[i - 1] = f[i - 1]
        BY <4>1
      <4> QED
        BY <2>2, <3>2, <4>1, <4>2
    <3> QED
      BY <3>1, <3>2
  <2>4. DOMAIN g = 0 .. k /\ g = [i \in 0 .. k |-> g[i]]
    OBVIOUS
  <2> HIDE DEF g
  <2>5. g = [i \in 0 .. k |-> IF i = 0 THEN ids ELSE saveGroupId(g[i - 1], notices[i])]
    BY <2>3, <2>4
  <2>6. SavedUpTo(ids, notices, k, g)
    BY <2>5 DEF SavedUpTo
  <2> QED
    BY <2>6
<1>3. n \in 0 .. n /\ (n \in T => \E f : SavedUpTo(ids, notices, n, f))
  OBVIOUS
<1> HIDE DEF T
<1> QED
  BY <1>1, <1>2, <1>3, UpTo

LEMMA SavedAllAreKnown ==
  ASSUME NEW own, own \subseteq Subgroups, NEW ids, FileOK(own, ids),
         NEW notices \in Seq(Known(own))
  PROVE  FileOK(own, SaveAll(ids, notices))
<1> DEFINE n == Len(notices)
<1>0. n \in Nat
  BY LenProperties
<1>1. PICK f : /\ SavedUpTo(ids, notices, n, f)
               /\ SaveAll(ids, notices) = f[n]
  <2> DEFINE f == CHOOSE f : SavedUpTo(ids, notices, n, f)
  <2>1. SaveAll(ids, notices) = f[n]
    BY DEF SaveAll, SavedUpTo
  <2>2. SavedUpTo(ids, notices, n, f)
    BY <1>0, SavesExist
  <2> HIDE DEF f
  <2> QED
    BY <2>1, <2>2
<1>2. \A i \in 0 .. n : f[i] = IF i = 0 THEN ids ELSE saveGroupId(f[i - 1], notices[i])
  BY <1>1 DEF SavedUpTo
<1> DEFINE T == {k \in 0 .. n : FileOK(own, f[k])}
<1>3. 0 \in T
  BY <1>0, <1>2
<1>4. ASSUME NEW k \in 1 .. n, k - 1 \in T PROVE k \in T
  <2>1. FileOK(own, f[k - 1]) /\ k \in 0 .. n /\ k # 0
    BY <1>4
  <2>2. notices[k] \in Known(own)
    BY <1>4, ElementOfSeq
  <2>3. saveGroupId(f[k - 1], notices[k]) \in Seq(Entries(own))
    BY <2>1, <2>2, SavedIsKnown
  <2> QED
    BY <1>2, <2>1, <2>3 DEF FileOK
<1>5. n \in 0 .. n /\ (n \in T => FileOK(own, f[n]))
  BY <1>0
<1> HIDE DEF T
<1>6. n \in T
  BY <1>0, <1>3, <1>4, <1>5, UpTo
<1> QED
  BY <1>1, <1>5, <1>6

LEMMA FoundSubtreeIsOwn ==
  ASSUME NEW own, own \subseteq Subgroups, NEW ids, FileOK(own, ids), NEW g,
         getMySubtree(ids, g) # NoTree
  PROVE  /\ getMySubtree(ids, g) \in TreeIds
         /\ <<g, getMySubtree(ids, g)>> \in own
<1>1. ids \in Seq(Entries(own)) /\ \E i \in DOMAIN ids : ids[i].groupId = g
  BY DEF getMySubtree, FileOK
<1>2. PICK i \in DOMAIN ids : ids[i].groupId = g /\ getMySubtree(ids, g) = ids[i].subtree
  BY <1>1 DEF getMySubtree
<1>3. ids[i] \in Entries(own)
  BY <1>1
<1>4. <<g, ids[i].subtree>> \in Known(own) /\ ids[i].subtree \in TreeIds \cup {NoTree}
  BY <1>2, <1>3 DEF Entries
<1> QED
  BY <1>2, <1>4 DEF Known

(* What is in order stays so when the device is added once more.           *)
LEMMA MoreIsKnown ==
  ASSUME NEW own, NEW more, own \subseteq more
  PROVE  /\ Known(own) \subseteq Known(more) /\ Entries(own) \subseteq Entries(more)
         /\ \A ids : FileOK(own, ids) => FileOK(more, ids)
         /\ \A s : SubscriptionOK(own, s) => SubscriptionOK(more, s)
<1>1. Known(own) \subseteq Known(more)
  BY DEF Known
<1>2. Entries(own) \subseteq Entries(more)
  BY <1>1 DEF Entries
<1>3. \A ids : FileOK(own, ids) => FileOK(more, ids)
  BY <1>2 DEF FileOK
<1>4. Seq(own) \subseteq Seq(more) /\ Seq(Known(own)) \subseteq Seq(Known(more))
  BY <1>1
<1>5. \A s : SubscriptionOK(own, s) => SubscriptionOK(more, s)
  <2> SUFFICES ASSUME NEW s, SubscriptionOK(own, s) PROVE SubscriptionOK(more, s)
    OBVIOUS
  <2>1. s \in [Names -> [state : States, queue : Seq(Known(own))]]
    BY DEF SubscriptionOK
  <2>2. s \in [Names -> [state : States, queue : Seq(Known(more))]]
    BY <1>4, <2>1
  <2> QED
    BY <1>4, <2>2 DEF SubscriptionOK
<1> QED
  BY <1>1, <1>2, <1>3, <1>5

-----------------------------------------------------------------------------
(***************************************************************************)
(* The steps of the chain and of the server.                               *)
(***************************************************************************)
(* A list with one more item has the items it had, and that one.           *)
LEMMA AppendTells ==
  ASSUME NEW S, NEW q \in Seq(S), NEW x \in S, NEW longer, longer = Append(q, x)
  PROVE  /\ longer \in Seq(S)
         /\ Seqs!ToSet(q) \subseteq Seqs!ToSet(longer)
         /\ x \in Seqs!ToSet(longer)
<1>1. longer \in Seq(S) /\ Len(longer) = Len(q) + 1 /\ longer[Len(q) + 1] = x
      /\ \A i \in 1 .. Len(q) : longer[i] = q[i]
  BY AppendProperties
<1>2. /\ DOMAIN q = 1 .. Len(q) /\ Len(q) \in Nat
      /\ DOMAIN longer = 1 .. Len(longer) /\ Len(longer) \in Nat
  BY <1>1, LenProperties
<1>3. /\ \A i \in DOMAIN q : i \in DOMAIN longer /\ longer[i] = q[i]
      /\ Len(q) + 1 \in DOMAIN longer
  BY <1>1, <1>2
<1> QED
  BY <1>1, <1>3 DEF Seqs!ToSet

(* What a device is told by a transaction, and what it learns of its own   *)
(* places.                                                                 *)
LEMMA PublishTells ==
  ASSUME JoinInv, TransactionOK, Publish, NEW d \in Devices
  PROVE  /\ Own(d) \subseteq Own(d)'
         /\ additions'[d] \in Seq(Subgroups)
         /\ RunOK(Own(d)', phase[d], subscription'[d], group[d], tree[d], idsFile[d],
                  members[d], proof[d], answer[d], due'[d])
<1> DEFINE e           == emitted'[1]
           concerns(n) == Concerns(d, n, e)
           on(n)       == subscription[d][n].state = "on"
           queue       == subscription[d]["MemberAdded"].queue
<1>0. /\ RunOK(Own(d), phase[d], subscription[d], group[d], tree[d], idsFile[d], members[d],
               proof[d], answer[d], due[d])
      /\ identity[d] \in {d, Nobody} /\ additions \in [Commitments -> Seq(Subgroups)]
      /\ Own(d) \subseteq Subgroups /\ additions[d] \in Seq(Subgroups)
  BY OwnSubgroups DEF JoinInv, RunsInv, CredentialsInv, DeviceOK, ChainInv
<1>1. /\ additions'[d] = IF e.event = "MemberAdded" /\ e.identityCommitment = d
                         THEN Append(additions[d], Notice(e)) ELSE additions[d]
      /\ \A n \in Names : subscription'[d][n] =
           IF on(n) /\ concerns(n)
           THEN [subscription[d][n] EXCEPT !.queue = Append(@, Notice(e))]
           ELSE subscription[d][n]
      /\ subscription'[d] = [n \in Names |-> subscription'[d][n]]
      /\ due'[d] <=> due[d] \/ (Waits(d) /\ on("MemberAdded") /\ concerns("MemberAdded")
                                  /\ e.groupId = group[d])
  BY DeviceIsCommitment DEF Publish, TransactionOK
<1>2. /\ e.event = "GroupCreated" => Notice(e) \in GroupIds \X {NoTree}
      /\ e.event = "MemberAdded" =>
           /\ Notice(e) \in Subgroups /\ Notice(e)[1] = e.groupId
           /\ e.identityCommitment \in Commitments
  BY DEF TransactionOK, Notice, Subgroups
<1> HIDE DEF e
<1>3. additions'[d] \in Seq(Subgroups) /\ Own(d) \subseteq Own(d)'
  <2>1. CASE e.event = "MemberAdded" /\ e.identityCommitment = d
    <3>1. additions'[d] = Append(additions[d], Notice(e)) /\ Notice(e) \in Subgroups
      BY <1>1, <1>2, <2>1
    <3>2. /\ additions'[d] \in Seq(Subgroups)
          /\ Seqs!ToSet(additions[d]) \subseteq Seqs!ToSet(additions'[d])
      BY <1>0, <3>1, AppendTells
    <3> QED
      BY <3>2 DEF Own
  <2>2. CASE ~ (e.event = "MemberAdded" /\ e.identityCommitment = d)
    <3>1. additions'[d] = additions[d]
      BY <1>1, <2>2
    <3> QED
      BY <1>0, <3>1 DEF Own, Seqs!ToSet
  <2> QED
    BY <2>1, <2>2
<1>4. concerns("MemberAdded") => Notice(e) \in Own(d)'
  <2> SUFFICES ASSUME concerns("MemberAdded") PROVE Notice(e) \in Own(d)'
    OBVIOUS
  <2>1. e.event = "MemberAdded" /\ e.identityCommitment = d
    <3>1. e.event = "MemberAdded" /\ e.identityCommitment = identity[d]
      BY DEF Concerns
    <3>2. e.identityCommitment # Nobody
      BY <1>2, <3>1, DeviceIsCommitment DEF Leaves
    <3> QED
      BY <1>0, <3>1, <3>2
  <2>2. additions'[d] = Append(additions[d], Notice(e)) /\ Notice(e) \in Subgroups
    BY <1>1, <1>2, <2>1
  <2>3. /\ Len(additions'[d]) = Len(additions[d]) + 1 /\ Len(additions[d]) \in Nat
        /\ additions'[d][Len(additions[d]) + 1] = Notice(e)
    BY <1>0, <2>2, AppendProperties, LenProperties
  <2> QED
    BY <1>3, <2>3, LenProperties DEF Own, Seqs!ToSet
<1>5. concerns("GroupCreated") => Notice(e) \in GroupIds \X {NoTree}
  BY <1>2 DEF Concerns
<1> DEFINE own == Own(d)
           more == Own(d)'
           old == subscription[d]
           new == subscription'[d]
<1>6. SubscriptionOK(more, old) /\ FileOK(more, idsFile[d]) /\ own \subseteq more
  <2>1. SubscriptionOK(own, old) /\ FileOK(own, idsFile[d]) /\ own \subseteq more
    BY <1>0, <1>3 DEF RunOK
  <2> HIDE DEF own, more, old
  <2> QED
    BY <2>1, MoreIsKnown
<1>7. SubscriptionOK(more, new)
  <2>1. ASSUME NEW n \in Names
        PROVE  /\ new[n] \in [state : States, queue : Seq(Known(more))]
               /\ n = "MemberAdded" => new[n].queue \in Seq(more)
               /\ n = "GroupCreated" => new[n].queue \in Seq(GroupIds \X {NoTree})
    <3>1. /\ old[n] \in [state : States, queue : Seq(Known(more))]
          /\ n = "MemberAdded" => old[n].queue \in Seq(more)
          /\ n = "GroupCreated" => old[n].queue \in Seq(GroupIds \X {NoTree})
      BY <1>6 DEF SubscriptionOK
    <3>2. CASE on(n) /\ concerns(n)
      <4> DEFINE longer == Append(old[n].queue, Notice(e))
      <4>1. new[n] = [old[n] EXCEPT !.queue = longer]
        BY <1>1, <3>2
      <4>2. /\ Notice(e) \in Known(more)
            /\ n = "MemberAdded" => Notice(e) \in more
            /\ n = "GroupCreated" => Notice(e) \in GroupIds \X {NoTree}
        BY <1>4, <1>5, <3>2 DEF Names, Known
      <4>3. /\ longer \in Seq(Known(more))
            /\ n = "MemberAdded" => longer \in Seq(more)
            /\ n = "GroupCreated" => longer \in Seq(GroupIds \X {NoTree})
        BY <3>1, <4>2, AppendProperties
      <4> HIDE DEF longer, old, new, more
      <4> QED
        BY <3>1, <4>1, <4>3
    <3>3. CASE ~ (on(n) /\ concerns(n))
      BY <1>1, <3>1, <3>3
    <3> QED
      BY <3>2, <3>3
  <2>2. new = [n \in Names |-> new[n]]
    BY <1>1
  <2>3. "MemberAdded" \in Names /\ "GroupCreated" \in Names
    BY DEF Names
  <2> HIDE DEF new, more
  <2>4. new \in [Names -> [state : States, queue : Seq(Known(more))]]
    BY <2>1, <2>2
  <2> QED
    BY <2>1, <2>3, <2>4 DEF SubscriptionOK
<1>8. phase[d] = "off" => new = NoSubscription
  <2> SUFFICES ASSUME phase[d] = "off" PROVE new = NoSubscription
    OBVIOUS
  <2>1. old = NoSubscription
    BY <1>0 DEF RunOK
  <2>2. \A n \in Names : ~ on(n)
    BY <2>1 DEF NoSubscription
  <2>3. \A n \in Names : new[n] = old[n]
    BY <1>1, <2>2
  <2> QED
    BY <1>1, <2>1, <2>3 DEF NoSubscription
<1>9. due'[d] => phase[d] \in Waiting \cup Placed \cup {"ended"}
  BY <1>0, <1>1 DEF RunOK, Waits, Waiting
<1>10. ASSUME due'[d], phase[d] \in Waiting, tree[d] = NoTree
       PROVE  \E i \in DOMAIN new["MemberAdded"].queue : new["MemberAdded"].queue[i][1] = group[d]
  <2>0. queue \in Seq(more) /\ "MemberAdded" \in Names
        /\ old["MemberAdded"] \in [state : States, queue : Seq(Known(more))]
    BY <1>6 DEF SubscriptionOK, Names
  <2>1. CASE on("MemberAdded") /\ concerns("MemberAdded")
    <3>1. new["MemberAdded"].queue = Append(queue, Notice(e)) /\ Notice(e) \in more
      BY <1>1, <1>4, <2>0, <2>1
    <3>2. (\E i \in DOMAIN queue : queue[i][1] = group[d]) \/ Notice(e)[1] = group[d]
      <4>1. CASE due[d]
        BY <1>0, <1>10, <4>1 DEF RunOK
      <4>2. CASE ~ due[d]
        BY <1>1, <1>2, <1>10, <2>1, <4>2 DEF Concerns
      <4> QED
        BY <4>1, <4>2
    <3>3. PICK longer : longer = new["MemberAdded"].queue
      OBVIOUS
    <3> HIDE DEF queue, more, new, old
    <3>4. Seqs!ToSet(queue) \subseteq Seqs!ToSet(longer) /\ Notice(e) \in Seqs!ToSet(longer)
      BY <2>0, <3>1, <3>3, AppendTells
    <3>5. \E m \in Seqs!ToSet(longer) : m[1] = group[d]
      BY <3>2, <3>4 DEF Seqs!ToSet
    <3>6. \E i \in DOMAIN longer : longer[i][1] = group[d]
      BY <3>5 DEF Seqs!ToSet
    <3> QED
      BY <3>3, <3>6
  <2>2. CASE ~ (on("MemberAdded") /\ concerns("MemberAdded"))
    <3>1. new["MemberAdded"] = old["MemberAdded"] /\ due[d]
      BY <1>1, <1>10, <2>0, <2>2
    <3> QED
      BY <1>0, <1>10, <3>1 DEF RunOK
  <2> QED
    BY <2>1, <2>2
<1> QED
  <2>1. tree[d] # NoTree =>
          <<group[d], tree[d]>> \in more /\ phase[d] \in Placed \cup {"adding", "ended"}
    BY <1>0, <1>6 DEF RunOK
  <2> HIDE DEF new, old, more, own
  <2>2. RunOK(more, phase[d], new, group[d], tree[d], idsFile[d], members[d], proof[d],
              answer[d], due'[d])
    BY <1>0, <1>6, <1>7, <1>8, <1>9, <1>10, <2>1 DEF RunOK
  <2> QED
    BY <1>3, <2>2 DEF new, more

LEMMA TransactionKeeps ==
  ASSUME JoinInv, TransactionOK, Publish, RequestsInv'
  PROVE  JoinInv'
<1>1. /\ UNCHANGED <<run, phase, identity, idsFile, group, tree, members, proof, answer>>
      /\ UNCHANGED credentialVars
  BY DEF Publish, credentialVars, filesVars, mainVars
<1>2. CredentialsInv'
  BY <1>1, CredentialsUnchanged DEF JoinInv
<1>3. additions' \in [Commitments -> Seq(Subgroups)]
  <2>1. ASSUME NEW c \in Commitments
        PROVE  additions'[c] \in Seq(Subgroups)
    <3>1. additions[c] \in Seq(Subgroups)
      BY DEF JoinInv, ChainInv
    <3>2. CASE emitted'[1].event = "MemberAdded" /\ emitted'[1].identityCommitment = c
      <4>1. additions'[c] = Append(additions[c], Notice(emitted'[1]))
        BY <3>2 DEF Publish, TransactionOK
      <4>2. Notice(emitted'[1]) \in Subgroups
        BY <3>2 DEF TransactionOK, Notice, Subgroups
      <4> QED
        BY <3>1, <4>1, <4>2, AppendProperties
    <3>3. CASE ~ (emitted'[1].event = "MemberAdded" /\ emitted'[1].identityCommitment = c)
      BY <3>1, <3>3 DEF Publish
    <3> QED
      BY <3>2, <3>3
  <2> QED
    BY <2>1 DEF Publish
<1>4. ChainInv'
  BY <1>3 DEF TransactionOK, ChainInv
<1>5. OneFor(subscription') /\ OneFor(due')
  BY DEF Publish, OneFor
<1>6. \A d \in Devices :
        RunOK(Own(d)', phase[d], subscription'[d], group[d], tree[d], idsFile[d],
              members[d], proof[d], answer[d], due'[d])
  BY PublishTells
<1>7. RunsInv'
  <2>1. /\ OneFor(group') /\ OneFor(tree') /\ OneFor(idsFile') /\ OneFor(members')
        /\ OneFor(proof') /\ OneFor(answer')
    BY <1>1 DEF JoinInv, RunsInv
  <2>2. \A d \in Devices :
          RunOK(Own(d)', phase'[d], subscription'[d], group'[d], tree'[d], idsFile'[d],
                members'[d], proof'[d], answer'[d], due'[d])
    BY <1>1, <1>6
  <2> QED
    BY <1>5, <2>1, <2>2 DEF RunsInv, OneFor
<1> QED
  BY <1>2, <1>4, <1>7 DEF JoinInv

LEMMA CreateGroupKeepsInv ==
  ASSUME JoinInv, CreateGroup
  PROVE  JoinInv'
<1>1. TransactionOK
  BY CreateGroupIsOK DEF CreateGroup, JoinInv, ChainInv
<1>2. RequestsInv'
  BY DEF CreateGroup, JoinInv, RequestsInv
<1> QED
  BY <1>1, <1>2, TransactionKeeps DEF CreateGroup

LEMMA AdministerKeepsInv ==
  ASSUME JoinInv, Administer
  PROVE  JoinInv'
<1>1. TransactionOK
  BY MemberTransactionIsOK DEF Administer, JoinInv, ChainInv
<1>2. RequestsInv'
  BY DEF Administer, JoinInv, RequestsInv
<1> QED
  BY <1>1, <1>2, TransactionKeeps DEF Administer

LEMMA SettleKeepsRequests ==
  ASSUME RequestsInv, NEW d \in Devices, NEW r \in 1 .. MaxRuns,
         NEW state \in RequestStates, request[d][r].state # "none", Settle(d, r, state)
  PROVE  RequestsInv'
<1>1. request' = [request EXCEPT ![d] = [request[d] EXCEPT ![r] =
                    [request[d][r] EXCEPT !.state = state]]]
  BY DEF Settle
<1>2. /\ request[d][r] \in [state : RequestStates, member : Devices \cup {Nobody},
                            groupId : GroupIds \cup {NoGroup}]
      /\ request[d][r].member = d /\ request[d][r].groupId \in GroupIds
      /\ request[d] \in [1 .. MaxRuns -> [state : RequestStates, member : Devices \cup {Nobody},
                                          groupId : GroupIds \cup {NoGroup}]]
  BY DEF RequestsInv
<1>3. ASSUME NEW e \in Devices, NEW q \in 1 .. MaxRuns
      PROVE  request'[e][q] = IF e = d /\ q = r THEN [request[d][r] EXCEPT !.state = state]
                              ELSE request[e][q]
  BY <1>1, <1>2 DEF RequestsInv
<1>4. request' \in [Devices -> [1 .. MaxRuns ->
        [state : RequestStates, member : Devices \cup {Nobody}, groupId : GroupIds \cup {NoGroup}]]]
  BY <1>1, <1>2 DEF RequestsInv
<1>5. ASSUME NEW e \in Devices, NEW q \in 1 .. MaxRuns
      PROVE  /\ request'[e][q].member \in {e, Nobody}
             /\ request'[e][q].state # "none" =>
                  request'[e][q].member = e /\ request'[e][q].groupId \in GroupIds
  BY <1>2, <1>3 DEF RequestsInv
<1> QED
  BY <1>4, <1>5 DEF RequestsInv

(* A step that changes nothing but the requests.                           *)
LEMMA RequestStep ==
  ASSUME JoinInv, OffChain, UNCHANGED clientVars, RequestsInv'
  PROVE  JoinInv'
<1>1. /\ UNCHANGED credentialVars /\ UNCHANGED chainVars
      /\ UNCHANGED <<phase, subscription, group, tree, idsFile, members, proof, answer, due>>
  BY DEF OffChain, clientVars, credentialVars, filesVars, mainVars
<1>2. CredentialsInv'
  BY <1>1, CredentialsUnchanged DEF JoinInv
<1>3. ChainInv'
  BY <1>1, ForestUnchanged, SizesUnchanged DEF JoinInv, ChainInv, chainVars, forestVars
<1>4. RunsInv'
  <2>1. \A d \in Devices : Own(d)' = Own(d)
    BY <1>1 DEF Own, chainVars
  <2> QED
    BY <1>1, <2>1 DEF JoinInv, RunsInv, OneFor
<1> QED
  BY <1>2, <1>3, <1>4 DEF JoinInv

LEMMA ServerKeepsInv ==
  ASSUME JoinInv, NEW d \in Devices, NEW r \in 1 .. MaxRuns, AddMemberHandler(d, r)
  PROVE  JoinInv'
<1>0. RequestsInv
  BY DEF JoinInv
<1>1. CASE AddMemberSends(d, r) \/ AddMemberFails(d, r) \/ AddMemberReturnsEarly(d, r)
  <2>1. PICK state \in RequestStates : Settle(d, r, state)
    BY <1>1 DEF AddMemberSends, AddMemberFails, AddMemberReturnsEarly, RequestStates
  <2>2. request[d][r].state # "none" /\ OffChain /\ UNCHANGED clientVars
    BY <1>1 DEF AddMemberSends, AddMemberFails, AddMemberReturnsEarly
  <2> QED
    BY <1>0, <2>1, <2>2, SettleKeepsRequests, RequestStep
<1>2. CASE AddMemberMined(d, r)
  <2>1. /\ request[d][r].state # "none" /\ "added" \in RequestStates
        /\ Settle(d, r, "added") /\ Publish
    BY <1>2 DEF AddMemberMined, RequestStates
  <2>2. RequestsInv'
    BY <1>0, <2>1, SettleKeepsRequests
  <2>3. request[d][r].member = d /\ request[d][r].groupId \in GroupIds
    BY <1>0, <2>1 DEF RequestsInv
  <2>4. TransactionOK
    BY <1>2, <2>3, AddMemberIsOK, DeviceIsCommitment, ServerIsAnAccount
       DEF AddMemberMined, JoinInv, ChainInv
  <2> QED
    BY <2>1, <2>2, <2>4, TransactionKeeps
<1> QED
  BY <1>1, <1>2 DEF AddMemberHandler

-----------------------------------------------------------------------------
(***************************************************************************)
(* The steps of a client.                                                  *)
(***************************************************************************)
Local(f, new, d) == OneFor(new) /\ \A e \in Devices : e # d => new[e] = f[e]

LEMMA ChangedIsLocal ==
  ASSUME NEW f, OneFor(f), NEW d \in Devices, NEW x, NEW new, new = [f EXCEPT ![d] = x]
  PROVE  Local(f, new, d) /\ new[d] = x
BY DEF OneFor, Local

LEMMA SameIsLocal ==
  ASSUME NEW f, OneFor(f), NEW d
  PROVE  Local(f, f, d)
BY DEF Local

(* Device d alone takes a step, off the chain.                             *)
LocalStep(d) ==
  /\ Local(phase, phase', d) /\ Local(subscription, subscription', d)
  /\ Local(group, group', d) /\ Local(tree, tree', d) /\ Local(idsFile, idsFile', d)
  /\ Local(members, members', d) /\ Local(proof, proof', d) /\ Local(answer, answer', d)
  /\ Local(due, due', d)

RunIsOK(d) ==
  RunOK(Own(d), phase[d], subscription[d], group[d], tree[d], idsFile[d], members[d],
        proof[d], answer[d], due[d])

RunIsOKNext(d) ==
  RunOK(Own(d), phase'[d], subscription'[d], group'[d], tree'[d], idsFile'[d], members'[d],
        proof'[d], answer'[d], due'[d])

LEMMA ClientStepKeepsInv ==
  ASSUME JoinInv, OffChain, NEW d \in Devices, LocalStep(d), CredentialsInv', RequestsInv',
         RunIsOKNext(d)
  PROVE  JoinInv'
<1>1. UNCHANGED chainVars
  BY DEF OffChain
<1>2. ChainInv'
  BY <1>1, ForestUnchanged, SizesUnchanged DEF JoinInv, ChainInv, chainVars, forestVars
<1>3. \A e \in Devices : Own(e)' = Own(e)
  BY <1>1 DEF Own, chainVars
<1>4. \A e \in Devices :
        RunOK(Own(e), phase'[e], subscription'[e], group'[e], tree'[e], idsFile'[e], members'[e],
              proof'[e], answer'[e], due'[e])
  <2> SUFFICES ASSUME NEW e \in Devices
               PROVE  RunIsOKNext(e)
    BY DEF RunIsOKNext
  <2>1. CASE e = d
    BY <2>1
  <2>2. CASE e # d
    <3>1. RunIsOK(e)
      BY DEF JoinInv, RunsInv, RunIsOK
    <3> QED
      BY <2>2, <3>1 DEF RunIsOK, RunIsOKNext, LocalStep, Local
  <2> QED
    BY <2>1, <2>2
<1>5. RunsInv'
  BY <1>3, <1>4 DEF RunsInv, OneFor, LocalStep, Local
<1> QED
  BY <1>2, <1>5 DEF JoinInv

(* What the steps start from.                                              *)
LEMMA StepStarts ==
  ASSUME JoinInv, NEW d \in Devices
  PROVE  /\ RunIsOK(d) /\ CredentialsInv /\ RequestsInv /\ ChainInv
         /\ OneFor(phase) /\ OneFor(subscription) /\ OneFor(group) /\ OneFor(tree)
         /\ OneFor(idsFile) /\ OneFor(members) /\ OneFor(proof) /\ OneFor(answer) /\ OneFor(due)
         /\ Own(d) \subseteq Subgroups
         /\ phase[d] \in Phases /\ (phase[d] \in Identified => identity[d] = d)
BY OwnSubgroups DEF JoinInv, RunsInv, RunIsOK, CredentialsInv, DeviceOK

LEMMA GoToIsLocal ==
  ASSUME OneFor(phase), NEW d \in Devices, NEW p, GoTo(d, p)
  PROVE  Local(phase, phase', d) /\ phase'[d] = p
BY DEF GoTo, OneFor, Local

LEMMA SubscriptionMoves ==
  ASSUME OneFor(subscription), NEW d \in Devices, NEW n \in Names, NEW own,
         SubscriptionOK(own, subscription[d]), NEW state \in States,
         subscription' = [subscription EXCEPT ![d][n].state = state]
  PROVE  /\ Local(subscription, subscription', d)
         /\ SubscriptionOK(own, subscription'[d])
         /\ \A m \in Names : subscription'[d][m].queue = subscription[d][m].queue
<1> DEFINE moved == [subscription[d][n] EXCEPT !.state = state]
           new   == [subscription[d] EXCEPT ![n] = moved]
           old   == subscription[d]
<1>1. subscription' = [subscription EXCEPT ![d] = new]
  OBVIOUS
<1>2. Local(subscription, subscription', d) /\ subscription'[d] = new
  <2> HIDE DEF new
  <2> QED
    BY <1>1 DEF OneFor, Local
<1>3. old \in [Names -> [state : States, queue : Seq(Known(own))]]
  BY DEF SubscriptionOK
<1>4. \A m \in Names : new[m] = IF m = n THEN moved ELSE old[m]
  BY <1>3
<1>5. moved \in [state : States, queue : Seq(Known(own))] /\ moved.queue = old[n].queue
  BY <1>3
<1>6. new \in [Names -> [state : States, queue : Seq(Known(own))]]
  BY <1>3, <1>5
<1>7. \A m \in Names : new[m].queue = old[m].queue
  BY <1>4, <1>5
<1>8. "MemberAdded" \in Names /\ "GroupCreated" \in Names
  BY DEF Names
<1> HIDE DEF new, moved
<1>9. SubscriptionOK(own, new)
  BY <1>6, <1>7, <1>8 DEF SubscriptionOK
<1> QED
  BY <1>2, <1>7, <1>9

LEMMA SubscriptionDelivers ==
  ASSUME OneFor(subscription), NEW d \in Devices, NEW n \in Names, NEW own,
         SubscriptionOK(own, subscription[d]), Heard(d, n), Consume(d, n)
  PROVE  /\ Local(subscription, subscription', d)
         /\ SubscriptionOK(own, subscription'[d])
         /\ \A m \in Names : m # n => subscription'[d][m] = subscription[d][m]
         /\ subscription'[d][n].queue = Tail(subscription[d][n].queue)
         /\ n = "MemberAdded" => Head(subscription[d][n].queue) \in own
         /\ n = "GroupCreated" => Head(subscription[d][n].queue) \in GroupIds \X {NoTree}
<1> DEFINE old   == subscription[d]
           rest  == Tail(old[n].queue)
           moved == [old[n] EXCEPT !.queue = rest]
           new   == [old EXCEPT ![n] = moved]
<1>1. subscription' = [subscription EXCEPT ![d] = new]
  BY DEF Consume
<1>2. Local(subscription, subscription', d) /\ subscription'[d] = new
  <2> HIDE DEF new
  <2> QED
    BY <1>1 DEF OneFor, Local
<1>3. old \in [Names -> [state : States, queue : Seq(Known(own))]] /\ old[n].queue # << >>
  BY DEF SubscriptionOK, Heard
<1>4. /\ rest \in Seq(Known(own))
      /\ n = "MemberAdded" => rest \in Seq(own) /\ Head(old[n].queue) \in own
      /\ n = "GroupCreated" => /\ rest \in Seq(GroupIds \X {NoTree})
                               /\ Head(old[n].queue) \in GroupIds \X {NoTree}
  <2>1. old[n].queue \in Seq(Known(own))
    BY <1>3
  <2>2. n = "MemberAdded" => old[n].queue \in Seq(own)
    BY DEF SubscriptionOK
  <2>3. n = "GroupCreated" => old[n].queue \in Seq(GroupIds \X {NoTree})
    BY DEF SubscriptionOK
  <2> QED
    BY <1>3, <2>1, <2>2, <2>3, HeadTailProperties
<1>5. moved \in [state : States, queue : Seq(Known(own))] /\ moved.queue = rest
  <2> HIDE DEF rest
  <2> QED
    BY <1>3, <1>4
<1>6. \A m \in Names : new[m] = IF m = n THEN moved ELSE old[m]
  BY <1>3
<1>7. new \in [Names -> [state : States, queue : Seq(Known(own))]]
  BY <1>3, <1>5
<1>8. "MemberAdded" \in Names /\ "GroupCreated" \in Names
  BY DEF Names
<1> HIDE DEF new, moved, rest
<1>9. SubscriptionOK(own, new)
  BY <1>4, <1>5, <1>6, <1>7, <1>8 DEF SubscriptionOK
<1> QED
  BY <1>2, <1>4, <1>5, <1>6, <1>9 DEF rest

(* A step of main(): the run goes on to phase p, and what the events and   *)
(* the files hold stays.                                                   *)
LEMMA MainStepKeepsInv ==
  ASSUME JoinInv, OffChain, NEW d \in Devices, NEW p \in Identified, phase[d] \in Identified,
         GoTo(d, p), UNCHANGED mainFrame, RequestsInv',
         Local(tree, tree', d), Local(members, members', d), Local(proof, proof', d),
         Local(answer, answer', d),
         RunOK(Own(d), p, subscription[d], group[d], tree'[d], idsFile[d], members'[d], proof'[d],
               answer'[d], due[d])
  PROVE  JoinInv'
<1>1. /\ UNCHANGED <<run, credentialFiles, identity>>
      /\ UNCHANGED <<subscription, group, idsFile, due>>
  BY DEF mainFrame, filesVars
<1>2. Local(phase, phase', d) /\ phase'[d] = p
  BY StepStarts, GoToIsLocal
<1>3. LocalStep(d)
  BY <1>1, <1>2, StepStarts, SameIsLocal DEF LocalStep
<1>4. CredentialsInv'
  BY <1>1, StepStarts, CredentialsMove
<1>5. RunIsOKNext(d)
  BY <1>1, <1>2 DEF RunIsOKNext
<1> QED
  BY <1>3, <1>4, <1>5, ClientStepKeepsInv

LEMMA MemberFound ==
  ASSUME JoinInv, NEW d \in Devices, isAlreadyMember(d) \/ FindSubtree(d)
  PROVE  JoinInv'
<1>0. RunIsOK(d) /\ OneFor(tree) /\ RequestsInv
  BY StepStarts
<1>1. CASE isAlreadyMember(d)
  <2>1. PICK p \in {"member", "newcomer"} : GoTo(d, p)
    BY <1>1 DEF isAlreadyMember
  <2>2. /\ phase[d] = "check" /\ p \in Identified /\ phase[d] \in Identified
        /\ OffChain /\ UNCHANGED mainFrame /\ UNCHANGED <<request, tree, members, proof, answer>>
    BY <1>1, <2>1 DEF isAlreadyMember, Identified, Phases
  <2>3. RunOK(Own(d), p, subscription[d], group[d], tree[d], idsFile[d], members[d], proof[d],
              answer[d], due[d])
    BY <1>0, <2>1, <2>2 DEF RunIsOK, RunOK, Grouped, Placed, Waiting
  <2> QED
    BY <2>1, <2>2, <2>3, MainStepKeepsInv, StepStarts, SameIsLocal DEF RequestsInv
<1>2. CASE FindSubtree(d)
  <2> DEFINE mine == getMySubtree(idsFile[d], group[d])
             p    == IF mine = NoTree THEN "ended" ELSE "list"
  <2>1. /\ phase[d] = "member" /\ phase[d] \in Identified /\ p \in Identified /\ GoTo(d, p)
        /\ tree' = [tree EXCEPT ![d] = mine]
        /\ OffChain /\ UNCHANGED mainFrame /\ UNCHANGED <<request, members, proof, answer>>
    BY <1>2 DEF FindSubtree, Identified, Phases
  <2>2. Local(tree, tree', d) /\ tree'[d] = mine
    BY <1>0, <2>1 DEF OneFor, Local
  <2>3. FileOK(Own(d), idsFile[d]) /\ Own(d) \subseteq Subgroups
    BY <1>0, StepStarts DEF RunIsOK, RunOK
  <2>4. mine # NoTree => mine \in TreeIds /\ <<group[d], mine>> \in Own(d)
    BY <2>3, FoundSubtreeIsOwn
  <2> HIDE DEF mine
  <2>5. RunOK(Own(d), p, subscription[d], group[d], mine, idsFile[d], members[d], proof[d],
              answer[d], due[d])
    BY <1>0, <2>1, <2>4 DEF RunIsOK, RunOK, Grouped, Placed, Waiting
  <2> QED
    BY <2>1, <2>2, <2>5, MainStepKeepsInv, StepStarts, SameIsLocal DEF RequestsInv
<1> QED
  BY <1>1, <1>2

LEMMA addMemberKeepsInv ==
  ASSUME JoinInv, NEW d \in Devices, addMember(d)
  PROVE  JoinInv'
<1> DEFINE r     == run[d]
           asked == [state |-> "received", member |-> d, groupId |-> group[d]]
<1>0. RunIsOK(d) /\ RequestsInv /\ CredentialsInv
  BY StepStarts
<1>1. /\ phase[d] = "newcomer" /\ phase[d] \in Identified /\ "adding" \in Identified
      /\ GoTo(d, "adding") /\ identity[d] = d /\ group[d] \in GroupIds
      /\ OffChain /\ UNCHANGED mainFrame /\ UNCHANGED <<tree, members, proof, answer>>
  <2>1. phase[d] = "newcomer" /\ phase[d] \in Identified /\ "adding" \in Identified
    BY DEF addMember, Identified, Phases
  <2>2. group[d] \in GroupIds
    BY <1>0, <2>1 DEF RunIsOK, RunOK, Grouped
  <2> QED
    BY <2>1, <2>2, StepStarts DEF addMember
<1>2. r \in 1 .. MaxRuns
  BY <1>0, <1>1, RunsAreCounted DEF CredentialsInv, DeviceOK
<1>3. RequestsInv'
  <2>1. request' = [request EXCEPT ![d] = [request[d] EXCEPT ![r] = asked]]
    BY <1>1 DEF addMember
  <2>2. asked \in [state : RequestStates, member : Devices \cup {Nobody},
                   groupId : GroupIds \cup {NoGroup}]
    BY <1>1 DEF RequestStates
  <2>3. asked.member = d /\ asked.groupId \in GroupIds
    BY <1>1
  <2> HIDE DEF asked, r
  <2>4. request' \in [Devices -> [1 .. MaxRuns ->
          [state : RequestStates, member : Devices \cup {Nobody}, groupId : GroupIds \cup {NoGroup}]]]
    BY <1>0, <1>2, <2>1, <2>2 DEF RequestsInv
  <2>5. ASSUME NEW e \in Devices, NEW q \in 1 .. MaxRuns
        PROVE  request'[e][q] = IF e = d /\ q = r THEN asked ELSE request[e][q]
    BY <1>0, <1>2, <2>1 DEF RequestsInv
  <2>6. ASSUME NEW e \in Devices, NEW q \in 1 .. MaxRuns
        PROVE  /\ request'[e][q].member \in {e, Nobody}
               /\ request'[e][q].state # "none" =>
                    request'[e][q].member = e /\ request'[e][q].groupId \in GroupIds
    BY <1>0, <2>3, <2>5 DEF RequestsInv
  <2> QED
    BY <2>4, <2>6 DEF RequestsInv
<1>4. RunOK(Own(d), "adding", subscription[d], group[d], tree[d], idsFile[d], members[d], proof[d],
            answer[d], due[d])
  BY <1>0, <1>1 DEF RunIsOK, RunOK, Grouped, Placed, Waiting
<1> QED
  BY <1>1, <1>3, <1>4, MainStepKeepsInv, StepStarts, SameIsLocal

(* Answered or not.                                                        *)
LEMMA StopAddingKeepsInv ==
  ASSUME JoinInv, NEW d \in Devices, phase[d] = "adding", StopAdding(d)
  PROVE  JoinInv'
<1> DEFINE p == IF tree[d] = NoTree THEN "await" ELSE "list"
<1>0. RunIsOK(d) /\ RequestsInv
  BY StepStarts
<1>1. /\ phase[d] \in Identified /\ p \in Identified /\ GoTo(d, p)
      /\ OffChain /\ UNCHANGED mainFrame /\ UNCHANGED <<request, tree, members, proof, answer>>
  BY DEF StopAdding, Identified, Phases
<1>2. RunOK(Own(d), p, subscription[d], group[d], tree[d], idsFile[d], members[d], proof[d],
            answer[d], due[d])
  BY <1>0 DEF RunIsOK, RunOK, Grouped, Placed, Waiting
<1> QED
  BY <1>0, <1>1, <1>2, MainStepKeepsInv, StepStarts, SameIsLocal DEF RequestsInv

LEMMA getMembersListKeepsInv ==
  ASSUME JoinInv, NEW d \in Devices, getMembersList(d)
  PROVE  JoinInv'
<1> DEFINE list == subgroupMembers[<<group[d], tree[d]>>]
<1>0. RunIsOK(d) /\ RequestsInv /\ ChainInv /\ OneFor(members)
  BY StepStarts
<1>1. /\ phase[d] = "list" /\ phase[d] \in Identified /\ "listed" \in Identified
      /\ GoTo(d, "listed") /\ members' = [members EXCEPT ![d] = list]
      /\ OffChain /\ UNCHANGED mainFrame /\ UNCHANGED <<request, tree, proof, answer>>
  BY DEF getMembersList, Identified, Phases
<1>2. group[d] \in GroupIds /\ tree[d] \in TreeIds
  BY <1>0, <1>1 DEF RunIsOK, RunOK, Grouped, Placed
<1>3. IsNarrow(list)
  <2>1. /\ list \in Seq(Leaves) /\ MembersIn(group[d], tree[d]) = Len(list)
        /\ MembersIn(group[d], tree[d]) \in Nat
    BY <1>0, <1>2, SubgroupSizes DEF ChainInv, MembersIn
  <2>2. Len(list) <= 1 \/ Len(list) <= maxTreeSize[group[d]]
    BY <1>0, <1>2, <2>1 DEF ChainInv, SizesInv
  <2>3. maxTreeSize[group[d]] \in TreeSizes \cup {0}
    BY <1>0, <1>2 DEF ChainInv, SizesInv
  <2> HIDE DEF list
  <2> QED
    BY <2>1, <2>2, <2>3 DEF IsNarrow
<1> HIDE DEF list
<1>4. Local(members, members', d) /\ members'[d] = list
  BY <1>0, <1>1 DEF OneFor, Local
<1>5. RunOK(Own(d), "listed", subscription[d], group[d], tree[d], idsFile[d], list, proof[d],
            answer[d], due[d])
  BY <1>0, <1>1, <1>3 DEF RunIsOK, RunOK, Grouped, Placed, Waiting
<1> QED
  BY <1>0, <1>1, <1>4, <1>5, MainStepKeepsInv, StepStarts, SameIsLocal DEF RequestsInv

(* A member that lists itself makes a proof that is accepted.              *)
LEMMA SentProofIsAccepted ==
  ASSUME NoWiderTrees, NEW list, IsNarrow(list), NEW signer, signer \in Seqs!ToSet(list),
         NEW pr, pr = generateProof(signer, list, Place(list, signer) - 1)
  PROVE  ~ DepthRefused(pr) /\ verifyProof(pr)
<1> DEFINE i == Place(list, signer) - 1
<1>1. Len(list) \in Nat /\ Len(list) <= Widest
  <2>1. PICK size \in TreeSizes \cup {0, 1} : Len(list) <= size
    BY DEF IsNarrow
  <2>2. size \in Nat /\ size <= Widest
    BY TreeSizesAreNumbers DEF NoWiderTrees, Widest
  <2>3. Len(list) \in Nat
    BY LenProperties DEF IsNarrow
  <2> QED
    BY <2>1, <2>2, <2>3 DEF Widest
<1>2. i \in Nat
  <2>1. \E k \in DOMAIN list : list[k] = signer
    BY DEF Seqs!ToSet
  <2>2. Place(list, signer) \in DOMAIN list
    BY <2>1 DEF Place
  <2> QED
    BY <2>2, LenProperties DEF IsNarrow
<1> HIDE DEF i
<1>3. DepthOf(Len(list), i) \in MIN_DEPTH .. MAX_DEPTH
  BY <1>1, <1>2, DepthAccepted
<1>4. pr = generateProof(signer, list, i)
  BY DEF i
<1> QED
  BY <1>3, <1>4 DEF generateProof, DepthRefused, verifyProof

LEMMA ProvingKeepsInv ==
  ASSUME JoinInv, NEW d \in Devices,
         sendJoinProof(d) \/ CannotProve(d) \/ sendModTrainProof(d)
  PROVE  JoinInv'
<1>0. RunIsOK(d) /\ RequestsInv /\ OneFor(proof)
  BY StepStarts
<1>1. CASE sendJoinProof(d)
  <2> DEFINE pr == generateProof(identity[d], members[d], Place(members[d], identity[d]) - 1)
  <2>1. /\ phase[d] = "listed" /\ phase[d] \in Identified /\ "joinProof" \in Identified
        /\ GoTo(d, "joinProof") /\ proof' = [proof EXCEPT ![d] = pr]
        /\ identity[d] \in Seqs!ToSet(members[d])
        /\ OffChain /\ UNCHANGED mainFrame /\ UNCHANGED <<request, tree, members, answer>>
    BY <1>1 DEF sendJoinProof, CanProve, Identified, Phases
  <2>2. IsNarrow(members[d])
    BY <1>0, <2>1 DEF RunIsOK, RunOK
  <2>3. NoWiderTrees => ~ DepthRefused(pr) /\ verifyProof(pr)
    <3> SUFFICES ASSUME NoWiderTrees PROVE ~ DepthRefused(pr) /\ verifyProof(pr)
      OBVIOUS
    <3>1. PICK x : x = pr
      OBVIOUS
    <3>2. x = generateProof(identity[d], members[d], Place(members[d], identity[d]) - 1)
      BY <3>1
    <3> HIDE DEF pr
    <3>3. ~ DepthRefused(x) /\ verifyProof(x)
      BY <2>1, <2>2, <3>2, SentProofIsAccepted
    <3> QED
      BY <3>1, <3>3
  <2> HIDE DEF pr
  <2>4. Local(proof, proof', d) /\ proof'[d] = pr
    BY <1>0, <2>1 DEF OneFor, Local
  <2>5. RunOK(Own(d), "joinProof", subscription[d], group[d], tree[d], idsFile[d], members[d], pr,
              answer[d], due[d])
    BY <1>0, <2>1, <2>3 DEF RunIsOK, RunOK, Grouped, Placed, Waiting
  <2> QED
    BY <1>0, <2>1, <2>4, <2>5, MainStepKeepsInv, StepStarts, SameIsLocal DEF RequestsInv
<1>2. CASE CannotProve(d) \/ sendModTrainProof(d)
  <2>1. /\ phase[d] \in {"listed", "modTrain"} /\ phase[d] \in Identified /\ "ended" \in Identified
        /\ GoTo(d, "ended")
        /\ OffChain /\ UNCHANGED mainFrame /\ UNCHANGED <<request, tree, members, proof, answer>>
    BY <1>2 DEF CannotProve, sendModTrainProof, Identified, Phases
  <2>2. RunOK(Own(d), "ended", subscription[d], group[d], tree[d], idsFile[d], members[d], proof[d],
              answer[d], due[d])
    BY <1>0, <2>1 DEF RunIsOK, RunOK, Grouped, Placed, Waiting
  <2> QED
    BY <1>0, <2>1, <2>2, MainStepKeepsInv, StepStarts, SameIsLocal DEF RequestsInv
<1> QED
  BY <1>1, <1>2

LEMMA JoinProofKeepsInv ==
  ASSUME JoinInv, NEW d \in Devices, JoinProofHandler(d) \/ JoinProofLost(d)
  PROVE  JoinInv'
<1>0. RunIsOK(d) /\ RequestsInv /\ OneFor(answer)
  BY StepStarts
<1>1. /\ phase[d] = "joinProof" /\ phase[d] \in Identified /\ "modTrain" \in Identified
      /\ GoTo(d, "modTrain") /\ OffChain
      /\ UNCHANGED mainFrame /\ UNCHANGED <<request, tree, members, proof>>
  BY DEF JoinProofHandler, JoinProofLost, Identified, Phases
<1>2. PICK code \in {0, 200, 400, 500} :
        /\ Local(answer, answer', d) /\ answer'[d] = code
        /\ NoWiderTrees => code \in {0, 200}
  <2>1. CASE JoinProofHandler(d)
    <3> DEFINE code == IF DepthRefused(proof[d]) THEN 500
                       ELSE IF verifyProof(proof[d]) THEN 200 ELSE 400
    <3>1. answer' = [answer EXCEPT ![d] = code]
      BY <2>1 DEF JoinProofHandler
    <3>2. code \in {0, 200, 400, 500} /\ (NoWiderTrees => code \in {0, 200})
      BY <1>0, <1>1 DEF RunIsOK, RunOK
    <3> HIDE DEF code
    <3>3. Local(answer, answer', d) /\ answer'[d] = code
      BY <1>0, <3>1 DEF OneFor, Local
    <3> QED
      BY <3>2, <3>3
  <2>2. CASE JoinProofLost(d)
    BY <1>0, <2>2 DEF JoinProofLost, OneFor, Local, RunIsOK, RunOK
  <2> QED
    BY <2>1, <2>2
<1>3. RunOK(Own(d), "modTrain", subscription[d], group[d], tree[d], idsFile[d], members[d], proof[d],
            code, due[d])
  BY <1>0, <1>1, <1>2 DEF RunIsOK, RunOK, Grouped, Placed, Waiting
<1> QED
  BY <1>0, <1>1, <1>2, <1>3, MainStepKeepsInv, StepStarts, SameIsLocal DEF RequestsInv

(* The phases before the listeners.                                        *)
Early == {"off", "issuer", "holder", "credential", "identity", "start"}

LEMMA CredentialsStepKeepsInv ==
  ASSUME JoinInv, NEW d \in Devices, Credentials(d)
  PROVE  JoinInv'
<1>0. RunIsOK(d) /\ RequestsInv /\ CredentialsInv
  BY StepStarts
<1>1. /\ StartRun(d) \/ getMyIdentityCommitment(d)
      /\ OffChain
      /\ UNCHANGED <<subscription, group, tree, idsFile, members, proof, answer, due, request>>
  BY DEF Credentials, filesVars, mainVars
<1>2. CredentialsInv' /\ RequestsInv'
  BY <1>0, <1>1, CredentialsKeepInv DEF RequestsInv
<1>3. PICK p \in Early : GoTo(d, p) /\ p # "off" /\ phase[d] \in Early
  BY <1>1 DEF StartRun, getMyIdentityCommitment, createIssuerDID, createHolderDID, saveVC,
              generateIdentityFromVC, Early
<1>4. Local(phase, phase', d) /\ phase'[d] = p
  BY <1>3, StepStarts, GoToIsLocal
<1>5. LocalStep(d)
  BY <1>1, <1>4, StepStarts, SameIsLocal DEF LocalStep
<1>6. RunIsOKNext(d)
  BY <1>0, <1>1, <1>3, <1>4 DEF RunIsOK, RunIsOKNext, RunOK, Grouped, Placed, Waiting, Early
<1> QED
  BY <1>1, <1>2, <1>5, <1>6, ClientStepKeepsInv

(* A run that throws.                                                      *)
LEMMA ThrowKeepsInv ==
  ASSUME JoinInv, NEW d \in Devices, LoadTornMembers(d) \/ QueryFails(d)
  PROVE  JoinInv'
<1>0. RunIsOK(d) /\ RequestsInv /\ CredentialsInv
  BY StepStarts
<1>1. /\ phase[d] \in {"start", "additions", "check", "list", "listed"}
      /\ GoTo(d, "ended") /\ OffChain /\ UNCHANGED <<run, credentialFiles, identity>>
      /\ UNCHANGED <<subscription, group, tree, idsFile, members, proof, answer, due, request>>
  BY DEF LoadTornMembers, QueryFails, filesVars, mainVars
<1>2. phase[d] \in Identified /\ "ended" \in Identified
  BY <1>1 DEF Identified, Phases
<1>3. CredentialsInv' /\ RequestsInv'
  BY <1>0, <1>1, <1>2, CredentialsMove DEF RequestsInv
<1>4. Local(phase, phase', d) /\ phase'[d] = "ended"
  BY <1>1, StepStarts, GoToIsLocal
<1>5. LocalStep(d)
  BY <1>1, <1>4, StepStarts, SameIsLocal DEF LocalStep
<1>6. RunIsOKNext(d)
  BY <1>0, <1>1, <1>4 DEF RunIsOK, RunIsOKNext, RunOK, Grouped, Placed, Waiting
<1> QED
  BY <1>1, <1>3, <1>5, <1>6, ClientStepKeepsInv

LEMMA ReplayGroupsKeepsInv ==
  ASSUME JoinInv, NEW d \in Devices, ReplayGroups(d)
  PROVE  JoinInv'
<1> DEFINE ids == SaveAll(idsFile[d], PastGroups)
<1>0. RunIsOK(d) /\ RequestsInv /\ CredentialsInv /\ ChainInv
  BY StepStarts
<1>1. /\ phase[d] = "start" /\ GoTo(d, "additions") /\ OffChain
      /\ idsFile' = [idsFile EXCEPT ![d] = ids]
      /\ subscription' = [subscription EXCEPT ![d]["GroupCreated"].state = "starting"]
      /\ UNCHANGED <<run, credentialFiles, identity>>
      /\ UNCHANGED <<group, tree, members, proof, answer, due, request>>
  BY DEF ReplayGroups, SaveIds, SubscribeTo, mainVars
<1>2. phase[d] \in Identified /\ "additions" \in Identified
  BY <1>1 DEF Identified, Phases
<1>3. CredentialsInv' /\ RequestsInv'
  BY <1>0, <1>1, <1>2, CredentialsMove DEF RequestsInv
<1>4. Local(phase, phase', d) /\ phase'[d] = "additions"
  BY <1>1, StepStarts, GoToIsLocal
<1>5. FileOK(Own(d), ids)
  <2>1. groupCounter \in Nat /\ \A i \in 1 .. groupCounter : i - 1 \in GroupIds
    BY <1>0, BoundsArePositive DEF ChainInv, SizesInv, GroupIds
  <2>2. \A i \in 1 .. groupCounter : <<i - 1, NoTree>> \in Known(Own(d))
    BY <2>1 DEF Known
  <2>3. PastGroups \in Seq(Known(Own(d)))
    BY <2>1, <2>2 DEF PastGroups
  <2>4. FileOK(Own(d), idsFile[d]) /\ Own(d) \subseteq Subgroups
    BY <1>0, StepStarts DEF RunIsOK, RunOK
  <2> QED
    BY <2>3, <2>4, SavedAllAreKnown
<1> HIDE DEF ids
<1>6. Local(idsFile, idsFile', d) /\ idsFile'[d] = ids
  BY <1>1, StepStarts DEF OneFor, Local
<1>7. SubscriptionOK(Own(d), subscription[d]) /\ "GroupCreated" \in Names /\ "starting" \in States
  BY <1>0 DEF RunIsOK, RunOK, Names, States
<1>8. Local(subscription, subscription', d) /\ SubscriptionOK(Own(d), subscription'[d])
  BY <1>1, <1>7, StepStarts, SubscriptionMoves
<1>9. LocalStep(d)
  BY <1>1, <1>4, <1>6, <1>8, StepStarts, SameIsLocal DEF LocalStep
<1>10. RunIsOKNext(d)
  BY <1>0, <1>1, <1>4, <1>5, <1>6, <1>8 DEF RunIsOK, RunIsOKNext, RunOK, Grouped, Placed, Waiting
<1> QED
  BY <1>1, <1>3, <1>9, <1>10, ClientStepKeepsInv

LEMMA ReplayAdditionsKeepsInv ==
  ASSUME JoinInv, NEW d \in Devices, ReplayAdditions(d)
  PROVE  JoinInv'
<1> DEFINE ids == getAllGroupIds(SaveAll(idsFile[d], additions[d]))
<1>0. /\ RunIsOK(d) /\ RequestsInv /\ CredentialsInv /\ ChainInv
      /\ OneFor(group) /\ OneFor(phase)
  BY StepStarts
<1>1. phase[d] = "additions" /\ phase[d] \in Identified /\ identity[d] = d
  <2>1. phase[d] = "additions" /\ phase[d] \in Identified
    BY DEF ReplayAdditions, Identified, Phases
  <2> QED
    BY <2>1, StepStarts
<1>2. /\ idsFile' = [idsFile EXCEPT ![d] = ids]
      /\ subscription' = [subscription EXCEPT ![d]["MemberAdded"].state = "starting"]
      /\ OffChain /\ UNCHANGED <<run, credentialFiles, identity>>
      /\ UNCHANGED <<tree, members, proof, answer, due, request>>
      /\ \/ ids = Torn /\ GoTo(d, "ended") /\ UNCHANGED group
         \/ ids = << >> /\ GoTo(d, "awaitGroup") /\ UNCHANGED group
         \/ /\ ids \notin {Torn, << >>}
            /\ group' = [group EXCEPT ![d] = ids[1].groupId]
            /\ GoTo(d, "check")
  BY <1>1 DEF ReplayAdditions, SaveIds, SubscribeTo
<1>3. FileOK(Own(d), ids) /\ (ids \notin {Torn, << >>} => ids[1].groupId \in GroupIds)
  <2>1. additions[d] \in Seq(Own(d)) /\ Own(d) \subseteq Subgroups
    BY OwnSubgroups, <1>0 DEF Own, Seqs!ToSet
  <2>2. additions[d] \in Seq(Known(Own(d)))
    <3>1. Own(d) \subseteq Known(Own(d))
      BY DEF Known
    <3> HIDE DEF Known
    <3> QED
      BY <2>1, <3>1
  <2>3. FileOK(Own(d), idsFile[d])
    BY <1>0 DEF RunIsOK, RunOK
  <2> DEFINE saved == SaveAll(idsFile[d], additions[d])
  <2>4. FileOK(Own(d), saved)
    BY <2>1, <2>2, <2>3, SavedAllAreKnown
  <2>5. ids = IF saved = Nobody THEN << >> ELSE saved
    BY DEF getAllGroupIds
  <2> HIDE DEF saved, ids
  <2>6. ids \in {Torn} \cup Seq(Entries(Own(d)))
    BY <2>4, <2>5, EmptySeq DEF FileOK
  <2>7. ASSUME ids \notin {Torn, << >>} PROVE ids[1].groupId \in GroupIds
    <3>1. ids \in Seq(Entries(Own(d))) /\ ids # << >>
      BY <2>6, <2>7
    <3>2. ids[1] \in Entries(Own(d))
      BY <3>1, EmptySeq, ElementOfSeq
    <3> QED
      BY <3>2 DEF Entries
  <2> QED
    BY <2>6, <2>7 DEF FileOK
<1> HIDE DEF ids
<1>4. PICK p \in {"ended", "awaitGroup", "check"} :
        /\ GoTo(d, p) /\ Local(group, group', d) /\ group'[d] \in GroupIds \cup {NoGroup}
        /\ p = "check" => group'[d] # NoGroup
  <2>0. group[d] \in GroupIds \cup {NoGroup}
    BY <1>0 DEF RunIsOK, RunOK
  <2>1. CASE UNCHANGED group /\ (GoTo(d, "ended") \/ GoTo(d, "awaitGroup"))
    <3>1. Local(group, group', d) /\ group'[d] = group[d]
      BY <1>0, <2>1 DEF OneFor, Local
    <3> QED
      BY <2>0, <2>1, <3>1
  <2>2. CASE /\ ids \notin {Torn, << >>}
             /\ group' = [group EXCEPT ![d] = ids[1].groupId]
             /\ GoTo(d, "check")
    <3>1. Local(group, group', d) /\ group'[d] = ids[1].groupId
      BY <1>0, <2>2 DEF OneFor, Local
    <3> QED
      BY <1>3, <2>2, <3>1, NoGroupIsNone
  <2> QED
    BY <1>2, <2>1, <2>2
<1>5. CredentialsInv' /\ RequestsInv'
  <2>1. p \in Identified
    BY DEF Identified, Phases
  <2> QED
    BY <1>0, <1>1, <1>2, <1>4, <2>1, CredentialsMove DEF RequestsInv
<1>6. Local(phase, phase', d) /\ phase'[d] = p
  BY <1>0, <1>4, GoToIsLocal
<1>7. Local(idsFile, idsFile', d) /\ idsFile'[d] = ids
  BY <1>2, StepStarts DEF OneFor, Local
<1>8. SubscriptionOK(Own(d), subscription[d]) /\ "MemberAdded" \in Names /\ "starting" \in States
  BY <1>0 DEF RunIsOK, RunOK, Names, States
<1>9. Local(subscription, subscription', d) /\ SubscriptionOK(Own(d), subscription'[d])
  BY <1>2, <1>8, StepStarts, SubscriptionMoves
<1>10. LocalStep(d)
  BY <1>2, <1>4, <1>6, <1>7, <1>9, StepStarts, SameIsLocal DEF LocalStep
<1>11. RunIsOKNext(d)
  BY <1>0, <1>1, <1>2, <1>3, <1>4, <1>6, <1>7, <1>9
     DEF RunIsOK, RunIsOKNext, RunOK, Grouped, Placed, Waiting
<1> QED
  BY <1>2, <1>5, <1>10, <1>11, ClientStepKeepsInv

LEMMA SubscribeKeepsInv ==
  ASSUME JoinInv, NEW d \in Devices, NEW n \in Names, Subscribe(d, n)
  PROVE  JoinInv'
<1>0. RunIsOK(d) /\ RequestsInv /\ CredentialsInv
  BY StepStarts
<1>1. /\ subscription' = [subscription EXCEPT ![d][n].state = "on"]
      /\ subscription[d][n].state = "starting"
      /\ OffChain /\ UNCHANGED credentialVars /\ UNCHANGED phase
      /\ UNCHANGED <<group, tree, idsFile, members, proof, answer, due, request>>
  BY DEF Subscribe, filesVars, mainVars, credentialVars
<1>2. CredentialsInv' /\ RequestsInv'
  BY <1>0, <1>1, CredentialsUnchanged DEF RequestsInv
<1>3. SubscriptionOK(Own(d), subscription[d]) /\ "on" \in States
  BY <1>0 DEF RunIsOK, RunOK, States
<1>4. /\ Local(subscription, subscription', d) /\ SubscriptionOK(Own(d), subscription'[d])
      /\ subscription'[d]["MemberAdded"].queue = subscription[d]["MemberAdded"].queue
  <2>1. "MemberAdded" \in Names
    BY DEF Names
  <2> QED
    BY <1>1, <1>3, <2>1, StepStarts, SubscriptionMoves
<1>5. phase[d] # "off"
  BY <1>0, <1>1 DEF RunIsOK, RunOK, NoSubscription
<1>6. LocalStep(d)
  BY <1>1, <1>4, StepStarts, SameIsLocal DEF LocalStep
<1>7. RunIsOKNext(d)
  BY <1>0, <1>1, <1>4, <1>5 DEF RunIsOK, RunIsOKNext, RunOK
<1> QED
  BY <1>1, <1>2, <1>6, <1>7, ClientStepKeepsInv

LEMMA OnlyRunsHear ==
  ASSUME NEW d \in Devices, RunIsOK(d), NEW n \in Names, Heard(d, n)
  PROVE  phase[d] # "off"
BY DEF RunIsOK, RunOK, NoSubscription, Heard

LEMMA HearGroupCreatedKeepsInv ==
  ASSUME JoinInv, NEW d \in Devices, HearGroupCreated(d)
  PROVE  JoinInv'
<1> DEFINE notice == Head(subscription[d]["GroupCreated"].queue)
           ids    == saveGroupId(idsFile[d], notice)
<1>0. /\ RunIsOK(d) /\ RequestsInv /\ CredentialsInv /\ OneFor(phase) /\ OneFor(group)
      /\ "GroupCreated" \in Names /\ "MemberAdded" \in Names
  BY StepStarts DEF Names
<1>1. /\ Heard(d, "GroupCreated") /\ Consume(d, "GroupCreated")
      /\ idsFile' = [idsFile EXCEPT ![d] = ids]
      /\ \/ /\ phase[d] = "awaitGroup" /\ GoTo(d, "check")
            /\ group' = [group EXCEPT ![d] = notice[1]]
         \/ phase[d] # "awaitGroup" /\ UNCHANGED <<group, phase>>
      /\ OffChain /\ UNCHANGED <<run, credentialFiles, identity>>
      /\ UNCHANGED <<tree, members, proof, answer, due, request>>
  BY DEF HearGroupCreated, SaveIds
<1>2. SubscriptionOK(Own(d), subscription[d]) /\ FileOK(Own(d), idsFile[d]) /\ phase[d] # "off"
  BY <1>0, <1>1, OnlyRunsHear DEF RunIsOK, RunOK
<1>3. /\ Local(subscription, subscription', d) /\ SubscriptionOK(Own(d), subscription'[d])
      /\ subscription'[d]["MemberAdded"] = subscription[d]["MemberAdded"]
      /\ notice \in GroupIds \X {NoTree}
  BY <1>0, <1>1, <1>2, StepStarts, SubscriptionDelivers
<1>4. FileOK(Own(d), ids)
  <2>1. notice \in Known(Own(d)) /\ Own(d) \subseteq Subgroups
    BY <1>3, StepStarts DEF Known
  <2> HIDE DEF notice
  <2>2. ids \in Seq(Entries(Own(d)))
    BY <1>2, <2>1, SavedIsKnown
  <2> QED
    BY <2>2 DEF FileOK
<1>5. notice[1] \in GroupIds /\ notice[1] # NoGroup
  BY <1>3, NoGroupIsNone
<1> HIDE DEF ids, notice
<1>6. Local(idsFile, idsFile', d) /\ idsFile'[d] = ids
  BY <1>1, StepStarts DEF OneFor, Local
<1>7. CASE phase[d] = "awaitGroup"
  <2>1. /\ Local(group, group', d) /\ group'[d] = notice[1]
        /\ Local(phase, phase', d) /\ phase'[d] = "check" /\ GoTo(d, "check")
    BY <1>0, <1>1, <1>7, GoToIsLocal DEF OneFor, Local
  <2>2. phase[d] \in Identified /\ "check" \in Identified
    BY <1>7 DEF Identified, Phases
  <2>3. CredentialsInv' /\ RequestsInv'
    BY <1>0, <1>1, <2>1, <2>2, CredentialsMove DEF RequestsInv
  <2>4. LocalStep(d)
    BY <1>1, <1>3, <1>6, <2>1, StepStarts, SameIsLocal DEF LocalStep
  <2>5. RunIsOKNext(d)
    BY <1>0, <1>1, <1>3, <1>4, <1>5, <1>6, <1>7, <2>1
       DEF RunIsOK, RunIsOKNext, RunOK, Grouped, Placed, Waiting
  <2> QED
    BY <1>1, <2>3, <2>4, <2>5, ClientStepKeepsInv
<1>8. CASE phase[d] # "awaitGroup"
  <2>1. UNCHANGED <<group, phase>>
    BY <1>1, <1>8
  <2>2. CredentialsInv' /\ RequestsInv'
    <3>1. UNCHANGED credentialVars
      BY <1>1, <2>1 DEF credentialVars
    <3> QED
      BY <1>0, <1>1, <3>1, CredentialsUnchanged DEF RequestsInv
  <2>3. LocalStep(d)
    BY <1>1, <1>3, <1>6, <2>1, StepStarts, SameIsLocal DEF LocalStep
  <2>4. RunIsOKNext(d)
    BY <1>0, <1>1, <1>2, <1>3, <1>4, <1>6, <2>1 DEF RunIsOK, RunIsOKNext, RunOK
  <2> QED
    BY <1>1, <2>2, <2>3, <2>4, ClientStepKeepsInv
<1> QED
  BY <1>7, <1>8

LEMMA HearMemberAddedKeepsInv ==
  ASSUME JoinInv, NEW d \in Devices, HearMemberAdded(d)
  PROVE  JoinInv'
<1> DEFINE queue  == subscription[d]["MemberAdded"].queue
           notice == Head(queue)
           ids    == saveGroupId(idsFile[d], notice)
           mine   == Waits(d) /\ notice[1] = group[d]
           p      == IF mine /\ phase[d] = "await" THEN "list" ELSE phase[d]
           t      == IF mine THEN notice[2] ELSE tree[d]
<1>0. /\ RunIsOK(d) /\ RequestsInv /\ CredentialsInv /\ OneFor(phase) /\ OneFor(tree)
      /\ "MemberAdded" \in Names
  BY StepStarts DEF Names
<1>1. /\ Heard(d, "MemberAdded") /\ Consume(d, "MemberAdded")
      /\ idsFile' = [idsFile EXCEPT ![d] = ids]
      /\ tree' = IF mine THEN [tree EXCEPT ![d] = notice[2]] ELSE tree
      /\ GoTo(d, p)
      /\ OffChain /\ UNCHANGED <<run, credentialFiles, identity>>
      /\ UNCHANGED <<group, members, proof, answer, due, request>>
  BY DEF HearMemberAdded, SaveIds
<1>2. SubscriptionOK(Own(d), subscription[d]) /\ FileOK(Own(d), idsFile[d]) /\ phase[d] # "off"
  BY <1>0, <1>1, OnlyRunsHear DEF RunIsOK, RunOK
<1>3. /\ Local(subscription, subscription', d) /\ SubscriptionOK(Own(d), subscription'[d])
      /\ subscription'[d]["MemberAdded"].queue = Tail(queue)
      /\ notice \in Own(d)
  BY <1>0, <1>1, <1>2, StepStarts, SubscriptionDelivers
<1>4. FileOK(Own(d), ids)
  <2>1. notice \in Known(Own(d)) /\ Own(d) \subseteq Subgroups
    BY <1>3, StepStarts DEF Known
  <2> HIDE DEF notice
  <2>2. ids \in Seq(Entries(Own(d)))
    BY <1>2, <2>1, SavedIsKnown
  <2> QED
    BY <2>2 DEF FileOK
<1>5. /\ notice = <<notice[1], notice[2]>> /\ notice[2] \in TreeIds /\ notice[2] # NoTree
      /\ queue \in Seq(Own(d)) /\ queue # << >>
  <2>1. notice \in Subgroups
    BY <1>3, StepStarts
  <2>2. queue \in Seq(Own(d)) /\ queue # << >>
    BY <1>1, <1>2 DEF SubscriptionOK, Heard
  <2> HIDE DEF notice
  <2> QED
    BY <2>1, <2>2, NoGroupIsNone DEF Subgroups
<1>6. Local(phase, phase', d) /\ phase'[d] = p
  BY <1>0, <1>1, GoToIsLocal
<1>7. Local(tree, tree', d) /\ tree'[d] = t
  <2> HIDE DEF notice
  <2> QED
    BY <1>0, <1>1 DEF OneFor, Local
<1> HIDE DEF ids
<1>8. Local(idsFile, idsFile', d) /\ idsFile'[d] = ids
  BY <1>1, StepStarts DEF OneFor, Local
<1>9. CredentialsInv' /\ RequestsInv'
  <2>1. p = phase[d] \/ (p \in Identified /\ phase[d] \in Identified)
    <3> HIDE DEF mine
    <3> QED
      BY DEF Identified, Phases
  <2> HIDE DEF p
  <2> QED
    BY <1>0, <1>1, <2>1, CredentialsMove DEF RequestsInv
<1>10. LocalStep(d)
  BY <1>1, <1>3, <1>6, <1>7, <1>8, StepStarts, SameIsLocal DEF LocalStep
<1>11. ASSUME due[d], p \in Waiting, t = NoTree
       PROVE  \E i \in DOMAIN Tail(queue) : Tail(queue)[i][1] = group[d]
  <2>1. phase[d] \in Waiting /\ tree[d] = NoTree /\ ~ mine /\ notice[1] # group[d]
    BY <1>5, <1>11 DEF Waits, Waiting
  <2>2. PICK i \in DOMAIN queue : queue[i][1] = group[d]
    BY <1>0, <1>11, <2>1 DEF RunIsOK, RunOK
  <2>3. /\ DOMAIN queue = 1 .. Len(queue) /\ Len(queue) \in Nat /\ queue[1] = notice
        /\ Len(Tail(queue)) = Len(queue) - 1 /\ DOMAIN Tail(queue) = 1 .. Len(queue) - 1
        /\ \A j \in 1 .. Len(queue) - 1 : Tail(queue)[j] = queue[j + 1]
    BY <1>5, HeadTailProperties, LenProperties
  <2>4. PICK j \in 1 .. Len(queue) - 1 : i = j + 1
    <3>1. i # 1
      BY <2>1, <2>2, <2>3
    <3>2. i \in 1 .. Len(queue) /\ Len(queue) \in Nat
      BY <2>2, <2>3
    <3>3. \A n \in Nat : \A k \in 1 .. n : k # 1 => \E j \in 1 .. n - 1 : k = j + 1
      <4> SUFFICES ASSUME NEW n \in Nat, NEW k \in 1 .. n, k # 1
                   PROVE  k - 1 \in 1 .. n - 1 /\ k = (k - 1) + 1
        OBVIOUS
      <4> QED
        OBVIOUS
    <3> QED
      BY <3>1, <3>2, <3>3
  <2> HIDE DEF queue, notice, mine
  <2>5. Tail(queue)[j] = queue[j + 1] /\ j \in DOMAIN Tail(queue)
    BY <2>3
  <2>6. Tail(queue)[j][1] = group[d]
    BY <2>2, <2>4, <2>5
  <2> QED
    BY <2>5, <2>6
<1>12. /\ mine => phase[d] \in Waiting /\ tree[d] = NoTree /\ <<group[d], t>> \in Own(d) /\ t = notice[2]
       /\ ~ mine => t = tree[d] /\ p = phase[d]
       /\ p = phase[d] \/ (p = "list" /\ phase[d] = "await" /\ mine)
       /\ mine /\ phase[d] = "adding" => p = "adding"
       /\ mine => phase[d] \in {"adding", "await"} /\ p \in {"adding", "list"}
  BY <1>3, <1>5 DEF Waits, Waiting
<1>13. RunIsOKNext(d)
  <2> HIDE DEF mine, p, t, notice, queue
  <2>1. subscription'[d]["MemberAdded"].queue = Tail(queue)
    BY <1>3
  <2>2. CASE mine
    <3>1. /\ group[d] \in GroupIds \cup {NoGroup} /\ group[d] # NoGroup
          /\ answer[d] \in {0, 200, 400, 500} /\ (NoWiderTrees => answer[d] \in {0, 200})
      BY <1>0, <1>12, <2>2 DEF RunIsOK, RunOK, Grouped, Waiting
    <3>2. /\ t \in TreeIds /\ t # NoTree /\ <<group[d], t>> \in Own(d)
          /\ p \in {"adding", "list"}
      BY <1>5, <1>12, <2>2
    <3>3. /\ group'[d] = group[d] /\ answer'[d] = answer[d] /\ members'[d] = members[d]
          /\ proof'[d] = proof[d] /\ due'[d] = due[d]
          /\ phase'[d] = p /\ tree'[d] = t /\ idsFile'[d] = ids
      BY <1>1, <1>6, <1>7, <1>8
    <3>4. SubscriptionOK(Own(d), subscription'[d]) /\ FileOK(Own(d), ids)
      BY <1>3, <1>4
    <3> QED
      BY <3>1, <3>2, <3>3, <3>4 DEF RunIsOKNext, RunOK, Grouped, Placed, Waiting
  <2>3. CASE ~ mine
    BY <1>0, <1>1, <1>2, <1>3, <1>4, <1>6, <1>7, <1>8, <1>11, <1>12, <2>1, <2>3
       DEF RunIsOK, RunIsOKNext, RunOK
  <2> QED
    BY <2>2, <2>3
<1> QED
  BY <1>1, <1>9, <1>10, <1>13, ClientStepKeepsInv

LEMMA KillKeepsInv ==
  ASSUME JoinInv, NEW d \in Devices, Kill(d)
  PROVE  JoinInv'
<1>0. RunIsOK(d) /\ RequestsInv /\ CredentialsInv /\ OneFor(idsFile)
  BY StepStarts
<1>1. /\ GoTo(d, "off") /\ identity' = [identity EXCEPT ![d] = Nobody]
      /\ UNCHANGED <<run, request>> /\ OffChain
      /\ UNCHANGED credentialFiles \/ TearFile(d)
  BY DEF Kill
<1>2. CredentialsInv' /\ RequestsInv'
  BY <1>0, <1>1, KillKeepsCredentials DEF RequestsInv
<1>3. UNCHANGED idsFile \/ idsFile' = [idsFile EXCEPT ![d] = Torn]
  BY DEF Kill, filesVars, TearGroupFile, SaveIds
<1>4. Local(idsFile, idsFile', d) /\ idsFile'[d] \in {idsFile[d], Torn}
  BY <1>0, <1>3 DEF OneFor, Local
<1>5. FileOK(Own(d), idsFile'[d])
  BY <1>0, <1>4 DEF RunIsOK, RunOK, FileOK
<1>6. Local(phase, phase', d) /\ phase'[d] = "off"
  BY <1>1, StepStarts, GoToIsLocal
<1>7. /\ Local(subscription, subscription', d) /\ subscription'[d] = NoSubscription
      /\ Local(group, group', d) /\ group'[d] = NoGroup
      /\ Local(tree, tree', d) /\ tree'[d] = NoTree
      /\ Local(members, members', d) /\ Local(proof, proof', d)
      /\ Local(answer, answer', d) /\ answer'[d] = 0
      /\ Local(due, due', d) /\ due'[d] = FALSE
  BY StepStarts DEF Kill, OneFor, Local
<1>8. SubscriptionOK(Own(d), NoSubscription)
  BY EmptySeq DEF SubscriptionOK, NoSubscription, Names, States
<1>9. LocalStep(d)
  BY <1>4, <1>6, <1>7 DEF LocalStep
<1>10. RunIsOKNext(d)
  BY <1>5, <1>6, <1>7, <1>8 DEF RunIsOKNext, RunOK, Grouped, Placed, Waiting
<1> QED
  BY <1>1, <1>2, <1>9, <1>10, ClientStepKeepsInv

-----------------------------------------------------------------------------
(***************************************************************************)
(* The invariant is inductive.                                             *)
(***************************************************************************)
LEMMA JoinInvInitially == Init => JoinInv
<1> SUFFICES ASSUME Init
             PROVE  JoinInv
  OBVIOUS
<1>1. CredentialsInv
  BY CredentialsInitially DEF Init
<1>2. ChainInv
  <2>1. ForestInv
    BY EmptyForest DEF Init, GroupsInit
  <2>2. additions \in [Commitments -> Seq(Subgroups)]
    BY EmptySeq DEF Init
  <2>3. \A g \in GroupIds, t \in TreeIds : MembersIn(g, t) = 0
    BY EmptySeq DEF Init, GroupsInit, MembersIn, Subgroups
  <2>4. SizesInv
    BY <2>3, TreeIdsAreNumbers, BoundsArePositive DEF Init, GroupsInit, SizesInv, Addresses
  <2> QED
    BY <2>1, <2>2, <2>4 DEF ChainInv
<1>3. RequestsInv
  BY DEF Init, RequestsInv, RequestStates, NoRequest
<1>4. RunsInv
  <2>1. ASSUME NEW d \in Devices
        PROVE  RunIsOK(d)
    <3>1. /\ phase[d] = "off" /\ subscription[d] = NoSubscription /\ group[d] = NoGroup
          /\ tree[d] = NoTree /\ idsFile[d] = Nobody /\ answer[d] = 0 /\ due[d] = FALSE
      BY DEF Init, CredentialsInit
    <3>2. SubscriptionOK(Own(d), NoSubscription)
      BY EmptySeq DEF SubscriptionOK, NoSubscription, Names, States
    <3> QED
      BY <3>1, <3>2 DEF RunIsOK, RunOK, FileOK, Grouped, Placed, Waiting
  <2>2. /\ OneFor(subscription) /\ OneFor(group) /\ OneFor(tree) /\ OneFor(idsFile)
        /\ OneFor(members) /\ OneFor(proof) /\ OneFor(answer) /\ OneFor(due)
    BY DEF Init, OneFor
  <2> QED
    BY <2>1, <2>2 DEF RunsInv, RunIsOK
<1> QED
  BY <1>1, <1>2, <1>3, <1>4 DEF JoinInv

LEMMA StutterKeepsInv ==
  ASSUME JoinInv, UNCHANGED vars
  PROVE  JoinInv'
<1>1. /\ UNCHANGED <<credentialVars, forestVars, maxTreeSize, adminVars, groupCounter, additions>>
      /\ UNCHANGED <<phase, subscription, group, tree, idsFile, members, proof, answer, due, request>>
  BY DEF vars, chainVars, clientVars, filesVars, mainVars, credentialVars
<1>2. CredentialsInv'
  BY <1>1, CredentialsUnchanged DEF JoinInv
<1>3. ChainInv'
  BY <1>1, ForestUnchanged, SizesUnchanged DEF JoinInv, ChainInv, forestVars
<1>4. RequestsInv'
  BY <1>1 DEF JoinInv, RequestsInv
<1>5. RunsInv'
  <2>1. \A d \in Devices : Own(d)' = Own(d)
    BY <1>1 DEF Own
  <2> QED
    BY <1>1, <2>1 DEF JoinInv, RunsInv, OneFor
<1> QED
  BY <1>2, <1>3, <1>4, <1>5 DEF JoinInv

LEMMA NextKeepsJoinInv == JoinInv /\ [Next]_vars => JoinInv'
<1> SUFFICES ASSUME JoinInv, [Next]_vars
             PROVE  JoinInv'
  OBVIOUS
<1>1. CASE CreateGroup \/ Administer
  BY <1>1, CreateGroupKeepsInv, AdministerKeepsInv
<1>2. ASSUME NEW d \in Devices, Credentials(d) \/ Listeners(d) \/ QueryFails(d) \/ Kill(d)
      PROVE  JoinInv'
  BY <1>2, CredentialsStepKeepsInv, ReplayGroupsKeepsInv, ReplayAdditionsKeepsInv, ThrowKeepsInv,
     KillKeepsInv DEF Listeners
<1>3. ASSUME NEW d \in Devices, main(d) \/ AddMemberUnanswered(d)
      PROVE  JoinInv'
  <2>1. CASE AddMemberReturns(d) \/ AddMemberUnanswered(d)
    BY <2>1, StopAddingKeepsInv DEF AddMemberReturns, AddMemberUnanswered
  <2>2. CASE isAlreadyMember(d) \/ FindSubtree(d) \/ addMember(d) \/ getMembersList(d)
    BY <2>2, MemberFound, addMemberKeepsInv, getMembersListKeepsInv
  <2>3. CASE sendJoinProof(d) \/ CannotProve(d) \/ sendModTrainProof(d)
    BY <2>3, ProvingKeepsInv
  <2> QED
    BY <1>3, <2>1, <2>2, <2>3 DEF main
<1>4. ASSUME NEW d \in Devices, Hear(d) \/ JoinProofHandler(d) \/ JoinProofLost(d)
      PROVE  JoinInv'
  BY <1>4, HearGroupCreatedKeepsInv, HearMemberAddedKeepsInv, JoinProofKeepsInv DEF Hear
<1>5. ASSUME NEW d \in Devices, NEW n \in Names, Subscribe(d, n)
      PROVE  JoinInv'
  BY <1>5, SubscribeKeepsInv
<1>6. ASSUME NEW d \in Devices, NEW r \in 1 .. MaxRuns, AddMemberHandler(d, r)
      PROVE  JoinInv'
  BY <1>6, ServerKeepsInv
<1>7. CASE UNCHANGED vars
  BY <1>7, StutterKeepsInv
<1> QED
  BY <1>1, <1>2, <1>3, <1>4, <1>5, <1>6, <1>7 DEF Next

LEMMA JoinInvHolds == Spec => []JoinInv
BY JoinInvInitially, NextKeepsJoinInv, PTL DEF Spec

-----------------------------------------------------------------------------
(***************************************************************************)
(* Theorems.                                                               *)
(***************************************************************************)
(* The types; a run that lists or proves has a subgroup to do it in.       *)
THEOREM JoinTypes == Spec => []TypeOK
<1>1. JoinInv => TypeOK
  <2> SUFFICES ASSUME JoinInv
               PROVE  TypeOK
    OBVIOUS
  <2>1. \A d \in Devices :
          DeviceOK(d, run[d], phase[d], didDocs[d], vcFile[d], idFile[d], identity[d])
    BY DEF JoinInv, CredentialsInv
  <2>2. CredentialsTypeOK
    <3>1. run \in [Devices -> 0 .. MaxRuns]
      BY <2>1 DEF JoinInv, CredentialsInv, OneFor, DeviceOK
    <3> QED
      BY <2>1, <3>1 DEF CredentialsTypeOK, DeviceOK, Contents
  <2>3. phase \in [Devices -> Phases]
    BY <2>1 DEF JoinInv, CredentialsInv, OneFor, DeviceOK
  <2>4. /\ group \in [Devices -> GroupIds \cup {NoGroup}]
        /\ tree \in [Devices -> TreeIds \cup {NoTree}]
        /\ answer \in [Devices -> {0, 200, 400, 500}]
    <3>1. OneFor(group) /\ OneFor(tree) /\ OneFor(answer)
      BY DEF JoinInv, RunsInv
    <3>2. ASSUME NEW d \in Devices
          PROVE  /\ group[d] \in GroupIds \cup {NoGroup}
                 /\ tree[d] \in TreeIds \cup {NoTree}
                 /\ answer[d] \in {0, 200, 400, 500}
      <4>1. RunIsOK(d)
        BY StepStarts
      <4> QED
        BY <4>1 DEF RunIsOK, RunOK
    <3> QED
      BY <3>1, <3>2 DEF OneFor
  <2>5. \A d \in Devices :
          /\ ~ Running(d) => subscription[d] = NoSubscription
          /\ phase[d] \in {"list", "listed", "joinProof", "modTrain"} =>
               group[d] # NoGroup /\ tree[d] # NoTree
    <3>1. ASSUME NEW d \in Devices
          PROVE  /\ phase[d] = "off" => subscription[d] = NoSubscription
                 /\ phase[d] \in Grouped => group[d] # NoGroup
                 /\ phase[d] \in Placed => tree[d] # NoTree
      <4>1. RunIsOK(d)
        BY StepStarts
      <4> QED
        BY <4>1 DEF RunIsOK, RunOK
    <3>2. Placed = {"list", "listed", "joinProof", "modTrain"} /\ Placed \subseteq Grouped
      BY DEF Placed, Grouped
    <3> QED
      BY <3>1, <3>2 DEF Running
  <2> QED
    BY <2>2, <2>3, <2>4, <2>5 DEF TypeOK
<1> QED
  BY <1>1, JoinInvHolds, PTL

(* The holder a credential names has its DID document on file, and its     *)
(* issuer has.                                                             *)
THEOREM CredentialsNameSavedHolders == Spec => []CredentialNamesSavedHolder
<1>1. JoinInv => CredentialNamesSavedHolder
  BY DEF JoinInv, CredentialsInv, DeviceOK, CredentialNamesSavedHolder
<1> QED
  BY <1>1, JoinInvHolds, PTL

(* A device holds one place of all groups at most: its requests name no    *)
(* other member, and no two places hold the same one.                      *)
THEOREM DevicesHoldOnePlace == Spec => []DeviceHoldsOnePlace
<1>1. JoinInv => DeviceHoldsOnePlace
  <2> SUFFICES ASSUME JoinInv, NEW d \in Devices, NEW s1 \in Subgroups, NEW s2 \in Subgroups,
                      NEW i \in DOMAIN subgroupMembers[s1], NEW j \in DOMAIN subgroupMembers[s2],
                      subgroupMembers[s1][i] \in AskedBy(d), subgroupMembers[s2][j] \in AskedBy(d)
               PROVE  s1 = s2 /\ i = j
    BY DEF DeviceHoldsOnePlace
  <2>1. AskedBy(d) \subseteq {d, Nobody} /\ d \in Commitments /\ Nobody \notin Leaves
    BY DeviceIsCommitment DEF AskedBy, JoinInv, RequestsInv
  <2>2. subgroupMembers[s1] \in Seq(Leaves) /\ subgroupMembers[s2] \in Seq(Leaves)
    BY DEF JoinInv, ChainInv, ForestInv, ForestTypeOK
  <2>3. /\ i \in 1 .. Len(subgroupMembers[s1]) /\ i \in Nat /\ subgroupMembers[s1][i] \in Leaves
        /\ j \in 1 .. Len(subgroupMembers[s2]) /\ j \in Nat /\ subgroupMembers[s2][j] \in Leaves
    BY <2>2
  <2>4. subgroupMembers[s1][i] = d /\ subgroupMembers[s2][j] = d
    BY <2>1, <2>3
  <2>5. Holds(subgroupMembers, s1, i, d) /\ Holds(subgroupMembers, s2, j, d)
    BY <2>3, <2>4 DEF Holds
  <2> QED
    BY <2>1, <2>3, <2>5 DEF JoinInv, ChainInv, ForestInv, NoDuplicateIn
<1> QED
  BY <1>1, JoinInvHolds, PTL

(* The subgroup a run takes for its own is one the device was added to.    *)
THEOREM TakenSubgroupsWereOwn == Spec => []TakenSubgroupWasOwn
<1>1. JoinInv => TakenSubgroupWasOwn
  <2> SUFFICES ASSUME JoinInv, NEW d \in Devices, tree[d] # NoTree
               PROVE  <<group[d], tree[d]>> \in Seqs!ToSet(additions[identity[d]])
    BY DEF TakenSubgroupWasOwn
  <2>1. <<group[d], tree[d]>> \in Own(d) /\ phase[d] \in Placed \cup {"adding", "ended"}
    BY DEF JoinInv, RunsInv, RunOK
  <2>2. phase[d] \in Identified
    BY <2>1 DEF Placed, Identified, Phases
  <2>3. identity[d] = d
    BY <2>2, StepStarts
  <2> QED
    BY <2>1, <2>3 DEF Own
<1> QED
  BY <1>1, JoinInvHolds, PTL

(* The event of an addition that a run waits for is taken or yet to come.  *)
THEOREM WaitsAreAnswered == Spec => []WaitIsAnswered
<1>1. JoinInv => WaitIsAnswered
  <2> SUFFICES ASSUME JoinInv, NEW d \in Devices, due[d], Waits(d)
               PROVE  Awaited(d) # {}
    BY DEF WaitIsAnswered
  <2>1. RunIsOK(d)
    BY StepStarts
  <2>2. \E i \in DOMAIN subscription[d]["MemberAdded"].queue :
          subscription[d]["MemberAdded"].queue[i][1] = group[d]
    BY <2>1 DEF RunIsOK, RunOK, Waits, Waiting
  <2> QED
    BY <2>2 DEF Awaited
<1> QED
  BY <1>1, JoinInvHolds, PTL

(* The server accepts every join proof, as long as no subgroup is made for *)
(* more than 2 ^ 32 members: the server makes its group for 1024.          *)
THEOREM JoinProofsAreAccepted ==
  ASSUME NoWiderTrees
  PROVE  Spec => []JoinProofAccepted
<1>1. JoinInv => JoinProofAccepted
  BY DEF JoinInv, RunsInv, RunOK, JoinProofAccepted
<1> QED
  BY <1>1, JoinInvHolds, PTL
=============================================================================
