------------------------- MODULE DeviceCredentials -------------------------
(***************************************************************************)
(* The credentials of a device: what getMyIdentityCommitment of the auth   *)
(* client does at every run, and the files it leaves behind.  Every run    *)
(* makes new random DIDs for the issuer and the holder and a credential    *)
(* for the holder; the Semaphore identity alone is kept, or else derived   *)
(* again from the device's serial number and MAC address.                  *)
(*                                                                         *)
(* A DID is named by its role and the run that made it.  A device's serial *)
(* number and address determine its identity and the commitment of it      *)
(* (SHA-256, EdDSA and Poseidon being injective), so the device, its       *)
(* secret and the identity are all named by the commitment.  A credential  *)
(* is verified in memory right after it was issued, which always succeeds. *)
(***************************************************************************)
EXTENDS LeanIMT, Integers

CONSTANTS
  Devices,     (* the devices: the identities their hardware determines    *)
  Nobody,      (* no identity, and no file                                 *)
  Torn,        (* what a file cut short by a crash holds                   *)
  MaxRuns      (* bound on the model: runs of the client on a device       *)

ASSUME DevicesHaveIdentities == Devices \subseteq Identities /\ Nobody \notin Leaves
ASSUME RunsAreCounted == MaxRuns \in Nat

VARIABLES
  run,       (* how many runs have been started                            *)
  phase,     (* what the current run does next, "off" when it is over      *)
  didDocs,   (* the DID documents on file                                  *)
  vcFile,    (* the run whose holder the credential on file is for         *)
  idFile,    (* the identity on file                                       *)
  identity   (* the identity the current run works with                    *)

credentialFiles == <<didDocs, vcFile, idFile>>
credentialVars  == <<run, phase, credentialFiles, identity>>

Roles == {"issuer", "holder"}

Document(role, r, content) == [role |-> role, run |-> r, content |-> content]

CredentialsInit ==
  /\ run      = [d \in Devices |-> 0]
  /\ phase    = [d \in Devices |-> "off"]
  /\ didDocs  = [d \in Devices |-> {}]
  /\ vcFile   = [d \in Devices |-> Nobody]
  /\ idFile   = [d \in Devices |-> Nobody]
  /\ identity = [d \in Devices |-> Nobody]

GoTo(d, next) == phase' = [phase EXCEPT ![d] = next]

StartRun(d) ==
  /\ phase[d] = "off" /\ run[d] < MaxRuns
  /\ run' = [run EXCEPT ![d] = @ + 1]
  /\ GoTo(d, "issuer")
  /\ UNCHANGED <<credentialFiles, identity>>

createAndSaveDIDDocument(d, role, content) ==
  didDocs' = [didDocs EXCEPT ![d] = @ \cup {Document(role, run[d], content)}]

createIssuerDID(d) ==
  /\ phase[d] = "issuer"
  /\ createAndSaveDIDDocument(d, "issuer", "whole")
  /\ GoTo(d, "holder")
  /\ UNCHANGED <<run, vcFile, idFile, identity>>

(* Mutant: the write of the document is not awaited, and is lost.          *)
HolderNotSaved(d) ==
  /\ phase[d] = "holder"
  /\ GoTo(d, "credential")
  /\ UNCHANGED <<run, credentialFiles, identity>>

createHolderDID(d) ==
  /\ phase[d] = "holder"
  /\ createAndSaveDIDDocument(d, "holder", "whole")
  /\ GoTo(d, "credential")
  /\ UNCHANGED <<run, vcFile, idFile, identity>>

(* The subject of the credential is the holder's DID of this run; its file *)
(* is named by the device and overwritten by every run.                    *)
issueVC(d) == run[d]

verifyVC(d, vc) == vc # Nobody

saveJSON(d, content) == vcFile' = [vcFile EXCEPT ![d] = content]

saveVC(d) ==
  /\ phase[d] = "credential"
  /\ verifyVC(d, issueVC(d))
  /\ saveJSON(d, issueVC(d))
  /\ GoTo(d, "identity")
  /\ UNCHANGED <<run, didDocs, idFile, identity>>

(* new Identity(hash of the serial number and the address).                *)
Identity(d) == d

Loadable(d) == idFile[d] \notin {Nobody, Torn}

loadIdentity(d) == idFile[d]

saveIdentity(d, content) == idFile' = [idFile EXCEPT ![d] = content]

(* Mutant: a file that cannot be read is replaced by a random identity.    *)
RandomWhenUnreadable(d) ==
  /\ phase[d] = "identity"
  /\ \E secret \in IF Loadable(d) THEN {loadIdentity(d)} ELSE Identities :
       /\ identity' = [identity EXCEPT ![d] = secret]
       /\ saveIdentity(d, secret)
  /\ GoTo(d, "start")
  /\ UNCHANGED <<run, didDocs, vcFile>>

(* The identity is loaded, or, whatever the error, derived and saved.      *)
generateIdentityFromVC(d) ==
  /\ phase[d] = "identity"
  /\ LET mine == IF Loadable(d) THEN loadIdentity(d) ELSE Identity(d)
     IN  /\ identity' = [identity EXCEPT ![d] = mine]
         /\ saveIdentity(d, mine)
  /\ GoTo(d, "start")
  /\ UNCHANGED <<run, didDocs, vcFile>>

(* The process is killed while it writes a file.                           *)
TearFile(d) ==
  \/ /\ phase[d] \in {"issuer", "holder"}
     /\ createAndSaveDIDDocument(d, phase[d], "torn")
     /\ UNCHANGED <<vcFile, idFile>>
  \/ /\ phase[d] = "credential"
     /\ saveJSON(d, Torn)
     /\ UNCHANGED <<didDocs, idFile>>
  \/ /\ phase[d] = "identity" /\ ~ Loadable(d)
     /\ saveIdentity(d, Torn)
     /\ UNCHANGED <<didDocs, vcFile>>

getMyIdentityCommitment(d) ==
  createIssuerDID(d) \/ createHolderDID(d) \/ saveVC(d) \/ generateIdentityFromVC(d)

-----------------------------------------------------------------------------
(***************************************************************************)
(* Properties.                                                             *)
(***************************************************************************)

(* Types; a run knows who it is from "start" on.                           *)
CredentialsTypeOK ==
  /\ run \in [Devices -> 0 .. MaxRuns]
  /\ \A d \in Devices :
       /\ didDocs[d] \subseteq [role : Roles, run : 1 .. run[d], content : {"whole", "torn"}]
       /\ vcFile[d] \in (1 .. run[d]) \cup {Nobody, Torn}
       /\ idFile[d] \in {d, Nobody, Torn}
       /\ identity[d] \in {d, Nobody}

(* A credential on file is for a holder whose DID document is on file, and *)
(* its issuer's too, wherever earlier runs and this one were killed.       *)
CredentialNamesSavedHolder ==
  \A d \in Devices :
    vcFile[d] \notin {Nobody, Torn} =>
      \A role \in Roles : Document(role, vcFile[d], "whole") \in didDocs[d]
=============================================================================
