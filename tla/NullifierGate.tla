--------------------------- MODULE NullifierGate ---------------------------
(***************************************************************************)
(* The handler of POST /group/:groupId/modtrain-proof in the auth server   *)
(* and the files in which it remembers the nullifiers it has seen.  Node   *)
(* runs one callback at a time: a handler runs undisturbed up to its await *)
(* of verifyProof, and again from the result of the verification to the    *)
(* answer, and other requests are handled in between.                      *)
(*                                                                         *)
(* There is a file per scope and nullifier, and both are taken from the    *)
(* body of the request: the handler compares neither with what the proof   *)
(* says.  So the same proof and nullifier can come with another scope, and *)
(* then have another file.                                                 *)
(* A write that a crash cuts short leaves a file that is not JSON.  Such a *)
(* file is read outside the handler's try, so reading it ends the process  *)
(* (an unhandled rejection).                                               *)
(***************************************************************************)
CONSTANTS
  Requests,    (* the requests clients make; a retry is one more request   *)
  Scopes,      (* the scopes they name                                     *)
  Nullifiers   (* the nullifiers they carry                                *)

VARIABLES
  body,     (* what each request carries, and what verifyProof says of it  *)
  phase,    (* how far each request has come                               *)
  status,   (* the HTTP status it was answered with, 0 before              *)
  file,     (* each nullifier's file: [], [nullifier], torn or absent     *)
  up        (* whether the server process is running                       *)

vars == <<body, phase, status, file, up>>

(* The proof itself is left out but for what verifyProof says of it.       *)
Bodies == [ scope : Scopes, nullifier : Nullifiers, complete : BOOLEAN,
            verdict : {"valid", "invalid", "throws"} ]

(* nullifierName, which names a file.                                      *)
NullifierNames == Scopes \X Nullifiers

nullifierName(r) == <<body[r].scope, body[r].nullifier>>

Init ==
  /\ body \in [Requests -> Bodies]
  /\ phase  = [r \in Requests |-> "unsent"]
  /\ status = [r \in Requests |-> 0]
  /\ file   = [name \in NullifierNames |-> "absent"]
  /\ up     = TRUE

FileOf(r) == file[nullifierName(r)]

Write(r, content) == file' = [file EXCEPT ![nullifierName(r)] = content]

Answer(r, code) ==
  /\ phase'  = [phase EXCEPT ![r] = "answered"]
  /\ status' = [status EXCEPT ![r] = code]

(* Mutant: the requests in progress survive the process.                   *)
StopKeepsRequests(r) ==
  /\ up' = FALSE
  /\ phase' = [phase EXCEPT ![r] = "lost"]

(* The process ends while it is busy with r: r and every request waiting   *)
(* for its verification lose their connection.                             *)
Stop(r) ==
  /\ up' = FALSE
  /\ phase' = [q \in Requests |->
                 IF q = r \/ phase[q] = "verifying" THEN "lost" ELSE phase[q]]

(* The handler up to its await.  Checking the nullifier creates its file.  *)
RefuseIncomplete(r) ==
  /\ up /\ phase[r] = "unsent"
  /\ ~ body[r].complete
  /\ Answer(r, 400)
  /\ UNCHANGED <<body, file, up>>

RefuseUsed(r) ==
  /\ up /\ phase[r] = "unsent"
  /\ body[r].complete
  /\ FileOf(r) = "used"
  /\ Answer(r, 400)
  /\ UNCHANGED <<body, file, up>>

StartVerification(r) ==
  /\ up /\ phase[r] = "unsent"
  /\ body[r].complete
  /\ FileOf(r) \in {"absent", "empty"}
  /\ Write(r, "empty")
  /\ phase' = [phase EXCEPT ![r] = "verifying"]
  /\ UNCHANGED <<body, status, up>>

ReadTornFile(r) ==
  /\ up /\ phase[r] = "unsent"
  /\ body[r].complete
  /\ FileOf(r) = "torn"
  /\ Stop(r)
  /\ UNCHANGED <<body, status, file>>

(* Mutant: the nullifier is not saved.                                     *)
AcceptUnsaved(r) ==
  /\ up /\ phase[r] = "verifying"
  /\ body[r].verdict = "valid"
  /\ Answer(r, 200)
  /\ UNCHANGED <<body, file, up>>

(* The handler after its await.  saveNullifier writes without looking      *)
(* whether the nullifier has been saved in the meantime.                   *)
Accept(r) ==
  /\ up /\ phase[r] = "verifying"
  /\ body[r].verdict = "valid"
  /\ Write(r, "used")
  /\ Answer(r, 200)
  /\ UNCHANGED <<body, up>>

(* Mutant: an exception thrown by verifyProof is not answered.             *)
RejectFalseOnly(r) ==
  /\ up /\ phase[r] = "verifying"
  /\ body[r].verdict = "invalid"
  /\ Answer(r, 400)
  /\ UNCHANGED <<body, file, up>>

Reject(r) ==
  /\ up /\ phase[r] = "verifying"
  /\ body[r].verdict # "valid"
  /\ Answer(r, IF body[r].verdict = "invalid" THEN 400 ELSE 500)
  /\ UNCHANGED <<body, file, up>>

(* The process is killed: between two callbacks, or while r writes a file, *)
(* which is then torn or complete but not answered for.                    *)
Crash ==
  /\ up
  /\ \E r \in Requests : phase[r] = "verifying" /\ Stop(r)
  /\ UNCHANGED <<body, status, file>>

CrashInWrite(r) ==
  /\ up
  /\ \/ /\ phase[r] = "unsent" /\ body[r].complete /\ FileOf(r) = "absent"
        /\ \E content \in {"torn", "empty"} : Write(r, content)
     \/ /\ phase[r] = "verifying" /\ body[r].verdict = "valid"
        /\ \E content \in {"torn", "used"} : Write(r, content)
  /\ Stop(r)
  /\ UNCHANGED <<body, status>>

ConnectionRefused(r) ==
  /\ ~ up /\ phase[r] = "unsent"
  /\ phase' = [phase EXCEPT ![r] = "lost"]
  /\ UNCHANGED <<body, status, file, up>>

Restart ==
  /\ ~ up
  /\ up' = TRUE
  /\ UNCHANGED <<body, phase, status, file>>

Before(r) == RefuseIncomplete(r) \/ RefuseUsed(r) \/ StartVerification(r) \/ ReadTornFile(r)

After(r) == Accept(r) \/ Reject(r)

Next ==
  \/ \E r \in Requests : Before(r) \/ After(r) \/ CrashInWrite(r) \/ ConnectionRefused(r)
  \/ Crash
  \/ Restart

(* The event loop runs the callback of a request that has arrived, and the *)
(* continuation of one whose verification has settled.  Nothing is assumed *)
(* of crashes, nor that anybody restarts the server.                       *)
Fairness == \A r \in Requests : WF_vars(Before(r)) /\ WF_vars(After(r))

Spec == Init /\ [][Next]_vars /\ Fairness

-----------------------------------------------------------------------------
(***************************************************************************)
(* Properties.                                                             *)
(***************************************************************************)

(* Types; a request is answered with a status, and only a running server   *)
(* has requests in progress.                                               *)
TypeOK ==
  /\ body \in [Requests -> Bodies]
  /\ phase \in [Requests -> {"unsent", "verifying", "answered", "lost"}]
  /\ status \in [Requests -> {0, 200, 400, 500}]
  /\ file \in [NullifierNames -> {"absent", "empty", "used", "torn"}]
  /\ up \in BOOLEAN
  /\ \A r \in Requests :
       /\ phase[r] = "answered" <=> status[r] # 0
       /\ phase[r] = "verifying" => up

(* Whatever was accepted stays refused: no request begins its verification *)
(* once a request with the same scope and nullifier has been answered with *)
(* 200, even when the server has crashed and restarted, in a write or not, *)
(* between the two.  (Requests that were already being verified can still  *)
(* be accepted: see NoDoubleUse.)                                          *)
NoVerificationOnceAccepted ==
  [][ \A r, q \in Requests :
        /\ phase[r] = "unsent" /\ phase'[r] = "verifying"
        /\ nullifierName(q) = nullifierName(r)
        => status[q] # 200
    ]_vars

(* A request whose verification has begun is answered, or its connection   *)
(* is closed because the server stopped; it is never left hanging.         *)
EveryRequestSettles ==
  \A r \in Requests : phase[r] = "verifying" ~> phase[r] \in {"answered", "lost"}

-----------------------------------------------------------------------------
(***************************************************************************)
(* What the handler says and does not do.                                  *)
(***************************************************************************)

(* authserver/index.ts refuses a nullifier "already used (double use)": no *)
(* nullifier should be accepted twice.                                     *)
NoDoubleUse ==
  \A r, q \in Requests :
    status[r] = 200 /\ status[q] = 200 /\ body[r].nullifier = body[q].nullifier => r = q

(* The same refusal, one request after the other: once a nullifier has     *)
(* been used, a later request with it should not be verified again,        *)
(* whatever scope its body names.                                          *)
UsedNullifierRefused ==
  [][ \A r, q \in Requests :
        /\ phase[r] = "unsent" /\ phase'[r] = "verifying"
        /\ body[q].nullifier = body[r].nullifier
        => status[q] # 200
    ]_vars
=============================================================================
