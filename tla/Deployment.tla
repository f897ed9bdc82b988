----------------------------- MODULE Deployment -----------------------------
(***************************************************************************)
(* How the contracts are deployed and recorded: the task "deploy" of the   *)
(* contracts package, with the helpers of its scripts, and the task        *)
(* "deploy:semaphore" of the hardhat package.                              *)
(*                                                                         *)
(* On a supported network "deploy" has every contract created by a proxy   *)
(* at an address that its code and arguments determine, does not wait for  *)
(* it, and records the three addresses in deployed-contracts.json with the *)
(* number of the block it started at.  On any other network it creates     *)
(* them itself, waits for each, and records nothing.  The task of the      *)
(* hardhat package never waits and never records.                          *)
(*                                                                         *)
(* At most one task at a time works on a network; tasks on two networks    *)
(* are two processes that share the file.                                  *)
(***************************************************************************)
EXTENDS Integers, Sequences, FiniteSets

CONSTANTS
  Supported,   (* the networks of supported-networks.ts                    *)
  Local,       (* any other networks                                       *)
  None,        (* undefined                                                *)
  Torn,        (* what a file cut short by a kill holds                    *)
  MaxRuns,     (* bound on the model: tasks ever started                   *)
  MaxOthers    (* bound on the model: contracts created by somebody else   *)

ASSUME NetworksAreDistinct == Supported \cap Local = {}

VARIABLES
  code,    (* per network: the contracts there are, each with its block    *)
  block,   (* per network: the number of the last block                    *)
  pool,    (* per network: the creations sent and not mined, nonces rising *)
  sent,    (* per network: every creation a task has sent                  *)
  lost,    (* per network: whether the node ever lost its pool             *)
  task,    (* per network: the task that runs, or None                     *)
  file,    (* deployed-contracts.json: per network its entry, or Torn      *)
  runs,    (* how many tasks were started                                  *)
  others   (* how many contracts somebody else has created                 *)

chain == <<code, block, pool, sent, lost>>
counts == <<runs, others>>
vars  == <<chain, task, file, counts>>

Networks == Supported \cup Local

isSupportedNetwork(n) == n \in Supported

Names == {"SemaphoreVerifier", "PoseidonT3", "Semaphore"}

ASSUME NoneIsNoName == None \notin Names

ASSUME BoundsAreNumbers == MaxRuns \in Nat /\ MaxOthers \in Nat

Init ==
  /\ code  = [n \in Networks |-> {}]
  /\ block = [n \in Networks |-> 0]
  /\ pool  = [n \in Networks |-> << >>]
  /\ sent  = [n \in Networks |-> {}]
  /\ lost  = [n \in Networks |-> FALSE]
  /\ task  = [n \in Networks |-> None]
  /\ file  = [n \in Supported |-> None]
  /\ runs  = 0 /\ others = 0

-----------------------------------------------------------------------------
(***************************************************************************)
(* Contracts.  A contract is what its address stands for: a name, the      *)
(* contracts it is linked to and constructed with, and, unless the proxy   *)
(* creates it, the number of the creation.                                 *)
(***************************************************************************)
Simple == [name : Names \ {"Semaphore"}, parts : {<< >>}, nonce : Nat]

Linked == [name : {"Semaphore"}, parts : Simple \X Simple, nonce : Nat]

ASSUME NoneIsNoContract == None \notin Simple \cup Linked

getCreate2Address(name, parts) == [name |-> name, parts |-> parts, nonce |-> 0]

getCreateAddress(n, name, parts) ==
  [name |-> name, parts |-> parts, nonce |-> Cardinality(sent[n]) + 1]

Created(n) == {c.contract : c \in code[n]}

BlockOf(n, contract) == (CHOOSE c \in code[n] : c.contract = contract).block

Put(n, contracts) ==
  /\ block' = [block EXCEPT ![n] = @ + 1]
  /\ code' = [code EXCEPT ![n] = @ \cup
       {[contract |-> c, block |-> block[n] + 1] : c \in contracts \ Created(n)}]

(* The transactions of an account are mined in the order of their nonces;  *)
(* the proxy reverts when the contract exists.                             *)
MineBlock(n) ==
  /\ pool[n] # << >>
  /\ \E k \in DOMAIN pool[n] :
       /\ Put(n, {pool[n][i] : i \in 1 .. k})
       /\ pool' = [pool EXCEPT ![n] = SubSeq(@, k + 1, Len(@))]
  /\ UNCHANGED <<sent, lost, task, file, counts>>

(* Somebody else has the proxy create one of the same contracts.           *)
OthersDeploy(n) ==
  LET verifier == getCreate2Address("SemaphoreVerifier", << >>)
      poseidon == getCreate2Address("PoseidonT3", << >>)
      parts    == <<verifier, poseidon>>
  IN
  /\ isSupportedNetwork(n) /\ others < MaxOthers
  /\ others' = others + 1
  /\ \E c \in {verifier, poseidon, getCreate2Address("Semaphore", parts)} \ Created(n) :
       /\ c.parts # << >> => {verifier, poseidon} \subseteq Created(n)
       /\ Put(n, {c})
  /\ UNCHANGED <<pool, sent, lost, task, file, runs>>

LosePool(n) ==
  /\ pool[n] # << >> /\ ~ lost[n]
  /\ pool' = [pool EXCEPT ![n] = << >>]
  /\ lost' = [lost EXCEPT ![n] = TRUE]
  /\ UNCHANGED <<code, block, sent, task, file, counts>>

-----------------------------------------------------------------------------
(***************************************************************************)
(* A task: what it was given, what it knows and what it is waiting for.    *)
(***************************************************************************)
(* The addresses passed with --verifier and --poseidon are those of        *)
(* contracts that exist.                                                   *)
Options(n, name) == {None} \cup {c \in Created(n) : c.name = name}

StartTask(n) ==
  /\ task[n] = None /\ runs < MaxRuns
  /\ runs' = runs + 1
  /\ \E plugin \in BOOLEAN, verifier \in Options(n, "SemaphoreVerifier"),
        poseidon \in Options(n, "PoseidonT3") :
       task' = [task EXCEPT ![n] =
         [plugin |-> plugin, startBlock |-> block[n], awaited |-> None, read |-> None,
          address |-> [name \in Names |-> CASE name = "SemaphoreVerifier" -> verifier
                                            [] name = "PoseidonT3" -> poseidon
                                            [] name = "Semaphore" -> None]]]
  /\ UNCHANGED <<chain, file, others>>

Running(n) == task[n] # None

End(n) == task' = [task EXCEPT ![n] = None]

(* Mutant: the library is taken to be linked in.                           *)
SkipsPoseidon(t) ==
  IF t.address["SemaphoreVerifier"] = None THEN "SemaphoreVerifier"
  ELSE IF t.address["Semaphore"] = None THEN "Semaphore" ELSE None

NextContract(t) ==
  IF t.address["SemaphoreVerifier"] = None THEN "SemaphoreVerifier"
  ELSE IF t.address["PoseidonT3"] = None THEN "PoseidonT3"
  ELSE IF t.address["Semaphore"] = None THEN "Semaphore" ELSE None

Parts(t, name) ==
  IF name = "Semaphore" THEN <<t.address["SemaphoreVerifier"], t.address["PoseidonT3"]>> ELSE << >>

Deploying(n) == Running(n) /\ task[n].awaited = None /\ NextContract(task[n]) # None

ByProxy(n) == isSupportedNetwork(n) /\ ~ task[n].plugin

Send(n, c) ==
  /\ pool' = [pool EXCEPT ![n] = Append(@, c)]
  /\ sent' = [sent EXCEPT ![n] = @ \cup {c}]
  /\ UNCHANGED <<code, block, lost>>

Learn(n, c) == task' = [task EXCEPT ![n].address[c.name] = c, ![n].awaited = None]

(* Mutant: an error of sendTransaction is caught and the address returned. *)
ProxyErrorsIgnored(n) ==
  LET name == NextContract(task[n])
      c    == getCreate2Address(name, Parts(task[n], name))
  IN
  /\ Deploying(n) /\ ByProxy(n)
  /\ Send(n, c) \/ UNCHANGED chain
  /\ Learn(n, c)
  /\ UNCHANGED <<file, counts>>

(* Sending needs an estimate of the gas, which fails once the contract     *)
(* exists.                                                                 *)
DeployByProxy(n) ==
  LET name == NextContract(task[n])
      c    == getCreate2Address(name, Parts(task[n], name))
  IN
  /\ Deploying(n) /\ ByProxy(n)
  /\ c \notin Created(n)
  /\ Send(n, c)
  /\ Learn(n, c)
  /\ UNCHANGED <<file, counts>>

DeployByFactory(n) ==
  LET name == NextContract(task[n])
      c    == getCreateAddress(n, name, Parts(task[n], name))
  IN
  /\ Deploying(n) /\ ~ ByProxy(n)
  /\ Send(n, c)
  /\ IF task[n].plugin THEN Learn(n, c) ELSE task' = [task EXCEPT ![n].awaited = c]
  /\ UNCHANGED <<file, counts>>

WaitForDeployment(n) ==
  /\ Running(n) /\ task[n].awaited # None /\ task[n].awaited \in Created(n)
  /\ Learn(n, task[n].awaited)
  /\ UNCHANGED <<chain, file, counts>>

(***************************************************************************)
(* saveDeployedContracts reads the file and writes it in one go, but other *)
(* processes may write it in between.                                      *)
(***************************************************************************)
Saving(n) == Running(n) /\ NextContract(task[n]) = None /\ ByProxy(n)

SaveReads(n) ==
  /\ Saving(n) /\ task[n].read = None /\ file # Torn
  /\ task' = [task EXCEPT ![n].read = file]
  /\ UNCHANGED <<chain, file, counts>>

(* Mutant: the block is that of the end of the task.                       *)
WritesLastBlock(n) ==
  /\ Saving(n) /\ task[n].read # None
  /\ file' = [task[n].read EXCEPT ![n] =
       [address |-> task[n].address, startBlock |-> block[n]]]
  /\ End(n)
  /\ UNCHANGED <<chain, counts>>

SaveWrites(n) ==
  /\ Saving(n) /\ task[n].read # None
  /\ file' = [task[n].read EXCEPT ![n] =
       [address |-> task[n].address, startBlock |-> task[n].startBlock]]
  /\ End(n)
  /\ UNCHANGED <<chain, counts>>

(* A task that records nothing is over; one that cannot send, or finds the *)
(* file torn, throws; and any task may be killed.                          *)
EndTask(n) ==
  /\ Running(n)
  /\ End(n)
  /\ UNCHANGED <<chain, file, counts>>

KillInWrite(n) ==
  /\ Saving(n) /\ task[n].read # None
  /\ file' = Torn
  /\ End(n)
  /\ UNCHANGED <<chain, counts>>

Step(n) ==
  \/ MineBlock(n) \/ OthersDeploy(n) \/ LosePool(n)
  \/ StartTask(n) \/ DeployByProxy(n) \/ DeployByFactory(n) \/ WaitForDeployment(n)
  \/ SaveReads(n) \/ SaveWrites(n) \/ EndTask(n) \/ KillInWrite(n)

Next == \E n \in Networks : Step(n)

(* The network goes on mining what it is sent.                             *)
Spec == Init /\ [][Next]_vars /\ \A n \in Networks : WF_vars(MineBlock(n))

-----------------------------------------------------------------------------
(***************************************************************************)
(* What the other packages read.                                           *)
(***************************************************************************)
getDeployedContractsByNetwork(n) == file[n]

Recorded(n) == file # Torn /\ getDeployedContractsByNetwork(n) # None

getDeployedContractAddress(n, name) == getDeployedContractsByNetwork(n).address[name]

getDeployedContract(n) ==
  [address |-> getDeployedContractAddress(n, "Semaphore"),
   startBlock |-> getDeployedContractsByNetwork(n).startBlock]

-----------------------------------------------------------------------------
(***************************************************************************)
(* Properties.                                                             *)
(***************************************************************************)

(* Types; a contract is linked to contracts, and an entry is complete.     *)
TypeOK ==
  /\ runs \in 0 .. MaxRuns
  /\ \A n \in Networks :
       /\ Created(n) \cap {None} = {}
       /\ \A c \in Created(n) \cup sent[n] :
            c.name = "Semaphore" => \A i \in 1 .. 2 : c.parts[i] # None
       /\ \A i \in DOMAIN pool[n] : pool[n][i] \in sent[n]
       /\ Running(n) => \A name \in Names :
            task[n].address[name] # None => task[n].address[name].name = name
  /\ \A n \in Supported : Recorded(n) =>
       \A name \in Names : getDeployedContractAddress(n, name).name = name

(* The start block of a recorded Semaphore contract is not after its       *)
(* creation, so whoever reads its events from there on misses none: even   *)
(* when a task is run again while an earlier one's transactions are still  *)
(* pending, or when somebody else creates the contract first.              *)
StartBlockCovers ==
  \A n \in Supported :
    Recorded(n) /\ getDeployedContract(n).address \in Created(n) =>
      getDeployedContract(n).startBlock <= BlockOf(n, getDeployedContract(n).address)

(* A Semaphore contract that exists can call its verifier and its library, *)
(* although no task waits for them on a supported network: unless the node *)
(* lost transactions.                                                      *)
SemaphoreFindsItsParts ==
  \A n \in Networks : ~ lost[n] =>
    \A c \in Created(n) : \A i \in DOMAIN c.parts : c.parts[i] \in Created(n)

(* An entry of the file is the record of one run: its Semaphore contract   *)
(* was sent, and is linked to the verifier and the library beside it, as   *)
(* verify-contracts.ts presumes; however tasks overwrite each other's file. *)
RecordIsOfOneRun ==
  \A n \in Supported : Recorded(n) =>
    LET semaphore == getDeployedContract(n).address IN
    /\ semaphore \in sent[n]
    /\ semaphore.parts = <<getDeployedContractAddress(n, "SemaphoreVerifier"),
                           getDeployedContractAddress(n, "PoseidonT3")>>

(* What is recorded without waiting comes to exist, unless the node lost   *)
(* transactions.                                                           *)
RecordedComesToExist ==
  \A n \in Supported :
    Recorded(n) ~> \/ ~ Recorded(n) \/ lost[n]
                   \/ \A name \in Names : getDeployedContractAddress(n, name) \in Created(n)
=============================================================================
