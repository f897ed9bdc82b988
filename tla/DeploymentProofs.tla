-------------------------- MODULE DeploymentProofs --------------------------
(***************************************************************************)
(* Proofs about Deployment, for any networks and any number of tasks: a    *)
(* recorded start block covers the contract, a record is of one run, and a *)
(* Semaphore contract finds its parts.                                     *)
(*                                                                         *)
(* The parts of the invariant take the state of the network as parameters, *)
(* the contracts cs, the last block b and the creations sent s, so that    *)
(* what a step of the chain does to them is said once (EntryKept).         *)
(***************************************************************************)
EXTENDS Deployment, TLAPS, FiniteSetTheorems, SequenceTheorems

(* What is known of the addresses a run knows, its Semaphore contract      *)
(* among them: the contract was sent, with the other two as its parts, and *)
(* exists, if at all, since a block after the one the run started at.      *)
Entry(address, start, cs, b, s) ==
  /\ start \in Nat /\ start <= b
  /\ address["Semaphore"] \in s
  /\ address["Semaphore"].parts = <<address["SemaphoreVerifier"], address["PoseidonT3"]>>
  /\ \A c \in cs : c.contract = address["Semaphore"] => start <= c.block

FileHolds(f, cs, b, s) ==
  /\ f = [n \in Supported |-> f[n]]
  /\ \A n \in Supported : f[n] # None => Entry(f[n].address, f[n].startBlock, cs[n], b[n], s[n])

Shape(t) ==
  /\ t = [plugin |-> t.plugin, startBlock |-> t.startBlock, awaited |-> t.awaited,
          read |-> t.read, address |-> t.address]
  /\ t.address = [name \in Names |-> t.address[name]]

(* A task that records its contracts awaits none, and sends the Semaphore  *)
(* contract last.                                                          *)
ProxyTaskHolds(t, cs, b, s) ==
  /\ t.awaited = None
  /\ t.address["Semaphore"] # None =>
       /\ t.address["SemaphoreVerifier"] # None /\ t.address["PoseidonT3"] # None
       /\ Entry(t.address, t.startBlock, cs, b, s)

TaskHolds(n, t, cs, b, s) ==
  t # None =>
    /\ Shape(t)
    /\ t.startBlock \in Nat /\ t.startBlock <= b[n]
    /\ t.awaited # None => t.awaited.name \in Names
    /\ n \in Supported /\ ~ t.plugin => ProxyTaskHolds(t, cs[n], b[n], s[n])
    /\ t.read # None => FileHolds(t.read, cs, b, s)

ChainTypes ==
  /\ code = [n \in Networks |-> code[n]]
  /\ sent = [n \in Networks |-> sent[n]]
  /\ task = [n \in Networks |-> task[n]]
  /\ block \in [Networks -> Nat]

DeployInv ==
  /\ ChainTypes
  /\ file # Torn => FileHolds(file, code, block, sent)
  /\ \A n \in Networks : TaskHolds(n, task[n], code, block, sent)

-----------------------------------------------------------------------------
(* What a step may do to the chain: it creates contracts in new blocks.    *)
Grows(cs, b, s, csNew, bNew, sNew) ==
  \A n \in Networks :
    /\ b[n] \in Nat /\ bNew[n] \in Nat /\ b[n] <= bNew[n]
    /\ s[n] \subseteq sNew[n]
    /\ \A c \in csNew[n] : c \in cs[n] \/ (c.block \in Nat /\ b[n] <= c.block)

(* What is known of an entry stays true when the chain grows.              *)
LEMMA EntryKept ==
  ASSUME NEW cs, NEW b, NEW s, NEW csNew, NEW bNew, NEW sNew,
         Grows(cs, b, s, csNew, bNew, sNew),
         NEW n \in Networks, NEW address, NEW start,
         Entry(address, start, cs[n], b[n], s[n])
  PROVE  Entry(address, start, csNew[n], bNew[n], sNew[n])
<1>1. /\ b[n] \in Nat /\ bNew[n] \in Nat /\ b[n] <= bNew[n]
      /\ s[n] \subseteq sNew[n]
      /\ \A c \in csNew[n] : c \in cs[n] \/ (c.block \in Nat /\ b[n] <= c.block)
  BY DEF Grows
<1>2. /\ start \in Nat /\ start <= b[n]
      /\ address["Semaphore"] \in s[n]
      /\ address["Semaphore"].parts = <<address["SemaphoreVerifier"], address["PoseidonT3"]>>
      /\ \A c \in cs[n] : c.contract = address["Semaphore"] => start <= c.block
  BY DEF Entry
<1>3. start <= bNew[n]
  BY <1>1, <1>2
<1>4. ASSUME NEW c \in csNew[n], c.contract = address["Semaphore"] PROVE start <= c.block
  <2>1. CASE c \in cs[n]
    BY <2>1, <1>4, <1>2
  <2>2. CASE c.block \in Nat /\ b[n] <= c.block
    BY <2>2, <1>1, <1>2
  <2> QED
    BY <2>1, <2>2, <1>1
<1> QED
  BY <1>1, <1>2, <1>3, <1>4 DEF Entry

(* So do the record and a task, of which that is all the invariant says.   *)
LEMMA FileKept ==
  ASSUME NEW cs, NEW b, NEW s, NEW csNew, NEW bNew, NEW sNew,
         Grows(cs, b, s, csNew, bNew, sNew), NEW f, FileHolds(f, cs, b, s)
  PROVE  FileHolds(f, csNew, bNew, sNew)
<1>1. ASSUME NEW n \in Supported, f[n] # None
      PROVE  Entry(f[n].address, f[n].startBlock, csNew[n], bNew[n], sNew[n])
  BY <1>1, EntryKept DEF FileHolds, Networks
<1> QED
  BY <1>1 DEF FileHolds

LEMMA TaskKept ==
  ASSUME NEW cs, NEW b, NEW s, NEW csNew, NEW bNew, NEW sNew,
         Grows(cs, b, s, csNew, bNew, sNew),
         NEW n \in Networks, NEW t, TaskHolds(n, t, cs, b, s)
  PROVE  TaskHolds(n, t, csNew, bNew, sNew)
<1> SUFFICES ASSUME t # None PROVE TaskHolds(n, t, csNew, bNew, sNew)
  BY DEF TaskHolds
<1>1. /\ Shape(t) /\ t.startBlock \in Nat /\ t.startBlock <= b[n]
      /\ t.awaited # None => t.awaited.name \in Names
  BY DEF TaskHolds
<1>2. t.startBlock <= bNew[n]
  BY <1>1 DEF Grows
<1>3. ASSUME n \in Supported, ~ t.plugin
      PROVE  ProxyTaskHolds(t, csNew[n], bNew[n], sNew[n])
  BY <1>3, EntryKept DEF TaskHolds, ProxyTaskHolds
<1>4. ASSUME t.read # None PROVE FileHolds(t.read, csNew, bNew, sNew)
  BY <1>4, FileKept DEF TaskHolds
<1> QED
  BY <1>1, <1>2, <1>3, <1>4 DEF TaskHolds

-----------------------------------------------------------------------------
(* The invariant after a step that lets the chain grow, once it is clear   *)
(* what the step does to the file and to the task of its own network.      *)
LEMMA StepKeeps ==
  ASSUME DeployInv, NEW n \in Networks, ChainTypes',
         Grows(code, block, sent, code', block', sent'),
         file' # Torn => file' = file \/ FileHolds(file', code', block', sent'),
         \A m \in Networks \ {n} : task'[m] = task[m],
         task'[n] = task[n] \/ TaskHolds(n, task'[n], code', block', sent')
  PROVE  DeployInv'
<1>1. file' # Torn => FileHolds(file', code', block', sent')
  BY FileKept DEF DeployInv
<1>2. ASSUME NEW m \in Networks PROVE TaskHolds(m, task'[m], code', block', sent')
  <2>1. CASE task'[m] = task[m]
    BY <2>1, TaskKept DEF DeployInv
  <2>2. CASE m = n /\ TaskHolds(n, task'[n], code', block', sent')
    BY <2>2
  <2> QED
    BY <2>1, <2>2
<1> QED
  BY <1>1, <1>2 DEF DeployInv

(* A chain that does not change grows.                                     *)
LEMMA SameGrows ==
  ASSUME ChainTypes, UNCHANGED <<code, block, sent>>
  PROVE  Grows(code, block, sent, code', block', sent')
  BY DEF ChainTypes, Grows

(* Put creates contracts in a new block.                                   *)
LEMMA PutGrows ==
  ASSUME ChainTypes, NEW n \in Networks, NEW contracts, Put(n, contracts),
         UNCHANGED <<sent, task>>
  PROVE  ChainTypes' /\ Grows(code, block, sent, code', block', sent')
<1>1. ChainTypes'
  BY DEF ChainTypes, Put
<1>2. ASSUME NEW m \in Networks, NEW c \in code'[m]
      PROVE  c \in code[m] \/ (c.block \in Nat /\ block[m] <= c.block)
  BY <1>2 DEF ChainTypes, Put
<1>3. \A m \in Networks : block[m] \in Nat /\ block'[m] \in Nat /\ block[m] <= block'[m]
  BY DEF ChainTypes, Put
<1> QED
  BY <1>1, <1>2, <1>3 DEF Grows

(* Send only adds to what was sent.                                        *)
LEMMA SendGrows ==
  ASSUME ChainTypes, NEW n \in Networks, NEW c, Send(n, c),
         task' = [m \in Networks |-> task'[m]]
  PROVE  /\ ChainTypes' /\ Grows(code, block, sent, code', block', sent')
         /\ c \in sent'[n]
<1>1. ChainTypes'
  BY DEF ChainTypes, Send
<1>2. \A m \in Networks : sent[m] \subseteq sent'[m]
  BY DEF ChainTypes, Send
<1> QED
  BY <1>1, <1>2 DEF ChainTypes, Send, Grows

-----------------------------------------------------------------------------
(* The invariant holds initially.                                          *)
LEMMA DeployInit == Init => DeployInv
  BY DEF Init, DeployInv, ChainTypes, FileHolds, TaskHolds

(* Steps of the chain.                                                     *)
LEMMA ChainKeeps ==
  ASSUME DeployInv, NEW n \in Networks, MineBlock(n) \/ OthersDeploy(n) \/ LosePool(n)
  PROVE  DeployInv'
<1>1. CASE MineBlock(n)
  <2>1. PICK k \in DOMAIN pool[n] : Put(n, {pool[n][i] : i \in 1 .. k})
    BY <1>1 DEF MineBlock
  <2>2. ChainTypes' /\ Grows(code, block, sent, code', block', sent')
    BY <1>1, <2>1, PutGrows DEF MineBlock, DeployInv
  <2> QED
    BY <1>1, <2>2, StepKeeps DEF MineBlock
<1>2. CASE OthersDeploy(n)
  <2>1. PICK c : Put(n, {c})
    BY <1>2 DEF OthersDeploy
  <2>2. ChainTypes' /\ Grows(code, block, sent, code', block', sent')
    BY <1>2, <2>1, PutGrows DEF OthersDeploy, DeployInv
  <2> QED
    BY <1>2, <2>2, StepKeeps DEF OthersDeploy
<1>3. CASE LosePool(n)
  <2>1. Grows(code, block, sent, code', block', sent')
    BY <1>3, SameGrows DEF LosePool, DeployInv
  <2>2. ChainTypes'
    BY <1>3 DEF LosePool, DeployInv, ChainTypes
  <2> QED
    BY <1>3, <2>1, <2>2, StepKeeps DEF LosePool
<1> QED
  BY <1>1, <1>2, <1>3

(* A task is started before the blocks it will record, and knows nothing   *)
(* of a Semaphore contract.                                                *)
LEMMA StartKeeps ==
  ASSUME DeployInv, NEW n \in Networks, StartTask(n)
  PROVE  DeployInv'
<1> DEFINE Given(name, verifier, poseidon) ==
             CASE name = "SemaphoreVerifier" -> verifier
               [] name = "PoseidonT3" -> poseidon
               [] name = "Semaphore" -> None
           Known(verifier, poseidon) == [name \in Names |-> Given(name, verifier, poseidon)]
<1>1. PICK plugin, address :
        /\ address = [name \in Names |-> address[name]] /\ address["Semaphore"] = None
        /\ task' = [task EXCEPT ![n] =
             [plugin |-> plugin, startBlock |-> block[n], awaited |-> None, read |-> None,
              address |-> address]]
  <2>1. PICK plugin \in BOOLEAN, verifier \in Options(n, "SemaphoreVerifier"),
             poseidon \in Options(n, "PoseidonT3") :
          task' = [task EXCEPT ![n] =
            [plugin |-> plugin, startBlock |-> block[n], awaited |-> None, read |-> None,
             address |-> Known(verifier, poseidon)]]
    BY Zenon DEF StartTask
  <2>2. Known(verifier, poseidon)["Semaphore"] = None
    BY DEF Names
  <2>3. Known(verifier, poseidon)
          = [name \in Names |-> Known(verifier, poseidon)[name]]
    <3> HIDE DEF Given
    <3> QED
      OBVIOUS
  <2> HIDE DEF Known
  <2> QED
    BY <2>1, <2>2, <2>3
<1>2. ChainTypes' /\ Grows(code, block, sent, code', block', sent')
  <2>1. ChainTypes'
    BY <1>1 DEF StartTask, chain, DeployInv, ChainTypes
  <2> QED
    BY <2>1, SameGrows DEF StartTask, chain, DeployInv
<1>3. TaskHolds(n, task'[n], code', block', sent')
  <2>1. task'[n] =
          [plugin |-> plugin, startBlock |-> block[n], awaited |-> None, read |-> None,
           address |-> address]
    BY <1>1 DEF DeployInv, ChainTypes
  <2>2. block[n] \in Nat /\ block'[n] = block[n]
    BY DEF DeployInv, ChainTypes, StartTask, chain
  <2>3. Shape(task'[n])
    BY <1>1, <2>1 DEF Shape
  <2>4. task'[n].address["Semaphore"] = None
    BY <1>1, <2>1
  <2> QED
    BY <2>1, <2>2, <2>3, <2>4 DEF TaskHolds, ProxyTaskHolds
<1> QED
  BY <1>1, <1>2, <1>3, StepKeeps DEF StartTask, DeployInv, ChainTypes

(* What a task knows after it learnt the address c.                        *)
LEMMA Learnt ==
  ASSUME DeployInv, NEW n \in Networks, Running(n), NEW c, c.name \in Names, Learn(n, c)
  PROVE  /\ \A m \in Networks \ {n} : task'[m] = task[m]
         /\ task' = [m \in Networks |-> task'[m]]
         /\ Shape(task'[n])
         /\ task'[n] = [plugin |-> task[n].plugin, startBlock |-> task[n].startBlock,
                         awaited |-> None, read |-> task[n].read,
                         address |-> [task[n].address EXCEPT ![c.name] = c]]
<1>1. task = [m \in Networks |-> task[m]] /\ Shape(task[n])
  BY DEF DeployInv, ChainTypes, TaskHolds, Running
<1>2. task'[n] = [plugin |-> task[n].plugin, startBlock |-> task[n].startBlock,
                  awaited |-> None, read |-> task[n].read,
                  address |-> [task[n].address EXCEPT ![c.name] = c]]
  BY <1>1 DEF Learn, Shape
<1>3. Shape(task'[n])
  BY <1>1, <1>2 DEF Shape
<1> QED
  BY <1>1, <1>2, <1>3 DEF Learn

(* The proxy creates Semaphore after its parts are known, and only if it   *)
(* does not exist yet.                                                     *)
LEMMA ProxyKeeps ==
  ASSUME DeployInv, NEW n \in Networks, DeployByProxy(n)
  PROVE  DeployInv'
<1> DEFINE name == NextContract(task[n])
           c    == getCreate2Address(name, Parts(task[n], name))
<1>1. /\ Running(n) /\ name \in Names /\ n \in Supported /\ ~ task[n].plugin
      /\ c \notin Created(n) /\ Send(n, c) /\ Learn(n, c) /\ file' = file
      /\ task[n].address[name] = None
  BY DEF DeployByProxy, Deploying, ByProxy, isSupportedNetwork, NextContract, Names
<1>2. c.name = name /\ c.parts = Parts(task[n], name)
  BY DEF getCreate2Address
<1> HIDE DEF name, c
<1>3. /\ \A m \in Networks \ {n} : task'[m] = task[m]
      /\ task' = [m \in Networks |-> task'[m]]
      /\ Shape(task'[n])
      /\ task'[n] = [plugin |-> task[n].plugin, startBlock |-> task[n].startBlock,
                      awaited |-> None, read |-> task[n].read,
                      address |-> [task[n].address EXCEPT ![name] = c]]
  BY <1>1, <1>2, Learnt
<1>4. ChainTypes' /\ Grows(code, block, sent, code', block', sent') /\ c \in sent'[n]
  BY <1>1, <1>3, SendGrows DEF DeployInv
<1>5. /\ Shape(task[n]) /\ task[n].startBlock \in Nat /\ task[n].startBlock <= block[n]
      /\ ProxyTaskHolds(task[n], code[n], block[n], sent[n])
      /\ task[n].read # None => FileHolds(task[n].read, code, block, sent)
  BY <1>1 DEF DeployInv, TaskHolds, Running
<1>6. /\ task'[n].startBlock = task[n].startBlock /\ task'[n].plugin = task[n].plugin
      /\ task'[n].read = task[n].read /\ task'[n].awaited = None
      /\ task'[n].address = [task[n].address EXCEPT ![name] = c]
      /\ code' = code /\ block' = block
  BY <1>1, <1>3 DEF Send
<1>7. ProxyTaskHolds(task'[n], code'[n], block'[n], sent'[n])
  <2> SUFFICES ASSUME task'[n].address["Semaphore"] # None
               PROVE  /\ task'[n].address["SemaphoreVerifier"] # None
                      /\ task'[n].address["PoseidonT3"] # None
                      /\ Entry(task'[n].address, task'[n].startBlock,
                               code'[n], block'[n], sent'[n])
    BY <1>6 DEF ProxyTaskHolds
  <2>1. name = "Semaphore"
    <3>1. CASE task[n].address["Semaphore"] # None
      <4>1. task[n].address["SemaphoreVerifier"] # None /\ task[n].address["PoseidonT3"] # None
        BY <3>1, <1>5 DEF ProxyTaskHolds
      <4>2. name = None
        BY <3>1, <4>1 DEF name, NextContract
      <4> QED
        BY <4>2, <1>1, NoneIsNoName
    <3>2. CASE task[n].address["Semaphore"] = None
      BY <3>2, <1>5, <1>6 DEF Shape, Names
    <3> QED
      BY <3>1, <3>2
  <2>2. task[n].address["SemaphoreVerifier"] # None /\ task[n].address["PoseidonT3"] # None
    BY <2>1 DEF name, NextContract
  <2>3. /\ task'[n].address["SemaphoreVerifier"] = task[n].address["SemaphoreVerifier"]
        /\ task'[n].address["PoseidonT3"] = task[n].address["PoseidonT3"]
        /\ task'[n].address["Semaphore"] = c
    BY <2>1, <1>5, <1>6 DEF Shape, Names
  <2>4. c.parts = <<task[n].address["SemaphoreVerifier"], task[n].address["PoseidonT3"]>>
    BY <2>1, <1>2 DEF Parts
  <2>5. \A x \in code'[n] : x.contract # c
    BY <1>1, <1>6 DEF Created
  <2> QED
    BY <2>2, <2>3, <2>4, <2>5, <1>4, <1>5, <1>6 DEF Entry
<1>8. TaskHolds(n, task'[n], code', block', sent')
  <2>1. task'[n].read # None => FileHolds(task'[n].read, code', block', sent')
    BY <1>4, <1>5, <1>6, FileKept
  <2> QED
    BY <2>1, <1>3, <1>5, <1>6, <1>7 DEF TaskHolds
<1> QED
  BY <1>1, <1>3, <1>4, <1>8, StepKeeps

(* A task that the proxy does not serve has nothing to record.             *)
LEMMA FactoryKeeps ==
  ASSUME DeployInv, NEW n \in Networks, DeployByFactory(n)
  PROVE  DeployInv'
<1> DEFINE name == NextContract(task[n])
           c    == getCreateAddress(n, name, Parts(task[n], name))
<1>1. /\ Running(n) /\ name \in Names /\ ~ (n \in Supported /\ ~ task[n].plugin)
      /\ Send(n, c) /\ file' = file
      /\ Learn(n, c) \/ task' = [task EXCEPT ![n].awaited = c]
  BY DEF DeployByFactory, Deploying, ByProxy, isSupportedNetwork, NextContract, Names
<1>2. c.name = name
  BY DEF getCreateAddress
<1> HIDE DEF name, c
<1>3. /\ Shape(task[n]) /\ task[n].startBlock \in Nat /\ task[n].startBlock <= block[n]
      /\ task[n].read # None => FileHolds(task[n].read, code, block, sent)
      /\ task = [m \in Networks |-> task[m]]
  BY <1>1 DEF DeployInv, TaskHolds, Running, ChainTypes
<1>4. /\ \A m \in Networks \ {n} : task'[m] = task[m]
      /\ task' = [m \in Networks |-> task'[m]]
      /\ Shape(task'[n])
      /\ task'[n].startBlock = task[n].startBlock /\ task'[n].plugin = task[n].plugin
      /\ task'[n].read = task[n].read
      /\ task'[n].awaited # None => task'[n].awaited.name \in Names
  <2>1. CASE Learn(n, c)
    <3>1. task'[n] = [plugin |-> task[n].plugin, startBlock |-> task[n].startBlock,
                      awaited |-> None, read |-> task[n].read,
                      address |-> [task[n].address EXCEPT ![name] = c]]
      BY <2>1, <1>1, <1>2, Learnt
    <3> QED
      BY <3>1, <2>1, <1>1, <1>2, Learnt
  <2>2. CASE task' = [task EXCEPT ![n].awaited = c]
    <3>1. task'[n] = [plugin |-> task[n].plugin, startBlock |-> task[n].startBlock,
                      awaited |-> c, read |-> task[n].read, address |-> task[n].address]
      BY <2>2, <1>3 DEF Shape
    <3>2. Shape(task'[n])
      BY <3>1, <1>3 DEF Shape
    <3> QED
      BY <3>1, <3>2, <2>2, <1>2, <1>1, <1>3
  <2> QED
    BY <2>1, <2>2, <1>1
<1>5. ChainTypes' /\ Grows(code, block, sent, code', block', sent') /\ block' = block
  BY <1>1, <1>4, SendGrows DEF DeployInv, Send
<1>6. TaskHolds(n, task'[n], code', block', sent')
  <2>1. task'[n].read # None => FileHolds(task'[n].read, code', block', sent')
    BY <1>3, <1>4, <1>5, FileKept
  <2> QED
    BY <2>1, <1>1, <1>3, <1>4, <1>5 DEF TaskHolds
<1> QED
  BY <1>1, <1>4, <1>5, <1>6, StepKeeps

(* Only a task that the proxy does not serve waits.                        *)
LEMMA WaitKeeps ==
  ASSUME DeployInv, NEW n \in Networks, WaitForDeployment(n)
  PROVE  DeployInv'
<1>1. Running(n) /\ task[n].awaited # None /\ Learn(n, task[n].awaited) /\ file' = file
  BY DEF WaitForDeployment
<1>2. /\ Shape(task[n]) /\ task[n].startBlock \in Nat /\ task[n].startBlock <= block[n]
      /\ task[n].read # None => FileHolds(task[n].read, code, block, sent)
      /\ task[n].awaited.name \in Names
      /\ ~ (n \in Supported /\ ~ task[n].plugin)
  BY <1>1 DEF DeployInv, TaskHolds, Running, ProxyTaskHolds
<1>3. /\ \A m \in Networks \ {n} : task'[m] = task[m]
      /\ task' = [m \in Networks |-> task'[m]]
      /\ Shape(task'[n])
      /\ task'[n].startBlock = task[n].startBlock /\ task'[n].plugin = task[n].plugin
      /\ task'[n].read = task[n].read /\ task'[n].awaited = None
  <2>1. task'[n] = [plugin |-> task[n].plugin, startBlock |-> task[n].startBlock,
                    awaited |-> None, read |-> task[n].read,
                    address |-> [task[n].address EXCEPT ![task[n].awaited.name] = task[n].awaited]]
    BY <1>1, <1>2, Learnt
  <2> QED
    BY <2>1, <1>1, <1>2, Learnt
<1>4. UNCHANGED <<code, block, sent>>
  BY DEF WaitForDeployment, chain
<1>5. ChainTypes' /\ Grows(code, block, sent, code', block', sent')
  BY <1>3, <1>4, SameGrows DEF DeployInv, ChainTypes
<1>6. TaskHolds(n, task'[n], code', block', sent')
  BY <1>2, <1>3, <1>4 DEF TaskHolds
<1> QED
  BY <1>1, <1>3, <1>5, <1>6, StepKeeps

(* What a task has read of the file is worth what the file was worth.      *)
LEMMA ReadKeeps ==
  ASSUME DeployInv, NEW n \in Networks, SaveReads(n)
  PROVE  DeployInv'
<1>1. /\ task' = [task EXCEPT ![n].read = file] /\ file # Torn /\ file' = file
      /\ UNCHANGED <<code, block, sent>> /\ Running(n)
  BY DEF SaveReads, Saving, chain
<1>2. /\ Shape(task[n]) /\ task[n].startBlock \in Nat /\ task[n].startBlock <= block[n]
      /\ task[n].awaited # None => task[n].awaited.name \in Names
      /\ n \in Supported /\ ~ task[n].plugin =>
           ProxyTaskHolds(task[n], code[n], block[n], sent[n])
      /\ task = [m \in Networks |-> task[m]]
  BY <1>1 DEF DeployInv, TaskHolds, Running, ChainTypes
<1>3. task'[n] = [plugin |-> task[n].plugin, startBlock |-> task[n].startBlock,
                  awaited |-> task[n].awaited, read |-> file, address |-> task[n].address]
  BY <1>1, <1>2 DEF Shape
<1>4. ChainTypes' /\ Grows(code, block, sent, code', block', sent')
  BY <1>1, <1>2, SameGrows DEF DeployInv, ChainTypes
<1>5. TaskHolds(n, task'[n], code', block', sent')
  <2>1. Shape(task'[n])
    BY <1>2, <1>3 DEF Shape
  <2>2. FileHolds(task'[n].read, code', block', sent')
    BY <1>1, <1>3 DEF DeployInv
  <2>3. n \in Supported /\ ~ task'[n].plugin =>
          ProxyTaskHolds(task'[n], code'[n], block'[n], sent'[n])
    BY <1>1, <1>2, <1>3 DEF ProxyTaskHolds
  <2> QED
    BY <2>1, <2>2, <2>3, <1>1, <1>2, <1>3 DEF TaskHolds
<1> QED
  BY <1>1, <1>4, <1>5, StepKeeps

(* A task replaces its own network's entry in what it has read.            *)
LEMMA WriteKeeps ==
  ASSUME DeployInv, NEW n \in Networks, SaveWrites(n)
  PROVE  DeployInv'
<1> DEFINE entry == [address |-> task[n].address, startBlock |-> task[n].startBlock]
<1>1. /\ NextContract(task[n]) = None /\ n \in Supported /\ ~ task[n].plugin
      /\ Running(n) /\ task[n].read # None
      /\ file' = [task[n].read EXCEPT ![n] = entry]
      /\ task' = [task EXCEPT ![n] = None] /\ UNCHANGED <<code, block, sent>>
  BY DEF SaveWrites, Saving, ByProxy, isSupportedNetwork, End, chain
<1>2. /\ ProxyTaskHolds(task[n], code[n], block[n], sent[n])
      /\ FileHolds(task[n].read, code, block, sent)
  BY <1>1 DEF DeployInv, TaskHolds, Running
<1>3. Entry(entry.address, entry.startBlock, code[n], block[n], sent[n])
  <2>1. task[n].address["Semaphore"] # None
    BY <1>1, NoneIsNoName DEF NextContract, Names
  <2> QED
    BY <2>1, <1>2 DEF ProxyTaskHolds
<1> HIDE DEF entry
<1>4. FileHolds(file', code', block', sent')
  BY <1>1, <1>2, <1>3 DEF FileHolds
<1>5. ChainTypes' /\ Grows(code, block, sent, code', block', sent')
  BY <1>1, SameGrows DEF DeployInv, ChainTypes
<1>6. TaskHolds(n, task'[n], code', block', sent')
  BY <1>1 DEF TaskHolds, DeployInv, ChainTypes
<1> QED
  BY <1>1, <1>4, <1>5, <1>6, StepKeeps

(* A task that ends, or is killed, leaves the file as it is, or torn.      *)
LEMMA EndKeeps ==
  ASSUME DeployInv, NEW n \in Networks, EndTask(n) \/ KillInWrite(n)
  PROVE  DeployInv'
<1>1. /\ task' = [task EXCEPT ![n] = None] /\ UNCHANGED <<code, block, sent>>
      /\ file' = file \/ file' = Torn
  BY DEF EndTask, KillInWrite, End, chain
<1>2. ChainTypes' /\ Grows(code, block, sent, code', block', sent')
  BY <1>1, SameGrows DEF DeployInv, ChainTypes
<1>3. TaskHolds(n, task'[n], code', block', sent')
  BY <1>1 DEF TaskHolds, DeployInv, ChainTypes
<1> QED
  BY <1>1, <1>2, <1>3, StepKeeps

(* The invariant is inductive.                                             *)
LEMMA DeployInvariant == Spec => []DeployInv
<1>1. DeployInv /\ [Next]_vars => DeployInv'
  <2> SUFFICES ASSUME DeployInv, [Next]_vars PROVE DeployInv'
    OBVIOUS
  <2>1. ASSUME NEW n \in Networks, Step(n) PROVE DeployInv'
    BY <2>1, ChainKeeps, StartKeeps, ProxyKeeps, FactoryKeeps, WaitKeeps, ReadKeeps,
       WriteKeeps, EndKeeps DEF Step
  <2>2. CASE UNCHANGED vars
    BY <2>2 DEF vars, chain, DeployInv, ChainTypes
  <2> QED
    BY <2>1, <2>2 DEF Next
<1> QED
  BY DeployInit, <1>1, PTL DEF Spec

-----------------------------------------------------------------------------
(* Whatever tasks, kills, losses and other accounts do, the start block of *)
(* a recorded Semaphore contract is not after its creation.                *)
THEOREM StartBlocksCover == Spec => []StartBlockCovers
<1>1. DeployInv => StartBlockCovers
  <2> SUFFICES ASSUME DeployInv, NEW n \in Supported, Recorded(n),
                      file[n].address["Semaphore"] \in Created(n)
               PROVE  file[n].startBlock <= BlockOf(n, file[n].address["Semaphore"])
    BY DEF StartBlockCovers, getDeployedContract, getDeployedContractAddress,
           getDeployedContractsByNetwork
  <2> DEFINE semaphore == file[n].address["Semaphore"]
  <2>1. \A c \in code[n] : c.contract = semaphore => file[n].startBlock <= c.block
    BY DEF DeployInv, Recorded, getDeployedContractsByNetwork, FileHolds, Entry
  <2>2. PICK c \in code[n] : c.contract = semaphore
    BY DEF Created
  <2> HIDE DEF semaphore
  <2> DEFINE found == CHOOSE x \in code[n] : x.contract = semaphore
  <2>3. found \in code[n] /\ found.contract = semaphore
    BY <2>2
  <2> QED
    BY <2>1, <2>3 DEF BlockOf, semaphore
<1> QED
  BY DeployInvariant, <1>1, PTL

(* However processes overwrite each other's file, an entry is what one run *)
(* has sent: Semaphore with the verifier and the library beside it.        *)
THEOREM RecordsAreOfOneRun == Spec => []RecordIsOfOneRun
<1>1. DeployInv => RecordIsOfOneRun
  BY DEF DeployInv, RecordIsOfOneRun, Recorded, getDeployedContract,
         getDeployedContractAddress, getDeployedContractsByNetwork, FileHolds, Entry
<1> QED
  BY DeployInvariant, <1>1, PTL

-----------------------------------------------------------------------------
(***************************************************************************)
(* The second invariant: types, and links.  What a contract is linked to   *)
(* is created before it, because what a task knows is created already or   *)
(* was sent earlier, and the transactions of an account are mined in       *)
(* their order.  This takes the pool's order and what the tasks know, and  *)
(* is said of a network that has not lost its pool.                        *)
(***************************************************************************)
Contracts == Simple \cup Linked

Named(name) == {c \in Contracts : c.name = name}

FileTypes(f) ==
  \A n \in Supported : f[n] # None => \A name \in Names : f[n].address[name] \in Named(name)

TaskTypes(t) ==
  t # None =>
    /\ \A name \in Names : t.address[name] \in Named(name) \cup {None}
    /\ t.awaited \in Contracts \cup {None}
    /\ t.read # None => FileTypes(t.read)

NetworkTypes(n) ==
  /\ Created(n) \subseteq Contracts
  /\ sent[n] \subseteq Contracts /\ IsFiniteSet(sent[n])
  /\ pool[n] \in Seq(sent[n])
  /\ TaskTypes(task[n])

(* What is created, or will be before the k-th transaction of the pool.    *)
Before(n, k) == Created(n) \cup {pool[n][j] : j \in 1 .. k - 1}

ContractLinks(n) ==
  /\ \A c \in Created(n) : \A i \in DOMAIN c.parts : c.parts[i] \in Created(n)
  /\ \A k \in DOMAIN pool[n] : \A i \in DOMAIN pool[n][k].parts : pool[n][k].parts[i] \in Before(n, k)

TaskLinks(n) ==
  task[n] # None => \A name \in Names :
    task[n].address[name] \in Before(n, Len(pool[n]) + 1) \cup {None}

NetworkLinks(n) == ContractLinks(n) /\ TaskLinks(n)

LinkInv ==
  /\ pool = [n \in Networks |-> pool[n]] /\ lost = [n \in Networks |-> lost[n]]
  /\ runs \in 0 .. MaxRuns
  /\ file # Torn => FileTypes(file)
  /\ \A n \in Networks : NetworkTypes(n) /\ (~ lost[n] => NetworkLinks(n))

LEMMA ContractKinds ==
  ASSUME NEW c \in Contracts
  PROVE  /\ c.name \in Names /\ c # None
         /\ c.name # "Semaphore" => c \in Simple /\ c.parts = << >>
         /\ c.name = "Semaphore" => c \in Linked /\ \E x, y \in Simple : c.parts = <<x, y>>
<1>1. CASE c \in Simple
  <2>1. c.name \in Names /\ c.name # "Semaphore" /\ c.parts = << >>
    BY <1>1 DEF Simple
  <2> QED
    BY <1>1, <2>1, NoneIsNoContract
<1>2. CASE c \in Linked
  <2>1. c.name = "Semaphore" /\ c.parts \in Simple \X Simple
    BY <1>2 DEF Linked
  <2>2. \E x, y \in Simple : c.parts = <<x, y>>
    BY <2>1
  <2> QED
    BY <1>2, <2>1, <2>2, NoneIsNoContract DEF Names
<1> QED
  BY <1>1, <1>2 DEF Contracts

(* A step at one network leaves what is said of the others.                *)
LEMMA OthersKeep ==
  ASSUME LinkInv, NEW n \in Networks, NEW m \in Networks \ {n},
         code'[m] = code[m], sent'[m] = sent[m], pool'[m] = pool[m],
         lost'[m] = lost[m], task'[m] = task[m]
  PROVE  NetworkTypes(m)' /\ (~ lost'[m] => NetworkLinks(m)')
<1>1. NetworkTypes(m) /\ (~ lost[m] => NetworkLinks(m))
  BY DEF LinkInv
<1>2. Created(m)' = Created(m)
  BY DEF Created
<1>3. NetworkTypes(m)'
  BY <1>1, <1>2 DEF NetworkTypes, TaskTypes, FileTypes
<1>4. ASSUME NetworkLinks(m) PROVE NetworkLinks(m)'
  BY <1>2, <1>4 DEF NetworkLinks, ContractLinks, TaskLinks, Before
<1> QED
  BY <1>1, <1>3, <1>4

LEMMA LinkStep ==
  ASSUME LinkInv, NEW n \in Networks,
         \A m \in Networks \ {n} : /\ code'[m] = code[m] /\ sent'[m] = sent[m]
                                   /\ pool'[m] = pool[m] /\ lost'[m] = lost[m]
                                   /\ task'[m] = task[m],
         pool' = [m \in Networks |-> pool'[m]], lost' = [m \in Networks |-> lost'[m]],
         runs' \in 0 .. MaxRuns,
         file' # Torn => FileTypes(file'),
         NetworkTypes(n)', ~ lost'[n] => NetworkLinks(n)'
  PROVE  LinkInv'
<1>1. ASSUME NEW m \in Networks PROVE NetworkTypes(m)' /\ (~ lost'[m] => NetworkLinks(m)')
  <2>1. CASE m = n
    BY <2>1
  <2>2. CASE m # n
    BY <2>2, OthersKeep
  <2> QED
    BY <2>1, <2>2
<1>2. file' # Torn => FileTypes(file)'
  BY DEF FileTypes
<1> QED
  BY <1>1, <1>2 DEF LinkInv

(* Put creates what did not exist yet.                                     *)
LEMMA PutCreates ==
  ASSUME ChainTypes, NEW n \in Networks, NEW contracts, Put(n, contracts)
  PROVE  /\ Created(n)' = Created(n) \cup contracts
         /\ \A m \in Networks \ {n} : code'[m] = code[m]
<1> DEFINE new == {[contract |-> c, block |-> block[n] + 1] : c \in contracts \ Created(n)}
<1>1. code'[n] = code[n] \cup new /\ \A m \in Networks \ {n} : code'[m] = code[m]
  BY DEF Put, ChainTypes
<1>2. {c.contract : c \in new} = contracts \ Created(n)
  <2>1. ASSUME NEW x \in contracts \ Created(n) PROVE x \in {c.contract : c \in new}
    <3>1. [contract |-> x, block |-> block[n] + 1] \in new
      OBVIOUS
    <3>2. [contract |-> x, block |-> block[n] + 1].contract = x
      OBVIOUS
    <3> HIDE DEF new
    <3> QED
      BY <3>1, <3>2
  <2>2. \A c \in new : c.contract \in contracts \ Created(n)
    OBVIOUS
  <2> HIDE DEF new
  <2> QED
    BY <2>1, <2>2
<1> HIDE DEF new
<1>3. Created(n)' = Created(n) \cup {c.contract : c \in new}
  BY <1>1 DEF Created
<1> QED
  BY <1>1, <1>2, <1>3

LEMMA RestOfSequence ==
  ASSUME NEW S, NEW s \in Seq(S), NEW k \in 1 .. Len(s)
  PROVE  /\ SubSeq(s, k + 1, Len(s)) \in Seq(S)
         /\ Len(SubSeq(s, k + 1, Len(s))) = Len(s) - k
         /\ \A i \in 1 .. Len(s) - k : SubSeq(s, k + 1, Len(s))[i] = s[i + k]
<1> DEFINE rest == SubSeq(s, k + 1, Len(s))
<1>1. /\ k + 1 \in Int /\ Len(s) \in Int /\ k \in Nat
      /\ \A i \in k + 1 .. Len(s) : s[i] \in S
  OBVIOUS
<1>2. /\ rest \in Seq(S)
      /\ Len(rest) = IF k + 1 <= Len(s) THEN Len(s) - (k + 1) + 1 ELSE 0
      /\ \A i \in 1 .. Len(s) - (k + 1) + 1 : rest[i] = s[k + 1 + i - 1]
  BY <1>1, SubSeqProperties
<1> HIDE DEF rest
<1>3. Len(rest) = Len(s) - k
  BY <1>1, <1>2
<1>4. ASSUME NEW i \in 1 .. Len(s) - k PROVE rest[i] = s[i + k]
  <2>1. i \in 1 .. Len(s) - (k + 1) + 1 /\ k + 1 + i - 1 = i + k
    BY <1>1
  <2> QED
    BY <1>2, <2>1
<1> QED
  BY <1>2, <1>3, <1>4 DEF rest

LEMMA MineLinks ==
  ASSUME ChainTypes, LinkInv, NEW n \in Networks, MineBlock(n)
  PROVE  LinkInv'
<1>1. PICK k \in DOMAIN pool[n] :
        /\ Put(n, {pool[n][i] : i \in 1 .. k})
        /\ pool' = [pool EXCEPT ![n] = SubSeq(@, k + 1, Len(@))]
  BY DEF MineBlock
<1>2. /\ sent' = sent /\ lost' = lost /\ task' = task /\ file' = file /\ runs' = runs
  BY DEF MineBlock, counts
<1> DEFINE mined == {pool[n][i] : i \in 1 .. k}
           rest  == SubSeq(pool[n], k + 1, Len(pool[n]))
<1>3. /\ Created(n)' = Created(n) \cup mined
      /\ \A m \in Networks \ {n} : code'[m] = code[m]
  BY <1>1, PutCreates
<1>4. /\ pool' = [m \in Networks |-> pool'[m]] /\ pool'[n] = rest
      /\ \A m \in Networks \ {n} : pool'[m] = pool[m]
  <2> HIDE DEF rest
  <2> QED
    BY <1>1 DEF LinkInv, rest
<1>5. /\ NetworkTypes(n) /\ pool[n] \in Seq(sent[n]) /\ sent[n] \subseteq Contracts
      /\ ~ lost[n] => NetworkLinks(n)
      /\ lost = [m \in Networks |-> lost[m]] /\ runs \in 0 .. MaxRuns
      /\ file # Torn => FileTypes(file)
  BY DEF LinkInv, NetworkTypes
<1>6. /\ Len(pool[n]) \in Nat /\ DOMAIN pool[n] = 1 .. Len(pool[n])
      /\ k \in 1 .. Len(pool[n])
      /\ \A i \in 1 .. Len(pool[n]) : pool[n][i] \in sent[n]
  BY <1>5
<1>7. /\ rest \in Seq(sent[n]) /\ Len(rest) = Len(pool[n]) - k
      /\ DOMAIN rest = 1 .. Len(pool[n]) - k
      /\ \A i \in 1 .. Len(pool[n]) - k : rest[i] = pool[n][i + k]
  <2>1. /\ rest \in Seq(sent[n]) /\ Len(rest) = Len(pool[n]) - k
        /\ \A i \in 1 .. Len(pool[n]) - k : rest[i] = pool[n][i + k]
    BY <1>5, <1>6, RestOfSequence
  <2> HIDE DEF rest
  <2>2. DOMAIN rest = 1 .. Len(rest)
    BY <2>1
  <2> QED
    BY <2>1, <2>2
<1>8. mined \subseteq sent[n]
  BY <1>6
<1> HIDE DEF rest
<1>9. NetworkTypes(n)'
  <2>1. Created(n)' \subseteq Contracts
    BY <1>3, <1>5, <1>8 DEF NetworkTypes
  <2> QED
    BY <1>2, <1>4, <1>5, <1>7, <2>1 DEF NetworkTypes, TaskTypes, FileTypes
<1>10. ASSUME NetworkLinks(n) PROVE NetworkLinks(n)'
  <2>1. \A j \in 1 .. k : pool[n][j] \in Created(n)'
    BY <1>3
  <2>2. ASSUME NEW l \in 1 .. Len(pool[n]) + 1, NEW x \in Before(n, l)
        PROVE  /\ x \in Created(n)' \cup {pool[n][j] : j \in k + 1 .. l - 1}
               /\ l <= k + 1 => x \in Created(n)'
    <3>1. CASE x \in Created(n)
      BY <1>3, <3>1
    <3>2. CASE \E j \in 1 .. l - 1 : x = pool[n][j]
      <4>1. PICK j \in 1 .. l - 1 : x = pool[n][j]
        BY <3>2
      <4>2. CASE j <= k
        <5>1. j \in 1 .. k
          BY <4>2, <1>6
        <5> QED
          BY <2>1, <4>1, <5>1
      <4>3. CASE j > k
        <5>1. j \in k + 1 .. l - 1 /\ ~ (l <= k + 1)
          BY <4>3, <1>6
        <5> QED
          BY <4>1, <5>1
      <4> QED
        BY <4>2, <4>3, <1>6
    <3> QED
      BY <3>1, <3>2 DEF Before
  <2>3. ASSUME NEW l \in k + 1 .. Len(pool[n]) + 1, NEW x \in Before(n, l)
        PROVE  x \in Before(n, l - k)'
    <3>1. l \in 1 .. Len(pool[n]) + 1
      BY <1>6
    <3>2. CASE x \in Created(n)'
      BY <3>2 DEF Before
    <3>3. CASE \E j \in k + 1 .. l - 1 : x = pool[n][j]
      <4>1. PICK j \in k + 1 .. l - 1 : x = pool[n][j]
        BY <3>3
      <4>2. /\ j - k \in 1 .. (l - k) - 1 /\ j - k \in 1 .. Len(pool[n]) - k
            /\ (j - k) + k = j
        BY <1>6
      <4>3. x = pool'[n][j - k]
        BY <1>4, <1>7, <4>1, <4>2
      <4> QED
        BY <4>2, <4>3 DEF Before
    <3> QED
      BY <2>2, <3>1, <3>2, <3>3
  <2>4. ASSUME NEW c \in Created(n)', NEW i \in DOMAIN c.parts PROVE c.parts[i] \in Created(n)'
    <3>1. CASE c \in Created(n)
      BY <1>3, <1>10, <3>1 DEF NetworkLinks, ContractLinks, TaskLinks
    <3>2. CASE c \in mined
      <4>1. PICK j \in 1 .. k : c = pool[n][j]
        BY <3>2
      <4>2. j \in DOMAIN pool[n] /\ j \in 1 .. Len(pool[n]) + 1 /\ j <= k + 1
        BY <1>6
      <4>3. c.parts[i] \in Before(n, j)
        BY <1>10, <4>1, <4>2 DEF NetworkLinks, ContractLinks, TaskLinks
      <4> QED
        BY <2>2, <4>2, <4>3
    <3> QED
      BY <1>3, <3>1, <3>2
  <2>5. ASSUME NEW l \in DOMAIN pool'[n], NEW i \in DOMAIN pool'[n][l].parts
        PROVE  pool'[n][l].parts[i] \in Before(n, l)'
    <3>1. /\ l \in 1 .. Len(pool[n]) - k /\ pool'[n][l] = pool[n][l + k]
      BY <1>4, <1>7
    <3>2. /\ l + k \in DOMAIN pool[n] /\ l + k \in k + 1 .. Len(pool[n]) + 1
          /\ (l + k) - k = l
      BY <1>6, <3>1
    <3>3. pool[n][l + k].parts[i] \in Before(n, l + k)
      BY <1>10, <3>1, <3>2 DEF NetworkLinks, ContractLinks, TaskLinks
    <3>4. pool'[n][l].parts[i] \in Before(n, (l + k) - k)'
      BY <2>3, <3>1, <3>2, <3>3
    <3> QED
      BY <3>2, <3>4
  <2>6. ASSUME task'[n] # None, NEW name \in Names
        PROVE  task'[n].address[name] \in Before(n, Len(pool[n]) + 1)' \cup {None}
    <3>1. task[n].address[name] \in Before(n, Len(pool[n]) + 1) \cup {None}
      BY <1>2, <1>10, <2>6 DEF NetworkLinks, ContractLinks, TaskLinks
    <3>2. PICK l \in k + 1 .. Len(pool[n]) + 1 :
            l = Len(pool[n]) + 1 /\ Len(pool'[n]) + 1 = l - k
      <4>1. Len(pool'[n]) = Len(pool[n]) - k
        BY <1>4, <1>7
      <4>2. /\ Len(pool[n]) + 1 \in k + 1 .. Len(pool[n]) + 1
            /\ Len(pool'[n]) + 1 = (Len(pool[n]) + 1) - k
        BY <1>6, <4>1
      <4> QED
        BY <4>2
    <3>3. CASE task[n].address[name] = None
      BY <1>2, <3>3
    <3>4. CASE task[n].address[name] \in Before(n, Len(pool[n]) + 1)
      <4>1. task[n].address[name] \in Before(n, l - k)'
        BY <2>3, <3>2, <3>4
      <4>2. Before(n, l - k)' = Before(n, Len(pool[n]) + 1)'
        BY <3>2
      <4> QED
        BY <1>2, <4>1, <4>2
    <3> QED
      BY <3>1, <3>3, <3>4
  <2> QED
    BY <2>4, <2>5, <2>6 DEF NetworkLinks, ContractLinks, TaskLinks
<1> QED
  BY <1>2, <1>3, <1>4, <1>5, <1>9, <1>10, LinkStep

LEMMA OthersLink ==
  ASSUME ChainTypes, LinkInv, NEW n \in Networks, OthersDeploy(n)
  PROVE  LinkInv'
<1> DEFINE verifier == getCreate2Address("SemaphoreVerifier", << >>)
           poseidon == getCreate2Address("PoseidonT3", << >>)
           all      == getCreate2Address("Semaphore", <<verifier, poseidon>>)
<1>1. /\ pool' = pool /\ sent' = sent /\ lost' = lost /\ task' = task /\ file' = file
      /\ runs' = runs
      /\ \E c \in {verifier, poseidon, all} :
           /\ c.parts # << >> => {verifier, poseidon} \subseteq Created(n)
           /\ Put(n, {c})
  BY DEF OthersDeploy
<1>2. verifier \in Simple /\ poseidon \in Simple /\ all \in Linked
  <2>1. /\ "SemaphoreVerifier" \in Names \ {"Semaphore"} /\ "PoseidonT3" \in Names \ {"Semaphore"}
        /\ 0 \in Nat
    BY DEF Names
  <2>2. verifier \in Simple /\ poseidon \in Simple
    BY <2>1 DEF Simple, getCreate2Address
  <2> HIDE DEF verifier, poseidon
  <2>3. <<verifier, poseidon>> \in Simple \X Simple
    BY <2>2
  <2>4. all \in Linked
    BY <2>3 DEF Linked, getCreate2Address
  <2> QED
    BY <2>2, <2>4
<1>3. all.parts = <<verifier, poseidon>> /\ DOMAIN all.parts = 1 .. 2
  BY DEF getCreate2Address
<1> HIDE DEF verifier, poseidon, all
<1>4. PICK c \in {verifier, poseidon, all} :
           /\ c.parts # << >> => {verifier, poseidon} \subseteq Created(n)
           /\ Put(n, {c})
  BY <1>1
<1>5. c \in Contracts
  BY <1>2, <1>4 DEF Contracts
<1>6. \A i \in DOMAIN c.parts : c.parts[i] \in Created(n)
  <2>1. CASE c = all
    <3>1. {verifier, poseidon} \subseteq Created(n)
      <4>1. all.parts # << >>
        BY <1>3
      <4> QED
        BY <1>4, <2>1, <4>1
    <3>2. all.parts[1] = verifier /\ all.parts[2] = poseidon
      BY <1>3
    <3>3. \A i \in 1 .. 2 : i = 1 \/ i = 2
      OBVIOUS
    <3> QED
      BY <1>3, <2>1, <3>1, <3>2, <3>3
  <2>2. CASE c # all
    <3>1. c \in Simple
      BY <1>2, <1>4, <2>2
    <3>2. c.parts = << >>
      BY <3>1 DEF Simple
    <3>3. DOMAIN << >> = {}
      OBVIOUS
    <3> QED
      BY <3>2, <3>3
  <2> QED
    BY <2>1, <2>2
<1>7. /\ Created(n)' = Created(n) \cup {c}
      /\ \A m \in Networks \ {n} : code'[m] = code[m]
  BY <1>4, PutCreates
<1>8. /\ NetworkTypes(n) /\ (~ lost[n] => NetworkLinks(n))
      /\ pool = [m \in Networks |-> pool[m]] /\ lost = [m \in Networks |-> lost[m]]
      /\ runs \in 0 .. MaxRuns /\ (file # Torn => FileTypes(file))
  BY DEF LinkInv
<1>9. NetworkTypes(n)'
  BY <1>1, <1>5, <1>7, <1>8 DEF NetworkTypes, TaskTypes, FileTypes
<1>10. ASSUME NetworkLinks(n) PROVE NetworkLinks(n)'
  <2>1. \A k : Before(n, k) \subseteq Before(n, k)'
    BY <1>1, <1>7 DEF Before
  <2>2. ContractLinks(n)'
    <3>1. \A x \in Created(n)' : \A i \in DOMAIN x.parts : x.parts[i] \in Created(n)'
      BY <1>6, <1>7, <1>10 DEF NetworkLinks, ContractLinks
    <3>2. \A k \in DOMAIN pool[n] : \A i \in DOMAIN pool[n][k].parts :
            pool[n][k].parts[i] \in Before(n, k)
      BY <1>10 DEF NetworkLinks, ContractLinks
    <3> QED
      BY <1>1, <2>1, <3>1, <3>2 DEF ContractLinks
  <2>3. TaskLinks(n)'
    <3>1. Before(n, Len(pool[n]) + 1) \subseteq Before(n, Len(pool[n]) + 1)'
      BY <1>1, <1>7 DEF Before
    <3> QED
      BY <1>1, <1>10, <3>1 DEF NetworkLinks, TaskLinks
  <2> QED
    BY <2>2, <2>3 DEF NetworkLinks
<1> QED
  BY <1>1, <1>7, <1>8, <1>9, <1>10, LinkStep

LEMMA LoseLinks ==
  ASSUME ChainTypes, LinkInv, NEW n \in Networks, LosePool(n)
  PROVE  LinkInv'
<1>1. /\ code' = code /\ sent' = sent /\ task' = task /\ file' = file /\ runs' = runs
      /\ pool' = [pool EXCEPT ![n] = << >>] /\ lost' = [lost EXCEPT ![n] = TRUE]
  BY DEF LosePool, counts
<1>2. /\ NetworkTypes(n)
      /\ pool = [m \in Networks |-> pool[m]] /\ lost = [m \in Networks |-> lost[m]]
      /\ runs \in 0 .. MaxRuns /\ (file # Torn => FileTypes(file))
  BY DEF LinkInv
<1>3. /\ pool' = [m \in Networks |-> pool'[m]] /\ lost' = [m \in Networks |-> lost'[m]]
      /\ \A m \in Networks \ {n} : pool'[m] = pool[m] /\ lost'[m] = lost[m]
      /\ pool'[n] = << >> /\ lost'[n] = TRUE
  BY <1>1, <1>2
<1>4. NetworkTypes(n)'
  <2>1. << >> \in Seq(sent[n])
    OBVIOUS
  <2> QED
    BY <1>1, <1>2, <1>3, <2>1 DEF NetworkTypes, TaskTypes, FileTypes, Created
<1> QED
  BY <1>1, <1>2, <1>3, <1>4, LinkStep

(* What a task sends is linked to what it knows.                           *)
LEMMA MadeIsLinked ==
  ASSUME LinkInv, NEW n \in Networks, Deploying(n), NEW nonce \in Nat,
         NEW c, c = [name  |-> NextContract(task[n]),
                     parts |-> Parts(task[n], NextContract(task[n])), nonce |-> nonce]
  PROVE  /\ c \in Contracts /\ c.name \in Names
         /\ ~ lost[n] => \A i \in DOMAIN c.parts : c.parts[i] \in Before(n, Len(pool[n]) + 1)
<1> DEFINE v == task[n].address["SemaphoreVerifier"]
           p == task[n].address["PoseidonT3"]
<1>1. /\ task[n] # None /\ TaskTypes(task[n])
      /\ ~ lost[n] => TaskLinks(n)
  BY DEF LinkInv, NetworkTypes, NetworkLinks, Deploying, Running
<1>2. CASE NextContract(task[n]) = "Semaphore"
  <2>1. v # None /\ p # None
    BY <1>2, NoneIsNoName DEF NextContract, Names
  <2>2. v \in Named("SemaphoreVerifier") /\ p \in Named("PoseidonT3")
    BY <1>1, <2>1 DEF TaskTypes, Names
  <2>3. v \in Simple /\ p \in Simple
    BY <2>2, ContractKinds DEF Named
  <2>4. ~ lost[n] => v \in Before(n, Len(pool[n]) + 1) /\ p \in Before(n, Len(pool[n]) + 1)
    BY <1>1, <2>1 DEF TaskLinks, Names
  <2>5. Parts(task[n], NextContract(task[n])) = <<v, p>>
    BY <1>2 DEF Parts
  <2> HIDE DEF v, p
  <2>6. c.name = "Semaphore" /\ c.parts = <<v, p>> /\ c.parts \in Simple \X Simple
    BY <1>2, <2>3, <2>5
  <2>7. c \in Linked
    BY <1>2, <2>3, <2>5 DEF Linked
  <2>8. \A i \in DOMAIN c.parts : c.parts[i] = v \/ c.parts[i] = p
    BY <2>6
  <2> QED
    BY <2>4, <2>6, <2>7, <2>8 DEF Contracts, Names
<1>3. CASE NextContract(task[n]) # "Semaphore"
  <2>1. NextContract(task[n]) \in Names \ {"Semaphore"}
    BY <1>3 DEF Deploying, NextContract, Names
  <2>2. c.parts = << >> /\ c.name \in Names
    BY <1>3, <2>1 DEF Parts
  <2>3. c \in Simple
    BY <1>3, <2>1 DEF Simple, Parts
  <2>4. DOMAIN << >> = {}
    OBVIOUS
  <2> QED
    BY <2>2, <2>3, <2>4 DEF Contracts
<1> QED
  BY <1>2, <1>3

LEMMA MoreOfSequence ==
  ASSUME NEW S, NEW s \in Seq(S), NEW x \in S
  PROVE  /\ Append(s, x) \in Seq(S) /\ Len(Append(s, x)) = Len(s) + 1 /\ Len(s) \in Nat
         /\ DOMAIN Append(s, x) = 1 .. Len(s) + 1 /\ DOMAIN s = 1 .. Len(s)
         /\ \A i \in 1 .. Len(s) : Append(s, x)[i] = s[i]
         /\ Append(s, x)[Len(s) + 1] = x
BY AppendProperties

LEMMA SendLinks ==
  ASSUME LinkInv, ChainTypes, NEW n \in Networks, NEW c \in Contracts, Send(n, c),
         ~ lost[n] => \A i \in DOMAIN c.parts : c.parts[i] \in Before(n, Len(pool[n]) + 1)
  PROVE  /\ code' = code /\ lost' = lost
         /\ pool' = [m \in Networks |-> pool'[m]]
         /\ \A m \in Networks \ {n} : pool'[m] = pool[m] /\ sent'[m] = sent[m]
         /\ Created(n)' \subseteq Contracts
         /\ sent'[n] \subseteq Contracts /\ IsFiniteSet(sent'[n])
         /\ pool'[n] \in Seq(sent'[n])
         /\ ~ lost[n] => ContractLinks(n)'
         /\ Before(n, Len(pool[n]) + 1)' = Before(n, Len(pool[n]) + 1) \cup {c}
<1>1. /\ pool' = [pool EXCEPT ![n] = Append(pool[n], c)]
      /\ sent' = [sent EXCEPT ![n] = sent[n] \cup {c}] /\ code' = code /\ lost' = lost
  BY DEF Send
<1>2. /\ NetworkTypes(n) /\ (~ lost[n] => ContractLinks(n))
      /\ pool = [m \in Networks |-> pool[m]] /\ sent = [m \in Networks |-> sent[m]]
  BY DEF LinkInv, NetworkLinks, ChainTypes
<1> DEFINE more == Append(pool[n], c)
<1>3. /\ pool'[n] = more /\ sent'[n] = sent[n] \cup {c}
      /\ pool' = [m \in Networks |-> pool'[m]]
      /\ \A m \in Networks \ {n} : pool'[m] = pool[m] /\ sent'[m] = sent[m]
  <2> HIDE DEF more
  <2> QED
    BY <1>1, <1>2 DEF more
<1>4. pool[n] \in Seq(sent'[n]) /\ c \in sent'[n]
  <2>1. sent[n] \subseteq sent'[n] /\ pool[n] \in Seq(sent[n])
    BY <1>2, <1>3 DEF NetworkTypes
  <2> QED
    BY <1>3, <2>1, SeqMonotonic
<1>5. /\ more \in Seq(sent'[n]) /\ Len(more) = Len(pool[n]) + 1 /\ Len(pool[n]) \in Nat
      /\ DOMAIN more = 1 .. Len(pool[n]) + 1 /\ DOMAIN pool[n] = 1 .. Len(pool[n])
      /\ \A i \in 1 .. Len(pool[n]) : more[i] = pool[n][i]
      /\ more[Len(pool[n]) + 1] = c
  <2> DEFINE S == sent'[n]
             s == pool[n]
  <2>1. s \in Seq(S) /\ c \in S
    BY <1>4
  <2> HIDE DEF S, s
  <2>2. /\ Append(s, c) \in Seq(S) /\ Len(Append(s, c)) = Len(s) + 1 /\ Len(s) \in Nat
        /\ DOMAIN Append(s, c) = 1 .. Len(s) + 1 /\ DOMAIN s = 1 .. Len(s)
        /\ \A i \in 1 .. Len(s) : Append(s, c)[i] = s[i]
        /\ Append(s, c)[Len(s) + 1] = c
    BY <2>1, MoreOfSequence
  <2> QED
    BY <2>2 DEF S, s
<1> HIDE DEF more
<1>6. Created(n)' = Created(n) /\ Created(n)' \subseteq Contracts
  BY <1>1, <1>2 DEF Created, NetworkTypes
<1>7. sent'[n] \subseteq Contracts /\ IsFiniteSet(sent'[n])
  BY <1>2, <1>3, FS_AddElement DEF NetworkTypes
<1>8. \A l \in 1 .. Len(pool[n]) + 1 : Before(n, l)' = Before(n, l)
  <2>1. ASSUME NEW l \in 1 .. Len(pool[n]) + 1
        PROVE  {pool'[n][j] : j \in 1 .. l - 1} = {pool[n][j] : j \in 1 .. l - 1}
    <3>1. \A j \in 1 .. l - 1 : j \in 1 .. Len(pool[n]) /\ pool'[n][j] = pool[n][j]
      BY <1>3, <1>5
    <3> QED
      BY <3>1
  <2> QED
    BY <1>6, <2>1 DEF Before
<1>9. Before(n, Len(pool[n]) + 1)' = Before(n, Len(pool[n]) + 1) \cup {c}
  <2>1. /\ \A j \in 1 .. Len(pool[n]) + 1 : j \in 1 .. Len(pool[n]) \/ j = Len(pool[n]) + 1
        /\ \A j \in 1 .. Len(pool[n]) : j \in 1 .. Len(pool[n]) + 1
        /\ Len(pool[n]) + 1 \in 1 .. Len(pool[n]) + 1
        /\ Len(pool[n]) + 1 - 1 = Len(pool[n])
        /\ Len(pool'[n]) + 1 - 1 = Len(pool[n]) + 1
    BY <1>3, <1>5
  <2>2. {pool'[n][j] : j \in 1 .. Len(pool[n]) + 1} = {pool[n][j] : j \in 1 .. Len(pool[n])} \cup {c}
    BY <1>3, <1>5, <2>1
  <2>3. Before(n, Len(pool[n]) + 1)'
          = Created(n)' \cup {pool'[n][j] : j \in 1 .. Len(pool[n]) + 1}
    <3>1. 1 .. Len(pool'[n]) + 1 - 1 = 1 .. Len(pool[n]) + 1
      BY <2>1
    <3> QED
      BY <3>1 DEF Before
  <2>4. Before(n, Len(pool[n]) + 1) = Created(n) \cup {pool[n][j] : j \in 1 .. Len(pool[n])}
    <3>1. 1 .. Len(pool[n]) + 1 - 1 = 1 .. Len(pool[n])
      BY <2>1
    <3> QED
      BY <3>1 DEF Before
  <2> QED
    BY <1>6, <2>2, <2>3, <2>4
<1>10. ASSUME ~ lost[n] PROVE ContractLinks(n)'
  <2>1. ASSUME NEW k \in DOMAIN pool'[n], NEW i \in DOMAIN pool'[n][k].parts
        PROVE  pool'[n][k].parts[i] \in Before(n, k)'
    <3>1. CASE k = Len(pool[n]) + 1
      <4>1. pool'[n][k] = c /\ k \in 1 .. Len(pool[n]) + 1
        BY <1>3, <1>5, <3>1
      <4>2. c.parts[i] \in Before(n, k)
        BY <1>10, <3>1, <4>1
      <4> QED
        BY <1>8, <4>1, <4>2
    <3>2. CASE k # Len(pool[n]) + 1
      <4>1. /\ k \in DOMAIN pool[n] /\ pool'[n][k] = pool[n][k]
            /\ k \in 1 .. Len(pool[n]) + 1
        BY <1>3, <1>5, <3>2
      <4>2. pool[n][k].parts[i] \in Before(n, k)
        BY <1>2, <1>10, <4>1 DEF ContractLinks
      <4> QED
        BY <1>8, <4>1, <4>2
    <3> QED
      BY <3>1, <3>2
  <2> QED
    BY <1>2, <1>6, <1>10, <2>1 DEF ContractLinks
<1> QED
  BY <1>1, <1>3, <1>5, <1>6, <1>7, <1>9, <1>10

(* What a task knows after it sent c, or after c was created.              *)
LEMMA LearntLinks ==
  ASSUME DeployInv, LinkInv, NEW n \in Networks, Running(n), NEW c \in Contracts, Learn(n, c)
  PROVE  /\ TaskTypes(task'[n])
         /\ \A name \in Names : task'[n].address[name] \in {task[n].address[name], c}
         /\ \A m \in Networks \ {n} : task'[m] = task[m]
<1>1. c.name \in Names
  BY ContractKinds
<1>2. /\ \A m \in Networks \ {n} : task'[m] = task[m]
      /\ task'[n] = [plugin |-> task[n].plugin, startBlock |-> task[n].startBlock,
                     awaited |-> None, read |-> task[n].read,
                     address |-> [task[n].address EXCEPT ![c.name] = c]]
      /\ Shape(task[n])
  BY <1>1, Learnt DEF DeployInv, TaskHolds, Running
<1>3. TaskTypes(task[n]) /\ task[n] # None
  BY DEF LinkInv, NetworkTypes, Running
<1>4. /\ task'[n].read = task[n].read /\ task'[n].awaited = None
      /\ \A name \in Names : name # c.name => task'[n].address[name] = task[n].address[name]
      /\ task'[n].address[c.name] = c
  BY <1>1, <1>2 DEF Shape
<1>5. \A name \in Names : task'[n].address[name] \in Named(name) \cup {None}
  BY <1>3, <1>4 DEF TaskTypes, Named
<1>6. task'[n].read # None => FileTypes(task'[n].read)
  BY <1>3, <1>4 DEF TaskTypes
<1> QED
  BY <1>2, <1>4, <1>5, <1>6 DEF TaskTypes

LEMMA StartLinks ==
  ASSUME DeployInv, LinkInv, NEW n \in Networks, StartTask(n)
  PROVE  LinkInv'
<1>1. /\ code' = code /\ sent' = sent /\ pool' = pool /\ lost' = lost /\ file' = file
      /\ runs' = runs + 1 /\ runs < MaxRuns
  BY DEF StartTask, chain
<1>2. /\ NetworkTypes(n) /\ (~ lost[n] => NetworkLinks(n))
      /\ pool = [m \in Networks |-> pool[m]] /\ lost = [m \in Networks |-> lost[m]]
      /\ runs \in 0 .. MaxRuns /\ (file # Torn => FileTypes(file))
  BY DEF LinkInv
<1>3. runs' \in 0 .. MaxRuns
  BY <1>1, <1>2, BoundsAreNumbers
<1> DEFINE Given(name, verifier, poseidon) ==
             CASE name = "SemaphoreVerifier" -> verifier
               [] name = "PoseidonT3" -> poseidon
               [] name = "Semaphore" -> None
           Known(verifier, poseidon) == [name \in Names |-> Given(name, verifier, poseidon)]
<1>4. PICK plugin \in BOOLEAN, verifier \in Options(n, "SemaphoreVerifier"),
           poseidon \in Options(n, "PoseidonT3") :
        task' = [task EXCEPT ![n] =
          [plugin |-> plugin, startBlock |-> block[n], awaited |-> None, read |-> None,
           address |-> Known(verifier, poseidon)]]
  BY Zenon DEF StartTask
<1>5. ASSUME NEW name \in Names
      PROVE  /\ Known(verifier, poseidon)[name] \in Named(name) \cup {None}
             /\ Known(verifier, poseidon)[name] \in Created(n) \cup {None}
  <2>1. Created(n) \subseteq Contracts
    BY <1>2 DEF NetworkTypes
  <2>2. /\ verifier \in Named("SemaphoreVerifier") \cup {None} /\ verifier \in Created(n) \cup {None}
        /\ poseidon \in Named("PoseidonT3") \cup {None} /\ poseidon \in Created(n) \cup {None}
    BY <2>1 DEF Options, Named
  <2>3. name = "SemaphoreVerifier" \/ name = "PoseidonT3" \/ name = "Semaphore"
    BY DEF Names
  <2>4. Known(verifier, poseidon)[name] = Given(name, verifier, poseidon)
    OBVIOUS
  <2> HIDE DEF Known
  <2>5. CASE name = "SemaphoreVerifier"
    BY <2>2, <2>4, <2>5
  <2>6. CASE name = "PoseidonT3"
    BY <2>2, <2>4, <2>6
  <2>7. CASE name = "Semaphore"
    BY <2>4, <2>7
  <2> QED
    BY <2>3, <2>5, <2>6, <2>7
<1> HIDE DEF Known
<1>6. /\ task'[n] = [plugin |-> plugin, startBlock |-> block[n], awaited |-> None,
                     read |-> None, address |-> Known(verifier, poseidon)]
      /\ \A m \in Networks \ {n} : task'[m] = task[m]
  BY <1>4 DEF DeployInv, ChainTypes
<1>7. /\ task'[n].awaited = None /\ task'[n].read = None
      /\ task'[n].address = Known(verifier, poseidon)
  BY <1>6
<1>8. TaskTypes(task'[n])
  BY <1>5, <1>7 DEF TaskTypes
<1>9. NetworkTypes(n)'
  BY <1>1, <1>2, <1>8 DEF NetworkTypes, TaskTypes, FileTypes, Created
<1>10. ASSUME NetworkLinks(n) PROVE NetworkLinks(n)'
  <2>1. \A k : Before(n, k)' = Before(n, k)
    BY <1>1 DEF Before, Created
  <2>2. Created(n)' = Created(n) /\ Created(n) \subseteq Before(n, Len(pool[n]) + 1)'
    BY <1>1 DEF Before, Created
  <2>3. ContractLinks(n)'
    BY <1>1, <1>10, <2>1, <2>2 DEF NetworkLinks, ContractLinks
  <2>4. TaskLinks(n)'
    BY <1>1, <1>5, <1>7, <2>2 DEF TaskLinks
  <2> QED
    BY <2>3, <2>4 DEF NetworkLinks
<1> QED
  BY <1>1, <1>2, <1>3, <1>6, <1>9, <1>10, LinkStep

(* A contract is sent, and the task learns its address at once or awaits   *)
(* it.                                                                     *)
LEMMA DeployLinks ==
  ASSUME DeployInv, LinkInv, NEW n \in Networks, DeployByProxy(n) \/ DeployByFactory(n)
  PROVE  LinkInv'
<1>1. PICK nonce, c :
        /\ nonce \in Nat
        /\ c = [name  |-> NextContract(task[n]),
                parts |-> Parts(task[n], NextContract(task[n])), nonce |-> nonce]
        /\ Send(n, c)
        /\ Learn(n, c) \/ task' = [task EXCEPT ![n].awaited = c]
  <2>1. CASE DeployByProxy(n)
    <3> DEFINE c == getCreate2Address(NextContract(task[n]), Parts(task[n], NextContract(task[n])))
    <3>1. c = [name  |-> NextContract(task[n]),
               parts |-> Parts(task[n], NextContract(task[n])), nonce |-> 0]
      BY DEF getCreate2Address
    <3>2. Send(n, c) /\ Learn(n, c)
      BY <2>1 DEF DeployByProxy
    <3> HIDE DEF c
    <3> QED
      BY <3>1, <3>2
  <2>2. CASE DeployByFactory(n)
    <3> DEFINE c == getCreateAddress(n, NextContract(task[n]), Parts(task[n], NextContract(task[n])))
               nonce == Cardinality(sent[n]) + 1
    <3>1. c = [name  |-> NextContract(task[n]),
               parts |-> Parts(task[n], NextContract(task[n])), nonce |-> nonce]
      BY DEF getCreateAddress
    <3>2. Send(n, c) /\ (Learn(n, c) \/ task' = [task EXCEPT ![n].awaited = c])
      BY <2>2 DEF DeployByFactory
    <3>3. nonce \in Nat
      BY FS_CardinalityType DEF LinkInv, NetworkTypes
    <3> HIDE DEF c, nonce
    <3> QED
      BY <3>1, <3>2, <3>3
  <2> QED
    BY <2>1, <2>2
<1>2. /\ Deploying(n) /\ Running(n) /\ file' = file /\ runs' = runs /\ ChainTypes
  BY DEF DeployByProxy, DeployByFactory, Deploying, counts, DeployInv
<1>3. /\ c \in Contracts /\ c.name \in Names
      /\ ~ lost[n] => \A i \in DOMAIN c.parts : c.parts[i] \in Before(n, Len(pool[n]) + 1)
  BY <1>1, <1>2, MadeIsLinked
<1>4. /\ code' = code /\ lost' = lost
      /\ pool' = [m \in Networks |-> pool'[m]]
      /\ \A m \in Networks \ {n} : pool'[m] = pool[m] /\ sent'[m] = sent[m]
      /\ Created(n)' \subseteq Contracts
      /\ sent'[n] \subseteq Contracts /\ IsFiniteSet(sent'[n])
      /\ pool'[n] \in Seq(sent'[n])
      /\ ~ lost[n] => ContractLinks(n)'
      /\ Before(n, Len(pool[n]) + 1)' = Before(n, Len(pool[n]) + 1) \cup {c}
  BY <1>1, <1>2, <1>3, SendLinks
<1>5. /\ TaskTypes(task'[n])
      /\ \A name \in Names : task'[n].address[name] \in {task[n].address[name], c}
      /\ \A m \in Networks \ {n} : task'[m] = task[m]
  <2>1. CASE Learn(n, c)
    BY <1>2, <1>3, <2>1, LearntLinks
  <2>2. CASE task' = [task EXCEPT ![n].awaited = c]
    <3>1. Shape(task[n]) /\ TaskTypes(task[n]) /\ task[n] # None
      BY <1>2 DEF DeployInv, TaskHolds, LinkInv, NetworkTypes, Running
    <3>2. task'[n] = [plugin |-> task[n].plugin, startBlock |-> task[n].startBlock,
                      awaited |-> c, read |-> task[n].read, address |-> task[n].address]
      BY <2>2, <3>1, <1>2 DEF ChainTypes, Shape
    <3>3. /\ task'[n].awaited = c /\ task'[n].read = task[n].read
          /\ task'[n].address = task[n].address
      BY <3>2
    <3>4. TaskTypes(task'[n])
      BY <1>3, <3>1, <3>3 DEF TaskTypes
    <3> QED
      BY <1>2, <2>2, <3>3, <3>4 DEF ChainTypes
  <2> QED
    BY <1>1, <2>1, <2>2
<1>6. /\ lost = [m \in Networks |-> lost[m]] /\ runs \in 0 .. MaxRuns
      /\ file # Torn => FileTypes(file)
      /\ ~ lost[n] => TaskLinks(n)
  BY DEF LinkInv, NetworkLinks
<1>7. NetworkTypes(n)'
  <2>1. TaskTypes(task[n])'
    BY <1>5 DEF TaskTypes, FileTypes
  <2> QED
    BY <1>4, <2>1 DEF NetworkTypes
<1>8. ASSUME ~ lost[n] PROVE TaskLinks(n)'
  <2>1. \A name \in Names : task[n].address[name] \in Before(n, Len(pool[n]) + 1) \cup {None}
    BY <1>2, <1>6, <1>8 DEF TaskLinks, Running
  <2> QED
    BY <1>4, <1>5, <2>1 DEF TaskLinks
<1>9. ~ lost'[n] => NetworkLinks(n)'
  BY <1>4, <1>8 DEF NetworkLinks
<1> QED
  BY <1>2, <1>4, <1>5, <1>6, <1>7, <1>9, LinkStep

(* Steps that only change what a task knows.                               *)
LEMMA TaskChangeLinks ==
  ASSUME LinkInv, NEW n \in Networks,
         code' = code, sent' = sent, pool' = pool, lost' = lost, runs' = runs,
         \A m \in Networks \ {n} : task'[m] = task[m],
         file' # Torn => FileTypes(file'),
         TaskTypes(task'[n]),
         ~ lost[n] /\ task'[n] # None => \A name \in Names :
           task'[n].address[name] \in Before(n, Len(pool[n]) + 1) \cup {None}
  PROVE  LinkInv'
<1>1. /\ NetworkTypes(n) /\ (~ lost[n] => NetworkLinks(n))
      /\ pool = [m \in Networks |-> pool[m]] /\ lost = [m \in Networks |-> lost[m]]
      /\ runs \in 0 .. MaxRuns
  BY DEF LinkInv
<1>2. NetworkTypes(n)'
  BY <1>1 DEF NetworkTypes, TaskTypes, FileTypes, Created
<1>3. ASSUME ~ lost[n] PROVE NetworkLinks(n)'
  <2>1. \A k : Before(n, k)' = Before(n, k)
    BY DEF Before, Created
  <2>2. Created(n)' = Created(n) /\ Before(n, Len(pool[n]) + 1)' = Before(n, Len(pool[n]) + 1)
    BY DEF Before, Created
  <2>3. ContractLinks(n)'
    BY <1>1, <1>3, <2>1, <2>2 DEF NetworkLinks, ContractLinks
  <2>4. TaskLinks(n)'
    BY <1>3, <2>2 DEF TaskLinks
  <2> QED
    BY <2>3, <2>4 DEF NetworkLinks
<1> QED
  BY <1>1, <1>2, <1>3, LinkStep

LEMMA WaitLinks ==
  ASSUME DeployInv, LinkInv, NEW n \in Networks, WaitForDeployment(n)
  PROVE  LinkInv'
<1> DEFINE c == task[n].awaited
<1>1. /\ Running(n) /\ c # None /\ c \in Created(n) /\ Learn(n, c) /\ file' = file
      /\ code' = code /\ sent' = sent /\ pool' = pool /\ lost' = lost /\ runs' = runs
  BY DEF WaitForDeployment, chain, counts
<1>2. /\ Created(n) \subseteq Contracts /\ (file # Torn => FileTypes(file))
      /\ ~ lost[n] => TaskLinks(n)
  BY DEF LinkInv, NetworkTypes, NetworkLinks
<1>3. c \in Contracts /\ c \in Before(n, Len(pool[n]) + 1)
  BY <1>1, <1>2 DEF Before
<1> HIDE DEF c
<1>4. /\ TaskTypes(task'[n])
      /\ \A name \in Names : task'[n].address[name] \in {task[n].address[name], c}
      /\ \A m \in Networks \ {n} : task'[m] = task[m]
  BY <1>1, <1>3, LearntLinks
<1>5. ASSUME ~ lost[n], NEW name \in Names
      PROVE  task'[n].address[name] \in Before(n, Len(pool[n]) + 1) \cup {None}
  <2>1. task[n].address[name] \in Before(n, Len(pool[n]) + 1) \cup {None}
    BY <1>1, <1>2, <1>5 DEF TaskLinks, Running
  <2> QED
    BY <1>3, <1>4, <2>1
<1> QED
  BY <1>1, <1>2, <1>4, <1>5, TaskChangeLinks

LEMMA FileLinks ==
  ASSUME DeployInv, LinkInv, NEW n \in Networks, SaveReads(n) \/ SaveWrites(n) \/ EndTask(n) \/ KillInWrite(n)
  PROVE  LinkInv'
<1>1. /\ code' = code /\ sent' = sent /\ pool' = pool /\ lost' = lost /\ runs' = runs
      /\ task = [m \in Networks |-> task[m]] /\ Running(n) /\ task[n] # None
  BY DEF SaveReads, SaveWrites, EndTask, KillInWrite, Saving, chain, counts, DeployInv, ChainTypes,
         Running
<1>2. /\ TaskTypes(task[n]) /\ (~ lost[n] => TaskLinks(n)) /\ Shape(task[n])
      /\ file # Torn => FileTypes(file)
  BY <1>1 DEF LinkInv, NetworkTypes, NetworkLinks, DeployInv, TaskHolds
<1>3. CASE SaveReads(n)
  <2>1. task' = [task EXCEPT ![n].read = file] /\ file # Torn /\ file' = file
    BY <1>3 DEF SaveReads
  <2>2. task'[n] = [plugin |-> task[n].plugin, startBlock |-> task[n].startBlock,
                    awaited |-> task[n].awaited, read |-> file, address |-> task[n].address]
    BY <1>1, <1>2, <2>1 DEF Shape
  <2>3. /\ task'[n].awaited = task[n].awaited /\ task'[n].read = file
        /\ task'[n].address = task[n].address
        /\ \A m \in Networks \ {n} : task'[m] = task[m]
    BY <1>1, <2>1, <2>2
  <2>4. TaskTypes(task'[n])
    BY <1>1, <1>2, <2>1, <2>3 DEF TaskTypes
  <2>5. ~ lost[n] => \A name \in Names :
          task'[n].address[name] \in Before(n, Len(pool[n]) + 1) \cup {None}
    BY <1>1, <1>2, <2>3 DEF TaskLinks
  <2> QED
    BY <1>1, <1>2, <2>1, <2>3, <2>4, <2>5, TaskChangeLinks
<1>4. CASE SaveWrites(n) \/ EndTask(n) \/ KillInWrite(n)
  <2>1. task' = [task EXCEPT ![n] = None]
    BY <1>4 DEF SaveWrites, EndTask, KillInWrite, End
  <2>2. task'[n] = None /\ \A m \in Networks \ {n} : task'[m] = task[m]
    BY <1>1, <2>1
  <2>3. ASSUME file' # Torn PROVE FileTypes(file')
    <3>1. CASE SaveWrites(n)
      <4> DEFINE entry == [address |-> task[n].address, startBlock |-> task[n].startBlock]
      <4>1. /\ NextContract(task[n]) = None /\ n \in Supported /\ task[n].read # None
            /\ file' = [task[n].read EXCEPT ![n] = entry]
            /\ task[n].read = [m \in Supported |-> task[n].read[m]]
        BY <1>1, <3>1 DEF SaveWrites, Saving, ByProxy, isSupportedNetwork, DeployInv, TaskHolds,
                          FileHolds
      <4>2. \A name \in Names : task[n].address[name] # None
        BY <4>1, NoneIsNoName DEF NextContract, Names
      <4>3. \A name \in Names : entry.address[name] \in Named(name)
        BY <1>1, <1>2, <4>2 DEF TaskTypes
      <4>4. FileTypes(task[n].read)
        BY <1>1, <1>2, <4>1 DEF TaskTypes
      <4> HIDE DEF entry
      <4>5. /\ file'[n] = entry
            /\ \A m \in Supported : m # n => file'[m] = task[n].read[m]
        BY <4>1
      <4> QED
        BY <4>3, <4>4, <4>5 DEF FileTypes
    <3>2. CASE EndTask(n) \/ KillInWrite(n)
      BY <1>2, <2>3, <3>2 DEF EndTask, KillInWrite
    <3> QED
      BY <1>4, <3>1, <3>2
  <2>4. TaskTypes(task'[n])
    BY <2>2 DEF TaskTypes
  <2> QED
    BY <1>1, <2>2, <2>3, <2>4, TaskChangeLinks
<1> QED
  BY <1>3, <1>4

LEMMA LinkInit == Init => LinkInv
<1> SUFFICES ASSUME Init PROVE LinkInv
  OBVIOUS
<1>1. /\ \A n \in Networks : /\ code[n] = {} /\ pool[n] = << >> /\ sent[n] = {}
                             /\ task[n] = None
      /\ pool = [n \in Networks |-> pool[n]] /\ lost = [n \in Networks |-> lost[n]]
      /\ runs = 0
      /\ \A n \in Supported : file[n] = None
  BY DEF Init
<1>2. \A n \in Networks : Created(n) = {}
  BY <1>1 DEF Created
<1>3. IsFiniteSet({}) /\ DOMAIN << >> = {} /\ << >> \in Seq({})
  BY FS_EmptySet
<1>4. ASSUME NEW n \in Networks PROVE NetworkTypes(n) /\ NetworkLinks(n)
  BY <1>1, <1>2, <1>3 DEF NetworkTypes, TaskTypes, NetworkLinks, ContractLinks, TaskLinks
<1>5. FileTypes(file) /\ runs \in 0 .. MaxRuns
  BY <1>1, BoundsAreNumbers DEF FileTypes
<1> QED
  BY <1>1, <1>4, <1>5 DEF LinkInv

LEMMA LinkInvariant == Spec => []LinkInv
<1>1. DeployInv /\ LinkInv /\ [Next]_vars => LinkInv'
  <2> SUFFICES ASSUME DeployInv, LinkInv, [Next]_vars PROVE LinkInv'
    OBVIOUS
  <2>1. ASSUME NEW n \in Networks, Step(n) PROVE LinkInv'
    <3>1. ChainTypes
      BY DEF DeployInv
    <3> QED
      BY <2>1, <3>1, MineLinks, OthersLink, LoseLinks, StartLinks, DeployLinks, WaitLinks, FileLinks
         DEF Step
  <2>2. CASE UNCHANGED vars
    <3>1. /\ code' = code /\ sent' = sent /\ pool' = pool /\ lost' = lost /\ task' = task
          /\ file' = file /\ runs' = runs
      BY <2>2 DEF vars, chain, counts
    <3> QED
      BY <3>1 DEF LinkInv, NetworkTypes, NetworkLinks, ContractLinks, TaskLinks, Before, Created,
                  TaskTypes, FileTypes
  <2> QED
    BY <2>1, <2>2 DEF Next
<1> QED
  BY DeployInvariant, LinkInit, <1>1, PTL DEF Spec

(* Whatever was lost, no contract is linked to nothing, what is pending    *)
(* was sent, a task knows a contract by its own name, and an entry of the  *)
(* file names its three contracts.                                         *)
THEOREM DeploymentTypes == Spec => []TypeOK
<1>1. ASSUME LinkInv PROVE TypeOK
  <2>1. ASSUME NEW n \in Networks
        PROVE  /\ Created(n) \cap {None} = {}
               /\ \A c \in Created(n) \cup sent[n] :
                    c.name = "Semaphore" => \A i \in 1 .. 2 : c.parts[i] # None
               /\ \A i \in DOMAIN pool[n] : pool[n][i] \in sent[n]
               /\ Running(n) => \A name \in Names :
                    task[n].address[name] # None => task[n].address[name].name = name
    <3>1. NetworkTypes(n)
      BY <1>1 DEF LinkInv
    <3>2. Created(n) \cup sent[n] \subseteq Contracts
      BY <3>1 DEF NetworkTypes
    <3>3. Created(n) \cap {None} = {}
      BY <3>2, ContractKinds
    <3>4. ASSUME NEW c \in Contracts, c.name = "Semaphore", NEW i \in 1 .. 2 PROVE c.parts[i] # None
      <4>1. PICK x \in Simple, y \in Simple : c.parts = <<x, y>>
        BY <3>4, ContractKinds
      <4>2. x # None /\ y # None
        BY <4>1, NoneIsNoContract
      <4>3. i = 1 \/ i = 2
        OBVIOUS
      <4>4. c.parts[1] = x /\ c.parts[2] = y
        BY <4>1
      <4> QED
        BY <4>2, <4>3, <4>4
    <3>5. \A i \in DOMAIN pool[n] : pool[n][i] \in sent[n]
      BY <3>1 DEF NetworkTypes
    <3>6. Running(n) => \A name \in Names :
            task[n].address[name] # None => task[n].address[name].name = name
      BY <3>1 DEF NetworkTypes, TaskTypes, Running, Named
    <3> QED
      BY <3>2, <3>3, <3>4, <3>5, <3>6
  <2>2. \A n \in Supported : Recorded(n) =>
          \A name \in Names : getDeployedContractAddress(n, name).name = name
    BY <1>1 DEF LinkInv, FileTypes, Named, Recorded, getDeployedContractAddress,
                getDeployedContractsByNetwork
  <2> QED
    BY <1>1, <2>1, <2>2 DEF LinkInv, TypeOK
<1> QED
  BY LinkInvariant, <1>1, PTL

(* Although no task waits on a supported network, a Semaphore contract     *)
(* that exists finds its verifier and its library, unless the node lost    *)
(* transactions.                                                           *)
THEOREM PartsExist == Spec => []SemaphoreFindsItsParts
<1>1. LinkInv => SemaphoreFindsItsParts
  BY DEF LinkInv, SemaphoreFindsItsParts, NetworkLinks, ContractLinks
<1> QED
  BY LinkInvariant, <1>1, PTL

=============================================================================
