# A verification project for the Semaphore Merkle forest, its auth server and client

The repository adapts Semaphore to device authentication for federated learning.
A smart contract keeps groups of identity commitments, each group a *forest* of
lean incremental Merkle trees (subgroups) rather than one tree. An auth server
administers a group on behalf of devices and gates model updates by
zero-knowledge proofs; an auth client turns a device credential into an
identity, joins a group through the server and sends proofs.

This directory holds TLA+ models of the contract, of the off-chain `Group`, of
the server (its mirror of the chain, the creation of its group, its handlers),
of the client's run from its credentials to its proofs, and of the deployment of
the contracts; their TLC configurations; and proofs checked by TLAPS.
`PROJECT.json` maps every definition to the lines it models and lists runs,
hazards, findings and theorems.

## 1. Inventory

Paths are relative to `src/packages`.

| component | state | operations | hard behaviour | what makes it correct |
|---|---|---|---|---|
| group forest, `contracts/contracts/base/SemaphoreGroups.sol` | a Merkle tree and a list of members (snapshot) per subgroup, number of subgroups, capacity, admin and pending admin per group, a forest-wide flag per commitment | create, hand over, add, update, remove | four redundant copies of who is a member, written by every path; boundary of a subgroup; holes left by removals | the copies agree; no member twice; events tell everything |
| Semaphore contract, `contracts/contracts/Semaphore.sol` | groups' durations, global root, used nullifiers | the transactions, batches, `validateProof` | proofs are made off-chain and mined after the forest has changed; batches stop, skip and spill over | one signal per signer and scope; the signer is a member now; the global root is current |
| circuit and verifier, `circuits`, `SemaphoreVerifier.sol` | none | state and check a proof | the statement names no group; a leaf may be the hash of two nodes | among subgroups of identities, a proof fits one |
| proof package, `proof/src` | none | `generateProof`, `verifyProof` | depth bounds | as above |
| lean-imt (library) | leaves, index map | insert, update, remove | 0 as a vacated leaf | list and map agree |
| group package, `group/src` | a LeanIMT in memory | add, update, remove, export, import, prove | places must match the contract's; 0 in the list of members | the same root as on chain; nothing throws |
| auth server handlers, `authserver/index.ts`, `nullifierStorage.ts` | one file per scope and nullifier | `/add-member`, `/join-proof`, `/modtrain-proof` | awaits between check and save; the scope and nullifier of the body are not those of the proof; crashes in a write; exceptions outside `try` | what was accepted is refused ever after; every request settles |
| auth server mirror, `authserver/src/functions/contract.ts`, `groupStorage.ts` | `members.json`, `IDs.json` | replay and follow events | replay per event type; gap before `contract.on`; restart on saved or torn state | the files hold nothing the chain never had; a restart reaches the chain's members |
| group initialisation, `initGroup.ts` | none of its own | create the first group | decides from a file the listeners are filling | a filed group is never created again |
| auth client's credentials, `authclient/src/functions/{did,vc,identity}.ts`, `identity/src` | DID documents, credential, identity | derive, save, load | each run makes new DIDs; killed in a write | the credential names documents on file; the identity stays the device's |
| auth client's run and mirror, `authclient/index.ts`, `contract.ts`, `groupStorage.ts` | `members.json`, `IDs.json` | register, wait, rebuild the subgroup, prove | the chain changes between any two awaits; waits for an event that may never come; stale subgroup; requests of an earlier run | one place per device; a wait is answered; the server takes the proof; a run ends |
| deployment, `contracts/tasks/deploy.ts`, `contracts/scripts/utils.ts`, `hardhat/src/tasks`, `utils/src` | `deployed-contracts.json`, contracts on each network | create, wait, record, look up | nothing is awaited on a live network; two processes share the file; reruns | a record is of one run, its contracts come to exist, its start block is early enough |
| core, circuits build, hashing | none | re-exports, tables | none of its own | - |

Interactions: the server and the client call the contract by RPC and read its
logged events; the client calls the server by HTTP; within the client an
`EventEmitter` passes "member added" from the listeners to the join flow; all
find the contract by the record of the deployment. Transactions are atomic and
executed one after the other by the chain. In the two Node processes one
callback runs at a time and every `await` lets others run.

## 2. Modules

```
LeanIMT            the Merkle tree library, as the contract uses it
  SemaphoreGroups  the forest: internal functions of SemaphoreGroups.sol
    Semaphore      the transactions of Semaphore.sol; proofs made off-chain
      SemaphoreRefinement   Semaphore implements MemberRegistry
        MCSemaphore         instances for TLC
      GroupHarness          the class Group, beside the contract
        MCGroupHarness
    ClientJoin     a device joins: client + server handlers + forests
      (with DeviceCredentials)
      MCClientJoin
DeviceCredentials  DIDs, credential and identity of a device, and their files
MemberRegistry     what the contract promises about membership, abstractly
NullifierGate      POST /group/:groupId/modtrain-proof and its files
  MCNullifierGate
ServerMirror       the server's listeners, its files, initGroup
  MCServerMirror
Deployment         the tasks that create and record the contracts
  MCDeployment
SemaphoreGroupsProofs  trees, and the transactions on any forest
  SemaphoreProofs      the contract: members, signals, roots, shape, events
    RefinementProofs   the refinement of MemberRegistry
    GroupHarnessProofs
  ClientJoinProofs
ServerMirrorProofs, NullifierGateProofs, DeploymentProofs
```

**LeanIMT.** The library (`@zk-kit/lean-imt.sol`) is outside the repository. A
tree is its list of leaves and the map from a leaf to its place; the map is kept
because the library answers `_has` and `_indexOf` from it. Poseidon is taken to
be injective, so a hash is the pair of what it hashes, a commitment the hash of
a key, and 0 the hash of nothing. `RootOf` hashes neighbours level by level, and
a last node without neighbour moves up as it is: a lone leaf is its own root.
Leaves and inner nodes are of one kind, as they are in the field. `Keys` are the
keys that identities are made from; `Others` are the other field elements an
admin enrols, which may be hashes of nodes: `_addMember` takes any number but 0.
A Merkle path passed to `updateMember` or `removeMember` either leads to the
root or makes the call revert, so paths are left out.

**SemaphoreGroups.** One operator per internal function, with the contract's
names. A guard is a `require`; a transaction that reverts leaves no trace and
has no action. `emitted` holds the events of the last step.

**Semaphore.** One action per transaction; the three overloads of `createGroup`
are one action. An early `return` (a commitment that is already a member) is a
step that changes nothing and logs nothing. `addMembers` is one transaction but
a loop: the model opens a frame (`batch`), takes the list one by one and closes
the frame with the global root, and no other transaction runs in between; a call
that would revert half way is not begun, which is what the conditions of
`addMembersBegin` say. The admin check in the loop runs only for commitments
that are not members: a call by anybody whose list holds none of those does not
revert, and the model has it. `generateProof` reads a subgroup's members and
makes a proof for their root; `validateProof` may use it at any later time, for
any subgroup.

What ties a proof to a subgroup is the root alone. With a leaf that is the hash
of two nodes, the roots of two lists can be equal: if *a* and *b* are the
members of one subgroup, the admin of another may enrol the hash of the two as
its only leaf, and *a*'s proof verifies for both, though *a* is not in the
second. The model has these states (run `signals`, whose `Others` is such a
hash), and the two properties that speak of roots and members,
`ProofFitsOneSubgroup` and `AcceptedSignerIsMember`, are about subgroups whose
leaves are identities or vacated (`OnlyIdentities`). The code does not see to
that; whoever administers a group has to. `AcceptedSignerIsMember` asks it only
of the subgroup that the proof is accepted for, and of no other.

There is no clock: `merkleRootCreationDates` is read by `verifyProof` but
written nowhere, so its test of `block.timestamp` is never reached, and
`MerkleRootCreationDate` is 0. A root other than the current one is always
refused, whatever `merkleTreeDuration` is.

**MemberRegistry / SemaphoreRefinement.** The registry knows members and
numbered places: a newcomer takes a place nobody ever had, a member may leave,
or hand the place to somebody who has none. The mapping takes a place to be a
position in the snapshot of a subgroup. `addMember` and each step of
`addMembers` are `Enrol`, `removeMember` (and `updateMember` to 0) is
`Withdraw`, `updateMember` is `Substitute`; all other steps stutter.

**NullifierGate.** A request is taken by the handler, which runs undisturbed up
to its `await verifyProof` (`RefuseIncomplete`, `RefuseUsed`,
`StartVerification`) and again from the result to the answer (`Accept`,
`Reject`). The verdict of `verifyProof` is fixed per request: true, false or an
exception. A file is absent, `[]`, `[nullifier]`, or torn by a crash in the
middle of a write. Reading a torn file before the `try` is an unhandled
rejection, which ends the process (Express 4). There is a file per scope and
nullifier, both taken from the body of the request, and the handler compares
neither with the proof; so what `NoVerificationOnceAccepted` says is about
requests that name the same scope and the same nullifier, and the run
`other_scope` shows what another scope does.

**GroupHarness.** A `Group` is its list of leaves, 0 included; the library under
it checks nothing, so what the class refuses is the guard. The methods are the
code's. What calls them is not: no code of the repository applies the events of
the contract to a `Group`, so the harness does, for each member event the method
it names, in the step that logs it. It stands for whoever makes Merkle paths or
proofs for the contract from a `Group`. The chain side is `Semaphore` unchanged.

**ServerMirror.** `startBlockchainListeners` takes one type of event after the
other: `Answer` is `queryFilter`, `Replay` the handlers of the past events and
the call of `contract.on`, `Subscribe` the moment the node has set the filter.
Between `Answer` and `Subscribe` an event is neither past nor new. `Start` is
the tick in which the listeners read `members.json` and `initGroup` reads
`IDs.json` and decides. A kill may hit any callback, also half way through a
write. The chain is one of the contract's: a flag per leaf for all groups, and a
member may be updated to 0, which `members.json` then lists, and which can enter
once only, as nothing clears the flag of 0. The third type, `MembersAdded`, is
never emitted and is left out; a missing file reads as an empty one;
`state.serverGroupId` is only logged; a group has one subgroup, which the files
keep apart just as they keep groups apart.

The mirror departs from the chain in ways the properties leave room for: a
member removed and added again is gone after a replay by type; a replayed update
lists its new member twice; an update heard before the addition it follows is
lost; a failed query leaves a type without subscription until the next start; a
file torn by a kill ends every later start; the first group in `IDs.json` may be
another account's.

**DeviceCredentials.** `getMyIdentityCommitment`: an issuer's and a holder's DID
document, the credential, the identity, in the order a run writes them. A run
makes new DIDs each time; the identity is loaded, or derived again from the
hardware whatever the reason it could not be read. `loadVC` has no caller.

**ClientJoin.** One action per continuation of `run()` and `main()`, and per
step of the server's handler for `/add-member`. It EXTENDS `SemaphoreGroups`, so
the groups are the contract's, with a flag per member for all of them, and
`DeviceCredentials`, whose phases come first. Where `main()` awaits, the answer
and its use are two steps: the answer of `isAlreadyMember` is used by
`FindSubtree` or `addMember`, which registers the wait; the members that
`getMembersList` told are used by `sendJoinProof`; what that posts is looked at
by `JoinProofHandler`, or lost (`JoinProofLost`). Blocks are mined and events
are heard between any two of them. (`generateProof` and the `post` after it are
one step: nothing of the state is read in between.) Only the past events of a
replay are answered and filed in one step, as nothing the process does in
between depends on them. Requests outlive the run that made them: a device may
be killed and run again while the server still works for the earlier run.
`Administer` is what else admins do meanwhile, in this group and in others:
another account may create a group and enrol the device's commitment there.

`missed` is a history variable: the events that concern a run and were mined
between its call of `contract.on` and the moment the node set the filter. `due`
is another: an addition to the run's group was mined while it waited, with its
filter set. A run may wait for ever, by the code, and `WaitsInVain` names how:
for a group that does not exist, or whose creation it missed; for an addition it
missed; for one that will not come, as its request failed, which it logs and
goes on waiting, or found a member. The last happens to a run whose addition,
asked for by an earlier run, was mined after the answer of `isAlreadyMember` and
heard before the wait was registered; to one whose member came in by an update,
to which it does not listen; and to one whose commitment was enrolled in another
group.

Any of the client's writes may be torn by a kill, the initial ones and those of
the listeners for the events of the own subgroup included. Those listeners only
write `members.json`, whose content the flow never reads: of that file the model
keeps whether it parses.

**Deployment.** On a supported network a contract is created by a CREATE2 proxy
at an address that its name and parts determine, so an address *is* the name and
the parts; sending fails once the contract exists, because the gas cannot be
estimated. On other networks, and in the hardhat package, a factory numbers the
creations. `deployed-contracts.json` is read and written in two steps, with
other processes in between. The options `--verifier` and `--poseidon` name
contracts that exist. At most one task works on a network at a time. A node may
lose its pool once, other accounts may create the same contracts.

## 3. Runs

| run | properties | bounds |
|---|---|---|
| `forest` | `TypeOK`, `SnapshotMatchesTree`, `ForestShape`, `GroupRootIsOnChain`, `GroupNeverThrows`, `PlacesAreUnique`, `EventsTellMembers` | 1 group, 3 subgroups with a Group beside each, capacity 0 to 3, 3 commitments and 0, 2 accounts, batches of up to 3 |
| `groups` | `GlobalMembersExact`, `NoDuplicateMember`, `GlobalRootCurrent`, `OrphanGroupsStayEmpty`, `ImplementsRegistry` | 2 groups of 2 subgroups of one leaf, 2 commitments and 0, 2 accounts, batches of up to 2 |
| `signals` | `OneSignalPerScope`, `ProofFitsOneSubgroup`, `AcceptedSignerIsMember` | 2 subgroups of one or two leaves, 2 identities and the hash of the two, 2 proofs, 1 message, 1 scope, one legal and one illegal depth |
| `gate` | `TypeOK`, `NoVerificationOnceAccepted`, `EveryRequestSettles` | 3 requests, 1 nullifier, 2 scopes |
| `mirror` | `TypeOK`, `MirrorNeverInventsNorRepeats`, `RestartHeals`, `KnownGroupIsKept`, `ListenersStart`, `LateMembersArrive` | 1 group, 2 commitments and 0, 4 events, 1 crash |
| `join` | `TypeOK`, `CredentialNamesSavedHolder`, `DeviceHoldsOnePlace`, `TakenSubgroupWasOwn`, `JoinProofAccepted`, `WaitIsAnswered`, `RunEnds` | 1 device and 1 other member, 2 groups of 2 subgroups, all of one leaf or all of two, with an admin each (`TwoGroupsSpec`), 2 runs, 1 other change by an admin |
| `deploy` | `TypeOK`, `StartBlockCovers`, `SemaphoreFindsItsParts`, `RecordIsOfOneRun`, `RecordedComesToExist` | 2 supported networks and 1 other, 2 tasks, 1 contract created by somebody else |
| `global_root` | `GlobalRootCoversForest` is violated | capacity 2 |
| `zero_member` | `FlaggedIsInSomeTree` is violated | capacity 2 |
| `rebuild` | `SnapshotRebuilds` is violated | 2 subgroups of two leaves, 3 commitments |
| `double_use` | `NoDoubleUse` is violated | 2 requests, 1 nullifier, 1 scope |
| `other_scope` | `UsedNullifierRefused` is violated | 2 requests, 1 nullifier, 2 scopes |

Bounds of the model, all in guards: `MaxGroups`, `MaxTrees` (with `RoomFor` for
batches), `MaxBatch`, `MaxProofs`, `MaxEvents`, `MaxCrashes`, `MaxRuns`,
`MaxOtherOps`, `MaxOthers`, and `lost` for the one loss of a pool per network.
They are enough for the interesting cases. On chain: a batch of three fills a
subgroup of two and spills into the next, repeats a commitment, or holds one
that is a member; a capacity of 0 opens a subgroup per member; two groups
contend for one commitment; two subgroups of one or two leaves let a member
leave, return in the next and move, with a proof from each stage still in hand,
and let a subgroup have the root of another for its leaf. In the gate, three
requests are one more than it takes to have two in verification while a third
arrives, and two scopes give the nullifier two files. In the mirror, four events
(`MaxEvents`) are a group, a member and two changes to it, an update to 0 among
them, enough for every pair of types out of order and for one member to leave
and return; one crash gives the two starts that a replay over a saved file, or a
torn one, needs. For the Groups of `forest`, a subgroup of three leaves has an
inner node and a leaf that moves up, and its places are vacated, exchanged and
followed by those of a second. In the join, two runs are the killed one and its
successor; the two groups are the one the device asks for and the one another
account has; and one change by an admin fills a subgroup of one leaf before the
device comes, removes the device, swaps it in or enrols it first. In the
deployment, two tasks are a task and its rerun, or two processes that overwrite
each other's record.

Keys and accounts are symmetric in the runs of `Semaphore` and `GroupHarness`
with no temporal property but action properties and the refinement of
`MemberRegistry`, which has no fairness; the runs with liveness use no symmetry.
The contract's runs check for deadlock; the others do not, as nothing is left to
do when all requests are answered, all runs have ended or the bound on the chain
is reached.

**Fairness.** The contract's models have none: nobody has to send a transaction.
Elsewhere it is weak fairness of what a running process or a live node does by
itself:

- gate: per request, the callbacks `Before` and `After`: Node's event loop runs
  the handler of a request that has arrived and the continuation of a promise
  that has settled, and `verifyProof` computes and returns;
- mirror: per type, `Turn` (the node answers a query or refuses it, and the
  continuation runs), `Subscribe` (the node sets a filter it was asked for) and
  `Deliver` (what a subscription holds is handed over);
- join: each kind of step of a run, the server's handler of each request, the
  node's subscriptions and deliveries. The handler of `/add-member` may fail
  rather than be mined: success is not assumed;
- deploy: `MineBlock`: a network mines what it was sent.

Crashes, kills, losses, starts and restarts are never fair, and nothing is
assumed of other accounts' transactions.

**What the violations show.** `global_root`: `_updateGlobalRoot` covers the
subgroups up to `currentTreeIndex`, which stays 0 (`_getNextTreeIndex` has no
caller), so the "racine globale" is a function of the first subgroup alone.
`zero_member`: updating a member to 0 flags 0 as a member for good. `rebuild`:
the contract keeps the snapshot for clients to rebuild a subgroup's tree from,
but `new Group(members)` throws on the 0 that a removal leaves behind.
`double_use`: the handler checks before its await and saves after it, so two
requests with one scope and nullifier can both be accepted; once one is accepted
and no other is in verification, they stay refused, across crashes and restarts,
which is what `NoVerificationOnceAccepted` says. `other_scope`: the scope that
names the file is the request's and not the proof's, so the same nullifier and
proof are accepted once per scope a request cares to name.

**What the passing runs show, beyond one module.** A `Group` that is given the
contract's events has its roots and its places after every step, within a batch
too (`forest`), so the proofs that `Semaphore` lets a member make are those
that can be made off-chain. A device never holds two places of all groups though
the server does not remember whom it added (`join`): the contract's flag
is what prevents it, not the client's check, whose answer may be out of date.
The subgroup a client takes from its files or from an event is one it was added
to. A join proof may be for members who are no longer those of the subgroup when
it is sent; the server accepts it all the same (`join`), because it checks a
proof against the root it carries and looks at no group. Once a run's filter is
set, no addition it waits for escapes it, whichever comes first, the event or
the answer of `/add-member` (`WaitIsAnswered`); what is left are the waits that
`WaitsInVain` names. What the server's file lists entered that group on the
chain (`mirror`).

## 4. Proofs

For every value of the constants: any number of groups, subgroups, accounts,
commitments, devices, requests, runs, crashes and networks, any capacity (one
theorem: up to 2^32), any length of a log. The assumptions are named in the
modules: 0 is no commitment, `NoAddress` sends nothing and is no place, groups
can be created at all (`PlacesAreKnown`), a device's identity is a commitment
and `Nobody` is none (`IdentitiesAreCommitments`), the server has an account
(`ServerIsAnAccount`), a torn file holds no content (`TornIsNoContent`), bounds
and sizes are numbers (`BoundsAreNumbers`), no network is both supported and
local (`NetworksAreDistinct`), `None` is neither a contract nor its name
(`NoneIsNoName`, `NoneIsNoContract`).

| theorem | states |
|---|---|
| `SemaphoreProofs!TypeCorrect` | `[]TypeOK` |
| `SemaphoreProofs!FlagsExact` | `[]GlobalMembersExact` |
| `SemaphoreProofs!NoDuplicates` | `[]NoDuplicateMember` |
| `SemaphoreProofs!SnapshotFaithful` | `[]SnapshotMatchesTree` |
| `SemaphoreProofs!ProofsFitOnce` | `[]ProofFitsOneSubgroup`, for subgroups of identities |
| `SemaphoreProofs!SignalsOncePerScope` | `[]OneSignalPerScope` |
| `SemaphoreProofs!SignersAreMembers` | `AcceptedSignerIsMember`, an action property, for subgroups of identities |
| `SemaphoreProofs!OrphansStayEmpty` | `[]OrphanGroupsStayEmpty` |
| `SemaphoreProofs!GlobalRootsCurrent` | `[]GlobalRootCurrent` |
| `SemaphoreProofs!ForestIsShaped` | `[]ForestShape` |
| `SemaphoreProofs!EventsTellAll` | `EventsTellMembers`, an action property |
| `RefinementProofs!ContractImplementsRegistry` | `ImplementsRegistry`, the refinement |
| `RefinementProofs!OnePlace` | no two members of the contract have one numbered place |
| `GroupHarnessProofs!NeverThrows` | `[]GroupNeverThrows` |
| `GroupHarnessProofs!RootsAreOnChain` | `[]GroupRootIsOnChain` |
| `GroupHarnessProofs!GroupPlacesAreUnique` | `[]PlacesAreUnique` |
| `ClientJoinProofs!JoinTypes` | `[]TypeOK` of the join |
| `ClientJoinProofs!CredentialsNameSavedHolders` | `[]CredentialNamesSavedHolder` |
| `ClientJoinProofs!DevicesHoldOnePlace` | `[]DeviceHoldsOnePlace` |
| `ClientJoinProofs!TakenSubgroupsWereOwn` | `[]TakenSubgroupWasOwn` |
| `ClientJoinProofs!WaitsAreAnswered` | `[]WaitIsAnswered` |
| `ClientJoinProofs!JoinProofsAreAccepted` | `[]JoinProofAccepted`, if no subgroup takes more than 2^32 members |
| `ServerMirrorProofs!MirrorTypes` | `[]TypeOK` of the mirror |
| `ServerMirrorProofs!MirrorIsFaithful` | `[]MirrorNeverInventsNorRepeats` |
| `ServerMirrorProofs!KnownGroupStays` | `KnownGroupIsKept`, an action property |
| `ServerMirrorProofs!RestartsHeal` | `[]RestartHeals` |
| `NullifierGateProofs!GateTypeCorrect` | `[]TypeOK` of the gate |
| `NullifierGateProofs!AcceptedStaysRefused` | `NoVerificationOnceAccepted`, an action property |
| `DeploymentProofs!DeploymentTypes` | `[]TypeOK` of the tasks |
| `DeploymentProofs!StartBlocksCover` | `[]StartBlockCovers` |
| `DeploymentProofs!RecordsAreOfOneRun` | `[]RecordIsOfOneRun` |
| `DeploymentProofs!PartsExist` | `[]SemaphoreFindsItsParts` |

**The contract.** The inductive invariant is `IInv == TypeOK /\ ForestInv /\
AdminsHaveGroups`. None of its parts is inductive alone. Flags are exact only if
no leaf occurs twice (else removing one occurrence would clear the flag of the
other), and no leaf occurs twice only because the flags are exact when
`addMember` reads them; both need the tree's map and list to agree
(`Consistent`), for the place that is overwritten is the one the map names.
`AdminsHaveGroups` (only a created group has an admin, present or nominated)
makes `groupTreeCount - 1` a subgroup when `_addMember` subtracts.
`SemaphoreGroupsProofs` has what does not depend on who sends the transactions:
the lemmas about a tree, and about lists and flags that an append
(`AppendKeeps`) or an overwrite (`ReplaceKeeps`) changes. The contract's proofs
and those of the join both stand on it.

A signal that was accepted has its nullifier on record in its group
(`AcceptedIsRecorded`), and the circuit makes the nullifier a function of signer
and scope. A proof that verifies is made for the present root
(`VerifiedSignerIsLeaf`). That the root determines more than itself needs a
lemma about hashing: opening the hashes of a root, one comes upon the nodes of
the tree and, if its leaves are identities or 0, upon no identity that is not a
leaf (`NodesOfIdentities`); so an identity that is a leaf under one root is a
leaf of every such tree with that root (`IdentitiesUnderRoot`), even if the list
it was proved from has hashes of nodes for leaves. `LevelsExist` and
`LevelLengths` say that the levels are what `RootOf` takes them for: halved
until there is one node. The steps are sorted into kinds once (`StepKinds`), and
the rest argues over the kinds. `GlobalRootCurrent` is not inductive: while a
call of `addMembers` is open the root of its group lags, so `OthersCurrent`
claims every group's root but that one's, and needs `OrphanGroupsStayEmpty` for
a group that is created, whose root is 0 because it has no leaf.
`EventsTellMembers` needs `ForestShape`: the index 0 that `_addMember` tells
after opening a subgroup is the end of its list because that list is empty.

`RefinementProofs` states the mapping for any lists and flags (`HomesIn`,
`UsedIn`). A member's home is well defined because the flags are exact and no
leaf occurs twice (`HomeIsPlace`); appending adds one place and moves nobody,
overwriting leaves the places as they are. `OnePlace` then comes from the
registry's side: two members never have one place, whatever the trees do.

**The Groups.** That roots or places agree is not inductive alone: what an event
does to a Group depends on every leaf of it. `HarnessInv` says that the Groups
are the snapshot, that nothing has thrown, and that the last event told the root
of its Group. Each transaction keeps it (`AddTells`, `WriteTells`), by `IInv`:
the index that the contract tells is the place in the list, and within its
bounds. The theorems follow because `IInv` ties the snapshot to the trees.

**The join.** `JoinInv` has one part per owner of state: `CredentialsInv` (what
a run's phase has put on file), `ChainInv` (the forests, from
`SemaphoreGroupsProofs`), `RequestsInv` (a device asks for itself only) and
`RunsInv` (what a run relies on in its phase, `RunOK`). `RunOK` carries the
three theorems about runs. What a queue holds and what `IDs.json` lists, torn or
left by an earlier run, names only subgroups the device was added to, and
additions only grow; so the subgroup a run takes is one of them. A run for which
an addition is `due` and that still waits has it in its queue: taking it from
the queue is what ends the wait, and a wait is over before its phase is left. A
proof that is on its way was made from a list that held its signer and was no
longer than a subgroup may be, and that is all the server looks at; so it does
not matter what was mined since.

That the server accepts every join proof needs two facts about sizes.
`SizesInv`: a subgroup that is not open yet is empty, so that the one that
`_addMember` opens starts from nothing, and no subgroup outgrows the widest
`maxTreeSize`, be it 0. `WidestWithin`: a path in a tree of up to 2^32 leaves
has at most 32 siblings (`MAX_DEPTH`), one more each time the leaves double,
counted with the levels where `SiblingCount` leaves one out. The theorem has the
hypothesis that no member of `TreeSizes` is above 2^32: the server calls
`createGroup()`, which makes it 1024 (`Semaphore.sol:23-25`), and the contract
itself would take a wider one.

**The mirror.** `MirrorInv` says that everything the server handles, the answer
in hand and every queue, comes from the log, and that the members object and a
file that is not torn are faithful to the log (`FaithfulTo`: what they list
entered its group, and only who came in place of another is listed twice). Both
are needed: handling keeps the object faithful only because the event it handles
was logged, and the object of a new start is the file of the one before.
`FaithfulTo` takes the log as a set: a log that grows keeps it.

`RestartHeals` rests on two invariants more. `LogInv` is about the chain alone:
in a group whose history is ordinary, whoever was removed or replaced had been
added, nobody was both or replaced twice, and the members are those added who
did not leave and those who came in place of another (`Plain`). `HealInv` is
about a run with nothing mined since its start (`calm`) and no type switched off
by a failed query (`Heard`): its answer is all the past of the type (`Past`),
its queues are empty, its object and its file agree, and with every type that
was replayed the object is one `Stage` closer: those added and not removed are
listed, then no one removed is, then the updates are made. `ReplayAdds`,
`ReplayRemoves` and `ReplayUpdates` lead from stage to stage, from any faithful
object an earlier run may have left. `FaithfulTo` says why the third one ends
where it should: `indexOf` finds the old member of an update in one place only,
because only new members repeat, and in an ordinary group a new member is never
an old one.

**The gate and the tasks.** The gate's invariant adds to `TypeOK` that a
nullifier that was accepted is on file (`AcceptedIsFiled`), torn or whole, from
the write on: 200 is sent after the save. `DeployInv` says of a task's addresses
and of the record that they are of one run, that the Semaphore contract was sent
with the other two as its parts, and that it exists, if at all, since a block
not before the one the run noted (`Entry`); growth of the chain keeps an `Entry`
(`Grows`). `LinkInv` adds the order of the pool: the parts of the k-th pending
contract are created or pending before it (`Before`), and what a task knows is
created or pending at the end. `SemaphoreFindsItsParts` says nothing of the
pool, so it is not inductive: that no task waits for the parts is harmless only
because an account's transactions are mined in the order of its nonces. A
network that lost its pool is excepted, as in the property.

**Induction over data.** The library's induction theorems take an operator as a
parameter, which the provers cannot instantiate. Where a proof runs over a list
(`Only`, `MembersAfter`, `IdsAfter`, `ChainMembers`, `SaveAll`) or over the
levels of a tree (`Levels`, `SiblingCount`), the operator is a recursive
function, the claim is put as a set of indices, and the least index outside that
set (`LeastNumber`, from `WFMin` on the naturals) is contradicted. That
`SiblingCount` satisfies its own equation (`SiblingCountDefined`) is shown in
the same way, by building it up to every number.

**Only model-checked.** Liveness (`EveryRequestSettles`, `ListenersStart`,
`LateMembersArrive`, `RunEnds`, `RecordedComesToExist`) is out of the prover's
reach and stays with TLC, as do the five properties that are violated. Every
other property of a passing run is a theorem.

## 5. Not modelled

- `_getNextTreeIndex` and `_addMembers` have no caller; `groups[].maxTreeSize`
  is read only by the first; the early return inside `_addMember` and
  `_updateMember` repeats a check their callers have made. `MembersAdded` is
  declared, listened to and never emitted.
- Hash functions, curves, Groth16 and the generated keys: a proof is a record
  and a predicate. A depth shorter than the signer's path, which yields no valid
  proof, is not excluded in `Semaphore`, so it accepts slightly more than the
  code; `ClientJoin` computes the depth as the client does.
- `create-mock-groups.ts`: a demonstration that changes a `Group` of its own and
  then sends transactions with the parameters they had before the forest.
  `export` and `import` of a `Group`: only tests call them.
- What the client's listeners for the events of its own subgroup write to
  `members.json`: nothing reads it. The server's `createDID.ts`, a copy of the
  client's code that runs on its own. `loadVC`. Signatures, `export` and
  `import` of an identity: cryptography and encoding that no flow uses.
- `deploy:semaphore-verifier` is the first step of `deploy:semaphore`;
  `verify-contracts.ts` keeps no state; the core package re-exports.
- Events between an answer of `queryFilter` and the filter of `contract.on` are
  lost in the models as in the code, and no property says they are not:
  `RestartHeals` is about a run with nothing mined since its start,
  `WaitIsAnswered` about filters that are set.
- Repairs by hand: a torn `members.json` or `IDs.json` ends every later start
  until somebody mends it, and the models do not. A deployment that was killed
  between sending and recording is not resumed by the code, and no property says
  it is.
- The vendored Yarn release and the generated files of `circuits`.

## 6. Plan

1. The part of liveness that is an invariant: that a run of the client or of the
   server that has not ended, and does not wait for an event, has a step to
   take, said as a disjunction of guards, phase by phase, since ENABLED is out
   of reach. TLC's runs of `RunEnds` and `ListenersStart` cover it on their
   instances.
2. The forest as `ClientJoin` uses it implements `MemberRegistry`: the mapping
   of `RefinementProofs` is stated for any lists and flags, and `SizesInv` and
   `ForestInv` are what it asks for.
