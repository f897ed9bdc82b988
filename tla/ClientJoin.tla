----------------------------- MODULE ClientJoin -----------------------------
(***************************************************************************)
(* How a device joins a group: run() of the auth client, the handlers of   *)
(* /add-member and /join-proof in the auth server, and the group contract. *)
(*                                                                         *)
(* A run gets its identity, replays the events of the contract and         *)
(* subscribes to them, asks the node whether it is a member, asks the      *)
(* server to be added if it is not and waits for the event of its          *)
(* addition, reads the members of its subgroup, builds a Group from them   *)
(* and sends two proofs.  It may be killed at any point and run again      *)
(* while the server still works on what an earlier run asked for.          *)
(*                                                                         *)
(* Where main() awaits something, what was answered and what is done with  *)
(* it are two steps: blocks are mined and events are heard in between.     *)
(* The answers to a replay's query are filed at once: nothing the process  *)
(* does before that reads what they tell.                                  *)
(***************************************************************************)
EXTENDS SemaphoreGroups, DeviceCredentials, FiniteSets

CONSTANTS
  Server,       (* the account of the auth server                          *)
  MaxOtherOps   (* bound on the model: transactions of others on members   *)

ASSUME ServerIsAnAccount == Server \in Accounts

VARIABLES
  groupCounter,  (* the next group id                                      *)
  additions,     (* the chain's log: the subgroups each member was added to *)
  idsFile,       (* IDs.json: the groups known, each with its first subgroup *)
  membersFile,   (* members.json: absent, whole, or cut short by a crash   *)
  subscription,  (* the run's subscriptions, with what they have to deliver *)
  missed,        (* history: what was mined while a filter was being set   *)
  group,         (* the group the run joins                                *)
  tree,          (* the subgroup the run takes for its own                 *)
  members,       (* the members of that subgroup, as the node answered     *)
  proof,         (* the join proof of the run                              *)
  answer,        (* the status the join proof was answered with            *)
  due,           (* history: an addition was mined that the run waits for  *)
  request,       (* the /add-member requests of the device's runs          *)
  otherOps

filesVars  == <<idsFile, membersFile>>
mainVars   == <<group, tree, members, proof, answer>>
clientVars == <<credentialVars, filesVars, subscription, missed, mainVars, due>>
chainVars  == <<forestVars, maxTreeSize, adminVars, groupCounter, additions>>
vars == <<chainVars, emitted, clientVars, request, otherOps>>

NoGroup == MaxGroups
NoTree  == MaxTrees
NoProof == [signer |-> Nobody]

Seqs == INSTANCE SequencesExt

Names == {"GroupCreated", "MemberAdded"}
NoSubscription == [n \in Names |-> [state |-> "off", queue |-> << >>]]
NoRequest == [state |-> "none", member |-> Nobody, groupId |-> NoGroup]

Running(d) == phase[d] # "off"

Init ==
  /\ GroupsInit
  /\ CredentialsInit
  /\ groupCounter = 0
  /\ additions = [c \in Commitments |-> << >>]
  /\ idsFile = [d \in Devices |-> Nobody]
  /\ membersFile = [d \in Devices |-> "absent"]
  /\ subscription = [d \in Devices |-> NoSubscription]
  /\ missed = [d \in Devices |-> {}]
  /\ group = [d \in Devices |-> NoGroup]
  /\ tree = [d \in Devices |-> NoTree]
  /\ members = [d \in Devices |-> << >>]
  /\ proof = [d \in Devices |-> NoProof]
  /\ answer = [d \in Devices |-> 0]
  /\ due = [d \in Devices |-> FALSE]
  /\ request = [d \in Devices |-> [r \in 1 .. MaxRuns |-> NoRequest]]
  /\ otherOps = 0

-----------------------------------------------------------------------------
(***************************************************************************)
(* The chain.  What a transaction logs goes to the clients that have a     *)
(* subscription; a client only looks at the additions of its own member.   *)
(* It uses no more of an event than the group and, of an addition, the     *)
(* subgroup.  Nobody listens to MemberUpdated for the member it brings in, *)
(* nor to the GroupAdminUpdated after GroupCreated.                        *)
(***************************************************************************)
Concerns(d, n, e) ==
  e.event = n /\ (n = "MemberAdded" => e.identityCommitment = identity[d])

Notice(e) == <<e.groupId, IF e.event = "MemberAdded" THEN e.treeIndex ELSE NoTree>>

(* waitForMyTreeIndex is registered before /add-member is called.          *)
Waits(d) == phase[d] \in {"adding", "await"} /\ tree[d] = NoTree

Publish ==
  LET e              == emitted'[1]
      logged         == emitted' # << >>
      addition(c)    == logged /\ e.event = "MemberAdded" /\ e.identityCommitment = c
      concerns(d, n) == logged /\ Concerns(d, n, e)
      state(d, n)    == subscription[d][n].state
  IN
  /\ additions' = [c \in Commitments |->
       IF addition(c) THEN Append(additions[c], Notice(e)) ELSE additions[c]]
  /\ subscription' = [d \in Devices |-> [n \in Names |->
       IF state(d, n) = "on" /\ concerns(d, n)
       THEN [subscription[d][n] EXCEPT !.queue = Append(@, Notice(e))]
       ELSE subscription[d][n]]]
  /\ missed' = [d \in Devices |-> missed[d] \cup
       {<<n, e.groupId>> : n \in {m \in Names : state(d, m) = "starting" /\ concerns(d, m)}}]
  /\ due' = [d \in Devices |-> due[d] \/
       (Waits(d) /\ state(d, "MemberAdded") = "on" /\ concerns(d, "MemberAdded")
          /\ e.groupId = group[d])]
  /\ UNCHANGED <<credentialVars, filesVars, mainVars>>

(* The server at its start, or anybody else.  A group for address(0) is    *)
(* left out: to a device it is one more group that its server cannot use.  *)
CreateGroup ==
  /\ groupCounter \in GroupIds
  /\ \E admin \in Accounts, size \in TreeSizes : _createGroup(groupCounter, admin, size)
  /\ groupCounter' = groupCounter + 1
  /\ Publish
  /\ UNCHANGED <<request, otherOps>>

(* One of addMember, updateMember and removeMember; those that revert or   *)
(* return early leave no trace.                                            *)
MemberTransaction(sender, g) ==
  \/ \E c \in Commitments : ~ globalMembers[c] /\ _addMember(sender, g, c)
  \/ \E t \in TreeIds, c \in Commitments, new \in Leaves :
       ~ globalMembers[new] /\ _updateMember(sender, g, t, c, new)
  \/ \E t \in TreeIds, c \in Commitments : _removeMember(sender, g, t, c)

(* What else admins do, in the group that a device joins and in others:    *)
(* the flag of a member is one for all groups.  A batch of additions is    *)
(* taken one by one.                                                       *)
Administer ==
  /\ otherOps < MaxOtherOps /\ otherOps' = otherOps + 1
  /\ \E sender \in Accounts, g \in GroupIds : MemberTransaction(sender, g)
  /\ Publish
  /\ UNCHANGED <<groupCounter, request>>

-----------------------------------------------------------------------------
(***************************************************************************)
(* The server: POST /add-member, and addMemberToGroup.  Sending fails when *)
(* the call would revert, when two requests at once get the same nonce, or *)
(* when the node fails; a transaction that was sent may be dropped.  The   *)
(* call for somebody who is a member is mined and returns without an event. *)
(***************************************************************************)
Settle(d, r, state) == request' = [request EXCEPT ![d][r].state = state]

(* Steps off the chain log nothing.                                        *)
OffChain == emitted' = << >> /\ UNCHANGED <<chainVars, otherOps>>

AddMemberSends(d, r) ==
  /\ request[d][r].state = "received"
  /\ globalMembers[request[d][r].member] \/ OnlyGroupAdmin(Server, request[d][r].groupId)
  /\ Settle(d, r, "sent")
  /\ OffChain /\ UNCHANGED clientVars

AddMemberFails(d, r) ==
  /\ request[d][r].state \in {"received", "sent"}
  /\ Settle(d, r, "failed")
  /\ OffChain /\ UNCHANGED clientVars

(* Mutant: a member that is in another subgroup is added again.            *)
AddedTwice(d, r) ==
  /\ request[d][r].state = "sent"
  /\ _addMember(Server, request[d][r].groupId, request[d][r].member)
  /\ Settle(d, r, "added")
  /\ Publish
  /\ UNCHANGED <<groupCounter, otherOps>>

AddMemberMined(d, r) ==
  /\ request[d][r].state = "sent"
  /\ ~ globalMembers[request[d][r].member]
  /\ _addMember(Server, request[d][r].groupId, request[d][r].member)
  /\ Settle(d, r, "added")
  /\ Publish
  /\ UNCHANGED <<groupCounter, otherOps>>

AddMemberReturnsEarly(d, r) ==
  /\ request[d][r].state = "sent"
  /\ globalMembers[request[d][r].member]
  /\ Settle(d, r, "present")
  /\ OffChain /\ UNCHANGED clientVars

-----------------------------------------------------------------------------
(***************************************************************************)
(* The client: the events.                                                 *)
(***************************************************************************)
(* saveGroupId starts afresh from a file it cannot parse.  It lists the    *)
(* subgroups of a group in the order they are told; the flow only ever     *)
(* looks at the first one listed.                                          *)
saveGroupId(ids, notice) ==
  LET read     == IF ids \in {Nobody, Torn} THEN << >> ELSE ids
      isOf(i)  == read[i].groupId = notice[1]
      first(i) == IF isOf(i) /\ read[i].subtree = NoTree THEN notice[2] ELSE read[i].subtree
  IN  IF \E i \in DOMAIN read : isOf(i)
      THEN [i \in DOMAIN read |-> [read[i] EXCEPT !.subtree = first(i)]]
      ELSE Append(read, [groupId |-> notice[1], subtree |-> notice[2]])

(* One call after the other, for the past events.                          *)
SaveAll(ids, notices) ==
  LET saved[i \in 0 .. Len(notices)] ==
        IF i = 0 THEN ids ELSE saveGroupId(saved[i - 1], notices[i])
  IN  saved[Len(notices)]

getAllGroupIds(ids) == IF ids = Nobody THEN << >> ELSE ids

getMySubtree(ids, g) ==
  IF ids \notin {Nobody, Torn} /\ \E i \in DOMAIN ids : ids[i].groupId = g
  THEN ids[CHOOSE i \in DOMAIN ids : ids[i].groupId = g].subtree
  ELSE NoTree

SubscribeTo(d, n) == subscription' = [subscription EXCEPT ![d][n].state = "starting"]

SaveIds(d, ids) == idsFile' = [idsFile EXCEPT ![d] = ids]
SaveMembers(d, content) == membersFile' = [membersFile EXCEPT ![d] = content]

(* startBlockchainListeners: members.json, and the past GroupCreated.  A   *)
(* run that throws is over; its process goes on hearing events.            *)
LoadTornMembers(d) ==
  /\ phase[d] = "start" /\ membersFile[d] = "torn"
  /\ GoTo(d, "ended")
  /\ OffChain
  /\ UNCHANGED <<run, credentialFiles, identity, filesVars, subscription, missed, mainVars, due,
                 request>>

PastGroups == [i \in 1 .. groupCounter |-> <<i - 1, NoTree>>]

ReplayGroups(d) ==
  /\ phase[d] = "start" /\ membersFile[d] # "torn"
  /\ SaveMembers(d, "whole")
  /\ SaveIds(d, SaveAll(idsFile[d], PastGroups))
  /\ SubscribeTo(d, "GroupCreated")
  /\ GoTo(d, "additions")
  /\ OffChain
  /\ UNCHANGED <<run, credentialFiles, identity, missed, mainVars, due, request>>

(* The past additions of the member; then getAllGroupIds in the same tick, *)
(* which throws on a torn file.                                            *)
ReplayAdditions(d) ==
  LET past == additions[identity[d]]
      ids  == getAllGroupIds(SaveAll(idsFile[d], past))
  IN
  /\ phase[d] = "additions"
  /\ SaveMembers(d, IF past = << >> THEN membersFile[d] ELSE "whole")
  /\ SaveIds(d, ids)
  /\ SubscribeTo(d, "MemberAdded")
  /\ \/ ids = Torn /\ GoTo(d, "ended") /\ UNCHANGED group
     \/ ids = << >> /\ GoTo(d, "awaitGroup") /\ UNCHANGED group
     \/ /\ ids \notin {Torn, << >>}
        /\ group' = [group EXCEPT ![d] = ids[1].groupId]
        /\ GoTo(d, "check")
  /\ OffChain
  /\ UNCHANGED <<run, credentialFiles, identity, missed, tree, members, proof, answer, due,
                 request>>

(* The node sets a filter some time after contract.on.                     *)
Subscribe(d, n) ==
  /\ subscription[d][n].state = "starting"
  /\ subscription' = [subscription EXCEPT ![d][n].state = "on"]
  /\ OffChain
  /\ UNCHANGED <<credentialVars, filesVars, missed, mainVars, due, request>>

Heard(d, n) == subscription[d][n].queue # << >>

Consume(d, n) == subscription' = [subscription EXCEPT ![d][n].queue = Tail(@)]

HearGroupCreated(d) ==
  LET notice == Head(subscription[d]["GroupCreated"].queue) IN
  /\ Heard(d, "GroupCreated")
  /\ Consume(d, "GroupCreated")
  /\ SaveIds(d, saveGroupId(idsFile[d], notice))
  /\ \/ /\ phase[d] = "awaitGroup"
        /\ group' = [group EXCEPT ![d] = notice[1]]
        /\ GoTo(d, "check")
     \/ phase[d] # "awaitGroup" /\ UNCHANGED <<group, phase>>
  /\ OffChain
  /\ UNCHANGED <<run, credentialFiles, identity, membersFile, missed, tree, members, proof,
                 answer, due, request>>

(* Mutants: nobody waits yet while /add-member is being answered; an       *)
(* addition to any group ends the wait.                                    *)
HearWhenAwaiting(d) ==
  LET notice == Head(subscription[d]["MemberAdded"].queue)
      mine   == phase[d] = "await" /\ Waits(d) /\ notice[1] = group[d]
  IN
  /\ Heard(d, "MemberAdded")
  /\ Consume(d, "MemberAdded")
  /\ SaveMembers(d, "whole")
  /\ SaveIds(d, saveGroupId(idsFile[d], notice))
  /\ tree' = IF mine THEN [tree EXCEPT ![d] = notice[2]] ELSE tree
  /\ GoTo(d, IF mine THEN "list" ELSE phase[d])
  /\ OffChain
  /\ UNCHANGED <<run, credentialFiles, identity, missed, group, members, proof, answer, due,
                 request>>

HearOfAnyGroup(d) ==
  LET notice == Head(subscription[d]["MemberAdded"].queue) IN
  /\ Heard(d, "MemberAdded")
  /\ Consume(d, "MemberAdded")
  /\ SaveMembers(d, "whole")
  /\ SaveIds(d, saveGroupId(idsFile[d], notice))
  /\ tree' = IF Waits(d) THEN [tree EXCEPT ![d] = notice[2]] ELSE tree
  /\ GoTo(d, IF Waits(d) /\ phase[d] = "await" THEN "list" ELSE phase[d])
  /\ OffChain
  /\ UNCHANGED <<run, credentialFiles, identity, missed, group, members, proof, answer, due,
                 request>>

HearMemberAdded(d) ==
  LET notice == Head(subscription[d]["MemberAdded"].queue)
      mine   == Waits(d) /\ notice[1] = group[d]
  IN
  /\ Heard(d, "MemberAdded")
  /\ Consume(d, "MemberAdded")
  /\ SaveMembers(d, "whole")
  /\ SaveIds(d, saveGroupId(idsFile[d], notice))
  /\ tree' = IF mine THEN [tree EXCEPT ![d] = notice[2]] ELSE tree
  /\ GoTo(d, IF mine /\ phase[d] = "await" THEN "list" ELSE phase[d])
  /\ OffChain
  /\ UNCHANGED <<run, credentialFiles, identity, missed, group, members, proof, answer, due,
                 request>>

-----------------------------------------------------------------------------
(***************************************************************************)
(* The client: main().                                                     *)
(***************************************************************************)
mainFrame == <<run, credentialFiles, identity, filesVars, subscription, missed, group, due>>

(* The answer is not used before the next step, and may be out of date.    *)
isAlreadyMember(d) ==
  /\ phase[d] = "check"
  /\ GoTo(d, IF globalMembers[identity[d]] THEN "member" ELSE "newcomer")
  /\ OffChain
  /\ UNCHANGED <<mainFrame, request, tree, members, proof, answer>>

FindSubtree(d) ==
  LET mine == getMySubtree(idsFile[d], group[d]) IN
  /\ phase[d] = "member"
  /\ tree' = [tree EXCEPT ![d] = mine]
  /\ GoTo(d, IF mine = NoTree THEN "ended" ELSE "list")
  /\ OffChain
  /\ UNCHANGED <<mainFrame, request, members, proof, answer>>

addMember(d) ==
  /\ phase[d] = "newcomer"
  /\ request' = [request EXCEPT ![d][run[d]] =
       [state |-> "received", member |-> identity[d], groupId |-> group[d]]]
  /\ GoTo(d, "adding")
  /\ OffChain
  /\ UNCHANGED <<mainFrame, tree, members, proof, answer>>

(* Answered or not, the run goes on to wait for the event.                 *)
StopAdding(d) ==
  /\ GoTo(d, IF tree[d] = NoTree THEN "await" ELSE "list")
  /\ OffChain
  /\ UNCHANGED <<mainFrame, request, tree, members, proof, answer>>

AddMemberReturns(d) ==
  /\ phase[d] = "adding" /\ request[d][run[d]].state \in {"added", "present", "failed"}
  /\ StopAdding(d)

AddMemberUnanswered(d) == phase[d] = "adding" /\ StopAdding(d)

getMembersList(d) ==
  /\ phase[d] = "list"
  /\ members' = [members EXCEPT ![d] = subgroupMembers[<<group[d], tree[d]>>]]
  /\ GoTo(d, "listed")
  /\ OffChain
  /\ UNCHANGED <<mainFrame, request, tree, proof, answer>>

(* How many siblings the path of leaf i of n has: none at a level where    *)
(* the node is the last one and stands alone.                              *)
SiblingCount[n \in Nat] ==
  [i \in Nat |->
     IF n <= 1 THEN 0
     ELSE (IF i = n - 1 /\ i % 2 = 0 THEN 0 ELSE 1) + SiblingCount[(n + 1) \div 2][i \div 2]]

(* Mutant: the depth is the length of the path.                            *)
DepthOfPath(n, i) == SiblingCount[n][i]

DepthOf(n, i) == IF SiblingCount[n][i] # 0 THEN SiblingCount[n][i] ELSE 1

generateProof(signer, list, i) ==
  [signer |-> signer, members |-> list, merkleTreeDepth |-> DepthOf(Len(list), i)]

Place(list, c) == CHOOSE i \in DOMAIN list : list[i] = c

(* new Group(groupMembers) refuses a 0, sendJoinProof a list without the   *)
(* device.                                                                 *)
CanProve(d) == Zero \notin Seqs!ToSet(members[d]) /\ identity[d] \in Seqs!ToSet(members[d])

(* generateProof is awaited, and what it makes is posted in the same tick. *)
(* The proof is of the members the node told, who may no longer be those   *)
(* of the subgroup.                                                        *)
sendJoinProof(d) ==
  /\ phase[d] = "listed" /\ CanProve(d)
  /\ proof' = [proof EXCEPT ![d] =
       generateProof(identity[d], members[d], Place(members[d], identity[d]) - 1)]
  /\ GoTo(d, "joinProof")
  /\ OffChain
  /\ UNCHANGED <<mainFrame, request, tree, members, answer>>

CannotProve(d) ==
  /\ phase[d] = "listed" /\ ~ CanProve(d)
  /\ GoTo(d, "ended")
  /\ OffChain
  /\ UNCHANGED <<mainFrame, request, tree, members, proof, answer>>

(***************************************************************************)
(* verifyProof of the proof package, and POST /join-proof.  The proof is   *)
(* checked against the root it carries, and no group is looked at; a wrong *)
(* depth throws.                                                           *)
(***************************************************************************)
MIN_DEPTH == 1
MAX_DEPTH == 32

DepthRefused(p) == p.merkleTreeDepth \notin MIN_DEPTH .. MAX_DEPTH

verifyProof(p) == ~ DepthRefused(p) /\ p.signer \in Seqs!ToSet(p.members)

JoinProofHandler(d) ==
  /\ phase[d] = "joinProof"
  /\ answer' = [answer EXCEPT ![d] = IF DepthRefused(proof[d]) THEN 500
                                     ELSE IF verifyProof(proof[d]) THEN 200 ELSE 400]
  /\ GoTo(d, "modTrain")
  /\ OffChain
  /\ UNCHANGED <<mainFrame, request, tree, members, proof>>

(* The request or its answer is lost; the run logs that and goes on.       *)
JoinProofLost(d) ==
  /\ phase[d] = "joinProof"
  /\ GoTo(d, "modTrain")
  /\ OffChain
  /\ UNCHANGED <<mainFrame, request, tree, members, proof, answer>>

(* Whatever the answer, the model update follows, from the same Group.     *)
(* What becomes of it is NullifierGate's; the run only logs it.            *)
sendModTrainProof(d) ==
  /\ phase[d] = "modTrain"
  /\ GoTo(d, "ended")
  /\ OffChain
  /\ UNCHANGED <<mainFrame, request, tree, members, proof, answer>>

(* A query to the node fails, or the making of a proof: main() catches     *)
(* neither.                                                                *)
QueryFails(d) ==
  /\ \/ phase[d] = "start" /\ membersFile[d] # "torn" /\ SaveMembers(d, "whole")
     \/ phase[d] \in {"additions", "check", "list", "listed"} /\ UNCHANGED membersFile
  /\ GoTo(d, "ended")
  /\ OffChain
  /\ UNCHANGED <<run, credentialFiles, identity, idsFile, subscription, missed, mainVars, due,
                 request>>

(***************************************************************************)
(* The process is killed, perhaps while it writes one of its files, or it  *)
(* dies of a query of its subgroup listeners, whose failures nobody        *)
(* catches.  Those listeners write members.json when somebody in the       *)
(* subgroup is updated or removed.                                         *)
(***************************************************************************)
ListensToChanges(d) ==
  /\ subscription[d]["MemberAdded"].state # "off"
  /\ \E s \in Seqs!ToSet(additions[identity[d]]) :
       \/ Zero \in Seqs!ToSet(subgroupMembers[s])
       \/ \E c \in Commitments : s \in Seqs!ToSet(additions[c])
                                 /\ c \notin Seqs!ToSet(subgroupMembers[s])

WritesIds(d) ==
  \/ phase[d] = "start" /\ groupCounter > 0
  \/ phase[d] = "additions" /\ (idsFile[d] = Nobody \/ additions[identity[d]] # << >>)
  \/ \E n \in Names : Heard(d, n)

WritesMembers(d) ==
  \/ phase[d] = "start" /\ membersFile[d] = "absent"
  \/ phase[d] = "additions" /\ additions[identity[d]] # << >>
  \/ Heard(d, "MemberAdded")
  \/ ListensToChanges(d)

TearGroupFile(d) ==
  \/ WritesIds(d) /\ SaveIds(d, Torn) /\ UNCHANGED membersFile
  \/ WritesMembers(d) /\ SaveMembers(d, "torn") /\ UNCHANGED idsFile

Kill(d) ==
  /\ Running(d) /\ run[d] < MaxRuns
  /\ \/ UNCHANGED <<credentialFiles, filesVars>>
     \/ TearFile(d) /\ UNCHANGED filesVars
     \/ TearGroupFile(d) /\ UNCHANGED credentialFiles
  /\ GoTo(d, "off")
  /\ identity' = [identity EXCEPT ![d] = Nobody]
  /\ subscription' = [subscription EXCEPT ![d] = NoSubscription]
  /\ missed' = [missed EXCEPT ![d] = {}]
  /\ group' = [group EXCEPT ![d] = NoGroup]
  /\ tree' = [tree EXCEPT ![d] = NoTree]
  /\ members' = [members EXCEPT ![d] = << >>]
  /\ proof' = [proof EXCEPT ![d] = NoProof]
  /\ answer' = [answer EXCEPT ![d] = 0]
  /\ due' = [due EXCEPT ![d] = FALSE]
  /\ OffChain
  /\ UNCHANGED <<run, request>>

Credentials(d) ==
  /\ StartRun(d) \/ getMyIdentityCommitment(d)
  /\ OffChain
  /\ UNCHANGED <<filesVars, subscription, missed, mainVars, due, request>>

Listeners(d) ==
  \/ LoadTornMembers(d) \/ ReplayGroups(d) \/ ReplayAdditions(d)

main(d) ==
  \/ isAlreadyMember(d) \/ FindSubtree(d) \/ addMember(d) \/ AddMemberReturns(d)
  \/ getMembersList(d) \/ sendJoinProof(d) \/ CannotProve(d) \/ sendModTrainProof(d)

Hear(d) == HearGroupCreated(d) \/ HearMemberAdded(d)

AddMemberHandler(d, r) ==
  \/ AddMemberSends(d, r) \/ AddMemberFails(d, r)
  \/ AddMemberMined(d, r) \/ AddMemberReturnsEarly(d, r)

Next ==
  \/ CreateGroup \/ Administer
  \/ \E d \in Devices :
       \/ Credentials(d) \/ Listeners(d) \/ main(d) \/ Hear(d)
       \/ JoinProofHandler(d) \/ JoinProofLost(d) \/ AddMemberUnanswered(d)
       \/ QueryFails(d) \/ Kill(d)
       \/ \E n \in Names : Subscribe(d, n)
       \/ \E r \in 1 .. MaxRuns : AddMemberHandler(d, r)

(* Every step of a run is taken once it is possible: the event loop, the   *)
(* node and the server go on.  Nothing is assumed of runs being started or *)
(* killed, of what is lost, nor of the chain's other transactions.         *)
Fairness ==
  \A d \in Devices :
    /\ WF_vars(phase[d] # "off" /\ Credentials(d))
    /\ WF_vars(Listeners(d)) /\ WF_vars(main(d)) /\ WF_vars(Hear(d))
    /\ WF_vars(JoinProofHandler(d))
    /\ \A n \in Names : WF_vars(Subscribe(d, n))
    /\ \A r \in 1 .. MaxRuns : WF_vars(AddMemberHandler(d, r))

Spec == Init /\ [][Next]_vars /\ Fairness

-----------------------------------------------------------------------------
(***************************************************************************)
(* Properties.                                                             *)
(***************************************************************************)
Phases ==
  {"off", "issuer", "holder", "credential", "identity", "start", "additions", "awaitGroup",
   "check", "member", "newcomer", "adding", "await", "list", "listed", "joinProof", "modTrain",
   "ended"}

(* Types; only a running process has subscriptions, and a run that lists a *)
(* subgroup or proves membership of it has one.                            *)
TypeOK ==
  /\ CredentialsTypeOK
  /\ phase \in [Devices -> Phases]
  /\ group \in [Devices -> GroupIds \cup {NoGroup}]
  /\ tree \in [Devices -> TreeIds \cup {NoTree}]
  /\ answer \in [Devices -> {0, 200, 400, 500}]
  /\ \A d \in Devices :
       /\ ~ Running(d) => subscription[d] = NoSubscription
       /\ phase[d] \in {"list", "listed", "joinProof", "modTrain"} =>
            group[d] # NoGroup /\ tree[d] # NoTree

(* However often a device is killed and run again, with torn files and     *)
(* while requests of its earlier runs are still being served, and whatever *)
(* other admins enrol, there are never two places of all groups that hold  *)
(* what it asked to have added.                                            *)
AskedBy(d) == {request[d][r].member : r \in 1 .. MaxRuns}

DeviceHoldsOnePlace ==
  \A d \in Devices, s1, s2 \in Subgroups :
    \A i \in DOMAIN subgroupMembers[s1], j \in DOMAIN subgroupMembers[s2] :
      subgroupMembers[s1][i] \in AskedBy(d) /\ subgroupMembers[s2][j] \in AskedBy(d)
        => s1 = s2 /\ i = j

(* The subgroup a run lists and proves its membership of, be it from an    *)
(* entry of IDs.json that an earlier run left or from an event, is one of  *)
(* its own group that the device was added to.  (It may have been removed  *)
(* since, and sit in another.)                                             *)
TakenSubgroupWasOwn ==
  \A d \in Devices : tree[d] # NoTree =>
    <<group[d], tree[d]>> \in Seqs!ToSet(additions[identity[d]])

(* The server accepts every join proof of a device, the first and only     *)
(* member of a subgroup included, whatever changed since it was made.      *)
JoinProofAccepted == \A d \in Devices : answer[d] \in {0, 200}

Awaited(d) == {i \in DOMAIN subscription[d]["MemberAdded"].queue :
                 subscription[d]["MemberAdded"].queue[i][1] = group[d]}

(* An addition to its group that is mined while a run waits for it, after  *)
(* its filter was set, ends the wait: the event has been taken, or is yet  *)
(* to be heard.  It does not matter whether it comes before or after       *)
(* /add-member is answered, nor which run or account asked for it.         *)
WaitIsAnswered == \A d \in Devices : due[d] /\ Waits(d) => Awaited(d) # {}

(* The ways to wait for ever: for a group, while there is none or its      *)
(* creation was mined before the filter was set; for an addition that was, *)
(* or that will not come, as the request failed or found a member.         *)
WaitsInVain(d) ==
  \/ /\ phase[d] = "awaitGroup"
     /\ groupCounter = 0 \/ \E g \in GroupIds : <<"GroupCreated", g>> \in missed[d]
  \/ /\ phase[d] = "await"
     /\ \/ request[d][run[d]].state \in {"failed", "present"}
        \/ <<"MemberAdded", group[d]>> \in missed[d]

(* A run that is not killed comes to its end, or to one of these waits.    *)
RunEnds == \A d \in Devices : <>[](phase[d] \in {"off", "ended"} \/ WaitsInVain(d))
=============================================================================
