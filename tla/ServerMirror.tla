---------------------------- MODULE ServerMirror ----------------------------
(***************************************************************************)
(* The mirror of the chain that the auth server keeps in two files:        *)
(* members.json, the members of every subgroup, and IDs.json, the groups.  *)
(* At every start the server takes one type of event after another: it     *)
(* asks the node for the past events, handles them all, subscribes to the  *)
(* new ones without waiting for the subscription, and goes on to the next  *)
(* type.  At the same time initGroup decides from IDs.json whether to      *)
(* create a group.  A handler runs undisturbed; the events of a type come  *)
(* in the order of the chain, those of two types in any order.             *)
(*                                                                         *)
(* A group has one subgroup here: the files keep the subgroups apart in    *)
(* the same way as they keep the groups apart.                             *)
(***************************************************************************)
EXTENDS Integers, SequencesExt

CONSTANTS
  Commitments, (* leaves that the contract takes with addMember            *)
  Zero,        (* the field's 0, which it takes as the new leaf of an      *)
               (* update only                                              *)
  Torn,        (* what a file cut short by a crash holds                   *)
  MaxGroups,   (* bound on the model: groups ever created                  *)
  MaxEvents,   (* bound on the model: events of the chain                  *)
  MaxCrashes   (* bound on the model: crashes of the server                *)

ASSUME ZeroIsNoCommitment == Zero \notin Commitments

Leaves == Commitments \cup {Zero}

ASSUME TornIsNoContent ==
  Torn \notin [0 .. MaxGroups - 1 -> Seq(Leaves)] /\ Torn \notin Seq(0 .. MaxGroups - 1)

ASSUME BoundsAreNumbers == MaxGroups \in Nat /\ MaxEvents \in Nat /\ MaxCrashes \in Nat

Groups == 0 .. MaxGroups - 1

(* The elements of a list that are in the set, in their order.             *)
Only(list, set) ==
  LET kept[i \in 0 .. Len(list)] ==
        IF i = 0 THEN << >>
        ELSE IF list[i] \in set THEN Append(kept[i - 1], list[i]) ELSE kept[i - 1]
  IN  kept[Len(list)]

VARIABLES
  log,          (* the events of the contract, in the order of the chain   *)
  creations,    (* createGroup transactions of the server not mined yet    *)
  up,           (* whether the server process is running                   *)
  turn,         (* the position in EventNames of the type being processed  *)
  answer,       (* <<events>> once queryFilter is answered, or << >>       *)
  subscription, (* of each type, with the events it has not delivered      *)
  members,      (* the members object of the process                       *)
  membersFile,  (* members.json: members, or Torn                          *)
  idsFile,      (* IDs.json: a sequence of groups, or Torn                 *)
  crashes,      (* how often the server has stopped                        *)
  calm          (* whether nothing was mined since the server started      *)

chain   == <<log, creations, calm>>
process == <<up, turn, answer, subscription, members>>
files   == <<membersFile, idsFile>>
vars    == <<chain, process, files, crashes>>

(* MembersAdded, the third of five, is left out: the contract declares the *)
(* event and never emits it.                                               *)
EventNames == <<"GroupCreated", "MemberAdded", "MemberRemoved", "MemberUpdated">>

Names      == Range(EventNames)
Done       == Len(EventNames) + 1
(* contract.on returns before the node has set the filter.                 *)
Off      == "off"
Starting == "starting"
On       == "on"

-----------------------------------------------------------------------------
(***************************************************************************)
(* The chain.  The members of a group are what the events tell: the 0 that *)
(* an update puts in place of a member counts, as it does in members.json. *)
(***************************************************************************)
Created(g)     == [name |-> "GroupCreated", group |-> g]
Added(g, c)    == [name |-> "MemberAdded", group |-> g, member |-> c]
Removed(g, c)  == [name |-> "MemberRemoved", group |-> g, member |-> c]
Updated(g, c, d) == [name |-> "MemberUpdated", group |-> g, member |-> c, new |-> d]

ChainGroups == {log[i].group : i \in {j \in DOMAIN log : log[j].name = "GroupCreated"}}

(* The members of the group g, who are `set' before the event e.           *)
MembersThen(g, set, e) ==
  CASE e.group # g \/ e.name = "GroupCreated" -> set
    [] e.group = g /\ e.name = "MemberAdded"   -> set \cup {e.member}
    [] e.group = g /\ e.name = "MemberRemoved" -> set \ {e.member}
    [] e.group = g /\ e.name = "MemberUpdated" -> (set \ {e.member}) \cup {e.new}

ChainMembers(g) ==
  LET after[i \in 0 .. Len(log)] ==
        IF i = 0 THEN {} ELSE MembersThen(g, after[i - 1], log[i])
  IN  after[Len(log)]

(* The contract keeps one flag per leaf for all groups: it takes in no leaf *)
(* that is flagged, and what an update makes of a member may be 0.  Nothing *)
(* clears the flag of 0, which no tree holds.                              *)
Flagged == UNION {ChainMembers(g) : g \in ChainGroups}

MemberEvents ==
  UNION { {Added(g, c)   : c \in Commitments \ Flagged} \cup
          {Removed(g, c) : c \in ChainMembers(g) \ {Zero}} \cup
          {Updated(g, c, d) : c \in ChainMembers(g) \ {Zero}, d \in Leaves \ Flagged}
          : g \in ChainGroups }

-----------------------------------------------------------------------------
(***************************************************************************)
(* groupStorage.ts.                                                        *)
(***************************************************************************)
(* Mutant: the commitment is appended even if it is listed.                *)
AppendAlways(m, g, c) == [m EXCEPT ![g] = Append(@, c)]

loadMembers == membersFile # Torn /\ members' = membersFile

saveMembers == membersFile' = members'

addMember(m, g, c) == IF Contains(m[g], c) THEN m ELSE [m EXCEPT ![g] = Append(@, c)]

removeMember(m, g, c) == [m EXCEPT ![g] = Only(@, Leaves \ {c})]

updateMember(m, g, c, d) ==
  IF Contains(m[g], c) THEN [m EXCEPT ![g][SelectInSeq(m[g], LAMBDA x : x = c)] = d] ELSE m

saveGroupId(ids, g) ==
  LET read == IF ids = Torn THEN << >> ELSE ids
  IN  IF Contains(read, g) THEN ids ELSE Append(read, g)

getAllGroupIds == idsFile

(***************************************************************************)
(* The handlers of startBlockchainListeners: what the members object and   *)
(* the list of groups are after the events es have been handled.  Every    *)
(* handler writes its file.                                                *)
(***************************************************************************)
Handled(m, e) ==
  CASE e.name = "GroupCreated"  -> m
    [] e.name = "MemberAdded"   -> addMember(m, e.group, e.member)
    [] e.name = "MemberRemoved" -> removeMember(m, e.group, e.member)
    [] e.name = "MemberUpdated" -> updateMember(m, e.group, e.member, e.new)

MembersAfter(m, es) ==
  LET after[i \in 0 .. Len(es)] == IF i = 0 THEN m ELSE Handled(after[i - 1], es[i])
  IN  after[Len(es)]

Filed(ids, e) == IF e.name = "GroupCreated" THEN saveGroupId(ids, e.group) ELSE ids

IdsAfter(ids, es) ==
  LET after[i \in 0 .. Len(es)] == IF i = 0 THEN ids ELSE Filed(after[i - 1], es[i])
  IN  after[Len(es)]

Handle(es) ==
  /\ members' = MembersAfter(members, es)
  /\ idsFile' = IdsAfter(idsFile, es)
  /\ IF \E e \in Range(es) : e.name # "GroupCreated" THEN saveMembers ELSE UNCHANGED membersFile

-----------------------------------------------------------------------------
Idle == [n \in Names |-> [state |-> Off, queue |-> << >>]]

Init ==
  /\ log = << >> /\ creations = 0 /\ calm = TRUE
  /\ up = FALSE /\ turn = Done /\ answer = << >>
  /\ subscription = Idle
  /\ members = [g \in Groups |-> << >>]
  /\ membersFile = members /\ idsFile = << >>
  /\ crashes = 0

(* What is mined goes to the log, and to the subscription of its type.     *)
Mine(e) ==
  /\ Len(log) < MaxEvents
  /\ log' = Append(log, e)
  /\ calm' = ~ up
  /\ subscription' = IF subscription[e.name].state = On
                     THEN [subscription EXCEPT ![e.name].queue = Append(@, e)]
                     ELSE subscription
  /\ UNCHANGED <<up, turn, answer, members, files, crashes>>

(* Any account creates groups and is the admin of its own.                 *)
MineGroup ==
  /\ Cardinality(ChainGroups) < MaxGroups
  /\ Mine(Created(Cardinality(ChainGroups)))
  /\ creations' \in {creations} \cup (IF creations > 0 THEN {creations - 1} ELSE {})

MineMember == UNCHANGED creations /\ \E e \in MemberEvents : Mine(e)

(* The process starts: the listeners read members.json, and in the same    *)
(* tick initGroup reads IDs.json and sends a transaction when it holds no  *)
(* group.  (A missing file reads as an empty one.)  A torn file raises an  *)
(* exception that nobody handles: such a start ends before it does         *)
(* anything, and has no action.                                            *)
(* Mutant: a list of groups that cannot be parsed is taken for an empty    *)
(* one.                                                                    *)
InitOnTornIds ==
  creations' = IF idsFile \in {Torn, << >>} THEN creations + 1 ELSE creations

initGroup ==
  /\ idsFile # Torn
  /\ creations' = IF getAllGroupIds = << >> THEN creations + 1 ELSE creations

Start ==
  /\ ~ up
  /\ up' = TRUE /\ turn' = 1 /\ calm' = TRUE
  /\ loadMembers
  /\ initGroup
  /\ UNCHANGED <<log, answer, subscription, files, crashes>>

(* processEvent: the node answers queryFilter with the past events of the  *)
(* type, or fails to, which is caught: the type gets no subscription and   *)
(* the next is begun.                                                      *)
Querying(n)  == up /\ turn < Done /\ n = EventNames[turn] /\ answer = << >>
Replaying(n) == up /\ turn < Done /\ n = EventNames[turn] /\ answer # << >>

Answer(n) ==
  /\ Querying(n)
  /\ answer' = <<Only(log, {e \in Range(log) : e.name = n})>>
  /\ UNCHANGED <<chain, up, turn, subscription, members, files, crashes>>

Fail(n) ==
  /\ Querying(n)
  /\ turn' = turn + 1
  /\ UNCHANGED <<chain, up, answer, subscription, members, files, crashes>>

(* The past events are handled, all in one go, and contract.on is called.  *)
(* Mutants: only the last event is handled; the next type is not begun.    *)
ReplayLast(n) ==
  /\ Replaying(n)
  /\ Handle(IF answer[1] = << >> THEN << >> ELSE <<Last(answer[1])>>)
  /\ subscription' = [subscription EXCEPT ![n].state = Starting]
  /\ turn' = turn + 1 /\ answer' = << >>
  /\ UNCHANGED <<chain, up, crashes>>

ReplayAndStop(n) ==
  /\ Replaying(n)
  /\ Handle(answer[1])
  /\ subscription' = [subscription EXCEPT ![n].state = Starting]
  /\ UNCHANGED <<chain, up, turn, answer, crashes>>

Replay(n) ==
  /\ Replaying(n)
  /\ Handle(answer[1])
  /\ subscription' = [subscription EXCEPT ![n].state = Starting]
  /\ turn' = turn + 1 /\ answer' = << >>
  /\ UNCHANGED <<chain, up, crashes>>

(* The node sets the filter: what it mines from now on is delivered.  What *)
(* it mined since it answered the query is neither past nor new.           *)
Subscribe(n) ==
  /\ up /\ subscription[n].state = Starting
  /\ subscription' = [subscription EXCEPT ![n].state = On]
  /\ UNCHANGED <<chain, up, turn, answer, members, files, crashes>>

(* Mutant: the subscription goes on without calling the handler.           *)
DeliverNothing(n) ==
  /\ up /\ subscription[n].queue # << >>
  /\ subscription' = [subscription EXCEPT ![n].queue = Tail(@)]
  /\ UNCHANGED <<chain, up, turn, answer, members, files, crashes>>

Deliver(n) ==
  /\ up /\ subscription[n].queue # << >>
  /\ Handle(<<Head(subscription[n].queue)>>)
  /\ subscription' = [subscription EXCEPT ![n].queue = Tail(@)]
  /\ UNCHANGED <<chain, up, turn, answer, crashes>>

(* The process stops: it is killed, or createGroup failed and it exits.  A *)
(* transaction it was sending is mined later or is lost.                   *)
Stop ==
  /\ up /\ crashes < MaxCrashes
  /\ up' = FALSE /\ turn' = Done /\ answer' = << >>
  /\ subscription' = Idle
  /\ members' = [g \in Groups |-> << >>]
  /\ crashes' = crashes + 1
  /\ creations' \in {creations} \cup (IF creations > 0 THEN {creations - 1} ELSE {})
  /\ calm' = TRUE
  /\ UNCHANGED log

Crash == Stop /\ UNCHANGED files

(* It is killed while the handlers of the events es run: after k of them,  *)
(* or while one writes its file.                                           *)
CrashHandling(es) ==
  /\ es # << >>
  /\ \/ \E k \in DOMAIN es :
          /\ membersFile' = IF es[1].name = "GroupCreated" THEN membersFile
                            ELSE MembersAfter(members, SubSeq(es, 1, k))
          /\ idsFile' = IdsAfter(idsFile, SubSeq(es, 1, k))
     \/ /\ es[1].name # "GroupCreated"
        /\ membersFile' = Torn /\ UNCHANGED idsFile
     \/ /\ IdsAfter(idsFile, es) # idsFile
        /\ idsFile' = Torn /\ UNCHANGED membersFile
  /\ Stop

CrashInHandler(n) ==
  \/ Replaying(n) /\ CrashHandling(answer[1])
  \/ subscription[n].queue # << >> /\ CrashHandling(<<Head(subscription[n].queue)>>)

Turn(n) == Answer(n) \/ Fail(n) \/ Replay(n)

Next ==
  \/ MineGroup \/ MineMember
  \/ Start \/ Crash
  \/ \E n \in Names : Turn(n) \/ Subscribe(n) \/ Deliver(n) \/ CrashInHandler(n)

(* The node answers, and the event loop runs the callbacks.  Nothing is    *)
(* assumed of the chain, of crashes, or of restarts.                       *)
Fairness ==
  \A n \in Names : WF_vars(Turn(n)) /\ WF_vars(Subscribe(n)) /\ WF_vars(Deliver(n))

Spec == Init /\ [][Next]_vars /\ Fairness

-----------------------------------------------------------------------------
(***************************************************************************)
(* Properties.                                                             *)
(***************************************************************************)

(* Types; a process that runs has read files that were whole.              *)
TypeOK ==
  LET Lists == [Groups -> Seq(Leaves)] IN
  /\ creations \in Nat
  /\ up \in BOOLEAN /\ turn \in 1 .. Done /\ calm \in BOOLEAN
  /\ answer = << >> \/ answer[1] \in Seq(Range(log))
  /\ \A n \in Names :
       /\ subscription[n].state \in {Off, Starting, On}
       /\ subscription[n].state # On => subscription[n].queue = << >>
       /\ \A e \in Range(subscription[n].queue) : e.name = n /\ e \in Range(log)
  /\ members \in Lists
  /\ membersFile \in Lists \cup {Torn}
  /\ idsFile \in Seq(Groups) \cup {Torn}
  /\ crashes \in 0 .. MaxCrashes
  /\ up => membersFile # Torn /\ idsFile # Torn

Enters(g, c, i) ==
  /\ log[i].group = g
  /\ log[i] \in {Added(g, c)} \cup {Updated(g, d, c) : d \in Leaves}

(* Whatever members.json lists under a group entered that group on the     *)
(* chain, and replaying the chain over the file lists nobody twice, however *)
(* the handlers are interleaved and wherever the server was killed.  (A    *)
(* replayed update does list its new member twice.)                        *)
MirrorNeverInventsNorRepeats ==
  membersFile # Torn => \A g \in Groups :
    /\ \A c \in ToSet(membersFile[g]) : \E i \in DOMAIN log : Enters(g, c, i)
    /\ \/ \E e \in Range(log) : e.group = g /\ e.name = "MemberUpdated"
       \/ IsInjective(membersFile[g])

(* The logs that may be replayed type by type: a commitment enters a group *)
(* at most once, and one that entered in place of another does not leave.  *)
Ordinary(g) ==
  /\ \A c \in Leaves, i, j \in DOMAIN log : Enters(g, c, i) /\ Enters(g, c, j) => i = j
  /\ \A i, j \in DOMAIN log :
       log[i].name = "MemberUpdated" /\ log[j].name \in {"MemberRemoved", "MemberUpdated"}
       /\ log[i].group = g /\ log[j].group = g => log[j].member # log[i].new

(* A restart heals the mirror: a run that has replayed every type, without *)
(* anything being mined since its start, has the members of the contract   *)
(* in members.json, whatever earlier runs lost between a query and its     *)
(* subscription, handled out of order or did not get to write.  (Only for  *)
(* ordinary logs, and as sets: the order and the number of copies differ.) *)
RestartHeals ==
  /\ up /\ turn = Done /\ calm
  /\ \A n \in Names : subscription[n].state # Off
  => \A g \in Groups : Ordinary(g) => ToSet(membersFile[g]) = ChainMembers(g)

(* A group the server has filed is kept: the server never forgets that it  *)
(* knows a group, and no start sends another createGroup afterwards, not   *)
(* even one that finds the file torn.                                      *)
KnownGroupIsKept ==
  [][idsFile # << >> => idsFile' # << >> /\ creations' <= creations]_vars

(* The listeners of a server that goes on running are all started, failed  *)
(* queries or not.                                                         *)
ListenersStart == up /\ turn = 1 ~> ~ up \/ turn = Done

(* A member that is added once the server has subscribed reaches the       *)
(* members object, unless it leaves the group or the server stops.         *)
LateMembersArrive ==
  \A g \in Groups, c \in Commitments :
    Contains(subscription["MemberAdded"].queue, Added(g, c))
      ~> ~ up \/ Contains(members[g], c) \/ c \notin ChainMembers(g)
=============================================================================
