------------------------------- MODULE Lobby -------------------------------
(***************************************************************************)
(* Admission to one hosted room: the room record that server/browser/      *)
(* lobby.ts keeps in SQLite, and every command that changes it.  A command *)
(* is one IMMEDIATE transaction run after its signature was verified, so   *)
(* each is one atomic action here; a command the code refuses rolls back   *)
(* and is not an action.  The clock is counted in abstract ticks.          *)
(*                                                                         *)
(* Left to other modules: receipts and retries (CommandRetry), activity,   *)
(* expiry and closing of the room (RoomLifecycle), presence and signals    *)
(* (Signaling).                                                            *)
(***************************************************************************)
EXTENDS Integers, FiniteSets, Sequences, SequencesExt, Subsequences

CONSTANTS
  Device,            \* device keys, of members and of strangers
  Member,            \* member ids; each is minted at most once
  Name,              \* display names, compared without case
  Address,           \* networks the HTTP layer tells apart
  NoOne,             \* no member: an absent operator or link
  NoDevice,          \* no device: a request without a pairing
  NoAddress,         \* the address of a request is not known
  RoomDevices,       \* 16 devices in a room
  DevicesPerMember,  \* DEVICES_PER_MEMBER
  AgentsPerOperator, \* AGENTS_PER_OPERATOR
  InvitesPerPerson,  \* INVITES_PER_PERSON
  WaitingPerKind,    \* WAITING_PER_KIND
  WaitingPerAddress, \* WAITING_PER_ADDRESS
  RetiredDevices,    \* RETIRED_DEVICES
  RequestTTL,        \* a request waits ten minutes
  InviteTTL,         \* an agent link lives fifteen
  MaxClock           \* bound on the clock, for TLC

ASSUME SentinelAssumption ==
  NoOne \notin Member /\ NoDevice \notin Device /\ NoAddress \notin Address

ASSUME LimitAssumption ==
  /\ {RoomDevices, DevicesPerMember, AgentsPerOperator, InvitesPerPerson,
      WaitingPerKind, WaitingPerAddress, RetiredDevices} \subseteq Nat \ {0}
  /\ {RequestTTL, InviteTTL, MaxClock} \subseteq Nat

VARIABLES
  clock,     \* Date.now()
  ownerId,   \* room.ownerId
  members,   \* room.members
  devices,   \* room.devices
  requests,  \* room.requests, with the address each came from
  invites,   \* room.invites: open one-time agent links
  retired,   \* room.retired, oldest first
  settings,  \* room.settings, the two that govern admission
  minted     \* every member id ever drawn: crypto.randomUUID() never repeats

vars == <<clock, ownerId, members, devices, requests, invites, retired,
          settings, minted>>

Person == "human"
Agent == "agent"
Kind == {"person", "companion", "agent"}

MemberRecord ==
  [id : Member, name : Name, role : {Person, Agent}, operator : Member \cup {NoOne}]
DeviceRecord == [id : Device, member : Member]
(* `code` and `pairing` are what a companion's linker must know: the code the  *)
(* companion shows, or the secret of one browser device that may link it.      *)
RequestRecord ==
  [device : Device, kind : Kind, name : Name,
   state : {"pending", "admitted", "declined"}, expiresAt : Nat,
   code : BOOLEAN, pairing : Device \cup {NoDevice},
   linked : Member \cup {NoOne}, operator : Member \cup {NoOne},
   address : Address \cup {NoAddress}]
InviteRecord == [name : Name, operator : Member, expiresAt : Nat]
Settings == [guestAgentApproval : BOOLEAN, hostApprovesDevices : BOOLEAN]

TypeOK ==
  /\ clock \in Nat
  /\ ownerId \in Member
  /\ members \subseteq MemberRecord
  /\ devices \subseteq DeviceRecord
  /\ requests \subseteq RequestRecord
  /\ invites \subseteq InviteRecord
  /\ settings \in Settings
  /\ minted \subseteq Member

-----------------------------------------------------------------------------
(* What a command reads.                                                   *)

Fresh == Member \ minted
DevicesOf(m) == {d \in devices : d.member = m}
Present(ds, m) == \E d \in ds : d.member = m
IsPerson(m) == \E x \in members : x.id = m /\ x.role = Person
InRoom(a) == \E d \in devices : d.id = a
(* actor.memberId; only meaningful of a device in the room.                *)
MemberOf(a) == (CHOOSE d \in devices : d.id = a).member
ActsForPerson(a) == InRoom(a) /\ IsPerson(MemberOf(a))
IsHost(a) == InRoom(a) /\ MemberOf(a) = ownerId

Waiting(r) == r.state = "pending" /\ r.expiresAt > clock
Open(i) == i.expiresAt > clock
OpenInvites == {i \in invites : Open(i)}
AgentsOf(m) == {x \in members : x.role = Agent /\ x.operator = m}
WaitingAgentsOf(m) ==
  {r \in requests : r.kind = "agent" /\ Waiting(r) /\ r.operator = m}

WaitingAgentsOnly(m) == Cardinality(WaitingAgentsOf(m)) \* mutant
Operated(m) == Cardinality(AgentsOf(m)) + Cardinality(WaitingAgentsOf(m))

(* An agent's name is free if no member and none of the links `open` has it. *)
NoOpenLinkHas(n, open) == \A i \in open : i.name # n \* mutant
NameAvailable(n, open) ==
  /\ \A x \in members : x.name # n
  /\ \A i \in open : i.name # n

-----------------------------------------------------------------------------
(* admit(): what lets a request in, and the room once it is in as member m. *)

CanAdmitAnyway(r) == \* mutant: the linked member may have left
  /\ Cardinality(devices) < RoomDevices
  /\ r.kind = "companion" => r.linked # NoOne
  /\ r.linked # NoOne => Cardinality(DevicesOf(r.linked)) < DevicesPerMember
  /\ r.kind = "agent" => IsPerson(r.operator) /\ NameAvailable(r.name, {})
CanAdmit(r) ==
  /\ Cardinality(devices) < RoomDevices
  /\ r.kind = "companion" => r.linked # NoOne
  /\ r.linked # NoOne =>
       /\ Present(devices, r.linked)
       /\ Cardinality(DevicesOf(r.linked)) < DevicesPerMember
  /\ r.kind = "agent" => IsPerson(r.operator) /\ NameAvailable(r.name, {})

LinkedIdentity(r) == {r.linked} \* mutant
Identity(r) == IF r.linked # NoOne THEN {r.linked} ELSE Fresh

Admit(r, m) ==
  /\ CanAdmit(r)
  /\ members' = IF r.linked # NoOne THEN members
                ELSE members \cup {[id |-> m, name |-> r.name,
                       role |-> IF r.kind = "agent" THEN Agent ELSE Person,
                       operator |-> IF r.kind = "agent" THEN r.operator ELSE NoOne]}
  /\ devices' = devices \cup {[id |-> r.device, member |-> m]}
  /\ minted' = minted \cup {m}

Admitted(r) == [r EXCEPT !.state = "admitted", !.code = FALSE, !.pairing = NoDevice]

-----------------------------------------------------------------------------
(* `create`: the room starts with its host, guests' agents needing approval. *)
Init ==
  /\ clock = 0
  /\ ownerId \in Member
  /\ \E n \in Name :
       members = {[id |-> ownerId, name |-> n, role |-> Person, operator |-> NoOne]}
  /\ \E d \in Device : devices = {[id |-> d, member |-> ownerId]}
  /\ requests = {}
  /\ invites = {}
  /\ retired = <<>>
  /\ settings = [guestAgentApproval |-> TRUE, hostApprovesDevices |-> FALSE]
  /\ minted = {ownerId}

Tick ==
  /\ clock < MaxClock
  /\ clock' = clock + 1
  /\ UNCHANGED <<ownerId, members, devices, requests, invites, retired, settings, minted>>

(* The service restarts: the addresses of waiting requests were only in memory. *)
Restart ==
  /\ requests' = {[r EXCEPT !.address = NoAddress] : r \in requests}
  /\ UNCHANGED <<clock, ownerId, members, devices, invites, retired, settings, minted>>

(* `request`: a stranger asks to join as a person, or as a companion of someone *)
(* in the room.  A request still waiting is kept unless it now pairs anew.       *)
KeptRequest(a, pairing) ==
  \E r \in requests :
    /\ r.device = a /\ Waiting(r)
    /\ pairing = NoDevice \/ r.pairing = pairing \/ r.linked # NoOne

Request(a, kind, n, pairing, address) ==
  LET others == {r \in requests : r.device # a /\ Waiting(r)} IN
  /\ ~InRoom(a)
  /\ ~KeptRequest(a, pairing)
  /\ kind \in {"person", "companion"}
  /\ pairing # NoDevice => kind = "companion"
  /\ Cardinality({r \in others : r.kind = kind}) < WaitingPerKind
  /\ address # NoAddress =>
       Cardinality({r \in others : r.address = address}) < WaitingPerAddress
  /\ requests' = others \cup
       {[device |-> a, kind |-> kind, name |-> n, state |-> "pending",
         expiresAt |-> clock + RequestTTL,
         code |-> kind = "companion" /\ pairing = NoDevice, pairing |-> pairing,
         linked |-> NoOne, operator |-> NoOne, address |-> address]}
  /\ UNCHANGED <<clock, ownerId, members, devices, invites, retired, settings, minted>>

(* `link`: a person's device confirms a companion, by its code or as the device *)
(* its pairing names.  The request is theirs from here on; it is admitted at     *)
(* once unless the host has the say over it.                                     *)
KnownTo(a, r) == r.code \/ r.pairing = a
Approves(a, r) == IsHost(a) \/ ~settings.hostApprovesDevices \* mutant
HasSay(a, r) ==
  \/ IsHost(a)
  \/ ~settings.hostApprovesDevices /\ \A i \in DOMAIN retired : retired[i].id # r.device

LinkedToHost(a, r) == [r EXCEPT !.linked = ownerId, !.pairing = NoDevice] \* mutant
Linked(a, r) == [r EXCEPT !.linked = MemberOf(a), !.pairing = NoDevice]

Link(a, r) ==
  LET linked == Linked(a, r) IN
  /\ ActsForPerson(a)
  /\ r.kind = "companion" /\ Waiting(r) /\ KnownTo(a, r)
  /\ r.linked \in {NoOne, MemberOf(a)}
  /\ IF HasSay(a, r)
       THEN /\ \E m \in Identity(linked) : Admit(linked, m)
            /\ requests' = (requests \ {r}) \cup {Admitted(linked)}
       ELSE /\ requests' = (requests \ {r}) \cup {linked}
            /\ UNCHANGED <<members, devices, minted>>
  /\ UNCHANGED <<clock, ownerId, invites, retired, settings>>

(* `agent-invite`: a person makes a one-time link for an agent of theirs.    *)
AgentInvite(a, n) ==
  /\ ActsForPerson(a)
  /\ NameAvailable(n, OpenInvites)
  /\ Cardinality({i \in OpenInvites : i.operator = MemberOf(a)}) < InvitesPerPerson
  /\ Cardinality(AgentsOf(MemberOf(a))) < AgentsPerOperator
  /\ invites' = OpenInvites \cup
       {[name |-> n, operator |-> MemberOf(a), expiresAt |-> clock + InviteTTL]}
  /\ UNCHANGED <<clock, ownerId, members, devices, requests, retired, settings, minted>>

(* `agent-redeem`: an agent's device uses the link.  A guest's agent waits for  *)
(* the host while the room asks for approval.                                   *)
KeepRequests(a) == requests \* mutant
RequestsWithout(a) == {r \in requests : r.device # a}
MustWait(i) == settings.guestAgentApproval /\ i.operator # ownerId

AgentRedeem(a, i) ==
  LET others == RequestsWithout(a) IN
  /\ ~InRoom(a)
  /\ Open(i) /\ IsPerson(i.operator)
  /\ NameAvailable(i.name, {})
  /\ Operated(i.operator) < AgentsPerOperator
  /\ Cardinality(devices) < RoomDevices
  /\ invites' = OpenInvites \ {i}
  /\ \/ /\ MustWait(i)
        /\ Cardinality({r \in others : r.kind = "agent" /\ Waiting(r)}) < WaitingPerKind
        /\ requests' = others \cup
             {[device |-> a, kind |-> "agent", name |-> i.name, state |-> "pending",
               expiresAt |-> clock + RequestTTL, code |-> FALSE, pairing |-> NoDevice,
               linked |-> NoOne, operator |-> i.operator, address |-> NoAddress]}
        /\ UNCHANGED <<members, devices, minted>>
     \/ /\ ~MustWait(i)
        /\ requests' = others
        /\ \E m \in Fresh :
             /\ members' = members \cup {[id |-> m, name |-> i.name, role |-> Agent,
                                          operator |-> i.operator]}
             /\ devices' = devices \cup {[id |-> a, member |-> m]}
             /\ minted' = minted \cup {m}
  /\ UNCHANGED <<clock, ownerId, retired, settings>>

(* `cancel`: a device takes its own request back.                            *)
Cancel(a, r) ==
  /\ Waiting(r) /\ r.device = a
  /\ requests' = requests \ {r}
  /\ UNCHANGED <<clock, ownerId, members, devices, invites, retired, settings, minted>>

(* `decide`: the host admits or declines a waiting request.                  *)
DecideAdmit(a, r) ==
  /\ IsHost(a) /\ Waiting(r)
  /\ \E m \in Identity(r) : Admit(r, m)
  /\ requests' = (requests \ {r}) \cup {Admitted(r)}
  /\ UNCHANGED <<clock, ownerId, invites, retired, settings>>

DecideDecline(a, r) ==
  /\ IsHost(a) /\ Waiting(r)
  /\ requests' = (requests \ {r}) \cup
       {[r EXCEPT !.state = "declined", !.code = FALSE, !.pairing = NoDevice]}
  /\ UNCHANGED <<clock, ownerId, members, devices, invites, retired, settings, minted>>

(* `remove`: a device leaves, and with a person's last device the agents they   *)
(* operate, their agents' requests and their links.  The keys of the devices    *)
(* that left are kept, the newest RetiredDevices of them.                       *)
MayRemoveAgents(a, d) == \* mutant: any person's agents
  /\ InRoom(a)
  /\ \/ IsHost(a)
     \/ MemberOf(a) = d.member
     \/ \E x \in members : x.id = d.member /\ x.role = Agent
MayRemove(a, d) ==
  /\ InRoom(a)
  /\ \/ IsHost(a)
     \/ MemberOf(a) = d.member
     \/ \E x \in AgentsOf(MemberOf(a)) : x.id = d.member

KeepsHost(d) == d.member = ownerId => Cardinality(DevicesOf(ownerId)) # 1

LeavingAlone(d) == {} \* mutant
LeavingWith(d) ==
  LET left == devices \ {d} IN
  {e \in left : \E x \in members : x.id = e.member /\ x.role = Agent
                                   /\ ~Present(left, x.operator)}

Newest(s) == IF Len(s) <= RetiredDevices THEN s
             ELSE SubSeq(s, Len(s) - RetiredDevices + 1, Len(s))

RetireTarget(gone, order) == Newest(retired \o <<Head(order)>>) \* mutant
Retire(gone, order) ==
  LET kept == {i \in DOMAIN retired : \A g \in gone : g.id # retired[i].id}
  IN Newest(At(retired, kept) \o order)

RemoveDevice(a, d) ==
  LET gone == {d} \cup LeavingWith(d)
      left == devices \ gone IN
  /\ MayRemove(a, d)
  /\ KeepsHost(d)
  /\ devices' = left
  /\ members' = {x \in members : Present(left, x.id)}
  /\ requests' = {r \in requests :
                    /\ \A g \in gone : g.id # r.device
                    /\ r.kind = "agent" => Present(left, r.operator)}
  /\ invites' = {i \in invites : Present(left, i.operator)}
  /\ \E order \in SetToSeqs(LeavingWith(d)) : retired' = Retire(gone, <<d>> \o order)
  /\ UNCHANGED <<clock, ownerId, settings, minted>>

(* `settings`: the host changes the rules of admission.                      *)
ChangeSettings(a, s) ==
  /\ IsHost(a)
  /\ settings' = s
  /\ UNCHANGED <<clock, ownerId, members, devices, requests, invites, retired, minted>>

(* The commands of device a.                                                 *)
Act(a) ==
  \/ \E kind \in {"person", "companion"}, n \in Name,
        pairing \in Device \cup {NoDevice}, address \in Address \cup {NoAddress} :
       Request(a, kind, n, pairing, address)
  \/ \E r \in requests :
       Link(a, r) \/ Cancel(a, r) \/ DecideAdmit(a, r) \/ DecideDecline(a, r)
  \/ \E n \in Name : AgentInvite(a, n)
  \/ \E i \in invites : AgentRedeem(a, i)
  \/ \E d \in devices : RemoveDevice(a, d)
  \/ \E s \in Settings : ChangeSettings(a, s)

Next == Tick \/ Restart \/ \E a \in Device : Act(a)

Spec == Init /\ [][Next]_vars

-----------------------------------------------------------------------------
(* Safety                                                                  *)

(* A device key is one participant: it holds one place in the room, at most one *)
(* request on record, and while that request is pending it is not in the room.  *)
(* The room record is an array: nothing but `request`, `agent-redeem` and       *)
(* `remove` dropping each other's leftovers keeps a device from entering twice. *)
OneIdentityPerDevice ==
  /\ \A d, e \in devices : d.id = e.id => d = e
  /\ \A r, s \in requests : r.device = s.device => r = s
  /\ \A r \in requests, d \in devices : r.device = d.id => r.state # "pending"

(* Members and devices describe the same people: every member holds a device,  *)
(* every device belongs to a member, and ids are not shared.                   *)
MembersHoldDevices ==
  /\ {x.id : x \in members} = {d.member : d \in devices}
  /\ \A x, y \in members : x.id = y.id => x = y

(* The room always has its host: a person with a device who can decide.        *)
HostPresent == IsPerson(ownerId) /\ Present(devices, ownerId)

(* Whoever the room record names can act in the room, and the host always can.  *)
PeopleCoherent == MembersHoldDevices /\ HostPresent

(* "An agent never stays in a room its operator has left": agents, agents that  *)
(* wait and agent links all belong to a person who is in the room.              *)
NoOrphans ==
  /\ \A x \in members : x.role = Agent => IsPerson(x.operator)
  /\ \A r \in requests : r.kind = "agent" => IsPerson(r.operator)
  /\ \A i \in invites : IsPerson(i.operator)

(* What a room records about who is in it, and who waits, hangs together.       *)
RecordCoherent == TypeOK /\ OneIdentityPerDevice /\ PeopleCoherent /\ NoOrphans

(* Nobody's share is exceeded, whatever was waiting when a limit was checked:   *)
(* an operator's agents in the room and waiting, a member's devices, the room's *)
(* devices, a person's open links, each kind's and each address's requests.     *)
SharesHold ==
  /\ \A x \in members :
       Cardinality({y \in members : y.role = Agent /\ y.operator = x.id})
         + Cardinality(WaitingAgentsOf(x.id)) <= AgentsPerOperator
  /\ \A x \in members : Cardinality(DevicesOf(x.id)) <= DevicesPerMember
  /\ Cardinality(devices) <= RoomDevices
  /\ \A x \in members :
       Cardinality({i \in OpenInvites : i.operator = x.id}) <= InvitesPerPerson
  /\ \A k \in Kind :
       Cardinality({r \in requests : r.kind = k /\ Waiting(r)}) <= WaitingPerKind
  /\ \A w \in Address :
       Cardinality({r \in requests : r.address = w /\ Waiting(r)}) <= WaitingPerAddress

(* Mentions resolve by name, so two agents in a room never answer to one name.  *)
AgentNamesDistinct ==
  \A x, y \in members : x.role = Agent /\ y.role = Agent /\ x.name = y.name => x = y

-----------------------------------------------------------------------------
(* Who may change what                                                     *)

(* How a peer checks a change it is relayed (acceptBoard, acceptDecisions and   *)
(* acceptReactions in src/browser/peers.ts): the key is the device's current     *)
(* one if it is in the room, otherwise the first it finds among the retired, and *)
(* the member on the change must be the one that record names.                   *)
AuthorOf(d) ==
  IF InRoom(d) THEN {MemberOf(d)}
  ELSE LET at == {i \in DOMAIN retired : retired[i].id = d}
       IN {retired[i].member : i \in {j \in at : \A k \in at : j <= k}}
Verifies(d, m) == m \in AuthorOf(d)

Entering == devices' \ devices
Leaving == devices \ devices'
Speaks(a, m) == InRoom(a) /\ MemberOf(a) = m
HostActs(a) == Speaks(a, ownerId)
Joins(d) == \E x \in members : x.id = d.member
Retired(d) == \E i \in DOMAIN retired : retired[i].id = d

(* A member's earlier changes go on verifying when their device leaves: only a  *)
(* full list of retired keys, or the same key coming in as somebody new, makes  *)
(* them unverifiable.                                                           *)
KeysOutliveMembership ==
  [][<<devices, retired>>' # <<devices, retired>> =>
       \A d \in Device, m \in Member : Verifies(d, m) /\ ~Verifies(d, m)' =>
         (\E e \in Entering : e.id = d) \/ Len(retired') = RetiredDevices]_vars

(* A device leaves at the word of the host, of its own member, or of the        *)
(* operator of the agent it is; or because that operator left in the same step. *)
LeavesAtTheWordOf(a, d) ==
  \/ HostActs(a) \/ Speaks(a, d.member)
  \/ \E x \in members : x.id = d.member /\ x.role = Agent
       /\ (Speaks(a, x.operator) \/ ~Present(devices', x.operator))
LeavesByRight ==
  [][\A d \in Leaving, a \in Device : ~LeavesAtTheWordOf(a, d) => ~Act(a)]_vars

(* However a person comes in, it is the host who lets them; an agent comes in   *)
(* by itself only through a link, for the person who made it, and a guest's      *)
(* agent not even so while the host asks for approval.                           *)
EntersAtTheWordOf(a, x) ==
  \/ HostActs(a)
  \/ ~InRoom(a) /\ x.role = Agent /\ (settings.guestAgentApproval => x.operator = ownerId)
       /\ \E i \in OpenInvites : i.operator = x.operator /\ i.name = x.name
EntersByRight ==
  [][\A x \in members' \ members, a \in Device : ~EntersAtTheWordOf(a, x) => ~Act(a)]_vars

(* Nobody comes in or goes but at the word of somebody entitled to it.          *)
ByRight == LeavesByRight /\ EntersByRight

(* "A link can only ever add a device to the linker": only a member's own device *)
(* ties a request to that member, nobody ties it to another afterwards, and a    *)
(* device joins somebody already in the room by their own link or by the host    *)
(* deciding a request they tied.                                                 *)
LinksOnlyAddToTheLinker ==
  [][/\ \A s \in requests' \ requests : s.linked # NoOne =>
          \/ \E r \in requests : r.device = s.device /\ r.linked = s.linked
          \/ \A a \in Device : ~Speaks(a, s.linked) => ~Act(a)
     /\ \A r \in requests, s \in requests' :
          r.device = s.device /\ r.linked # NoOne => s.linked \in {NoOne, r.linked}
     /\ \A d \in Entering : Joins(d) => \A a \in Device :
          \/ Speaks(a, d.member)
          \/ HostActs(a) /\ \E r \in requests : r.device = d.id /\ r.linked = d.member
          \/ ~Act(a)]_vars

(* The host keeps the say over every companion while it approves new devices,   *)
(* and always over one whose key it still holds as retired.                     *)
HostKeepsTheSay ==
  [][\A d \in Entering :
       Joins(d) /\ (settings.hostApprovesDevices \/ Retired(d.id)) =>
         \A a \in Device : ~HostActs(a) => ~Act(a)]_vars
=============================================================================
