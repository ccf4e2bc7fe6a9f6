---------------------------- MODULE Lobby_proofs ----------------------------
(***************************************************************************)
(* For every set of devices, members and names and every limit: the room   *)
(* record stays well formed and coherent, the host stays in the room, and  *)
(* nothing in it belongs to an operator who left; agents keep names of     *)
(* their own; nobody comes in or goes but by right; no limit is passed;    *)
(* and what a member wrote goes on verifying as theirs after they left.    *)
(***************************************************************************)
EXTENDS Lobby, Subsequences_proofs, FiniteSetTheorems, FunctionTheorems, TLAPS

(* The ids in use were all minted: a fresh id is nobody's.                   *)
IdsMinted == \A x \in members : x.id \in minted

IInv ==
  /\ TypeOK
  /\ IdsMinted
  /\ MembersHoldDevices
  /\ OneIdentityPerDevice
  /\ HostPresent
  /\ NoOrphans

(* A device in the room has a member.                                        *)
LEMMA ActorIsMember ==
  ASSUME TypeOK, NEW a, InRoom(a)
  PROVE  MemberOf(a) \in Member /\ \E d \in devices : d.id = a /\ d.member = MemberOf(a)
<1>1. PICK d \in devices : d.id = a
  BY DEF InRoom
<1>2. (CHOOSE e \in devices : e.id = a) \in devices /\ (CHOOSE e \in devices : e.id = a).id = a
  BY <1>1
<1> QED
  BY <1>2 DEF MemberOf, TypeOK, DeviceRecord

(* Reading the record: the members and the devices name the same people.     *)
LEMMA HolderKnown ==
  ASSUME MembersHoldDevices
  PROVE  /\ \A x \in members : \E d \in devices : d.member = x.id
         /\ \A d \in devices : \E x \in members : x.id = d.member
<1>1. ASSUME NEW x \in members PROVE \E d \in devices : d.member = x.id
  <2>1. x.id \in {y.id : y \in members}
    OBVIOUS
  <2> QED
    BY <2>1 DEF MembersHoldDevices
<1>2. ASSUME NEW d \in devices PROVE \E x \in members : x.id = d.member
  <2>1. d.member \in {e.member : e \in devices}
    OBVIOUS
  <2> QED
    BY <2>1 DEF MembersHoldDevices
<1> QED
  BY <1>1, <1>2

LEMMA InitIInv == Init => IInv
<1> SUFFICES ASSUME Init PROVE IInv
  OBVIOUS
<1>1. PICK n \in Name :
        members = {[id |-> ownerId, name |-> n, role |-> Person, operator |-> NoOne]}
  BY DEF Init
<1>2. PICK d \in Device : devices = {[id |-> d, member |-> ownerId]}
  BY DEF Init
<1>3. TypeOK
  BY <1>1, <1>2 DEF Init, TypeOK, MemberRecord, DeviceRecord, Settings, Person
<1>4. IdsMinted /\ HostPresent
  BY <1>1, <1>2 DEF Init, IdsMinted, HostPresent, IsPerson, Present
<1>5. MembersHoldDevices /\ OneIdentityPerDevice
  BY <1>1, <1>2 DEF Init, MembersHoldDevices, OneIdentityPerDevice
<1>6. NoOrphans
  BY <1>1 DEF Init, NoOrphans, Person, Agent
<1> QED
  BY <1>3, <1>4, <1>5, <1>6 DEF IInv

-----------------------------------------------------------------------------
(* Whoever was a person in the room stays one while nobody is removed.        *)
LEMMA PersonStays ==
  ASSUME NEW m, IsPerson(m), members \subseteq members'
  PROVE  IsPerson(m)'
BY DEF IsPerson

(* Letting somebody in as member m: m is new, or is already here with a device. *)
Enters(id, m) ==
  /\ devices' = devices \cup {[id |-> id, member |-> m]}
  /\ minted' = minted \cup {m}
  /\ ownerId' = ownerId
  /\ \/ members' = members /\ Present(devices, m)
     \/ /\ m \in Fresh
        /\ \E x \in MemberRecord :
             /\ members' = members \cup {x}
             /\ x.id = m
             /\ x.role = Agent => IsPerson(x.operator)

LEMMA EntersKeeps ==
  ASSUME IInv, NEW id \in Device, NEW m \in Member, ~InRoom(id), Enters(id, m)
  PROVE  /\ members \subseteq members'
         /\ members' \subseteq MemberRecord
         /\ devices' \subseteq DeviceRecord
         /\ minted' \subseteq Member
         /\ IdsMinted'
         /\ MembersHoldDevices'
         /\ \A d, e \in devices' : d.id = e.id => d = e
         /\ HostPresent'
         /\ \A x \in members' : x.role = Agent => IsPerson(x.operator)'
<1> DEFINE new == [id |-> id, member |-> m]
<1>0. TypeOK /\ IdsMinted /\ MembersHoldDevices /\ OneIdentityPerDevice /\ HostPresent /\ NoOrphans
  BY DEF IInv
<1>1. devices' = devices \cup {new} /\ minted' = minted \cup {m} /\ ownerId' = ownerId
  BY DEF Enters
<1>2. new \in DeviceRecord
  BY DEF DeviceRecord
<1>3. devices' \subseteq DeviceRecord /\ minted' \subseteq Member
  BY <1>0, <1>1, <1>2 DEF TypeOK
<1>4. members \subseteq members'
  BY DEF Enters
<1>5. ASSUME NEW d \in devices', NEW e \in devices', d.id = e.id PROVE d = e
  <2>1. \A f \in devices : f.id # id
    BY DEF InRoom
  <2> QED
    BY <1>0, <1>1, <1>5, <2>1 DEF OneIdentityPerDevice
<1>6. /\ members' \subseteq MemberRecord
      /\ IdsMinted'
      /\ \A x, y \in members' : x.id = y.id => x = y
      /\ \A x \in members' : x.id = m \/ \E d \in devices : d.member = x.id
      /\ \A x \in members' : x.role = Agent => IsPerson(x.operator)
      /\ \E x \in members' : x.id = m
  <2>1. CASE members' = members /\ Present(devices, m)
    <3>1. \E x \in members : x.id = m
      BY <2>1, <1>0, HolderKnown DEF Present
    <3>2. members' \subseteq MemberRecord /\ IdsMinted'
      BY <2>1, <1>0, <1>1 DEF TypeOK, IdsMinted
    <3>3. \A x, y \in members' : x.id = y.id => x = y
      BY <2>1, <1>0 DEF MembersHoldDevices
    <3>4. \A x \in members' : \E d \in devices : d.member = x.id
      BY <2>1, <1>0, HolderKnown
    <3>5. \A x \in members' : x.role = Agent => IsPerson(x.operator)
      BY <2>1, <1>0 DEF NoOrphans
    <3> QED
      BY <2>1, <3>1, <3>2, <3>3, <3>4, <3>5
  <2>2. CASE /\ m \in Fresh
             /\ \E x \in MemberRecord :
                  /\ members' = members \cup {x}
                  /\ x.id = m
                  /\ x.role = Agent => IsPerson(x.operator)
    <3>1. PICK x \in MemberRecord : /\ members' = members \cup {x}
                                    /\ x.id = m
                                    /\ x.role = Agent => IsPerson(x.operator)
      BY <2>2
    <3>2. \A y \in members : y.id # m
      BY <2>2, <1>0 DEF Fresh, IdsMinted
    <3>3. \A y, z \in members' : y.id = z.id => y = z
      BY <3>1, <3>2, <1>0 DEF MembersHoldDevices
    <3>4. IdsMinted' /\ members' \subseteq MemberRecord
      BY <3>1, <1>0, <1>1 DEF IdsMinted, TypeOK
    <3>5. \A y \in members' : y.role = Agent => IsPerson(y.operator)
      BY <3>1, <1>0 DEF NoOrphans
    <3> QED
      BY <3>1, <3>3, <3>4, <3>5, <1>0, HolderKnown
  <2> QED
    BY <2>1, <2>2 DEF Enters
<1>7. {x.id : x \in members'} = {d.member : d \in devices'}
  <2>0. new \in devices' /\ new.member = m
    BY <1>1
  <2> HIDE DEF new
  <2>1. \A x \in members' : \E d \in devices' : d.member = x.id
    BY <1>1, <1>6, <2>0
  <2>2. \A d \in devices' : \E x \in members' : x.id = d.member
    BY <1>0, <1>1, <1>4, <1>6, <2>0, HolderKnown
  <2> QED
    BY <2>1, <2>2
<1>8. HostPresent'
  <2>1. IsPerson(ownerId)'
    BY <1>0, <1>1, <1>4 DEF HostPresent, IsPerson
  <2> QED
    BY <1>0, <1>1, <2>1 DEF HostPresent, Present
<1>9. \A x \in members' : x.role = Agent => IsPerson(x.operator)'
  BY <1>4, <1>6 DEF IsPerson
<1> QED
  BY <1>3, <1>4, <1>5, <1>6, <1>7, <1>8, <1>9 DEF MembersHoldDevices

(* A request that may be admitted enters as its linked member or as a new one.  *)
LEMMA AdmitEnters ==
  ASSUME IInv, SentinelAssumption, NEW r \in RequestRecord, NEW m \in Identity(r), Admit(r, m),
         ownerId' = ownerId
  PROVE  m \in Member /\ Enters(r.device, m)
<1>0. TypeOK
  BY DEF IInv
<1>1. CASE r.linked # NoOne
  <2>1. m = r.linked
    BY <1>1 DEF Identity
  <2>2. r.linked \in Member
    BY <1>1 DEF RequestRecord
  <2>3. members' = members /\ Present(devices, m)
    BY <1>1, <2>1 DEF Admit, CanAdmit
  <2> QED
    BY <2>1, <2>2, <2>3 DEF Admit, Enters
<1>2. CASE r.linked = NoOne
  <2>1. m \in Fresh /\ m \in Member
    BY <1>2 DEF Identity, Fresh
  <2> DEFINE x == [id |-> m, name |-> r.name,
                   role |-> IF r.kind = "agent" THEN Agent ELSE Person,
                   operator |-> IF r.kind = "agent" THEN r.operator ELSE NoOne]
  <2>2. members' = members \cup {x}
    BY <1>2 DEF Admit
  <2>3. r.kind = "agent" => IsPerson(r.operator)
    BY DEF Admit, CanAdmit
  <2>4. r.name \in Name /\ r.operator \in Member \cup {NoOne}
    BY DEF RequestRecord
  <2>5. x \in MemberRecord
    BY <2>1, <2>4 DEF MemberRecord
  <2>6. x.id = m /\ (x.role = Agent => IsPerson(x.operator))
    BY <2>3 DEF Agent, Person
  <2> QED
    BY <2>1, <2>2, <2>5, <2>6 DEF Admit, Enters
<1> QED
  BY <1>1, <1>2

-----------------------------------------------------------------------------
(* What is left to show of a step once its members and devices are settled.   *)
RequestsSound ==
  /\ requests \subseteq RequestRecord
  /\ \A r, s \in requests : r.device = s.device => r = s
  /\ \A r \in requests, d \in devices : r.device = d.id => r.state # "pending"
  /\ \A r \in requests : r.kind = "agent" => IsPerson(r.operator)

InvitesSound ==
  invites \subseteq InviteRecord /\ \A i \in invites : IsPerson(i.operator)

LEMMA SoundNow == IInv => RequestsSound /\ InvitesSound
BY DEF IInv, TypeOK, OneIdentityPerDevice, NoOrphans, RequestsSound, InvitesSound

LEMMA SameRoom ==
  ASSUME IInv, UNCHANGED <<ownerId, members, devices, minted>>, clock' \in Nat,
         settings' \in Settings, RequestsSound', InvitesSound'
  PROVE  IInv'
<1>1. TypeOK' /\ IdsMinted'
  BY DEF IInv, TypeOK, IdsMinted, RequestsSound, InvitesSound
<1>2. MembersHoldDevices' /\ HostPresent'
  BY DEF IInv, MembersHoldDevices, HostPresent, IsPerson, Present
<1>3. OneIdentityPerDevice'
  BY DEF IInv, OneIdentityPerDevice, RequestsSound
<1>4. NoOrphans'
  BY DEF IInv, NoOrphans, IsPerson, RequestsSound, InvitesSound
<1> QED
  BY <1>1, <1>2, <1>3, <1>4 DEF IInv

LEMMA RoomEntered ==
  ASSUME IInv, NEW id \in Device, NEW m \in Member, ~InRoom(id), Enters(id, m),
         UNCHANGED <<clock, settings>>, RequestsSound', InvitesSound'
  PROVE  IInv'
<1>1. TypeOK' /\ IdsMinted' /\ MembersHoldDevices' /\ HostPresent'
  BY EntersKeeps DEF IInv, TypeOK, RequestsSound, InvitesSound, Enters
<1>2. OneIdentityPerDevice'
  BY EntersKeeps DEF OneIdentityPerDevice, RequestsSound
<1>3. NoOrphans'
  BY EntersKeeps DEF NoOrphans, RequestsSound, InvitesSound
<1> QED
  BY <1>1, <1>2, <1>3 DEF IInv

(* Requests of other devices stay sound when people are only let in.          *)
LEMMA PersonsStay ==
  ASSUME members \subseteq members'
  PROVE  \A m : IsPerson(m) => IsPerson(m)'
BY DEF IsPerson

LEMMA RequestKeeps ==
  ASSUME IInv, LimitAssumption, SentinelAssumption, NEW a \in Device,
         NEW kind \in {"person", "companion"}, NEW n \in Name,
         NEW pairing \in Device \cup {NoDevice}, NEW address \in Address \cup {NoAddress},
         Request(a, kind, n, pairing, address)
  PROVE  IInv'
<1> DEFINE new == [device |-> a, kind |-> kind, name |-> n, state |-> "pending",
         expiresAt |-> clock + RequestTTL,
         code |-> kind = "companion" /\ pairing = NoDevice, pairing |-> pairing,
         linked |-> NoOne, operator |-> NoOne, address |-> address]
<1> DEFINE others == {r \in requests : r.device # a /\ Waiting(r)}
<1>0. TypeOK /\ RequestsSound /\ InvitesSound
  BY SoundNow DEF IInv
<1>1. requests' = others \cup {new} /\ ~InRoom(a)
      /\ UNCHANGED <<clock, ownerId, members, devices, invites, settings, minted>>
  BY DEF Request
<1>2. new \in RequestRecord
  <2>1. clock + RequestTTL \in Nat
    BY <1>0 DEF TypeOK, LimitAssumption
  <2>2. new.code \in BOOLEAN
    OBVIOUS
  <2> QED
    BY <2>1, <2>2 DEF RequestRecord, Kind
<1>3. new.device = a /\ new.kind # "agent"
  OBVIOUS
<1> HIDE DEF new
<1>4. RequestsSound'
  <2>1. requests' \subseteq RequestRecord
    BY <1>0, <1>1, <1>2 DEF RequestsSound
  <2>2. \A r, s \in requests' : r.device = s.device => r = s
    BY <1>0, <1>1, <1>3 DEF RequestsSound
  <2>3. \A r \in requests', d \in devices' : r.device = d.id => r.state # "pending"
    BY <1>0, <1>1, <1>3 DEF RequestsSound, InRoom
  <2>4. \A r \in requests' : r.kind = "agent" => IsPerson(r.operator)'
    BY <1>0, <1>1, <1>3 DEF RequestsSound, IsPerson
  <2> QED
    BY <2>1, <2>2, <2>3, <2>4 DEF RequestsSound
<1>5. InvitesSound'
  BY <1>0, <1>1 DEF InvitesSound, IsPerson
<1>6. clock' \in Nat /\ settings' \in Settings
  BY <1>0, <1>1 DEF TypeOK
<1> QED
  BY <1>1, <1>4, <1>5, <1>6, SameRoom

(* Requests after one of them, r, changed its standing to s.                   *)
LEMMA RequestAnswered ==
  ASSUME IInv, NEW r \in requests, NEW s \in RequestRecord,
         s.device = r.device, s.kind = r.kind, s.operator = r.operator,
         requests' = (requests \ {r}) \cup {s},
         members \subseteq members',
         \/ devices' = devices /\ r.state = "pending"
         \/ s.state # "pending" /\ \E m : devices' = devices \cup {[id |-> r.device, member |-> m]}
  PROVE  RequestsSound'
<1>0. RequestsSound
  BY SoundNow
<1>1. requests' \subseteq RequestRecord
  BY <1>0 DEF RequestsSound
<1>2. \A p, q \in requests' : p.device = q.device => p = q
  BY <1>0 DEF RequestsSound
<1>3. ASSUME NEW p \in requests', NEW d \in devices', p.device = d.id PROVE p.state # "pending"
  <2>1. CASE devices' = devices /\ r.state = "pending"
    BY <1>0, <1>3, <2>1 DEF RequestsSound
  <2>2. CASE s.state # "pending" /\ \E m : devices' = devices \cup {[id |-> r.device, member |-> m]}
    <3>1. PICK m : devices' = devices \cup {[id |-> r.device, member |-> m]}
      BY <2>2
    <3>2. CASE p = s
      BY <2>2, <3>2
    <3>3. CASE p # s
      <4>1. p \in requests /\ p # r
        BY <3>3
      <4>2. p.device # r.device
        BY <4>1, <1>0 DEF RequestsSound
      <4>3. d \in devices
        BY <3>1, <4>2, <1>3
      <4> QED
        BY <4>1, <4>3, <1>0, <1>3 DEF RequestsSound
    <3> QED
      BY <3>2, <3>3
  <2> QED
    BY <2>1, <2>2
<1>4. \A p \in requests' : p.kind = "agent" => IsPerson(p.operator)'
  BY <1>0, PersonsStay DEF RequestsSound
<1> QED
  BY <1>1, <1>2, <1>3, <1>4 DEF RequestsSound

-----------------------------------------------------------------------------
(* The commands that answer a request.                                        *)

(* Admitting a waiting request, as it is or freshly linked.                   *)
LEMMA AdmitKeeps ==
  ASSUME IInv, SentinelAssumption, NEW r \in requests, r.state = "pending",
         NEW s \in RequestRecord, s.device = r.device, s.kind = r.kind,
         s.operator = r.operator,
         NEW m \in Identity(s), Admit(s, m),
         requests' = (requests \ {r}) \cup {Admitted(s)},
         UNCHANGED <<clock, ownerId, invites, settings>>
  PROVE  IInv'
<1>0. RequestsSound /\ InvitesSound
  BY SoundNow
<1>1. m \in Member /\ Enters(s.device, m)
  BY AdmitEnters
<1>2. s.device \in Device
  BY DEF RequestRecord
<1>3. ~InRoom(s.device)
  BY <1>0 DEF RequestsSound, InRoom
<1>4. members \subseteq members'
  BY <1>1 DEF Enters
<1>5. /\ Admitted(s) \in RequestRecord
      /\ Admitted(s).device = r.device
      /\ Admitted(s).kind = r.kind
      /\ Admitted(s).operator = r.operator
      /\ Admitted(s).state = "admitted"
  BY DEF Admitted, RequestRecord
<1>6. RequestsSound'
  <2>1. \E k : devices' = devices \cup {[id |-> r.device, member |-> k]}
    BY <1>1 DEF Enters
  <2> QED
    BY <1>4, <1>5, <2>1, RequestAnswered
<1>7. InvitesSound'
  BY <1>0, <1>4, PersonsStay DEF InvitesSound
<1> QED
  BY <1>1, <1>2, <1>3, <1>6, <1>7, RoomEntered

LEMMA LinkKeeps ==
  ASSUME IInv, SentinelAssumption, NEW a \in Device, NEW r \in requests, Link(a, r)
  PROVE  IInv'
<1>0. TypeOK /\ RequestsSound /\ InvitesSound
  BY SoundNow DEF IInv
<1> DEFINE s == Linked(a, r)
<1>1. r.state = "pending" /\ InRoom(a)
  BY DEF Link, Waiting, ActsForPerson
<1>2. MemberOf(a) \in Member
  BY <1>0, <1>1, ActorIsMember
<1>3. r \in RequestRecord
  BY <1>0 DEF RequestsSound
<1>4. /\ s \in RequestRecord
      /\ s.device = r.device /\ s.kind = r.kind /\ s.operator = r.operator
      /\ s.state = r.state
  BY <1>2, <1>3 DEF Linked, RequestRecord
<1>5. UNCHANGED <<clock, ownerId, invites, settings>>
  BY DEF Link
<1> HIDE DEF s
<1>6. CASE HasSay(a, r)
  <2>1. (\E m \in Identity(s) : Admit(s, m)) /\ requests' = (requests \ {r}) \cup {Admitted(s)}
    BY <1>6 DEF Link, s
  <2> QED
    BY <1>1, <1>4, <1>5, <2>1, AdmitKeeps
<1>7. CASE ~HasSay(a, r)
  <2>1. requests' = (requests \ {r}) \cup {s} /\ UNCHANGED <<members, devices, minted>>
    BY <1>7 DEF Link, s
  <2>2. RequestsSound'
    BY <1>1, <1>4, <2>1, RequestAnswered
  <2>3. InvitesSound'
    BY <1>0, <1>5, <2>1 DEF InvitesSound, IsPerson
  <2>4. clock' \in Nat /\ settings' \in Settings
    BY <1>0, <1>5 DEF TypeOK
  <2> QED
    BY <1>5, <2>1, <2>2, <2>3, <2>4, SameRoom
<1> QED
  BY <1>6, <1>7

LEMMA DecideKeeps ==
  ASSUME IInv, SentinelAssumption, NEW a \in Device, NEW r \in requests,
         DecideAdmit(a, r) \/ DecideDecline(a, r)
  PROVE  IInv'
<1>0. TypeOK /\ RequestsSound /\ InvitesSound
  BY SoundNow DEF IInv
<1>1. r \in RequestRecord /\ r.state = "pending"
  BY <1>0 DEF RequestsSound, DecideAdmit, DecideDecline, Waiting
<1>2. CASE DecideAdmit(a, r)
  <2>1. PICK m \in Identity(r) : Admit(r, m)
    BY <1>2 DEF DecideAdmit
  <2>2. requests' = (requests \ {r}) \cup {Admitted(r)}
        /\ UNCHANGED <<clock, ownerId, invites, settings>>
    BY <1>2 DEF DecideAdmit
  <2> QED
    BY <1>1, <2>1, <2>2, AdmitKeeps
<1>3. CASE DecideDecline(a, r)
  <2> DEFINE s == [r EXCEPT !.state = "declined", !.code = FALSE, !.pairing = NoDevice]
  <2>1. s \in RequestRecord /\ s.device = r.device /\ s.kind = r.kind /\ s.operator = r.operator
    BY <1>1 DEF RequestRecord
  <2>2. requests' = (requests \ {r}) \cup {s}
        /\ UNCHANGED <<clock, ownerId, members, devices, invites, settings, minted>>
    BY <1>3 DEF DecideDecline
  <2> HIDE DEF s
  <2>3. RequestsSound'
    BY <1>1, <2>1, <2>2, RequestAnswered
  <2>4. InvitesSound' /\ clock' \in Nat /\ settings' \in Settings
    BY <1>0, <2>2 DEF InvitesSound, IsPerson, TypeOK
  <2> QED
    BY <2>2, <2>3, <2>4, SameRoom
<1> QED
  BY <1>2, <1>3

(* The steps that leave the members and the devices alone.                    *)
LEMMA FewerRequests ==
  ASSUME RequestsSound, requests' \subseteq requests, UNCHANGED <<members, devices>>
  PROVE  RequestsSound'
BY DEF RequestsSound, IsPerson

LEMMA QuietKeeps ==
  ASSUME IInv, LimitAssumption, NEW a \in Device,
         \/ Tick
         \/ Restart
         \/ \E r \in requests : Cancel(a, r)
         \/ \E n \in Name : AgentInvite(a, n)
         \/ \E s \in Settings : ChangeSettings(a, s)
  PROVE  IInv'
<1>0. TypeOK /\ RequestsSound /\ InvitesSound
  BY SoundNow DEF IInv
<1>1. CASE Tick
  <2>1. clock' \in Nat /\ UNCHANGED <<ownerId, members, devices, requests, invites, settings, minted>>
    BY <1>0, <1>1 DEF Tick, TypeOK
  <2>2. RequestsSound' /\ InvitesSound' /\ settings' \in Settings
    BY <1>0, <2>1 DEF RequestsSound, InvitesSound, IsPerson, TypeOK
  <2> QED
    BY <2>1, <2>2, SameRoom
<1>2. CASE Restart
  <2>1. requests' = {[r EXCEPT !.address = NoAddress] : r \in requests}
        /\ UNCHANGED <<clock, ownerId, members, devices, invites, settings, minted>>
    BY <1>2 DEF Restart
  <2>2. ASSUME NEW p \in requests'
        PROVE  p \in RequestRecord
               /\ \E r \in requests : /\ p = [r EXCEPT !.address = NoAddress]
                                      /\ p.device = r.device /\ p.state = r.state
                                      /\ p.kind = r.kind /\ p.operator = r.operator
    <3>1. PICK r \in requests : p = [r EXCEPT !.address = NoAddress]
      BY <2>1
    <3>2. r \in RequestRecord
      BY <1>0 DEF RequestsSound
    <3>3. p \in RequestRecord /\ p.device = r.device /\ p.state = r.state
          /\ p.kind = r.kind /\ p.operator = r.operator
      BY <3>1, <3>2 DEF RequestRecord
    <3> QED
      BY <3>1, <3>3
  <2>3. RequestsSound'
    <3>1. \A p, q \in requests' : p.device = q.device => p = q
      <4> SUFFICES ASSUME NEW p \in requests', NEW q \in requests', p.device = q.device
                   PROVE  p = q
        OBVIOUS
      <4>1. PICK r \in requests : p = [r EXCEPT !.address = NoAddress] /\ p.device = r.device
        BY <2>2
      <4>2. PICK s \in requests : q = [s EXCEPT !.address = NoAddress] /\ q.device = s.device
        BY <2>2
      <4>3. r = s
        BY <1>0, <4>1, <4>2 DEF RequestsSound
      <4> QED
        BY <4>1, <4>2, <4>3
    <3>2. \A p \in requests', d \in devices' : p.device = d.id => p.state # "pending"
      BY <1>0, <2>1, <2>2 DEF RequestsSound
    <3>3. \A p \in requests' : p.kind = "agent" => IsPerson(p.operator)'
      BY <1>0, <2>1, <2>2 DEF RequestsSound, IsPerson
    <3> QED
      BY <2>2, <3>1, <3>2, <3>3 DEF RequestsSound
  <2>4. InvitesSound' /\ clock' \in Nat /\ settings' \in Settings
    BY <1>0, <2>1 DEF InvitesSound, IsPerson, TypeOK
  <2> QED
    BY <2>1, <2>3, <2>4, SameRoom
<1>3. CASE \E r \in requests : Cancel(a, r)
  <2>1. requests' \subseteq requests
        /\ UNCHANGED <<clock, ownerId, members, devices, invites, settings, minted>>
    BY <1>3 DEF Cancel
  <2>2. RequestsSound'
    BY <1>0, <2>1, FewerRequests
  <2>3. InvitesSound' /\ clock' \in Nat /\ settings' \in Settings
    BY <1>0, <2>1 DEF InvitesSound, IsPerson, TypeOK
  <2> QED
    BY <2>1, <2>2, <2>3, SameRoom
<1>4. CASE \E n \in Name : AgentInvite(a, n)
  <2>1. PICK n \in Name : AgentInvite(a, n)
    BY <1>4
  <2> DEFINE i == [name |-> n, operator |-> MemberOf(a), expiresAt |-> clock + InviteTTL]
  <2>2. invites' = OpenInvites \cup {i} /\ IsPerson(MemberOf(a)) /\ InRoom(a)
        /\ UNCHANGED <<clock, ownerId, members, devices, requests, settings, minted>>
    BY <2>1 DEF AgentInvite, ActsForPerson
  <2>3. i \in InviteRecord
    <3>1. clock + InviteTTL \in Nat
      BY <1>0 DEF TypeOK, LimitAssumption
    <3>2. MemberOf(a) \in Member
      BY <1>0, <2>2, ActorIsMember
    <3> QED
      BY <3>1, <3>2 DEF InviteRecord
  <2>4. i.operator = MemberOf(a)
    OBVIOUS
  <2> HIDE DEF i
  <2>5. InvitesSound'
    BY <1>0, <2>2, <2>3, <2>4 DEF InvitesSound, OpenInvites, IsPerson
  <2>6. RequestsSound' /\ clock' \in Nat /\ settings' \in Settings
    BY <1>0, <2>2 DEF RequestsSound, IsPerson, TypeOK
  <2> QED
    BY <2>2, <2>5, <2>6, SameRoom
<1>5. CASE \E s \in Settings : ChangeSettings(a, s)
  <2>1. settings' \in Settings
        /\ UNCHANGED <<clock, ownerId, members, devices, requests, invites, minted>>
    BY <1>5 DEF ChangeSettings
  <2>2. RequestsSound' /\ InvitesSound' /\ clock' \in Nat
    BY <1>0, <2>1 DEF RequestsSound, InvitesSound, IsPerson, TypeOK
  <2> QED
    BY <2>1, <2>2, SameRoom
<1> QED
  BY <1>1, <1>2, <1>3, <1>4, <1>5

-----------------------------------------------------------------------------
(* An agent redeems its link: it waits for the host, or enters as a new member. *)
LEMMA RedeemKeeps ==
  ASSUME IInv, LimitAssumption, SentinelAssumption, NEW a \in Device, NEW i \in invites,
         AgentRedeem(a, i)
  PROVE  IInv'
<1>0. TypeOK /\ RequestsSound /\ InvitesSound
  BY SoundNow DEF IInv
<1>1. i.operator \in Member /\ i.name \in Name /\ IsPerson(i.operator) /\ ~InRoom(a)
  BY <1>0 DEF InvitesSound, InviteRecord, AgentRedeem
<1>2. invites' \subseteq invites /\ UNCHANGED <<clock, ownerId, settings>>
  BY DEF AgentRedeem, OpenInvites
<1>3. CASE MustWait(i)
  <2> DEFINE new == [device |-> a, kind |-> "agent", name |-> i.name, state |-> "pending",
               expiresAt |-> clock + RequestTTL, code |-> FALSE, pairing |-> NoDevice,
               linked |-> NoOne, operator |-> i.operator, address |-> NoAddress]
  <2>1. requests' = RequestsWithout(a) \cup {new} /\ UNCHANGED <<members, devices, minted>>
    BY <1>3 DEF AgentRedeem
  <2>2. new \in RequestRecord
    <3>1. clock + RequestTTL \in Nat
      BY <1>0 DEF TypeOK, LimitAssumption
    <3> QED
      BY <1>1, <3>1 DEF RequestRecord, Kind
  <2>3. new.device = a /\ new.operator = i.operator
    OBVIOUS
  <2> HIDE DEF new
  <2>4. RequestsSound'
    <3>1. requests' \subseteq RequestRecord
      BY <1>0, <2>1, <2>2 DEF RequestsSound, RequestsWithout
    <3>2. \A r, s \in requests' : r.device = s.device => r = s
      BY <1>0, <2>1, <2>3 DEF RequestsSound, RequestsWithout
    <3>3. \A r \in requests', d \in devices' : r.device = d.id => r.state # "pending"
      BY <1>0, <1>1, <2>1, <2>3 DEF RequestsSound, RequestsWithout, InRoom
    <3>4. \A r \in requests' : r.kind = "agent" => IsPerson(r.operator)'
      BY <1>0, <1>1, <2>1, <2>3 DEF RequestsSound, RequestsWithout, IsPerson
    <3> QED
      BY <3>1, <3>2, <3>3, <3>4 DEF RequestsSound
  <2>5. InvitesSound' /\ clock' \in Nat /\ settings' \in Settings
    BY <1>0, <1>2, <2>1 DEF InvitesSound, IsPerson, TypeOK
  <2> QED
    BY <1>2, <2>1, <2>4, <2>5, SameRoom
<1>4. CASE ~MustWait(i)
  <2>1. requests' = RequestsWithout(a)
    BY <1>4 DEF AgentRedeem
  <2>2. PICK m \in Fresh :
          /\ members' = members \cup {[id |-> m, name |-> i.name, role |-> Agent,
                                       operator |-> i.operator]}
          /\ devices' = devices \cup {[id |-> a, member |-> m]}
          /\ minted' = minted \cup {m}
    BY <1>4 DEF AgentRedeem
  <2> DEFINE x == [id |-> m, name |-> i.name, role |-> Agent, operator |-> i.operator]
  <2>3. m \in Member
    BY DEF Fresh
  <2>4. x \in MemberRecord /\ x.id = m /\ x.operator = i.operator
    BY <1>1, <2>3 DEF MemberRecord
  <2>5. members' = members \cup {x}
    BY <2>2
  <2> HIDE DEF x
  <2>6. Enters(a, m)
    BY <1>1, <1>2, <2>2, <2>4, <2>5 DEF Enters
  <2>7. RequestsSound'
    <3>1. \A r \in requests', d \in devices' : r.device = d.id => r.state # "pending"
      BY <1>0, <2>1, <2>2 DEF RequestsSound, RequestsWithout
    <3>2. \A r \in requests' : r.kind = "agent" => IsPerson(r.operator)'
      BY <1>0, <2>1, <2>5, PersonsStay DEF RequestsSound, RequestsWithout
    <3> QED
      BY <1>0, <2>1, <3>1, <3>2 DEF RequestsSound, RequestsWithout
  <2>8. InvitesSound'
    BY <1>0, <1>2, <2>5, PersonsStay DEF InvitesSound
  <2> QED
    BY <1>1, <1>2, <2>3, <2>6, <2>7, <2>8, RoomEntered
<1> QED
  BY <1>3, <1>4

-----------------------------------------------------------------------------
(* A device leaves. The host does not, because it keeps another device; and a  *)
(* person whose agents stay has a device that stays.                           *)
LEMMA RemoveKeeps ==
  ASSUME IInv, NEW a \in Device, NEW d \in devices, RemoveDevice(a, d)
  PROVE  IInv'
<1> DEFINE left == devices \ ({d} \cup LeavingWith(d))
<1>0. /\ TypeOK /\ IdsMinted /\ MembersHoldDevices /\ OneIdentityPerDevice
      /\ HostPresent /\ NoOrphans /\ RequestsSound /\ InvitesSound
  BY SoundNow DEF IInv
<1>1. /\ devices' = left
      /\ members' = {x \in members : Present(left, x.id)}
      /\ requests' \subseteq requests
      /\ \A r \in requests' : r.kind = "agent" => Present(left, r.operator)
      /\ invites' = {i \in invites : Present(left, i.operator)}
      /\ UNCHANGED <<clock, ownerId, settings, minted>>
  BY DEF RemoveDevice
<1>2. \A e \in devices : e \notin left =>
        e = d \/ (e # d /\ \E x \in members : x.id = e.member /\ x.role = Agent
                          /\ ~Present(devices \ {d}, x.operator))
  BY DEF LeavingWith
<1>3. ASSUME NEW x \in members, x.role = Agent, Present(left, x.id)
      PROVE  Present(devices \ {d}, x.operator)
  <2>1. PICK e \in left : e.member = x.id
    BY <1>3 DEF Present
  <2>2. e \in devices \ {d} /\ e \notin LeavingWith(d)
    OBVIOUS
  <2> QED
    BY <1>3, <2>1, <2>2 DEF LeavingWith
<1> HIDE DEF left
<1>4. ASSUME NEW m, IsPerson(m), Present(devices \ {d}, m) PROVE Present(left, m)
  <2>1. PICK e \in devices \ {d} : e.member = m
    BY <1>4 DEF Present
  <2>2. PICK x \in members : x.id = m /\ x.role = Person
    BY <1>4 DEF IsPerson
  <2>3. \A y \in members : y.id = m => y.role # Agent
    BY <1>0, <2>2 DEF MembersHoldDevices, Person, Agent
  <2>4. e \in left
    BY <1>2, <2>1, <2>3
  <2> QED
    BY <2>1, <2>4 DEF Present
<1>5. ASSUME NEW m, IsPerson(m), Present(left, m) PROVE IsPerson(m)'
  BY <1>1, <1>5 DEF IsPerson
<1>6. TypeOK' /\ IdsMinted'
  BY <1>0, <1>1 DEF TypeOK, IdsMinted, left
<1>7. MembersHoldDevices'
  <2>1. \A x \in members' : \E e \in devices' : e.member = x.id
    BY <1>1 DEF Present
  <2>2. ASSUME NEW e \in devices' PROVE \E x \in members' : x.id = e.member
    <3>1. e \in devices /\ e \in left
      BY <1>1 DEF left
    <3>2. PICK x \in members : x.id = e.member
      BY <1>0, <3>1, HolderKnown
    <3>3. Present(left, x.id)
      BY <3>1, <3>2 DEF Present
    <3> QED
      BY <1>1, <3>2, <3>3
  <2>3. {x.id : x \in members'} = {e.member : e \in devices'}
    BY <2>1, <2>2
  <2> QED
    BY <1>0, <1>1, <2>3 DEF MembersHoldDevices
<1>8. OneIdentityPerDevice'
  BY <1>0, <1>1 DEF OneIdentityPerDevice, left
<1>9. HostPresent'
  <2>1. Present(devices \ {d}, ownerId)
    <3>1. CASE d.member # ownerId
      BY <1>0, <3>1 DEF HostPresent, Present
    <3>2. CASE d.member = ownerId
      <4>1. Cardinality(DevicesOf(ownerId)) # 1
        BY <3>2 DEF RemoveDevice, KeepsHost
      <4>2. DevicesOf(ownerId) # {d}
        BY <4>1, FS_Singleton
      <4>3. d \in DevicesOf(ownerId)
        BY <3>2 DEF DevicesOf
      <4> QED
        BY <4>2, <4>3 DEF DevicesOf, Present
    <3> QED
      BY <3>1, <3>2
  <2>2. Present(left, ownerId)
    BY <1>0, <1>4, <2>1 DEF HostPresent
  <2> QED
    BY <1>0, <1>1, <1>5, <2>2 DEF HostPresent
<1>10. NoOrphans'
  <2>1. ASSUME NEW x \in members', x.role = Agent PROVE IsPerson(x.operator)'
    <3>1. x \in members /\ Present(left, x.id)
      BY <1>1
    <3>2. IsPerson(x.operator)
      BY <1>0, <2>1, <3>1 DEF NoOrphans
    <3> QED
      BY <1>3, <1>4, <1>5, <2>1, <3>1, <3>2
  <2>2. ASSUME NEW r \in requests', r.kind = "agent" PROVE IsPerson(r.operator)'
    <3>1. IsPerson(r.operator)
      BY <1>0, <1>1, <2>2 DEF NoOrphans
    <3> QED
      BY <1>1, <1>5, <2>2, <3>1
  <2>3. ASSUME NEW i \in invites' PROVE IsPerson(i.operator)'
    BY <1>0, <1>1, <1>5 DEF NoOrphans
  <2> QED
    BY <2>1, <2>2, <2>3 DEF NoOrphans
<1> QED
  BY <1>6, <1>7, <1>8, <1>9, <1>10 DEF IInv

-----------------------------------------------------------------------------
(* Every step keeps the record coherent.                                       *)
LEMMA StepIInv == IInv /\ [Next]_vars => IInv'
<1> SUFFICES ASSUME IInv, [Next]_vars PROVE IInv'
  OBVIOUS
<1> USE SentinelAssumption, LimitAssumption
<1>1. CASE UNCHANGED vars
  <2>1. RequestsSound /\ InvitesSound /\ TypeOK
    BY SoundNow DEF IInv
  <2>2. RequestsSound' /\ InvitesSound' /\ clock' \in Nat /\ settings' \in Settings
    BY <1>1, <2>1 DEF vars, RequestsSound, InvitesSound, IsPerson, TypeOK
  <2> QED
    BY <1>1, <2>2, SameRoom DEF vars
<1>2. CASE Tick \/ Restart
  <2>1. \E a : a \in Device
    BY DEF IInv, HostPresent, Present, TypeOK, DeviceRecord
  <2> QED
    BY <1>2, <2>1, QuietKeeps
<1>3. CASE \E a \in Device : Act(a)
  <2>1. PICK a \in Device : Act(a)
    BY <1>3
  <2>2. CASE \E kind \in {"person", "companion"}, n \in Name,
               pairing \in Device \cup {NoDevice}, address \in Address \cup {NoAddress} :
               Request(a, kind, n, pairing, address)
    BY <2>2, RequestKeeps
  <2>3. CASE \E r \in requests : Link(a, r)
    BY <2>3, LinkKeeps
  <2>4. CASE \E r \in requests : Cancel(a, r)
    BY <2>4, QuietKeeps
  <2>5. CASE \E r \in requests : DecideAdmit(a, r) \/ DecideDecline(a, r)
    BY <2>5, DecideKeeps
  <2>6. CASE \E n \in Name : AgentInvite(a, n)
    BY <2>6, QuietKeeps
  <2>7. CASE \E i \in invites : AgentRedeem(a, i)
    BY <2>7, RedeemKeeps
  <2>8. CASE \E d \in devices : RemoveDevice(a, d)
    BY <2>8, RemoveKeeps
  <2>9. CASE \E s \in Settings : ChangeSettings(a, s)
    BY <2>9, QuietKeeps
  <2> QED
    BY <2>1, <2>2, <2>3, <2>4, <2>5, <2>6, <2>7, <2>8, <2>9 DEF Act
<1> QED
  BY <1>1, <1>2, <1>3 DEF Next

LEMMA Inductive == Spec => []IInv
<1>1. Init => IInv
  BY InitIInv
<1>2. IInv /\ [Next]_vars => IInv'
  BY StepIInv
<1> QED
  BY <1>1, <1>2, PTL DEF Spec

(* The room record is always well typed, whatever commands lobby.ts ran.       *)
THEOREM TypeCorrect == Spec => []TypeOK
<1>1. IInv => TypeOK
  BY DEF IInv
<1> QED
  BY <1>1, Inductive, PTL

(* A device key is always one participant with at most one request.            *)
THEOREM DevicesDistinct == Spec => []OneIdentityPerDevice
<1>1. IInv => OneIdentityPerDevice
  BY DEF IInv
<1> QED
  BY <1>1, Inductive, PTL

(* Members and devices always describe the same people, and no sequence of     *)
(* commands removes the host's last device.                                    *)
THEOREM MembersCoherent == Spec => []PeopleCoherent
<1>1. IInv => PeopleCoherent
  BY DEF IInv, PeopleCoherent
<1> QED
  BY <1>1, Inductive, PTL

(* No agent, agent request or agent link outlives its operator's stay.         *)
THEOREM OperatorsStay == Spec => []NoOrphans
<1>1. IInv => NoOrphans
  BY DEF IInv
<1> QED
  BY <1>1, Inductive, PTL

(* The room record hangs together after any commands (request, decide, remove,  *)
(* redeem and the rest of src/server/browser/lobby.ts).                         *)
THEOREM RoomCoherent == Spec => []RecordCoherent
<1>1. TypeOK /\ OneIdentityPerDevice /\ PeopleCoherent /\ NoOrphans => RecordCoherent
  BY DEF RecordCoherent
<1> QED
  BY <1>1, TypeCorrect, DevicesDistinct, MembersCoherent, OperatorsStay, PTL

-----------------------------------------------------------------------------
(* How somebody comes in: the host decides, a member links a companion of     *)
(* theirs and has the say over it, or an agent redeems its link.              *)
LEMMA WaysIn ==
  ASSUME NEW a, Act(a), ~(members' \subseteq members /\ devices' \subseteq devices)
  PROVE  \/ \E r \in requests : DecideAdmit(a, r)
         \/ \E r \in requests : Link(a, r) /\ HasSay(a, r)
         \/ \E i \in invites : AgentRedeem(a, i) /\ ~MustWait(i)
<1>1. CASE \E kind \in {"person", "companion"}, n \in Name,
             pairing \in Device \cup {NoDevice}, address \in Address \cup {NoAddress} :
             Request(a, kind, n, pairing, address)
  BY <1>1 DEF Request
<1>2. CASE \E r \in requests : Link(a, r)
  BY <1>2 DEF Link
<1>3. CASE \E r \in requests : Cancel(a, r) \/ DecideDecline(a, r)
  BY <1>3 DEF Cancel, DecideDecline
<1>4. CASE \E n \in Name : AgentInvite(a, n)
  BY <1>4 DEF AgentInvite
<1>5. CASE \E i \in invites : AgentRedeem(a, i)
  BY <1>5 DEF AgentRedeem
<1>6. CASE \E d \in devices : RemoveDevice(a, d)
  BY <1>6 DEF RemoveDevice
<1>7. CASE \E s \in Settings : ChangeSettings(a, s)
  BY <1>7 DEF ChangeSettings
<1> QED
  BY <1>1, <1>2, <1>3, <1>4, <1>5, <1>6, <1>7 DEF Act

(* Admitting a request: who is new, and whose device it is.                   *)
LEMMA AdmitAdds ==
  ASSUME TypeOK, IdsMinted, NEW r, NEW m \in Identity(r), Admit(r, m)
  PROVE  /\ \A d \in Entering : d.id = r.device /\ (Joins(d) => r.linked # NoOne /\ d.member = r.linked)
         /\ \A x \in members' \ members :
              /\ r.linked = NoOne
              /\ x.name = r.name
              /\ x.role = Agent => r.kind = "agent" /\ NameAvailable(x.name, {})
<1>1. ASSUME NEW d \in Entering
      PROVE  d.id = r.device /\ (Joins(d) => r.linked # NoOne /\ d.member = r.linked)
  <2>1. d = [id |-> r.device, member |-> m]
    BY DEF Entering, Admit
  <2>2. CASE r.linked # NoOne
    BY <2>1, <2>2 DEF Identity
  <2>3. CASE r.linked = NoOne
    BY <2>1, <2>3 DEF Identity, Fresh, Joins, IdsMinted
  <2> QED
    BY <2>1, <2>2, <2>3
<1>2. ASSUME NEW x \in members' \ members
      PROVE  /\ r.linked = NoOne
             /\ x.name = r.name
             /\ x.role = Agent => r.kind = "agent" /\ NameAvailable(x.name, {})
  <2>1. r.linked = NoOne
        /\ x = [id |-> m, name |-> r.name,
                role |-> IF r.kind = "agent" THEN Agent ELSE Person,
                operator |-> IF r.kind = "agent" THEN r.operator ELSE NoOne]
    BY DEF Admit
  <2>2. x.name = r.name /\ (x.role = Agent => r.kind = "agent")
    BY <2>1 DEF Agent, Person
  <2>3. r.kind = "agent" => NameAvailable(r.name, {})
    BY DEF Admit, CanAdmit
  <2> QED
    BY <2>1, <2>2, <2>3
<1> QED
  BY <1>1, <1>2

(* Nobody new takes the name of an agent, and no agent a name already taken.  *)
LEMMA NamesStep ==
  ASSUME IInv, SentinelAssumption, NEW a \in Device, Act(a),
         NEW x \in members' \ members, x.role = Agent
  PROVE  (\A y \in members : y.name # x.name) /\ (\A y \in members' \ members : y = x)
<1>0. TypeOK /\ IdsMinted
  BY DEF IInv
<1>1. CASE \E r \in requests : DecideAdmit(a, r)
  <2>1. PICK r \in requests : DecideAdmit(a, r)
    BY <1>1
  <2>2. PICK m \in Identity(r) : Admit(r, m)
    BY <2>1 DEF DecideAdmit
  <2>3. NameAvailable(x.name, {})
    BY <1>0, <2>2, AdmitAdds
  <2> QED
    BY <2>2, <2>3 DEF NameAvailable, Admit
<1>2. CASE \E r \in requests : Link(a, r) /\ HasSay(a, r)
  <2>1. PICK r \in requests : Link(a, r) /\ HasSay(a, r)
    BY <1>2
  <2>2. PICK m \in Identity(Linked(a, r)) : Admit(Linked(a, r), m)
    BY <2>1 DEF Link
  <2>3. NameAvailable(x.name, {})
    BY <1>0, <2>2, AdmitAdds
  <2> QED
    BY <2>2, <2>3 DEF NameAvailable, Admit
<1>3. CASE \E i \in invites : AgentRedeem(a, i) /\ ~MustWait(i)
  <2>1. PICK i \in invites : AgentRedeem(a, i) /\ ~MustWait(i)
    BY <1>3
  <2>2. PICK m \in Fresh : members' = members \cup {[id |-> m, name |-> i.name, role |-> Agent,
                                                     operator |-> i.operator]}
    BY <2>1 DEF AgentRedeem
  <2> QED
    BY <2>1, <2>2 DEF AgentRedeem, NameAvailable
<1> QED
  BY <1>1, <1>2, <1>3, WaysIn

LEMMA NamesKept ==
  ASSUME IInv, SentinelAssumption, AgentNamesDistinct, [Next]_vars
  PROVE  AgentNamesDistinct'
<1>1. CASE members' \subseteq members
  BY <1>1 DEF AgentNamesDistinct
<1>2. CASE ~(members' \subseteq members)
  <2>1. PICK a \in Device : Act(a)
    BY <1>2 DEF Next, vars, Tick, Restart
  <2>2. ASSUME NEW x \in members', NEW y \in members', x.role = Agent, y.role = Agent,
               x.name = y.name
        PROVE  x = y
    <3>1. CASE x \notin members
      BY <2>1, <2>2, <3>1, NamesStep
    <3>2. CASE y \notin members
      BY <2>1, <2>2, <3>2, NamesStep
    <3>3. CASE x \in members /\ y \in members
      BY <2>2, <3>3 DEF AgentNamesDistinct
    <3> QED
      BY <3>1, <3>2, <3>3
  <2> QED
    BY <2>2 DEF AgentNamesDistinct
<1> QED
  BY <1>1, <1>2

(* Two agents never answer to one name: an agent's name is checked again when   *)
(* it enters, by admission or by its link (lobby.ts: admit, agentRedeem).       *)
THEOREM NamesDistinct == Spec => []AgentNamesDistinct
<1>1. Init => AgentNamesDistinct
  BY DEF Init, AgentNamesDistinct
<1>2. IInv /\ AgentNamesDistinct /\ [Next]_vars => AgentNamesDistinct'
  BY NamesKept, SentinelAssumption
<1> QED
  BY <1>1, <1>2, Inductive, PTL DEF Spec

-----------------------------------------------------------------------------
(* Whose word it is.                                                           *)
LEMMA HostSpeaks == \A a : IsHost(a) => HostActs(a)
BY DEF IsHost, HostActs, Speaks

LEMMA LeaveStep ==
  ASSUME NEW a \in Device, Act(a), NEW d \in Leaving
  PROVE  LeavesAtTheWordOf(a, d)
<1>1. ~(devices \subseteq devices')
  BY DEF Leaving
<1>2. PICK e \in devices : RemoveDevice(a, e)
  <2>1. CASE \E kind \in {"person", "companion"}, n \in Name,
               pairing \in Device \cup {NoDevice}, address \in Address \cup {NoAddress} :
               Request(a, kind, n, pairing, address)
    BY <1>1, <2>1 DEF Request
  <2>2. CASE \E r \in requests : Link(a, r) \/ DecideAdmit(a, r)
    BY <1>1, <2>2 DEF Link, DecideAdmit, Admit
  <2>3. CASE \E r \in requests : Cancel(a, r) \/ DecideDecline(a, r)
    BY <1>1, <2>3 DEF Cancel, DecideDecline
  <2>4. CASE \E n \in Name : AgentInvite(a, n)
    BY <1>1, <2>4 DEF AgentInvite
  <2>5. CASE \E i \in invites : AgentRedeem(a, i)
    BY <1>1, <2>5 DEF AgentRedeem
  <2>6. CASE \E s \in Settings : ChangeSettings(a, s)
    BY <1>1, <2>6 DEF ChangeSettings
  <2> QED
    BY <2>1, <2>2, <2>3, <2>4, <2>5, <2>6 DEF Act
<1>3. MayRemove(a, e) /\ devices' = devices \ ({e} \cup LeavingWith(e))
  BY <1>2 DEF RemoveDevice
<1>4. CASE d = e
  BY <1>3, <1>4, HostSpeaks DEF MayRemove, LeavesAtTheWordOf, Speaks, AgentsOf
<1>5. CASE d # e
  <2>1. d \in LeavingWith(e)
    BY <1>3, <1>5 DEF Leaving
  <2>2. PICK x \in members : x.id = d.member /\ x.role = Agent /\ ~Present(devices \ {e}, x.operator)
    BY <2>1 DEF LeavingWith
  <2>3. ~Present(devices', x.operator)
    BY <1>3, <2>2 DEF Present
  <2> QED
    BY <2>2, <2>3 DEF LeavesAtTheWordOf
<1> QED
  BY <1>4, <1>5

LEMMA EnterStep ==
  ASSUME IInv, SentinelAssumption, NEW a \in Device, Act(a), NEW x \in members' \ members
  PROVE  EntersAtTheWordOf(a, x)
<1>0. TypeOK /\ IdsMinted
  BY DEF IInv
<1>1. CASE \E r \in requests : DecideAdmit(a, r)
  BY <1>1, HostSpeaks DEF DecideAdmit, EntersAtTheWordOf
<1>2. CASE \E r \in requests : Link(a, r) /\ HasSay(a, r)
  <2>1. PICK r \in requests : Link(a, r) /\ HasSay(a, r)
    BY <1>2
  <2>2. PICK m \in Identity(Linked(a, r)) : Admit(Linked(a, r), m)
    BY <2>1 DEF Link
  <2>3. MemberOf(a) \in Member
    BY <1>0, <2>1, ActorIsMember DEF Link, ActsForPerson
  <2>4. r \in RequestRecord
    BY <1>0 DEF TypeOK
  <2>5. Linked(a, r).linked = MemberOf(a)
    BY <2>4 DEF Linked, RequestRecord
  <2> QED
    BY <1>0, <2>2, <2>3, <2>5, AdmitAdds, SentinelAssumption
<1>3. CASE \E i \in invites : AgentRedeem(a, i) /\ ~MustWait(i)
  <2>1. PICK i \in invites : AgentRedeem(a, i) /\ ~MustWait(i)
    BY <1>3
  <2>2. PICK m \in Fresh : members' = members \cup {[id |-> m, name |-> i.name, role |-> Agent,
                                                     operator |-> i.operator]}
    BY <2>1 DEF AgentRedeem
  <2>3. x.role = Agent /\ x.operator = i.operator /\ x.name = i.name
    BY <2>2
  <2>4. ~InRoom(a) /\ i \in OpenInvites
    BY <2>1 DEF AgentRedeem, OpenInvites
  <2>5. settings.guestAgentApproval => x.operator = ownerId
    BY <2>1, <2>3 DEF MustWait
  <2> QED
    BY <2>3, <2>4, <2>5 DEF EntersAtTheWordOf
<1> QED
  BY <1>1, <1>2, <1>3, WaysIn

(* A device leaves only at the word of the host, of its own member or of the    *)
(* agent's operator, and somebody enters only at the host's word or an agent by *)
(* its operator's link (lobby.ts: remove, decide, agentRedeem).                 *)
THEOREM EntitledOnly == Spec => ByRight
<1> DEFINE Leaves == \A d \in Leaving, a \in Device : ~LeavesAtTheWordOf(a, d) => ~Act(a)
<1> DEFINE Comes == \A x \in members' \ members, a \in Device : ~EntersAtTheWordOf(a, x) => ~Act(a)
<1>1. Leaves
  BY LeaveStep
<1>2. IInv => Comes
  BY EnterStep, SentinelAssumption
<1>3. LeavesByRight
  BY <1>1, PTL DEF LeavesByRight
<1>4. Spec => EntersByRight
  BY <1>2, Inductive, PTL DEF EntersByRight
<1> QED
  BY <1>3, <1>4 DEF ByRight

-----------------------------------------------------------------------------
(* Whose companion it becomes.                                                *)

(* What a step leaves of each request, and what it writes anew.              *)
LEMMA RequestWritten ==
  ASSUME IInv, NEW a \in Device, Act(a), NEW s \in requests' \ requests, s.linked # NoOne
  PROVE  \/ Speaks(a, s.linked)
         \/ \E r \in requests : r.device = s.device /\ r.linked = s.linked
<1>0. requests \subseteq RequestRecord
  BY DEF IInv, TypeOK
<1>1. CASE \E kind \in {"person", "companion"}, n \in Name,
             pairing \in Device \cup {NoDevice}, address \in Address \cup {NoAddress} :
             Request(a, kind, n, pairing, address)
  BY <1>1 DEF Request
<1>2. CASE \E r \in requests : Link(a, r)
  <2>1. PICK r \in requests : Link(a, r)
    BY <1>2
  <2>2. r \in RequestRecord
    BY <1>0
  <2>3. Linked(a, r).linked = MemberOf(a) /\ Admitted(Linked(a, r)).linked = MemberOf(a)
    BY <2>2 DEF Linked, Admitted, RequestRecord
  <2>4. s.linked = MemberOf(a) /\ InRoom(a)
    BY <2>1, <2>3 DEF Link, ActsForPerson
  <2> QED
    BY <2>4 DEF Speaks
<1>3. CASE \E r \in requests : DecideAdmit(a, r) \/ DecideDecline(a, r)
  <2>1. PICK r \in requests : DecideAdmit(a, r) \/ DecideDecline(a, r)
    BY <1>3
  <2>2. r \in RequestRecord
    BY <1>0
  <2> DEFINE no == [r EXCEPT !.state = "declined", !.code = FALSE, !.pairing = NoDevice]
  <2>3. /\ Admitted(r).device = r.device /\ Admitted(r).linked = r.linked
        /\ no.device = r.device /\ no.linked = r.linked
    BY <2>2 DEF Admitted, RequestRecord
  <2>4. s = Admitted(r) \/ s = no
    BY <2>1 DEF DecideAdmit, DecideDecline
  <2> QED
    BY <2>3, <2>4
<1>4. CASE \E r \in requests : Cancel(a, r)
  BY <1>4 DEF Cancel
<1>5. CASE \E n \in Name : AgentInvite(a, n)
  BY <1>5 DEF AgentInvite
<1>6. CASE \E i \in invites : AgentRedeem(a, i)
  BY <1>6 DEF AgentRedeem, RequestsWithout
<1>7. CASE \E d \in devices : RemoveDevice(a, d)
  BY <1>7 DEF RemoveDevice
<1>8. CASE \E t \in Settings : ChangeSettings(a, t)
  BY <1>8 DEF ChangeSettings
<1> QED
  BY <1>1, <1>2, <1>3, <1>4, <1>5, <1>6, <1>7, <1>8 DEF Act

LEMMA TieKept ==
  ASSUME IInv, [Next]_vars, NEW r \in requests, NEW s \in requests',
         r.device = s.device, r.linked # NoOne
  PROVE  s.linked \in {NoOne, r.linked}
<1>0. requests \subseteq RequestRecord /\ (\A p, q \in requests : p.device = q.device => p = q)
  BY DEF IInv, TypeOK, OneIdentityPerDevice
<1>1. CASE s \in requests
  BY <1>0, <1>1
<1>2. CASE s \notin requests
  <2>1. CASE Restart
    <3>1. PICK p \in requests : s = [p EXCEPT !.address = NoAddress]
      BY <2>1 DEF Restart
    <3>2. p \in RequestRecord
      BY <1>0
    <3>3. s.device = p.device /\ s.linked = p.linked
      BY <3>1, <3>2 DEF RequestRecord
    <3> QED
      BY <1>0, <3>3
  <2>2. CASE Tick \/ UNCHANGED vars
    BY <1>2, <2>2 DEF Tick, vars
  <2>3. CASE \E a \in Device : Act(a)
    <3>1. PICK a \in Device : Act(a)
      BY <2>3
    <3>2. CASE s.linked = NoOne
      BY <3>2
    <3>3. CASE \E p \in requests : p.device = s.device /\ p.linked = s.linked
      BY <1>0, <3>3
    <3>4. CASE \E p \in requests : Link(a, p)
      <4>1. PICK p \in requests : Link(a, p)
        BY <3>4
      <4>2. p \in RequestRecord
        BY <1>0
      <4>3. /\ Linked(a, p).linked = MemberOf(a) /\ Admitted(Linked(a, p)).linked = MemberOf(a)
            /\ Linked(a, p).device = p.device /\ Admitted(Linked(a, p)).device = p.device
        BY <4>2 DEF Linked, Admitted, RequestRecord
      <4>4. s.linked = MemberOf(a) /\ s.device = p.device
        BY <1>2, <4>1, <4>3 DEF Link
      <4>5. p = r
        BY <1>0, <4>4
      <4> QED
        BY <4>1, <4>4, <4>5 DEF Link
    <3>5. CASE \A p \in requests : ~Link(a, p)
      <4>1. CASE \E p \in requests : DecideAdmit(a, p) \/ DecideDecline(a, p)
        <5>1. PICK p \in requests : DecideAdmit(a, p) \/ DecideDecline(a, p)
          BY <4>1
        <5>2. p \in RequestRecord
          BY <1>0
        <5> DEFINE no == [p EXCEPT !.state = "declined", !.code = FALSE, !.pairing = NoDevice]
        <5>3. /\ Admitted(p).device = p.device /\ Admitted(p).linked = p.linked
              /\ no.device = p.device /\ no.linked = p.linked
          BY <5>2 DEF Admitted, RequestRecord
        <5>4. s = Admitted(p) \/ s = no
          BY <5>1, <1>2 DEF DecideAdmit, DecideDecline
        <5> QED
          BY <1>0, <5>3, <5>4
      <4>2. CASE \E kind \in {"person", "companion"}, n \in Name,
                   pairing \in Device \cup {NoDevice}, address \in Address \cup {NoAddress} :
                   Request(a, kind, n, pairing, address)
        BY <1>2, <4>2 DEF Request
      <4>3. CASE \E p \in requests : Cancel(a, p)
        BY <1>2, <4>3 DEF Cancel
      <4>4. CASE \E n \in Name : AgentInvite(a, n)
        BY <1>2, <4>4 DEF AgentInvite
      <4>5. CASE \E i \in invites : AgentRedeem(a, i)
        BY <1>2, <4>5 DEF AgentRedeem, RequestsWithout
      <4>6. CASE \E d \in devices : RemoveDevice(a, d)
        BY <1>2, <4>6 DEF RemoveDevice
      <4>7. CASE \E t \in Settings : ChangeSettings(a, t)
        BY <1>2, <4>7 DEF ChangeSettings
      <4> QED
        BY <3>1, <3>5, <4>1, <4>2, <4>3, <4>4, <4>5, <4>6, <4>7 DEF Act
    <3> QED
      BY <3>4, <3>5
  <2> QED
    BY <2>1, <2>2, <2>3 DEF Next
<1> QED
  BY <1>1, <1>2

(* A device that joins somebody already in the room: by their own link with the *)
(* say over it, or by the host, who decides a request they tied.               *)
LEMMA JoinStep ==
  ASSUME IInv, SentinelAssumption, NEW a \in Device, Act(a), NEW d \in Entering, Joins(d)
  PROVE  \/ /\ Speaks(a, d.member)
            /\ \E r \in requests : d.id = r.device /\ HasSay(a, r)
         \/ HostActs(a) /\ \E r \in requests : r.device = d.id /\ r.linked = d.member
<1>0. TypeOK /\ IdsMinted
  BY DEF IInv
<1>1. CASE \E r \in requests : DecideAdmit(a, r)
  <2>1. PICK r \in requests : DecideAdmit(a, r)
    BY <1>1
  <2>2. PICK m \in Identity(r) : Admit(r, m)
    BY <2>1 DEF DecideAdmit
  <2>3. d.id = r.device /\ d.member = r.linked
    BY <1>0, <2>2, AdmitAdds
  <2> QED
    BY <2>1, <2>3, HostSpeaks DEF DecideAdmit
<1>2. CASE \E r \in requests : Link(a, r) /\ HasSay(a, r)
  <2>1. PICK r \in requests : Link(a, r) /\ HasSay(a, r)
    BY <1>2
  <2>2. PICK m \in Identity(Linked(a, r)) : Admit(Linked(a, r), m)
    BY <2>1 DEF Link
  <2>3. r \in RequestRecord
    BY <1>0 DEF TypeOK
  <2>4. Linked(a, r).linked = MemberOf(a) /\ Linked(a, r).device = r.device
    BY <2>3 DEF Linked, RequestRecord
  <2>5. d.id = r.device /\ d.member = MemberOf(a)
    BY <1>0, <2>2, <2>4, AdmitAdds
  <2> QED
    BY <2>1, <2>5 DEF Speaks, Link, ActsForPerson
<1>3. CASE \E i \in invites : AgentRedeem(a, i) /\ ~MustWait(i)
  <2>1. PICK i \in invites : AgentRedeem(a, i) /\ ~MustWait(i)
    BY <1>3
  <2>2. PICK m \in Fresh : devices' = devices \cup {[id |-> a, member |-> m]}
    BY <2>1 DEF AgentRedeem
  <2>3. d.member = m
    BY <2>2 DEF Entering
  <2> QED
    BY <1>0, <2>3 DEF Joins, Fresh, IdsMinted
<1> QED
  BY <1>1, <1>2, <1>3, WaysIn DEF Entering

(* "A link can only ever add a device to the linker": a request is tied to a    *)
(* member by a device of theirs and to nobody else afterwards, and a device     *)
(* joins a member by their link or by the host deciding a request they tied     *)
(* (lobby.ts: link, decide, admit).                                            *)
THEOREM LinkersOwn == Spec => LinksOnlyAddToTheLinker
<1> DEFINE Links ==
     /\ \A s \in requests' \ requests : s.linked # NoOne =>
          \/ \E r \in requests : r.device = s.device /\ r.linked = s.linked
          \/ \A a \in Device : ~Speaks(a, s.linked) => ~Act(a)
     /\ \A r \in requests, s \in requests' :
          r.device = s.device /\ r.linked # NoOne => s.linked \in {NoOne, r.linked}
     /\ \A d \in Entering : Joins(d) => \A a \in Device :
          \/ Speaks(a, d.member)
          \/ HostActs(a) /\ \E r \in requests : r.device = d.id /\ r.linked = d.member
          \/ ~Act(a)
<1>1. IInv /\ [Next]_vars => Links
  BY RequestWritten, TieKept, JoinStep, SentinelAssumption
<1> QED
  BY <1>1, Inductive, PTL DEF Spec, LinksOnlyAddToTheLinker

(* While the host approves new devices no companion enters but at the host's    *)
(* word, and never one whose key is among the retired (lobby.ts: link, admit).  *)
THEOREM HostHasTheSay == Spec => HostKeepsTheSay
<1> DEFINE Say ==
     \A d \in Entering :
       Joins(d) /\ (settings.hostApprovesDevices \/ Retired(d.id)) =>
         \A a \in Device : ~HostActs(a) => ~Act(a)
<1>1. IInv => Say
  BY JoinStep, SentinelAssumption, HostSpeaks DEF HasSay, Retired
<1> QED
  BY <1>1, Inductive, PTL DEF HostKeepsTheSay

-----------------------------------------------------------------------------
(* Counting.                                                                   *)
LEMMA Fewer ==
  ASSUME NEW S, NEW T, IsFiniteSet(S), T \subseteq S, NEW n \in Nat, Cardinality(S) <= n
  PROVE  IsFiniteSet(T) /\ Cardinality(T) <= n
<1>1. IsFiniteSet(T) /\ Cardinality(T) <= Cardinality(S)
  BY FS_Subset
<1>2. Cardinality(T) \in Nat /\ Cardinality(S) \in Nat
  BY <1>1, FS_CardinalityType
<1> QED
  BY <1>1, <1>2

LEMMA OneMore ==
  ASSUME NEW S, NEW T, NEW x, IsFiniteSet(S), T \subseteq S \cup {x},
         NEW n \in Nat, Cardinality(S) < n
  PROVE  IsFiniteSet(T) /\ Cardinality(T) <= n
<1>1. Cardinality(S) \in Nat
  BY FS_CardinalityType
<1>2. IsFiniteSet(S \cup {x}) /\ Cardinality(S \cup {x}) <= Cardinality(S) + 1
  <2>1. IsFiniteSet(S \cup {x})
        /\ (x \in S => Cardinality(S \cup {x}) = Cardinality(S))
        /\ (x \notin S => Cardinality(S \cup {x}) = Cardinality(S) + 1)
    BY FS_AddElement
  <2> QED
    BY <1>1, <2>1
<1>3. Cardinality(S \cup {x}) \in Nat
  BY <1>2, FS_CardinalityType
<1>4. Cardinality(S \cup {x}) <= n
  BY <1>1, <1>2, <1>3
<1> QED
  BY <1>2, <1>4, Fewer

LEMMA OneLess ==
  ASSUME NEW S, NEW T, NEW x \in S, IsFiniteSet(S), T \subseteq S \ {x}
  PROVE  IsFiniteSet(T) /\ Cardinality(T) < Cardinality(S)
<1>1. Cardinality(S) \in Nat
  BY FS_CardinalityType
<1>2. IsFiniteSet(S \ {x}) /\ Cardinality(S \ {x}) = Cardinality(S) - 1
  BY FS_RemoveElement
<1>3. IsFiniteSet(T) /\ Cardinality(T) <= Cardinality(S \ {x})
  BY <1>2, FS_Subset
<1>4. Cardinality(T) \in Nat
  BY <1>3, FS_CardinalityType
<1> QED
  BY <1>1, <1>2, <1>3, <1>4

LEMMA Swapped ==
  ASSUME NEW S, NEW T, NEW x \in S, NEW y, IsFiniteSet(S), T \subseteq (S \ {x}) \cup {y},
         NEW n \in Nat, Cardinality(S) <= n
  PROVE  IsFiniteSet(T) /\ Cardinality(T) <= n
<1>1. IsFiniteSet(S \ {x}) /\ Cardinality(S \ {x}) < Cardinality(S)
  BY OneLess
<1>2. Cardinality(S) \in Nat /\ Cardinality(S \ {x}) \in Nat
  BY <1>1, FS_CardinalityType
<1>3. Cardinality(S \ {x}) < n
  BY <1>1, <1>2
<1> QED
  BY <1>1, <1>3, OneMore

(* Requests whose address was forgotten are no more than before.               *)
Forgotten(r) == [r EXCEPT !.address = NoAddress]
LEMMA Forgets ==
  ASSUME NEW S, NEW T, IsFiniteSet(S), \A t \in T : \E s \in S : t = Forgotten(s)
  PROVE  IsFiniteSet(T) /\ Cardinality(T) <= Cardinality(S)
<1> DEFINE f == [t \in T |-> CHOOSE s \in S : t = Forgotten(s)]
<1>1. \A t \in T : f[t] \in S /\ t = Forgotten(f[t])
  OBVIOUS
<1>2. f \in [T -> S]
  BY <1>1
<1> HIDE DEF f
<1>3. \A t, u \in T : f[t] = f[u] => t = u
  BY <1>1
<1>4. f \in Injection(T, S)
  BY <1>2, <1>3 DEF Injection, IsInjective
<1> QED
  BY <1>4, FS_Injection

-----------------------------------------------------------------------------
(* Each share, for every member id: one that is not in the room has nothing.   *)
Finite == IsFiniteSet(members) /\ IsFiniteSet(devices)
          /\ IsFiniteSet(requests) /\ IsFiniteSet(invites)
AgentsUntied == \A r \in requests : r.kind = "agent" => r.linked = NoOne
DeviceShares ==
  /\ \A m \in Member : Cardinality(DevicesOf(m)) <= DevicesPerMember
  /\ Cardinality(devices) <= RoomDevices
InvitesOf(m) == {i \in OpenInvites : i.operator = m}
InviteShares == \A m \in Member : Cardinality(InvitesOf(m)) <= InvitesPerPerson
WaitingOf(k) == {r \in requests : r.kind = k /\ Waiting(r)}
WaitingFrom(w) == {r \in requests : r.address = w /\ Waiting(r)}
WaitingShares ==
  /\ \A k \in Kind : Cardinality(WaitingOf(k)) <= WaitingPerKind
  /\ \A w \in Address : Cardinality(WaitingFrom(w)) <= WaitingPerAddress
AgentShares == \A m \in Member : Operated(m) <= AgentsPerOperator

SharesInv ==
  Finite /\ AgentsUntied /\ DeviceShares /\ InviteShares /\ WaitingShares /\ AgentShares

LEMMA Limits ==
  ASSUME LimitAssumption
  PROVE  /\ RoomDevices \in Nat /\ DevicesPerMember \in Nat /\ AgentsPerOperator \in Nat
         /\ InvitesPerPerson \in Nat /\ WaitingPerKind \in Nat /\ WaitingPerAddress \in Nat
         /\ RoomDevices > 0 /\ DevicesPerMember > 0
         /\ RequestTTL \in Nat /\ InviteTTL \in Nat
BY DEF LimitAssumption

LEMMA DevicesFewer ==
  ASSUME LimitAssumption, Finite, DeviceShares, devices' \subseteq devices
  PROVE  IsFiniteSet(devices') /\ DeviceShares'
<1>0. IsFiniteSet(devices) /\ DevicesPerMember \in Nat /\ RoomDevices \in Nat
  BY Limits DEF Finite
<1>1. IsFiniteSet(devices') /\ Cardinality(devices') <= RoomDevices
  BY <1>0, Fewer DEF DeviceShares
<1>2. ASSUME NEW m \in Member PROVE Cardinality(DevicesOf(m))' <= DevicesPerMember
  <2>1. DevicesOf(m) \subseteq devices /\ DevicesOf(m)' \subseteq DevicesOf(m)
    BY DEF DevicesOf
  <2>2. IsFiniteSet(DevicesOf(m))
    BY <1>0, <2>1, FS_Subset
  <2> QED
    BY <1>0, <2>1, <2>2, Fewer DEF DeviceShares
<1> QED
  BY <1>1, <1>2 DEF DeviceShares

LEMMA DeviceAdded ==
  ASSUME LimitAssumption, Finite, DeviceShares, NEW id, NEW m \in Member,
         devices' = devices \cup {[id |-> id, member |-> m]},
         Cardinality(devices) < RoomDevices, Cardinality(DevicesOf(m)) < DevicesPerMember
  PROVE  IsFiniteSet(devices') /\ DeviceShares'
<1> DEFINE new == [id |-> id, member |-> m]
<1>0. IsFiniteSet(devices) /\ DevicesPerMember \in Nat /\ RoomDevices \in Nat
  BY Limits DEF Finite
<1>1. devices' = devices \cup {new} /\ new.member = m
  OBVIOUS
<1> HIDE DEF new
<1>2. IsFiniteSet(devices') /\ Cardinality(devices') <= RoomDevices
  BY <1>0, <1>1, OneMore
<1>3. ASSUME NEW k \in Member PROVE Cardinality(DevicesOf(k))' <= DevicesPerMember
  <2>1. DevicesOf(k) \subseteq devices
    BY DEF DevicesOf
  <2>2. IsFiniteSet(DevicesOf(k))
    BY <1>0, <2>1, FS_Subset
  <2>3. CASE k = m
    <3>1. DevicesOf(k)' \subseteq DevicesOf(k) \cup {new}
      BY <1>1 DEF DevicesOf
    <3> QED
      BY <1>0, <2>2, <2>3, <3>1, OneMore
  <2>4. CASE k # m
    <3>1. DevicesOf(k)' \subseteq DevicesOf(k)
      BY <1>1, <2>4 DEF DevicesOf
    <3> QED
      BY <1>0, <2>2, <3>1, Fewer DEF DeviceShares
  <2> QED
    BY <2>3, <2>4
<1> QED
  BY <1>2, <1>3 DEF DeviceShares

(* A member id never drawn has no devices.                                    *)
LEMMA FreshHasNothing ==
  ASSUME IInv, LimitAssumption, NEW m \in Fresh
  PROVE  Cardinality(DevicesOf(m)) < DevicesPerMember
<1>1. DevicesOf(m) = {}
  BY HolderKnown DEF IInv, IdsMinted, Fresh, DevicesOf
<1>2. Cardinality({}) = 0
  BY FS_EmptySet
<1> QED
  BY <1>1, <1>2, Limits

LEMMA AdmitDevices ==
  ASSUME IInv, LimitAssumption, Finite, DeviceShares, NEW r \in RequestRecord,
         NEW m \in Identity(r), Admit(r, m)
  PROVE  IsFiniteSet(devices') /\ DeviceShares'
<1>1. devices' = devices \cup {[id |-> r.device, member |-> m]} /\ Cardinality(devices) < RoomDevices
  BY DEF Admit, CanAdmit
<1>2. CASE r.linked # NoOne
  <2>1. m = r.linked /\ m \in Member
    BY <1>2 DEF Identity, RequestRecord
  <2>2. Cardinality(DevicesOf(m)) < DevicesPerMember
    BY <1>2, <2>1 DEF Admit, CanAdmit
  <2> QED
    BY <1>1, <2>1, <2>2, DeviceAdded
<1>3. CASE r.linked = NoOne
  <2>1. m \in Fresh /\ m \in Member
    BY <1>3 DEF Identity, Fresh
  <2> QED
    BY <1>1, <2>1, FreshHasNothing, DeviceAdded
<1> QED
  BY <1>2, <1>3

LEMMA InvitesFewer ==
  ASSUME LimitAssumption, Finite, InviteShares, OpenInvites' \subseteq OpenInvites
  PROVE  InviteShares'
<1> SUFFICES ASSUME NEW m \in Member PROVE Cardinality(InvitesOf(m))' <= InvitesPerPerson
  BY DEF InviteShares
<1>1. IsFiniteSet(invites) /\ InvitesPerPerson \in Nat
  BY Limits DEF Finite
<1>2. InvitesOf(m) \subseteq invites /\ InvitesOf(m)' \subseteq InvitesOf(m)
  BY DEF InvitesOf, OpenInvites
<1>3. IsFiniteSet(InvitesOf(m))
  BY <1>1, <1>2, FS_Subset
<1> QED
  BY <1>1, <1>2, <1>3, Fewer DEF InviteShares

LEMMA InviteMade ==
  ASSUME IInv, LimitAssumption, Finite, InviteShares, NEW a, NEW n, AgentInvite(a, n)
  PROVE  IsFiniteSet(invites') /\ InviteShares'
<1> DEFINE i == [name |-> n, operator |-> MemberOf(a), expiresAt |-> clock + InviteTTL]
<1>1. /\ invites' = OpenInvites \cup {i} /\ clock' = clock
      /\ Cardinality(InvitesOf(MemberOf(a))) < InvitesPerPerson
  BY DEF AgentInvite, InvitesOf
<1>2. i.operator = MemberOf(a)
  OBVIOUS
<1> HIDE DEF i
<1>3. IsFiniteSet(OpenInvites) /\ InvitesPerPerson \in Nat
  BY FS_Subset, Limits DEF Finite, OpenInvites
<1>4. ASSUME NEW m \in Member PROVE Cardinality(InvitesOf(m))' <= InvitesPerPerson
  <2>1. InvitesOf(m) \subseteq OpenInvites
    BY DEF InvitesOf
  <2>2. IsFiniteSet(InvitesOf(m))
    BY <1>3, <2>1, FS_Subset
  <2>3. CASE m = MemberOf(a)
    <3>1. InvitesOf(m)' \subseteq InvitesOf(m) \cup {i}
      BY <1>1 DEF InvitesOf, OpenInvites, Open
    <3> QED
      BY <1>1, <1>3, <2>2, <2>3, <3>1, OneMore
  <2>4. CASE m # MemberOf(a)
    <3>1. InvitesOf(m)' \subseteq InvitesOf(m)
      BY <1>1, <1>2, <2>4 DEF InvitesOf, OpenInvites, Open
    <3> QED
      BY <1>3, <2>2, <3>1, Fewer DEF InviteShares
  <2> QED
    BY <2>3, <2>4
<1>5. IsFiniteSet(invites')
  BY <1>1, <1>3, FS_AddElement
<1> QED
  BY <1>4, <1>5 DEF InviteShares

NoNewWaiting == \A r \in requests' : Waiting(r)' => r \in requests /\ Waiting(r)

LEMMA WaitingFinite ==
  ASSUME Finite
  PROVE  \A k, w : IsFiniteSet(WaitingOf(k)) /\ IsFiniteSet(WaitingFrom(w))
BY FS_Subset DEF Finite, WaitingOf, WaitingFrom

LEMMA WaitingFewer ==
  ASSUME LimitAssumption, Finite, WaitingShares, NoNewWaiting
  PROVE  WaitingShares'
<1>0. WaitingPerKind \in Nat /\ WaitingPerAddress \in Nat
  BY Limits
<1>1. ASSUME NEW k \in Kind PROVE Cardinality(WaitingOf(k))' <= WaitingPerKind
  <2>1. WaitingOf(k)' \subseteq WaitingOf(k)
    BY DEF WaitingOf, NoNewWaiting
  <2> QED
    BY <1>0, <2>1, WaitingFinite, Fewer DEF WaitingShares
<1>2. ASSUME NEW w \in Address PROVE Cardinality(WaitingFrom(w))' <= WaitingPerAddress
  <2>1. WaitingFrom(w)' \subseteq WaitingFrom(w)
    BY DEF WaitingFrom, NoNewWaiting
  <2> QED
    BY <1>0, <2>1, WaitingFinite, Fewer DEF WaitingShares
<1> QED
  BY <1>1, <1>2 DEF WaitingShares

LEMMA WaitingSwapped ==
  ASSUME LimitAssumption, Finite, WaitingShares, NEW r \in requests, Waiting(r),
         NEW s, s.kind = r.kind, s.address = r.address,
         requests' = (requests \ {r}) \cup {s}, clock' = clock
  PROVE  WaitingShares'
<1>0. WaitingPerKind \in Nat /\ WaitingPerAddress \in Nat
  BY Limits
<1>1. ASSUME NEW k \in Kind PROVE Cardinality(WaitingOf(k))' <= WaitingPerKind
  <2>1. CASE r.kind = k
    <3>1. r \in WaitingOf(k) /\ WaitingOf(k)' \subseteq (WaitingOf(k) \ {r}) \cup {s}
      BY <2>1 DEF WaitingOf, Waiting
    <3> QED
      BY <1>0, <3>1, WaitingFinite, Swapped DEF WaitingShares
  <2>2. CASE r.kind # k
    <3>1. WaitingOf(k)' \subseteq WaitingOf(k)
      BY <2>2 DEF WaitingOf, Waiting
    <3> QED
      BY <1>0, <3>1, WaitingFinite, Fewer DEF WaitingShares
  <2> QED
    BY <2>1, <2>2
<1>2. ASSUME NEW w \in Address PROVE Cardinality(WaitingFrom(w))' <= WaitingPerAddress
  <2>1. CASE r.address = w
    <3>1. r \in WaitingFrom(w) /\ WaitingFrom(w)' \subseteq (WaitingFrom(w) \ {r}) \cup {s}
      BY <2>1 DEF WaitingFrom, Waiting
    <3> QED
      BY <1>0, <3>1, WaitingFinite, Swapped DEF WaitingShares
  <2>2. CASE r.address # w
    <3>1. WaitingFrom(w)' \subseteq WaitingFrom(w)
      BY <2>2 DEF WaitingFrom, Waiting
    <3> QED
      BY <1>0, <3>1, WaitingFinite, Fewer DEF WaitingShares
  <2> QED
    BY <2>1, <2>2
<1> QED
  BY <1>1, <1>2 DEF WaitingShares

LEMMA WaitingAdded ==
  ASSUME LimitAssumption, Finite, WaitingShares, NEW base \in SUBSET requests, NEW new,
         requests' = base \cup {new}, clock' = clock,
         Cardinality({r \in base : r.kind = new.kind /\ Waiting(r)}) < WaitingPerKind,
         new.address \in Address =>
           Cardinality({r \in base : r.address = new.address /\ Waiting(r)}) < WaitingPerAddress
  PROVE  IsFiniteSet(requests') /\ WaitingShares'
<1>0. WaitingPerKind \in Nat /\ WaitingPerAddress \in Nat
  BY Limits
<1>1. IsFiniteSet(base) /\ IsFiniteSet(requests')
  BY FS_Subset, FS_AddElement DEF Finite
<1>2. ASSUME NEW k \in Kind PROVE Cardinality(WaitingOf(k))' <= WaitingPerKind
  <2>1. CASE new.kind = k
    <3> DEFINE had == {r \in base : r.kind = new.kind /\ Waiting(r)}
    <3>1. WaitingOf(k)' \subseteq had \cup {new}
      BY <2>1 DEF WaitingOf, Waiting
    <3>2. IsFiniteSet(had)
      BY <1>1, FS_Subset
    <3> QED
      BY <1>0, <3>1, <3>2, OneMore
  <2>2. CASE new.kind # k
    <3>1. WaitingOf(k)' \subseteq WaitingOf(k)
      BY <2>2 DEF WaitingOf, Waiting
    <3> QED
      BY <1>0, <3>1, WaitingFinite, Fewer DEF WaitingShares
  <2> QED
    BY <2>1, <2>2
<1>3. ASSUME NEW w \in Address PROVE Cardinality(WaitingFrom(w))' <= WaitingPerAddress
  <2>1. CASE new.address = w
    <3> DEFINE had == {r \in base : r.address = new.address /\ Waiting(r)}
    <3>1. WaitingFrom(w)' \subseteq had \cup {new}
      BY <2>1 DEF WaitingFrom, Waiting
    <3>2. IsFiniteSet(had)
      BY <1>1, FS_Subset
    <3> QED
      BY <1>0, <1>3, <2>1, <3>1, <3>2, OneMore
  <2>2. CASE new.address # w
    <3>1. WaitingFrom(w)' \subseteq WaitingFrom(w)
      BY <2>2 DEF WaitingFrom, Waiting
    <3> QED
      BY <1>0, <3>1, WaitingFinite, Fewer DEF WaitingShares
  <2> QED
    BY <2>1, <2>2
<1> QED
  BY <1>1, <1>2, <1>3 DEF WaitingShares

LEMMA AgentsFinite ==
  ASSUME Finite
  PROVE  \A m : IsFiniteSet(AgentsOf(m)) /\ IsFiniteSet(WaitingAgentsOf(m))
                /\ Cardinality(AgentsOf(m)) \in Nat /\ Cardinality(WaitingAgentsOf(m)) \in Nat
BY FS_Subset, FS_CardinalityType DEF Finite, AgentsOf, WaitingAgentsOf

LEMMA OperatedFewer ==
  ASSUME LimitAssumption, Finite, AgentShares, NEW m \in Member,
         AgentsOf(m)' \subseteq AgentsOf(m), WaitingAgentsOf(m)' \subseteq WaitingAgentsOf(m)
  PROVE  Operated(m)' <= AgentsPerOperator
<1>1. Cardinality(AgentsOf(m)') <= Cardinality(AgentsOf(m))
      /\ Cardinality(AgentsOf(m)') \in Nat
  BY AgentsFinite, FS_Subset, FS_CardinalityType
<1>2. Cardinality(WaitingAgentsOf(m)') <= Cardinality(WaitingAgentsOf(m))
      /\ Cardinality(WaitingAgentsOf(m)') \in Nat
  BY AgentsFinite, FS_Subset, FS_CardinalityType
<1>3. Cardinality(AgentsOf(m)) \in Nat /\ Cardinality(WaitingAgentsOf(m)) \in Nat
  BY AgentsFinite
<1>4. Cardinality(AgentsOf(m)) + Cardinality(WaitingAgentsOf(m)) <= AgentsPerOperator
  BY DEF AgentShares, Operated
<1>5. AgentsPerOperator \in Nat
  BY Limits
<1>6. Cardinality(AgentsOf(m)') + Cardinality(WaitingAgentsOf(m)') <= AgentsPerOperator
  BY <1>1, <1>2, <1>3, <1>4, <1>5
<1> QED
  BY <1>6 DEF Operated

(* One more agent of m: in the room, or waiting; or no longer waiting.         *)
LEMMA OperatedMore ==
  ASSUME LimitAssumption, Finite, NEW m \in Member, NEW x, NEW r,
         \/ /\ Operated(m) < AgentsPerOperator
            /\ AgentsOf(m)' \subseteq AgentsOf(m)
            /\ WaitingAgentsOf(m)' \subseteq WaitingAgentsOf(m) \cup {r}
         \/ /\ Operated(m) < AgentsPerOperator
            /\ AgentsOf(m)' \subseteq AgentsOf(m) \cup {x}
            /\ WaitingAgentsOf(m)' \subseteq WaitingAgentsOf(m)
         \/ /\ AgentShares
            /\ AgentsOf(m)' \subseteq AgentsOf(m) \cup {x}
            /\ r \in WaitingAgentsOf(m)
            /\ WaitingAgentsOf(m)' \subseteq WaitingAgentsOf(m) \ {r}
  PROVE  Operated(m)' <= AgentsPerOperator
<1> DEFINE A == Cardinality(AgentsOf(m))
           W == Cardinality(WaitingAgentsOf(m))
           B == Cardinality(AgentsOf(m)')
           V == Cardinality(WaitingAgentsOf(m)')
<1>0. A \in Nat /\ W \in Nat /\ AgentsPerOperator \in Nat /\ IsFiniteSet(AgentsOf(m))
      /\ IsFiniteSet(WaitingAgentsOf(m))
  BY AgentsFinite, Limits
<1>1. ASSUME AgentsOf(m)' \subseteq AgentsOf(m) \cup {x}
      PROVE  B <= A + 1 /\ B \in Nat
  <2>1. A + 1 \in Nat /\ A < A + 1
    BY <1>0
  <2>2. IsFiniteSet(AgentsOf(m)') /\ B <= A + 1
    BY <1>0, <1>1, <2>1, OneMore
  <2> QED
    BY <2>2, FS_CardinalityType
<1>2. ASSUME AgentsOf(m)' \subseteq AgentsOf(m)
      PROVE  B <= A /\ B \in Nat
  BY <1>0, <1>2, FS_Subset, FS_CardinalityType
<1>3. ASSUME WaitingAgentsOf(m)' \subseteq WaitingAgentsOf(m) \cup {r}
      PROVE  V <= W + 1 /\ V \in Nat
  <2>1. W + 1 \in Nat /\ W < W + 1
    BY <1>0
  <2>2. IsFiniteSet(WaitingAgentsOf(m)') /\ V <= W + 1
    BY <1>0, <1>3, <2>1, OneMore
  <2> QED
    BY <2>2, FS_CardinalityType
<1>4. ASSUME WaitingAgentsOf(m)' \subseteq WaitingAgentsOf(m)
      PROVE  V <= W /\ V \in Nat
  BY <1>0, <1>4, FS_Subset, FS_CardinalityType
<1>5. ASSUME r \in WaitingAgentsOf(m), WaitingAgentsOf(m)' \subseteq WaitingAgentsOf(m) \ {r}
      PROVE  V < W /\ V \in Nat
  <2>1. IsFiniteSet(WaitingAgentsOf(m)') /\ V < W
    BY <1>0, <1>5, OneLess
  <2> QED
    BY <2>1, FS_CardinalityType
<1>6. (Operated(m) = A + W) /\ (AgentShares => A + W <= AgentsPerOperator)
  BY DEF Operated, AgentShares
<1> HIDE DEF A, W, B, V
<1>7. B + V <= AgentsPerOperator
  <2>1. CASE /\ Operated(m) < AgentsPerOperator
             /\ AgentsOf(m)' \subseteq AgentsOf(m)
             /\ WaitingAgentsOf(m)' \subseteq WaitingAgentsOf(m) \cup {r}
    BY <2>1, <1>0, <1>2, <1>3, <1>6
  <2>2. CASE /\ Operated(m) < AgentsPerOperator
             /\ AgentsOf(m)' \subseteq AgentsOf(m) \cup {x}
             /\ WaitingAgentsOf(m)' \subseteq WaitingAgentsOf(m)
    BY <2>2, <1>0, <1>1, <1>4, <1>6
  <2>3. CASE /\ AgentShares
             /\ AgentsOf(m)' \subseteq AgentsOf(m) \cup {x}
             /\ r \in WaitingAgentsOf(m)
             /\ WaitingAgentsOf(m)' \subseteq WaitingAgentsOf(m) \ {r}
    BY <2>3, <1>0, <1>1, <1>5, <1>6
  <2> QED
    BY <2>1, <2>2, <2>3
<1> QED
  BY <1>7 DEF Operated, B, V

(* A step that lets nobody in and makes nobody wait.                           *)
LEMMA QuietShares ==
  ASSUME LimitAssumption, SharesInv, members' \subseteq members, devices' \subseteq devices,
         NoNewWaiting, IsFiniteSet(requests'), AgentsUntied'
  PROVE  /\ IsFiniteSet(members') /\ IsFiniteSet(devices') /\ IsFiniteSet(requests')
         /\ AgentsUntied' /\ DeviceShares' /\ WaitingShares' /\ AgentShares'
<1>1. IsFiniteSet(members')
  BY FS_Subset DEF SharesInv, Finite
<1>2. IsFiniteSet(devices') /\ DeviceShares'
  BY DevicesFewer DEF SharesInv
<1>3. WaitingShares'
  BY WaitingFewer DEF SharesInv
<1>4. ASSUME NEW m \in Member PROVE Operated(m)' <= AgentsPerOperator
  <2>1. AgentsOf(m)' \subseteq AgentsOf(m) /\ WaitingAgentsOf(m)' \subseteq WaitingAgentsOf(m)
    BY DEF AgentsOf, WaitingAgentsOf, NoNewWaiting
  <2> QED
    BY <2>1, OperatedFewer DEF SharesInv
<1> QED
  BY <1>1, <1>2, <1>3, <1>4 DEF AgentShares

LEMMA AdmitShares ==
  ASSUME IInv, SharesInv, LimitAssumption, SentinelAssumption,
         NEW r \in requests, Waiting(r),
         NEW s \in RequestRecord, s.device = r.device, s.kind = r.kind,
         s.operator = r.operator, s.kind = "agent" => s.linked = NoOne,
         NEW m \in Identity(s), Admit(s, m),
         requests' = (requests \ {r}) \cup {Admitted(s)},
         UNCHANGED <<clock, ownerId, invites, settings>>
  PROVE  SharesInv'
<1>0. Finite /\ AgentsUntied /\ DeviceShares /\ InviteShares /\ WaitingShares /\ AgentShares
  BY DEF SharesInv
<1>1. /\ Admitted(s).state = "admitted" /\ Admitted(s).kind = r.kind
      /\ Admitted(s).linked = s.linked
  BY DEF Admitted, RequestRecord
<1>2. IsFiniteSet(devices') /\ DeviceShares'
  BY <1>0, AdmitDevices
<1>3. OpenInvites' = OpenInvites
  BY DEF OpenInvites, Open
<1>4. InviteShares'
  BY <1>0, <1>3, InvitesFewer
<1>5. NoNewWaiting
  BY <1>1 DEF NoNewWaiting, Waiting
<1>6. WaitingShares'
  BY <1>0, <1>5, WaitingFewer
<1>7. AgentsUntied'
  BY <1>0, <1>1 DEF AgentsUntied
<1> DEFINE x == [id |-> m, name |-> s.name,
                 role |-> IF s.kind = "agent" THEN Agent ELSE Person,
                 operator |-> IF s.kind = "agent" THEN s.operator ELSE NoOne]
<1>8. members' = members \/ members' = members \cup {x}
  BY DEF Admit
<1>9. x.role = Agent => s.kind = "agent" /\ x.operator = s.operator
  BY DEF Agent, Person
<1> HIDE DEF x
<1>10. Finite'
  <2>1. IsFiniteSet(members')
    BY <1>0, <1>8, FS_AddElement DEF Finite
  <2>2. IsFiniteSet(requests')
    BY <1>0, FS_AddElement, FS_RemoveElement DEF Finite
  <2> QED
    BY <1>0, <1>2, <2>1, <2>2 DEF Finite
<1>11. ASSUME NEW k \in Member PROVE Operated(k)' <= AgentsPerOperator
  <2>1. WaitingAgentsOf(k)' \subseteq WaitingAgentsOf(k)
    BY <1>5 DEF WaitingAgentsOf, NoNewWaiting
  <2>2. CASE s.kind = "agent" /\ s.operator = k
    <3>1. r \in WaitingAgentsOf(k)
      BY <2>2 DEF WaitingAgentsOf
    <3>2. r \notin WaitingAgentsOf(k)'
      BY <1>1, <2>2 DEF WaitingAgentsOf, Waiting
    <3>3. AgentsOf(k)' \subseteq AgentsOf(k) \cup {x}
      BY <1>8 DEF AgentsOf
    <3> QED
      BY <1>0, <2>1, <3>1, <3>2, <3>3, OperatedMore
  <2>3. CASE ~(s.kind = "agent" /\ s.operator = k)
    <3>1. AgentsOf(k)' \subseteq AgentsOf(k)
      BY <1>8, <1>9, <2>3 DEF AgentsOf
    <3> QED
      BY <1>0, <2>1, <3>1, OperatedFewer
  <2> QED
    BY <2>2, <2>3
<1> QED
  BY <1>2, <1>4, <1>6, <1>7, <1>10, <1>11 DEF SharesInv, AgentShares

LEMMA InitShares == LimitAssumption /\ Init => SharesInv
<1> SUFFICES ASSUME LimitAssumption, Init PROVE SharesInv
  OBVIOUS
<1>0. IsFiniteSet({}) /\ Cardinality({}) = 0
  BY FS_EmptySet
<1>1. PICK n \in Name :
        members = {[id |-> ownerId, name |-> n, role |-> Person, operator |-> NoOne]}
  BY DEF Init
<1>2. PICK d \in Device : devices = {[id |-> d, member |-> ownerId]}
  BY DEF Init
<1>3. IsFiniteSet(devices) /\ Cardinality(devices) = 1 /\ IsFiniteSet(members)
  BY <1>1, <1>2, FS_Singleton
<1>4. Finite /\ AgentsUntied
  BY <1>0, <1>3 DEF Init, Finite, AgentsUntied
<1>5. DeviceShares
  <2>1. 1 <= RoomDevices /\ 1 <= DevicesPerMember /\ RoomDevices \in Nat /\ DevicesPerMember \in Nat
    BY Limits
  <2>2. ASSUME NEW m \in Member PROVE Cardinality(DevicesOf(m)) <= DevicesPerMember
    <3>1. DevicesOf(m) \subseteq devices
      BY DEF DevicesOf
    <3> QED
      BY <1>3, <2>1, <3>1, Fewer
  <2> QED
    BY <1>3, <2>1, <2>2 DEF DeviceShares
<1>6. InviteShares
  <2>1. \A m : InvitesOf(m) = {}
    BY DEF Init, InvitesOf, OpenInvites
  <2> QED
    BY <1>0, <2>1, Limits DEF InviteShares
<1>7. WaitingShares
  <2>1. \A k, w : WaitingOf(k) = {} /\ WaitingFrom(w) = {}
    BY DEF Init, WaitingOf, WaitingFrom
  <2> QED
    BY <1>0, <2>1, Limits DEF WaitingShares
<1>8. AgentShares
  <2>1. \A m : AgentsOf(m) = {} /\ WaitingAgentsOf(m) = {}
    BY <1>1 DEF Init, AgentsOf, WaitingAgentsOf, Person, Agent
  <2> QED
    BY <1>0, <2>1, Limits DEF AgentShares, Operated
<1> QED
  BY <1>4, <1>5, <1>6, <1>7, <1>8 DEF SharesInv

LEMMA RestartShares ==
  ASSUME IInv, SharesInv, LimitAssumption, SentinelAssumption, Restart
  PROVE  SharesInv'
<1>0. Finite /\ AgentsUntied /\ DeviceShares /\ InviteShares /\ WaitingShares /\ AgentShares
  BY DEF SharesInv
<1>1. requests' = {Forgotten(r) : r \in requests} /\ requests \subseteq RequestRecord
      /\ UNCHANGED <<clock, ownerId, members, devices, invites, retired, settings, minted>>
  BY DEF Restart, Forgotten, IInv, TypeOK
<1>2. ASSUME NEW r \in RequestRecord
      PROVE  /\ Forgotten(r).kind = r.kind /\ Forgotten(r).state = r.state
             /\ Forgotten(r).expiresAt = r.expiresAt /\ Forgotten(r).operator = r.operator
             /\ Forgotten(r).linked = r.linked /\ Forgotten(r).address = NoAddress
  BY DEF Forgotten, RequestRecord
<1>3. Finite'
  <2>1. IsFiniteSet(requests')
    BY <1>0, <1>1, Forgets DEF Finite
  <2> QED
    BY <1>0, <1>1, <2>1 DEF Finite
<1>4. AgentsUntied'
  BY <1>0, <1>1, <1>2 DEF AgentsUntied
<1>5. DeviceShares'
  BY <1>0, <1>1, DevicesFewer
<1>6. InviteShares'
  <2>1. OpenInvites' = OpenInvites
    BY <1>1 DEF OpenInvites, Open
  <2> QED
    BY <1>0, <2>1, InvitesFewer
<1>7. WaitingShares'
  <2>1. ASSUME NEW k \in Kind PROVE Cardinality(WaitingOf(k))' <= WaitingPerKind
    <3>1. \A t \in WaitingOf(k)' : \E s \in WaitingOf(k) : t = Forgotten(s)
      BY <1>1, <1>2 DEF WaitingOf, Waiting
    <3>2. IsFiniteSet(WaitingOf(k)') /\ Cardinality(WaitingOf(k)') <= Cardinality(WaitingOf(k))
      BY <1>0, <3>1, WaitingFinite, Forgets
    <3>3. Cardinality(WaitingOf(k)') \in Nat /\ Cardinality(WaitingOf(k)) \in Nat
      BY <1>0, <3>2, WaitingFinite, FS_CardinalityType
    <3> QED
      BY <1>0, <3>2, <3>3, Limits DEF WaitingShares
  <2>2. ASSUME NEW w \in Address PROVE Cardinality(WaitingFrom(w))' <= WaitingPerAddress
    <3>1. WaitingFrom(w)' = {}
      BY <1>1, <1>2 DEF WaitingFrom, SentinelAssumption
    <3> QED
      BY <3>1, FS_EmptySet, Limits
  <2> QED
    BY <2>1, <2>2 DEF WaitingShares
<1>8. ASSUME NEW m \in Member PROVE Operated(m)' <= AgentsPerOperator
  <2>1. AgentsOf(m)' = AgentsOf(m)
    BY <1>1 DEF AgentsOf
  <2>2. \A t \in WaitingAgentsOf(m)' : \E s \in WaitingAgentsOf(m) : t = Forgotten(s)
    BY <1>1, <1>2 DEF WaitingAgentsOf, Waiting
  <2>3. IsFiniteSet(WaitingAgentsOf(m)')
        /\ Cardinality(WaitingAgentsOf(m)') <= Cardinality(WaitingAgentsOf(m))
    BY <1>0, <2>2, AgentsFinite, Forgets
  <2>4. /\ Cardinality(WaitingAgentsOf(m)') \in Nat
        /\ Cardinality(WaitingAgentsOf(m)) \in Nat
        /\ Cardinality(AgentsOf(m)) \in Nat
    BY <1>0, <2>3, AgentsFinite, FS_CardinalityType
  <2>5. Cardinality(AgentsOf(m)) + Cardinality(WaitingAgentsOf(m)) <= AgentsPerOperator
    BY <1>0 DEF AgentShares, Operated
  <2>6. Cardinality(AgentsOf(m)) + Cardinality(WaitingAgentsOf(m)') <= AgentsPerOperator
    BY <2>3, <2>4, <2>5, Limits
  <2> QED
    BY <2>1, <2>6 DEF Operated
<1> QED
  BY <1>3, <1>4, <1>5, <1>6, <1>7, <1>8 DEF SharesInv, AgentShares

LEMMA RequestShares ==
  ASSUME IInv, SharesInv, LimitAssumption, SentinelAssumption, NEW a \in Device,
         NEW kind \in {"person", "companion"}, NEW n \in Name,
         NEW pairing \in Device \cup {NoDevice}, NEW address \in Address \cup {NoAddress},
         Request(a, kind, n, pairing, address)
  PROVE  SharesInv'
<1> DEFINE new == [device |-> a, kind |-> kind, name |-> n, state |-> "pending",
         expiresAt |-> clock + RequestTTL,
         code |-> kind = "companion" /\ pairing = NoDevice, pairing |-> pairing,
         linked |-> NoOne, operator |-> NoOne, address |-> address]
<1> DEFINE others == {r \in requests : r.device # a /\ Waiting(r)}
<1>0. Finite /\ AgentsUntied /\ DeviceShares /\ InviteShares /\ WaitingShares /\ AgentShares
  BY DEF SharesInv
<1>1. /\ requests' = others \cup {new}
      /\ UNCHANGED <<clock, ownerId, members, devices, invites, settings, minted>>
      /\ Cardinality({r \in others : r.kind = kind}) < WaitingPerKind
      /\ address # NoAddress => Cardinality({r \in others : r.address = address}) < WaitingPerAddress
  BY DEF Request
<1>2. new.kind = kind /\ new.address = address /\ new.linked = NoOne
  OBVIOUS
<1>3. /\ {r \in others : r.kind = kind} = {r \in others : r.kind = new.kind /\ Waiting(r)}
      /\ {r \in others : r.address = address} = {r \in others : r.address = new.address /\ Waiting(r)}
  BY <1>2
<1>4. others \in SUBSET requests
  OBVIOUS
<1> HIDE DEF new, others
<1>5. IsFiniteSet(requests') /\ WaitingShares'
  <2>1. new.address \in Address => address # NoAddress
    BY <1>2 DEF SentinelAssumption
  <2> QED
    BY <1>0, <1>1, <1>3, <1>4, <2>1, WaitingAdded
<1>6. AgentsUntied'
  BY <1>0, <1>1, <1>2, <1>4 DEF AgentsUntied
<1>7. DeviceShares' /\ Finite'
  BY <1>0, <1>1, <1>5, DevicesFewer DEF Finite
<1>8. InviteShares'
  <2>1. OpenInvites' = OpenInvites
    BY <1>1 DEF OpenInvites, Open
  <2> QED
    BY <1>0, <2>1, InvitesFewer
<1>9. ASSUME NEW m \in Member PROVE Operated(m)' <= AgentsPerOperator
  <2>1. AgentsOf(m)' = AgentsOf(m)
    BY <1>1 DEF AgentsOf
  <2>2. WaitingAgentsOf(m)' \subseteq WaitingAgentsOf(m)
    BY <1>1, <1>2, <1>4 DEF WaitingAgentsOf, Waiting
  <2> QED
    BY <1>0, <2>1, <2>2, OperatedFewer
<1> QED
  BY <1>5, <1>6, <1>7, <1>8, <1>9 DEF SharesInv, AgentShares

LEMMA LinkShares ==
  ASSUME IInv, SharesInv, LimitAssumption, SentinelAssumption, NEW a \in Device,
         NEW r \in requests, Link(a, r)
  PROVE  SharesInv'
<1>0. Finite /\ AgentsUntied /\ DeviceShares /\ InviteShares /\ WaitingShares /\ AgentShares
  BY DEF SharesInv
<1> DEFINE s == Linked(a, r)
<1>1. TypeOK /\ r \in RequestRecord /\ InRoom(a) /\ Waiting(r) /\ r.kind = "companion"
      /\ UNCHANGED <<clock, ownerId, invites, settings>>
  BY DEF IInv, TypeOK, Link, ActsForPerson
<1>2. MemberOf(a) \in Member
  BY <1>1, ActorIsMember
<1>3. /\ s \in RequestRecord
      /\ s.device = r.device /\ s.kind = r.kind /\ s.operator = r.operator
      /\ s.address = r.address
  BY <1>1, <1>2 DEF Linked, RequestRecord
<1> HIDE DEF s
<1>4. CASE HasSay(a, r)
  <2>1. (\E m \in Identity(s) : Admit(s, m)) /\ requests' = (requests \ {r}) \cup {Admitted(s)}
    BY <1>4 DEF Link, s
  <2> QED
    BY <1>1, <1>3, <2>1, AdmitShares
<1>5. CASE ~HasSay(a, r)
  <2>1. requests' = (requests \ {r}) \cup {s} /\ UNCHANGED <<members, devices, minted>>
    BY <1>5 DEF Link, s
  <2>2. WaitingShares'
    BY <1>0, <1>1, <1>3, <2>1, WaitingSwapped
  <2>3. IsFiniteSet(requests')
    BY <1>0, <2>1, FS_AddElement, FS_RemoveElement DEF Finite
  <2>4. Finite' /\ DeviceShares'
    BY <1>0, <1>1, <2>1, <2>3, DevicesFewer DEF Finite
  <2>5. AgentsUntied'
    BY <1>0, <1>1, <1>3, <2>1 DEF AgentsUntied
  <2>6. OpenInvites' = OpenInvites
    BY <1>1 DEF OpenInvites, Open
  <2>7. InviteShares'
    BY <1>0, <2>6, InvitesFewer
  <2>8. ASSUME NEW m \in Member PROVE Operated(m)' <= AgentsPerOperator
    <3>1. AgentsOf(m)' = AgentsOf(m)
      BY <2>1 DEF AgentsOf
    <3>2. WaitingAgentsOf(m)' \subseteq WaitingAgentsOf(m)
      BY <1>1, <1>3, <2>1 DEF WaitingAgentsOf, Waiting
    <3> QED
      BY <1>0, <3>1, <3>2, OperatedFewer
  <2> QED
    BY <2>2, <2>4, <2>5, <2>7, <2>8 DEF SharesInv, AgentShares
<1> QED
  BY <1>4, <1>5

LEMMA RedeemShares ==
  ASSUME IInv, SharesInv, LimitAssumption, SentinelAssumption, NEW a \in Device,
         NEW i \in invites, AgentRedeem(a, i)
  PROVE  SharesInv'
<1>0. Finite /\ AgentsUntied /\ DeviceShares /\ InviteShares /\ WaitingShares /\ AgentShares
  BY DEF SharesInv
<1>1. /\ Operated(i.operator) < AgentsPerOperator
      /\ Cardinality(devices) < RoomDevices
      /\ invites' \subseteq OpenInvites
      /\ UNCHANGED <<clock, ownerId, retired, settings>>
  BY DEF AgentRedeem
<1>2. IsFiniteSet(invites') /\ InviteShares'
  <2>1. OpenInvites' \subseteq OpenInvites /\ invites' \subseteq invites
    BY <1>1 DEF OpenInvites, Open
  <2> QED
    BY <1>0, <2>1, InvitesFewer, FS_Subset DEF Finite
<1>3. RequestsWithout(a) \in SUBSET requests
  BY DEF RequestsWithout
<1>4. CASE MustWait(i)
  <2> DEFINE new == [device |-> a, kind |-> "agent", name |-> i.name, state |-> "pending",
               expiresAt |-> clock + RequestTTL, code |-> FALSE, pairing |-> NoDevice,
               linked |-> NoOne, operator |-> i.operator, address |-> NoAddress]
  <2>1. /\ requests' = RequestsWithout(a) \cup {new} /\ UNCHANGED <<members, devices, minted>>
        /\ Cardinality({r \in RequestsWithout(a) : r.kind = "agent" /\ Waiting(r)}) < WaitingPerKind
    BY <1>4 DEF AgentRedeem
  <2>2. /\ new.kind = "agent" /\ new.address = NoAddress /\ new.linked = NoOne
        /\ new.operator = i.operator
    OBVIOUS
  <2> HIDE DEF new
  <2>3. IsFiniteSet(requests') /\ WaitingShares'
    BY <1>0, <1>1, <1>3, <2>1, <2>2, WaitingAdded DEF SentinelAssumption
  <2>4. DeviceShares' /\ Finite'
    BY <1>0, <1>2, <2>1, <2>3, DevicesFewer DEF Finite
  <2>5. AgentsUntied'
    BY <1>0, <1>3, <2>1, <2>2 DEF AgentsUntied
  <2>6. ASSUME NEW m \in Member PROVE Operated(m)' <= AgentsPerOperator
    <3>1. AgentsOf(m)' = AgentsOf(m)
      BY <2>1 DEF AgentsOf
    <3>2. CASE m = i.operator
      <4>1. WaitingAgentsOf(m)' \subseteq WaitingAgentsOf(m) \cup {new}
        BY <1>1, <1>3, <2>1 DEF WaitingAgentsOf, Waiting
      <4> QED
        BY <1>0, <1>1, <3>1, <3>2, <4>1, OperatedMore
    <3>3. CASE m # i.operator
      <4>1. WaitingAgentsOf(m)' \subseteq WaitingAgentsOf(m)
        BY <1>1, <1>3, <2>1, <2>2, <3>3 DEF WaitingAgentsOf, Waiting
      <4> QED
        BY <1>0, <3>1, <4>1, OperatedFewer
    <3> QED
      BY <3>2, <3>3
  <2> QED
    BY <1>2, <2>3, <2>4, <2>5, <2>6 DEF SharesInv, AgentShares
<1>5. CASE ~MustWait(i)
  <2>1. requests' = RequestsWithout(a)
    BY <1>5 DEF AgentRedeem
  <2>2. PICK m \in Fresh :
          /\ members' = members \cup {[id |-> m, name |-> i.name, role |-> Agent,
                                       operator |-> i.operator]}
          /\ devices' = devices \cup {[id |-> a, member |-> m]}
    BY <1>5 DEF AgentRedeem
  <2> DEFINE x == [id |-> m, name |-> i.name, role |-> Agent, operator |-> i.operator]
  <2>3. members' = members \cup {x} /\ x.operator = i.operator
    BY <2>2
  <2> HIDE DEF x
  <2>4. IsFiniteSet(devices') /\ DeviceShares'
    <3>1. m \in Member /\ Cardinality(DevicesOf(m)) < DevicesPerMember
      BY FreshHasNothing DEF Fresh
    <3> QED
      BY <1>0, <1>1, <2>2, <3>1, DeviceAdded
  <2>5. NoNewWaiting /\ IsFiniteSet(requests') /\ AgentsUntied'
    BY <1>0, <1>1, <1>3, <2>1, FS_Subset DEF NoNewWaiting, Waiting, Finite, AgentsUntied
  <2>6. WaitingShares'
    BY <1>0, <2>5, WaitingFewer
  <2>7. Finite'
    BY <1>0, <1>2, <2>3, <2>4, <2>5, FS_AddElement DEF Finite
  <2>8. ASSUME NEW k \in Member PROVE Operated(k)' <= AgentsPerOperator
    <3>1. WaitingAgentsOf(k)' \subseteq WaitingAgentsOf(k)
      BY <2>5 DEF WaitingAgentsOf, NoNewWaiting
    <3>2. CASE k = i.operator
      <4>1. AgentsOf(k)' \subseteq AgentsOf(k) \cup {x}
        BY <2>3 DEF AgentsOf
      <4> QED
        BY <1>0, <1>1, <3>1, <3>2, <4>1, OperatedMore
    <3>3. CASE k # i.operator
      <4>1. AgentsOf(k)' \subseteq AgentsOf(k)
        BY <2>3, <3>3 DEF AgentsOf
      <4> QED
        BY <1>0, <3>1, <4>1, OperatedFewer
    <3> QED
      BY <3>2, <3>3
  <2> QED
    BY <1>2, <2>4, <2>5, <2>6, <2>7, <2>8 DEF SharesInv, AgentShares
<1> QED
  BY <1>4, <1>5

(* The steps after which nobody more is in the room or waits.                  *)
LEMMA OtherShares ==
  ASSUME IInv, SharesInv, LimitAssumption, NEW a \in Device,
         \/ Tick \/ UNCHANGED vars
         \/ \E r \in requests : Cancel(a, r) \/ DecideDecline(a, r)
         \/ \E d \in devices : RemoveDevice(a, d)
         \/ \E n \in Name : AgentInvite(a, n)
         \/ \E s \in Settings : ChangeSettings(a, s)
  PROVE  SharesInv'
<1>0. Finite /\ AgentsUntied /\ InviteShares /\ TypeOK /\ clock \in Nat
  BY DEF SharesInv, IInv, TypeOK
<1>1. members' \subseteq members /\ devices' \subseteq devices
  BY DEF Tick, vars, Cancel, DecideDecline, RemoveDevice, AgentInvite, ChangeSettings
<1>2. clock' = clock \/ clock' = clock + 1
  BY DEF Tick, vars, Cancel, DecideDecline, RemoveDevice, AgentInvite, ChangeSettings
<1>3. NoNewWaiting /\ IsFiniteSet(requests') /\ AgentsUntied'
  <2>1. CASE requests' \subseteq requests
    <3>1. NoNewWaiting
      BY <1>0, <1>2, <2>1 DEF NoNewWaiting, Waiting, TypeOK, RequestRecord
    <3> QED
      BY <1>0, <2>1, <3>1, FS_Subset DEF Finite, AgentsUntied
  <2>2. CASE \E r \in requests : DecideDecline(a, r)
    <3>1. PICK r \in requests : DecideDecline(a, r)
      BY <2>2
    <3> DEFINE s == [r EXCEPT !.state = "declined", !.code = FALSE, !.pairing = NoDevice]
    <3>2. r \in RequestRecord
      BY <1>0 DEF TypeOK
    <3>3. s.state = "declined" /\ s.kind = r.kind /\ s.linked = r.linked
      BY <3>2 DEF RequestRecord
    <3>4. requests' = (requests \ {r}) \cup {s} /\ clock' = clock
      BY <3>1 DEF DecideDecline
    <3> HIDE DEF s
    <3>5. NoNewWaiting
      BY <3>3, <3>4 DEF NoNewWaiting, Waiting
    <3>6. IsFiniteSet(requests')
      BY <1>0, <3>4, FS_AddElement, FS_RemoveElement DEF Finite
    <3>7. AgentsUntied'
      BY <1>0, <3>3, <3>4 DEF AgentsUntied
    <3> QED
      BY <3>5, <3>6, <3>7
  <2> QED
    BY <2>1, <2>2 DEF Tick, vars, Cancel, RemoveDevice, AgentInvite, ChangeSettings
<1>4. IsFiniteSet(invites') /\ InviteShares'
  <2>1. CASE invites' \subseteq invites
    <3>1. OpenInvites' \subseteq OpenInvites
      BY <1>0, <1>2, <2>1 DEF OpenInvites, Open, TypeOK, InviteRecord
    <3> QED
      BY <1>0, <2>1, <3>1, InvitesFewer, FS_Subset DEF Finite
  <2>2. CASE \E n \in Name : AgentInvite(a, n)
    BY <1>0, <2>2, InviteMade
  <2> QED
    BY <2>1, <2>2 DEF Tick, vars, Cancel, DecideDecline, RemoveDevice, ChangeSettings
<1> QED
  BY <1>1, <1>3, <1>4, QuietShares DEF SharesInv, Finite

LEMMA SharesStep ==
  ASSUME IInv, SharesInv, [Next]_vars
  PROVE  SharesInv'
<1> USE SentinelAssumption, LimitAssumption
<1>1. CASE UNCHANGED vars \/ Tick
  <2>1. \E a : a \in Device
    BY DEF IInv, HostPresent, Present, TypeOK, DeviceRecord
  <2> QED
    BY <1>1, <2>1, OtherShares
<1>2. CASE Restart
  BY <1>2, RestartShares
<1>3. CASE \E a \in Device : Act(a)
  <2>1. PICK a \in Device : Act(a)
    BY <1>3
  <2>2. CASE \E kind \in {"person", "companion"}, n \in Name,
               pairing \in Device \cup {NoDevice}, address \in Address \cup {NoAddress} :
               Request(a, kind, n, pairing, address)
    BY <2>2, RequestShares
  <2>3. CASE \E r \in requests : Link(a, r)
    BY <2>3, LinkShares
  <2>4. CASE \E r \in requests : DecideAdmit(a, r)
    <3>1. PICK r \in requests : DecideAdmit(a, r)
      BY <2>4
    <3>2. r \in RequestRecord /\ (r.kind = "agent" => r.linked = NoOne)
      BY DEF IInv, TypeOK, SharesInv, AgentsUntied
    <3>3. Waiting(r) /\ requests' = (requests \ {r}) \cup {Admitted(r)}
          /\ UNCHANGED <<clock, ownerId, invites, settings>>
      BY <3>1 DEF DecideAdmit
    <3>4. PICK m \in Identity(r) : Admit(r, m)
      BY <3>1 DEF DecideAdmit
    <3> QED
      BY <3>2, <3>3, <3>4, AdmitShares
  <2>5. CASE \E i \in invites : AgentRedeem(a, i)
    BY <2>5, RedeemShares
  <2>6. CASE \/ \E r \in requests : Cancel(a, r) \/ DecideDecline(a, r)
             \/ \E d \in devices : RemoveDevice(a, d)
             \/ \E n \in Name : AgentInvite(a, n)
             \/ \E s \in Settings : ChangeSettings(a, s)
    BY <2>6, OtherShares
  <2> QED
    BY <2>1, <2>2, <2>3, <2>4, <2>5, <2>6 DEF Act
<1> QED
  BY <1>1, <1>2, <1>3 DEF Next

(* No share is ever exceeded, whatever was waiting when a limit was checked:    *)
(* devices of the room and of a member, an operator's agents in the room and    *)
(* waiting, a person's links, requests of a kind and from an address            *)
(* (lobby.ts: request, link, agentInvite, agentRedeem, decide, admit).          *)
THEOREM SharesNeverExceeded == Spec => []SharesHold
<1>1. Init => SharesInv
  BY InitShares, LimitAssumption
<1>2. IInv /\ SharesInv /\ [Next]_vars => SharesInv'
  BY SharesStep
<1>3. IInv /\ SharesInv => SharesHold
  <2> SUFFICES ASSUME IInv, SharesInv PROVE SharesHold
    OBVIOUS
  <2>1. \A x \in members : x.id \in Member
    BY DEF IInv, TypeOK, MemberRecord
  <2>2. \A x \in members :
          Cardinality({y \in members : y.role = Agent /\ y.operator = x.id})
            + Cardinality(WaitingAgentsOf(x.id)) <= AgentsPerOperator
    BY <2>1 DEF SharesInv, AgentShares, Operated, AgentsOf
  <2>3. \A x \in members :
          Cardinality({i \in OpenInvites : i.operator = x.id}) <= InvitesPerPerson
    BY <2>1 DEF SharesInv, InviteShares, InvitesOf
  <2>4. /\ \A x \in members : Cardinality(DevicesOf(x.id)) <= DevicesPerMember
        /\ Cardinality(devices) <= RoomDevices
    BY <2>1 DEF SharesInv, DeviceShares
  <2>5. /\ \A k \in Kind :
             Cardinality({r \in requests : r.kind = k /\ Waiting(r)}) <= WaitingPerKind
        /\ \A w \in Address :
             Cardinality({r \in requests : r.address = w /\ Waiting(r)}) <= WaitingPerAddress
    BY DEF SharesInv, WaitingShares, WaitingOf, WaitingFrom
  <2> QED
    BY <2>2, <2>3, <2>4, <2>5 DEF SharesHold
<1> QED
  BY <1>1, <1>2, <1>3, Inductive, PTL DEF Spec

-----------------------------------------------------------------------------
(* Whose word a change is, as a peer finds it out.                             *)
RetiredSeq == retired \in Seq(DeviceRecord)

(* The first entry of a list that names a device names this member.            *)
FirstSays(s, x, m) ==
  \E i \in DOMAIN s : /\ s[i].id = x /\ s[i].member = m
                      /\ \A k \in DOMAIN s : s[k].id = x => i <= k

FoundHere == OneIdentityPerDevice => \A x, m : InRoom(x) =>
  (Verifies(x, m) <=> \E d \in devices : d.id = x /\ d.member = m)
FoundRetired == \A x, m : ~InRoom(x) => (Verifies(x, m) <=> FirstSays(retired, x, m))

LEMMA AuthorHere == FoundHere
<1> SUFFICES ASSUME OneIdentityPerDevice, NEW x, NEW m, InRoom(x)
             PROVE  Verifies(x, m) <=> \E d \in devices : d.id = x /\ d.member = m
  BY DEF FoundHere
<1>1. PICK d \in devices : d.id = x
  BY DEF InRoom
<1>2. \A e \in devices : e.id = x => e = d
  BY <1>1 DEF OneIdentityPerDevice
<1>3. (CHOOSE e \in devices : e.id = x) = d
  BY <1>1, <1>2
<1> QED
  BY <1>1, <1>2, <1>3 DEF Verifies, AuthorOf, MemberOf

LEMMA AuthorGone == FoundRetired
BY DEF FoundRetired, Verifies, AuthorOf, FirstSays

(* A list that was not cut to its limit was not cut.                           *)
LEMMA NewestFacts ==
  ASSUME LimitAssumption, NEW s \in Seq(DeviceRecord)
  PROVE  /\ Newest(s) \in Seq(DeviceRecord)
         /\ Len(Newest(s)) # RetiredDevices => Newest(s) = s
<1>1. RetiredDevices \in Nat /\ RetiredDevices > 0 /\ Len(s) \in Nat
  BY DEF LimitAssumption
<1>2. CASE Len(s) <= RetiredDevices
  BY <1>2 DEF Newest
<1>3. CASE ~(Len(s) <= RetiredDevices)
  <2> DEFINE a == Len(s) - RetiredDevices + 1
             z == Len(s)
  <2>1. Newest(s) = SubSeq(s, a, z)
    BY <1>3 DEF Newest
  <2>2. a \in 1..Len(s) /\ z \in 1..Len(s) /\ a <= z /\ z - a + 1 = RetiredDevices
    BY <1>1, <1>3
  <2>3. \A i \in a..z : i \in 1..Len(s)
    BY <1>1, <2>2
  <2> HIDE DEF a, z
  <2>4. \A i \in a..z : s[i] \in DeviceRecord
    BY <2>3, ElementOfSeq
  <2>5. a \in Int /\ z \in Int
    BY <1>1, <2>2
  <2>6. /\ SubSeq(s, a, z) \in Seq(DeviceRecord)
        /\ Len(SubSeq(s, a, z)) = IF a <= z THEN z - a + 1 ELSE 0
    BY <2>4, <2>5, SubSeqProperties
  <2> QED
    BY <2>1, <2>2, <2>6
<1> QED
  BY <1>2, <1>3

(* Keeping every entry that names a device keeps the first that does.          *)
LEMMA FirstKept ==
  ASSUME NEW s \in Seq(DeviceRecord), NEW P \in SUBSET (DOMAIN s),
         NEW t \in Seq(DeviceRecord), NEW x, NEW m, FirstSays(s, x, m),
         \A i \in DOMAIN s : s[i].id = x => i \in P
  PROVE  FirstSays(At(s, P) \o t, x, m)
<1> DEFINE u == At(s, P) \o t
           n == Cardinality(P)
<1>1. PICK i \in DOMAIN s : /\ s[i].id = x /\ s[i].member = m
                            /\ \A k \in DOMAIN s : s[k].id = x => i <= k
  BY DEF FirstSays
<1>2. i \in P
  BY <1>1
<1> DEFINE p == Place(P, i)
<1>3. /\ n \in Nat /\ Len(t) \in Nat /\ DOMAIN u = 1..(n + Len(t))
      /\ \A k \in 1..n : Nth(P, k) \in P /\ u[k] = s[Nth(P, k)]
      /\ p \in 1..n /\ u[p] = s[i] /\ Nth(P, p) = i
      /\ \A k \in 1..n : k < p <=> Nth(P, k) < Nth(P, p)
  <2>1. n \in Nat /\ Len(t) \in Nat
    BY AtThenFacts
  <2>2. DOMAIN u = 1..(n + Len(t))
    BY AtThenFacts
  <2>3. ASSUME NEW k \in 1..n PROVE Nth(P, k) \in P /\ u[k] = s[Nth(P, k)]
    BY AtThenFacts
  <2>4. p \in 1..n /\ u[p] = s[i]
    <3>1. p \in 1..n
      BY <1>2, AtThenFacts
    <3>2. u[p] = s[i]
      BY <1>2, KeptAhead
    <3> QED
      BY <3>1, <3>2
  <2>5. Nth(P, p) = i
    BY <1>2, AtThenFacts
  <2>6. \A j, k \in 1..n : j < k <=> Nth(P, j) < Nth(P, k)
    BY AtThenFacts
  <2> HIDE DEF u, n, p
  <2> QED
    BY <2>1, <2>2, <2>3, <2>4, <2>5, <2>6
<1>4. i \in Nat /\ \A k \in P : k \in Nat /\ k \in DOMAIN s
  OBVIOUS
<1> HIDE DEF u, n, p
<1>5. p \in DOMAIN u /\ u[p].id = x /\ u[p].member = m
  BY <1>1, <1>3
<1>6. ASSUME NEW k \in DOMAIN u, u[k].id = x PROVE p <= k
  <2>1. CASE k \in 1..n
    <3>1. i <= Nth(P, k)
      BY <1>1, <1>3, <1>4, <1>6, <2>1
    <3>2. ~(k < p)
      BY <1>3, <1>4, <2>1, <3>1
    <3> QED
      BY <1>3, <2>1, <3>2
  <2>2. CASE k \notin 1..n
    BY <1>3, <2>2
  <2> QED
    BY <2>1, <2>2
<1> QED
  BY <1>5, <1>6 DEF FirstSays, u

(* Dropping every entry that names a device leaves it to what is appended.     *)
LEMMA FirstAppended ==
  ASSUME NEW s \in Seq(DeviceRecord), NEW P \in SUBSET (DOMAIN s),
         NEW t \in Seq(DeviceRecord), NEW x, NEW m, FirstSays(t, x, m),
         \A i \in P : s[i].id # x
  PROVE  FirstSays(At(s, P) \o t, x, m)
<1> DEFINE u == At(s, P) \o t
           n == Cardinality(P)
<1>1. PICK i \in DOMAIN t : /\ t[i].id = x /\ t[i].member = m
                            /\ \A k \in DOMAIN t : t[k].id = x => i <= k
  BY DEF FirstSays
<1>2. DOMAIN t = 1..Len(t) /\ Len(t) \in Nat
  OBVIOUS
<1>3. /\ n \in Nat /\ DOMAIN u = 1..(n + Len(t))
      /\ \A k \in 1..n : Nth(P, k) \in P /\ u[k] = s[Nth(P, k)]
      /\ \A k \in 1..Len(t) : u[n + k] = t[k]
  <2>1. n \in Nat
    BY AtThenFacts
  <2>2. DOMAIN u = 1..(n + Len(t))
    BY AtThenFacts
  <2>3. ASSUME NEW k \in 1..n PROVE Nth(P, k) \in P /\ u[k] = s[Nth(P, k)]
    BY AtThenFacts
  <2>4. ASSUME NEW k \in 1..Len(t) PROVE u[n + k] = t[k]
    BY AtThenFacts
  <2> HIDE DEF u, n
  <2> QED
    BY <2>1, <2>2, <2>3, <2>4
<1> HIDE DEF u, n
<1>4. n + i \in DOMAIN u /\ u[n + i].id = x /\ u[n + i].member = m
  BY <1>1, <1>2, <1>3
<1>5. ASSUME NEW k \in DOMAIN u, u[k].id = x PROVE n + i <= k
  <2>1. k \notin 1..n
    BY <1>3, <1>5
  <2>2. (k - n) \in 1..Len(t) /\ n + (k - n) = k
    BY <1>2, <1>3, <2>1
  <2>3. t[k - n].id = x
    BY <1>3, <1>5, <2>2
  <2> QED
    BY <1>1, <1>2, <1>3, <2>2, <2>3
<1> QED
  BY <1>4, <1>5 DEF FirstSays, u

(* A list of exactly these devices, each once.                                 *)
Lists(t, S) ==
  /\ t \in Seq(DeviceRecord)
  /\ \A i \in DOMAIN t : t[i] \in S
  /\ \A e \in S : \E i \in DOMAIN t : t[i] = e
  /\ \A i, k \in DOMAIN t : t[i] = t[k] => i = k

(* The devices that leave together, in the order they are retired.             *)
LEMMA LeaversListed ==
  ASSUME NEW d, NEW S \in SUBSET DeviceRecord, d \in DeviceRecord, d \notin S,
         IsFiniteSet(S), NEW order \in SetToSeqs(S)
  PROVE  Lists(<<d>> \o order, {d} \cup S)
<1> DEFINE n == Cardinality(S)
           t == <<d>> \o order
<1>1. /\ n \in Nat /\ order \in [1..n -> S]
      /\ \A i, j \in 1..n : i # j => order[i] # order[j]
  BY FS_CardinalityType DEF SetToSeqs
<1>2. order \in Seq(S) /\ order \in Seq(DeviceRecord) /\ Len(order) = n
  BY <1>1
<1>3. \A e \in S : \E i \in 1..n : order[i] = e
  <2> DEFINE N == 1..n
  <2>1. IsFiniteSet(N) /\ Cardinality(N) = n
    <3>1. IsFiniteSet(1..n) /\ Cardinality(1..n) = IF 1 > n THEN 0 ELSE n - 1 + 1
      BY <1>1, FS_Interval
    <3> QED
      BY <1>1, <3>1
  <2>2. order \in Injection(N, S)
    BY <1>1 DEF Injection, IsInjective
  <2>3. order \in Surjection(N, S)
    <3> HIDE DEF N
    <3> QED
      BY <2>1, <2>2, FS_Injection
  <2> QED
    BY <2>3 DEF Surjection
<1>5. /\ t \in Seq(DeviceRecord) /\ DOMAIN t = 1..(1 + n)
      /\ t[1] = d
      /\ \A i \in 1..n : t[1 + i] = order[i]
  <2>1. t \in Seq(DeviceRecord)
    BY <1>2, HeadAhead
  <2>2. DOMAIN t = 1..(1 + n)
    BY <1>2, HeadAhead
  <2>3. t[1] = d
    BY <1>2, HeadAhead
  <2>4. ASSUME NEW i \in 1..n PROVE t[1 + i] = order[i]
    BY <1>2, HeadAhead
  <2> HIDE DEF t, n
  <2> QED
    BY <2>1, <2>2, <2>3, <2>4
<1> HIDE DEF t, n
<1>6. \A i \in DOMAIN t : i = 1 \/ (i - 1 \in 1..n /\ t[i] = order[i - 1])
  <2> TAKE i \in DOMAIN t
  <2>1. i = 1 \/ (i - 1 \in 1..n /\ 1 + (i - 1) = i)
    BY <1>1, <1>5
  <2> QED
    BY <1>5, <2>1
<1>7. \A i \in DOMAIN t : t[i] \in {d} \cup S
  BY <1>1, <1>5, <1>6
<1>8. ASSUME NEW e \in {d} \cup S PROVE \E i \in DOMAIN t : t[i] = e
  <2>1. CASE e = d
    BY <1>1, <1>5, <2>1
  <2>2. CASE e \in S
    <3>1. PICK i \in 1..n : order[i] = e
      BY <1>3, <2>2
    <3>2. 1 + i \in DOMAIN t
      BY <1>1, <1>5, <3>1
    <3> QED
      BY <1>5, <3>1, <3>2
  <2> QED
    BY <2>1, <2>2
<1>9. ASSUME NEW i \in DOMAIN t, NEW k \in DOMAIN t, t[i] = t[k] PROVE i = k
  <2>0. i \in Nat /\ k \in Nat
    BY <1>1, <1>5
  <2>1. CASE i = 1
    BY <1>1, <1>5, <1>6, <1>9, <2>1
  <2>2. CASE k = 1
    BY <1>1, <1>5, <1>6, <1>9, <2>2
  <2>3. CASE i # 1 /\ k # 1
    <3>1. i - 1 = k - 1
      BY <1>1, <1>6, <1>9, <2>3
    <3> QED
      BY <2>0, <3>1
  <2> QED
    BY <2>1, <2>2, <2>3
<1> QED
  BY <1>5, <1>7, <1>8, <1>9 DEF t, Lists

(* The entries that no device leaving now replaces.                            *)
Kept(gone) == {i \in DOMAIN retired : \A g \in gone : g.id # retired[i].id}

LEMMA RetireFacts ==
  ASSUME LimitAssumption, RetiredSeq, NEW gone, NEW t \in Seq(DeviceRecord)
  PROVE  /\ Retire(gone, t) \in Seq(DeviceRecord)
         /\ Len(Retire(gone, t)) # RetiredDevices =>
              Retire(gone, t) = At(retired, Kept(gone)) \o t
<1>1. At(retired, Kept(gone)) \o t \in Seq(DeviceRecord)
  <2>1. Kept(gone) \in SUBSET (DOMAIN retired) /\ retired \in Seq(DeviceRecord)
    BY DEF Kept, RetiredSeq
  <2> QED
    BY <2>1, AtThenFacts
<1>2. Retire(gone, t) = Newest(At(retired, Kept(gone)) \o t)
  BY DEF Retire, Kept
<1> QED
  BY <1>1, <1>2, NewestFacts

(* Only `remove` takes a device out, or writes the list of retired keys.       *)
LEMMA OnlyRemovals ==
  [Next]_vars => \/ retired' = retired /\ devices \subseteq devices'
                 \/ \E a \in Device, d \in devices : RemoveDevice(a, d)
<1> SUFFICES ASSUME [Next]_vars
             PROVE  \/ retired' = retired /\ devices \subseteq devices'
                    \/ \E a \in Device, d \in devices : RemoveDevice(a, d)
  OBVIOUS
<1>1. CASE UNCHANGED vars \/ Tick \/ Restart
  BY <1>1 DEF vars, Tick, Restart
<1>2. ASSUME NEW a \in Device, Act(a)
      PROVE  \/ retired' = retired /\ devices \subseteq devices'
             \/ \E d \in devices : RemoveDevice(a, d)
  <2>1. ASSUME NEW kind \in {"person", "companion"}, NEW n \in Name,
               NEW pairing \in Device \cup {NoDevice}, NEW address \in Address \cup {NoAddress},
               Request(a, kind, n, pairing, address)
        PROVE  retired' = retired /\ devices \subseteq devices'
    BY <2>1 DEF Request
  <2>2. ASSUME NEW r \in requests, Link(a, r)
        PROVE  retired' = retired /\ devices \subseteq devices'
    BY <2>2 DEF Link, Admit
  <2>3. ASSUME NEW r \in requests, Cancel(a, r) \/ DecideAdmit(a, r) \/ DecideDecline(a, r)
        PROVE  retired' = retired /\ devices \subseteq devices'
    BY <2>3 DEF Cancel, DecideAdmit, DecideDecline, Admit
  <2>4. ASSUME NEW n \in Name, AgentInvite(a, n)
        PROVE  retired' = retired /\ devices \subseteq devices'
    BY <2>4 DEF AgentInvite
  <2>5. ASSUME NEW i \in invites, AgentRedeem(a, i)
        PROVE  retired' = retired /\ devices \subseteq devices'
    BY <2>5 DEF AgentRedeem
  <2>6. ASSUME NEW s \in Settings, ChangeSettings(a, s)
        PROVE  retired' = retired /\ devices \subseteq devices'
    BY <2>6 DEF ChangeSettings
  <2> QED
    BY <1>2, <2>1, <2>2, <2>3, <2>4, <2>5, <2>6 DEF Act
<1> QED
  BY <1>1, <1>2 DEF Next

(* What a removal leaves: the devices that stay, and who left, newest last.    *)
LEMMA RemovalLeaves ==
  ASSUME LimitAssumption, IInv, SharesInv, RetiredSeq,
         NEW a \in Device, NEW d \in devices, RemoveDevice(a, d)
  PROVE  LET gone == {d} \cup LeavingWith(d)
         IN /\ gone \subseteq devices
            /\ devices' = devices \ gone
            /\ \E t : Lists(t, gone) /\ retired' = Retire(gone, t)
<1> DEFINE gone == {d} \cup LeavingWith(d)
<1>1. gone \subseteq devices /\ d \notin LeavingWith(d) /\ devices' = devices \ gone
  BY DEF LeavingWith, RemoveDevice
<1>2. devices \subseteq DeviceRecord /\ IsFiniteSet(devices)
  BY DEF IInv, TypeOK, SharesInv, Finite
<1>3. LeavingWith(d) \in SUBSET DeviceRecord /\ IsFiniteSet(LeavingWith(d))
  BY <1>1, <1>2, FS_Subset
<1>4. PICK order \in SetToSeqs(LeavingWith(d)) : retired' = Retire(gone, <<d>> \o order)
  BY DEF RemoveDevice
<1>5. d \in DeviceRecord
  BY <1>2
<1>6. Lists(<<d>> \o order, gone)
  BY <1>1, <1>3, <1>5, LeaversListed
<1> QED
  BY <1>1, <1>4, <1>6

LEMMA RetiredStep ==
  LimitAssumption /\ IInv /\ SharesInv /\ RetiredSeq /\ [Next]_vars => RetiredSeq'
<1> SUFFICES ASSUME LimitAssumption, IInv, SharesInv, RetiredSeq, [Next]_vars
             PROVE  RetiredSeq'
  OBVIOUS
<1>1. ASSUME NEW a \in Device, NEW d \in devices, RemoveDevice(a, d) PROVE RetiredSeq'
  <2>1. PICK t : Lists(t, {d} \cup LeavingWith(d)) /\ retired' = Retire({d} \cup LeavingWith(d), t)
    BY <1>1, RemovalLeaves
  <2>2. t \in Seq(DeviceRecord)
    BY <2>1 DEF Lists
  <2> QED
    BY <2>1, <2>2, RetireFacts DEF RetiredSeq
<1> QED
  BY <1>1, OnlyRemovals DEF RetiredSeq

(* A removal leaves every verdict as it was: a device that stays is looked up  *)
(* in the room as before; one that goes is found first among the retired; and  *)
(* one that went before keeps its place before every later entry of its key.   *)
LEMMA VerdictStep ==
  ASSUME LimitAssumption, IInv, IInv', SharesInv, RetiredSeq, [Next]_vars,
         NEW x, NEW m, Verifies(x, m), \A e \in Entering : e.id # x,
         Len(retired') # RetiredDevices
  PROVE  Verifies(x, m)'
<1>0. OneIdentityPerDevice /\ OneIdentityPerDevice'
  BY DEF IInv
<1>h. InRoom(x)' => (Verifies(x, m)' <=> \E e \in devices' : e.id = x /\ e.member = m)
  <2>1. FoundHere'
    BY AuthorHere, PTL
  <2> QED
    BY <1>0, <2>1 DEF FoundHere
<1>g. ~InRoom(x)' => (Verifies(x, m)' <=> FirstSays(retired', x, m))
  <2>1. FoundRetired'
    BY AuthorGone, PTL
  <2> QED
    BY <2>1 DEF FoundRetired, FirstSays
<1>1. CASE retired' = retired /\ devices \subseteq devices'
  <2>1. CASE InRoom(x)
    <3>1. PICK e \in devices : e.id = x /\ e.member = m
      BY <1>0, <2>1, AuthorHere DEF FoundHere
    <3>2. e \in devices' /\ InRoom(x)'
      BY <1>1, <3>1 DEF InRoom
    <3> QED
      BY <1>h, <3>1, <3>2
  <2>2. CASE ~InRoom(x)
    <3>1. ~InRoom(x)'
      BY <2>2 DEF InRoom, Entering
    <3>2. FirstSays(retired, x, m)
      BY <2>2, AuthorGone DEF FoundRetired
    <3> QED
      BY <1>1, <1>g, <3>1, <3>2
  <2> QED
    BY <2>1, <2>2
<1>2. ASSUME NEW a \in Device, NEW d \in devices, RemoveDevice(a, d)
      PROVE  Verifies(x, m)'
  <2> DEFINE gone == {d} \cup LeavingWith(d)
  <2>1. gone \subseteq devices /\ devices' = devices \ gone
    BY <1>2, RemovalLeaves
  <2>p. PICK t : Lists(t, gone) /\ retired' = Retire(gone, t)
    BY <1>2, RemovalLeaves
  <2>2. /\ t \in Seq(DeviceRecord)
        /\ retired' = Retire(gone, t)
        /\ \A i \in DOMAIN t : t[i] \in gone
        /\ \A e \in gone : \E i \in DOMAIN t : t[i] = e
        /\ \A i, k \in DOMAIN t : t[i] = t[k] => i = k
    BY <2>p DEF Lists
  <2> HIDE DEF gone
  <2>3. retired' = At(retired, Kept(gone)) \o t
    BY <2>2, RetireFacts
  <2>4. retired \in Seq(DeviceRecord) /\ Kept(gone) \in SUBSET (DOMAIN retired)
    BY DEF Kept, RetiredSeq
  <2>5. CASE InRoom(x)
    <3>1. PICK e \in devices : e.id = x /\ e.member = m
      BY <1>0, <2>5, AuthorHere DEF FoundHere
    <3>2. \A f \in devices : f.id = x => f = e
      BY <1>0, <3>1 DEF OneIdentityPerDevice
    <3>3. CASE e \notin gone
      <4>1. e \in devices' /\ InRoom(x)'
        BY <2>1, <3>1, <3>3 DEF InRoom
      <4> QED
        BY <1>h, <3>1, <4>1
    <3>4. CASE e \in gone
      <4>1. ~InRoom(x)'
        BY <2>1, <3>2, <3>4 DEF InRoom
      <4>2. PICK i \in DOMAIN t : t[i] = e
        BY <2>2, <3>4
      <4>3. ASSUME NEW k \in DOMAIN t, t[k].id = x PROVE i <= k
        <5>1. t[k] = e
          BY <2>1, <2>2, <3>2, <4>3
        <5>2. i = k /\ i \in Nat
          BY <2>2, <4>2, <5>1
        <5> QED
          BY <5>2
      <4>4. FirstSays(t, x, m)
        BY <3>1, <4>2, <4>3 DEF FirstSays
      <4>5. \A k \in Kept(gone) : retired[k].id # x
        BY <3>1, <3>4 DEF Kept
      <4>6. FirstSays(At(retired, Kept(gone)) \o t, x, m)
        BY <2>2, <2>4, <4>4, <4>5, FirstAppended
      <4> QED
        BY <1>g, <2>3, <4>1, <4>6
    <3> QED
      BY <3>3, <3>4
  <2>6. CASE ~InRoom(x)
    <3>1. ~InRoom(x)' /\ \A g \in gone : g.id # x
      BY <2>1, <2>6 DEF InRoom
    <3>2. FirstSays(retired, x, m)
      BY <2>6, AuthorGone DEF FoundRetired
    <3>3. \A i \in DOMAIN retired : retired[i].id = x => i \in Kept(gone)
      BY <3>1 DEF Kept
    <3>4. FirstSays(At(retired, Kept(gone)) \o t, x, m)
      BY <2>2, <2>4, <3>2, <3>3, FirstKept
    <3> QED
      BY <1>g, <2>3, <3>1, <3>4
  <2> QED
    BY <2>5, <2>6
<1> QED
  BY <1>1, <1>2, OnlyRemovals

(* What somebody wrote goes on verifying as theirs after they left, until the   *)
(* list of retired keys is full or their key comes back as somebody else        *)
(* (lobby.ts: remove; peers.ts: acceptBoard, acceptDecisions, acceptReactions).  *)
THEOREM KeysOutlive == Spec => KeysOutliveMembership
<1>1. Init => RetiredSeq
  BY DEF Init, RetiredSeq
<1>2. Init => SharesInv
  BY InitShares, LimitAssumption
<1>3. IInv /\ SharesInv /\ [Next]_vars => SharesInv'
  BY SharesStep
<1>4. IInv /\ SharesInv /\ RetiredSeq /\ [Next]_vars => RetiredSeq'
  BY RetiredStep, LimitAssumption
<1>5. IInv /\ IInv' /\ SharesInv /\ RetiredSeq /\ [Next]_vars =>
        [<<devices, retired>>' # <<devices, retired>> =>
           \A d \in Device, m \in Member : Verifies(d, m) /\ ~Verifies(d, m)' =>
             (\E e \in Entering : e.id = d) \/ Len(retired') = RetiredDevices]_vars
  BY VerdictStep, LimitAssumption
<1> QED
  BY <1>1, <1>2, <1>3, <1>4, <1>5, Inductive, PTL DEF Spec, KeysOutliveMembership
=============================================================================
