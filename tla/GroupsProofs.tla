----------------------------- MODULE GroupsProofs -----------------------------
(***************************************************************************)
(* Proofs about device groups, for any number of requests, names, devices, *)
(* groups and image sets: the types, that members have groups, that a      *)
(* request touches the membership of the devices it names only, and that a *)
(* device is updated to its image set.                                     *)
(***************************************************************************)
EXTENDS DeviceGroups, FiniteSetTheorems, TLAPS

Labels == {"idle", "create", "rename", "save", "delete", "deleteGroup", "add", "append",
           "findDevice", "findMembers", "remove", "latest", "build"}

\* What a request holds at its steps.
HoldsInv ==
    \A r \in Requests :
        /\ pc[r] \notin {"idle", "create"} => mem[r].group \in Groups
        /\ pc[r] \in {"create", "rename", "save"} => mem[r].name \in Names
        /\ pc[r] = "build" <=> mem[r].set # Nothing

TypeInv == TypeOK /\ HoldsInv

Writing(r) == pc[r] \notin {"idle", "latest", "build"}

\* Two requests that write the same group are known to.
WritersInv ==
    \A r, q \in Requests :
        r # q /\ Writing(r) /\ Writing(q) /\ mem[r].group = mem[q].group
            => mem[r].group \in contested \cup {0}

AppendInv ==
    \A r \in Requests :
        pc[r] = "append" => group[mem[r].group].live \/ mem[r].group \in contested

\* A delete has read all members that are left.
DeleteInv ==
    \A r \in Requests : \A d \in Devices :
        /\ pc[r] = "deleteGroup"
        /\ <<mem[r].group, d>> \in member /\ device[d].live
        => d \in mem[r].rows \/ mem[r].group \in contested

MemberInv == WritersInv /\ AppendInv /\ DeleteInv /\ MembersHaveGroups

\* Devices to add or to remove were asked for.
AskedInv ==
    \A r \in Requests :
        pc[r] \in {"add", "append", "findDevice", "findMembers", "remove"}
            => mem[r].rows \subseteq mem[r].asked

\* Devices that wait for their update run the set of the commit, or changed meanwhile.
SetInv ==
    \A r \in Requests : \A d \in Devices :
        pc[r] = "build" /\ d \in mem[r].rows /\ device[d].live
            => device[d].set = mem[r].set \/ d \in contested

-------------------------------------------------------------------------------
(* What the operators return.                                              *)

\* A query for no ids finds all members, and is refused then.
LEMMA FoundWereAsked ==
    ASSUME NEW rows \in SUBSET Devices, NEW ids \in SUBSET Devices,
           AllFound(FoundAmong(rows, ids), ids)
    PROVE  FoundAmong(rows, ids) \subseteq ids
<1>1. CASE ids = {}
  <2>1. IsFiniteSet(rows)
      BY GroupsAssumption, FS_Subset
  <2>2. Cardinality(ids) = 0
      BY <1>1, FS_EmptySet
  <2>3. rows # {} /\ Cardinality(rows) = Cardinality(ids)
      BY <1>1 DEF AllFound, FoundAmong
  <2> QED
      BY <2>1, <2>2, <2>3, FS_EmptySet
<1>2. CASE ids # {}
    BY <1>2 DEF FoundAmong
<1> QED
    BY <1>1, <1>2

\* At most one set among the devices: that of each of them.
LEMMA OneSet ==
    ASSUME NEW rows \in SUBSET Devices,
           ~ (Cardinality({device[d].set : d \in rows}) > 1),
           NEW d \in rows, NEW e \in rows
    PROVE  device[d].set = device[e].set
<1> DEFINE sets == {device[x].set : x \in rows}
           f == [x \in rows |-> device[x].set]
<1>1. IsFiniteSet(rows)
    BY GroupsAssumption, FS_Subset
<1>2. f \in Surjection(rows, sets)
    BY DEF Surjection
<1>3. IsFiniteSet(sets)
    BY <1>1, <1>2, FS_Surjection
<1>4. Cardinality(sets) \in Nat /\ sets # {}
    BY <1>3, FS_CardinalityType
<1>5. Cardinality(sets) # 0
    BY <1>3, <1>4, FS_EmptySet
<1>6. Cardinality(sets) = 1
    BY <1>4, <1>5
<1>7. PICK s : sets = {s}
    BY <1>3, <1>6, FS_Singleton
<1> QED
    BY <1>7

-------------------------------------------------------------------------------
(* Types.                                                                  *)

LEMMA BeginTypes ==
    ASSUME TypeInv, NEW r \in Requests, NEW label \in Labels, NEW m \in Memories,
           Begin(r, label, m),
           label \notin {"idle", "create"} => m.group \in Groups,
           label \in {"create", "rename", "save"} => m.name \in Names,
           label # "build", m.set = Nothing
    PROVE  TypeInv'
<1>1. TypeOK'
  <2>1. begun' \in 0..MaxRequests
      BY GroupsAssumption DEF TypeInv, TypeOK, Begin
  <2>2. m.group \in 0..MaxGroup
      BY DEF Memories
  <2>3. m.group # 0 => m.group \in Groups
      BY <2>2, GroupsAssumption DEF Groups
  <2>4. contested' \subseteq contested \cup ({m.group} \ {0})
      BY Zenon DEF Begin
  <2>5. contested' \subseteq Groups \cup Devices
      BY <2>3, <2>4 DEF TypeInv, TypeOK
  <2> QED
      BY <2>1, <2>5 DEF TypeInv, TypeOK, Begin, Learn, Goto, Labels
<1>2. HoldsInv'
    BY DEF TypeInv, TypeOK, HoldsInv, Begin, Learn, Goto, Groups
<1> QED
    BY <1>1, <1>2 DEF TypeInv

LEMMA LearnTypes ==
    ASSUME TypeInv, NEW r \in Requests, NEW label \in Labels, NEW m \in Memories,
           Learn(r, label, m),
           label \notin {"idle", "create"} => m.group \in Groups,
           label \in {"create", "rename", "save"} => m.name \in Names,
           label = "build" <=> m.set # Nothing
    PROVE  /\ pc' \in [Requests -> Labels] /\ mem' \in [Requests -> Memories]
           /\ HoldsInv'
<1>1. pc' \in [Requests -> Labels] /\ mem' \in [Requests -> Memories]
    BY DEF TypeInv, TypeOK, Learn, Goto, Labels
<1>2. HoldsInv'
    BY DEF TypeInv, TypeOK, HoldsInv, Learn, Goto, Groups
<1> QED
    BY <1>1, <1>2

LEMMA NoMemoryType == NoMemory \in Memories /\ NoMemory.set = Nothing
    BY GroupsAssumption DEF NoMemory, Memories

LEMMA EndTypes ==
    ASSUME TypeInv, NEW r \in Requests, End(r)
    PROVE  /\ pc' \in [Requests -> Labels] /\ mem' \in [Requests -> Memories]
           /\ HoldsInv'
<1>1. "idle" \in Labels
    BY DEF Labels
<1> QED
    BY <1>1, NoMemoryType, LearnTypes DEF End

LEMMA RefuseTypes ==
    ASSUME TypeInv, NEW r \in Requests, Refuse(r), UNCHANGED <<device, begun, contested>>
    PROVE  TypeInv'
    BY EndTypes DEF Refuse, TypeInv, TypeOK, Labels

LEMMA BeginWithTypes ==
    ASSUME TypeInv, NEW r \in Requests, NEW label \in Labels, NEW g \in Groups,
           NEW n \in Names \cup {Nothing}, NEW ds \in SUBSET Devices,
           BeginWith(r, label, g, n, ds),
           label \in {"create", "rename", "save"} => n \in Names, label # "build"
    PROVE  TypeInv'
<1> DEFINE m == [NoMemory EXCEPT !.group = g, !.name = n, !.asked = ds, !.rows = ds]
<1>1. m \in Memories /\ m.group = g /\ m.name = n /\ m.set = Nothing
  <2>1. g \in 0..MaxGroup
      BY GroupsAssumption DEF Groups
  <2>2. \A o \in Memories :
            LET p == [o EXCEPT !.group = g, !.name = n, !.asked = ds, !.rows = ds] IN
            p \in Memories /\ p.group = g /\ p.name = n /\ p.set = o.set
      BY <2>1 DEF Memories
  <2> QED
      BY <2>2, NoMemoryType
<1>2. Begin(r, label, m)
    BY DEF BeginWith
<1> HIDE DEF m
<1> QED
    BY <1>1, <1>2, BeginTypes

LEMMA StartTypes == ASSUME TypeInv, NEW r \in Requests, Start(r)  PROVE TypeInv'
<1> USE BeginWithTypes DEF Labels
<1>1. PICK g \in Groups :
          \/ UpdateDeviceGroup(r, g) \/ DeleteDeviceGroupByID(r, g) \/ AddDevices(r, g)
          \/ DeleteManyDevices(r, g) \/ DeleteOneDevice(r, g) \/ UpdateAllDevices(r, g)
    BY DEF Start
<1>2. CASE UpdateDeviceGroup(r, g)
    BY <1>2 DEF UpdateDeviceGroup
<1>3. CASE DeleteDeviceGroupByID(r, g)
    BY <1>3 DEF DeleteDeviceGroupByID
<1>4. CASE AddDevices(r, g)
    BY <1>4 DEF AddDevices
<1>5. CASE DeleteManyDevices(r, g)
    BY <1>5 DEF DeleteManyDevices
<1>6. CASE DeleteOneDevice(r, g)
    BY <1>6 DEF DeleteOneDevice
<1>7. CASE UpdateAllDevices(r, g)
  <2>1. DevicesOf(g) \in SUBSET Devices
      BY DEF DevicesOf, LiveDevices
  <2> QED
      BY <1>7, <2>1 DEF UpdateAllDevices
<1> QED
    BY <1>1, <1>2, <1>3, <1>4, <1>5, <1>6, <1>7

\* A request that goes on keeps its types if the tables keep theirs.
LEMMA GoOnTypes ==
    ASSUME TypeInv, NEW r \in Requests,
           pc' \in [Requests -> Labels], mem' \in [Requests -> Memories], HoldsInv',
           group' \in [Groups -> GroupRows], member' \subseteq Groups \X Devices,
           update' \subseteq Updates, UNCHANGED <<device, begun, contested>>
    PROVE  TypeInv'
    BY DEF TypeInv, TypeOK, Labels

LEMMA ContinueTypes ==
    ASSUME TypeInv, NEW r \in Requests, Continue(r)
    PROVE  TypeInv'
<1> DEFINE m == mem[r]
<1> USE GoOnTypes, LearnTypes, EndTypes, RefuseTypes
<1>1. m \in Memories /\ UNCHANGED <<device, begun, contested>>
    BY DEF TypeInv, TypeOK, Continue
<1>2. /\ group \in [Groups -> GroupRows] /\ member \subseteq Groups \X Devices
      /\ update \subseteq Updates
    BY DEF TypeInv, TypeOK
<1>3. /\ pc[r] \notin {"idle", "create"} => m.group \in Groups
      /\ pc[r] \in {"create", "rename", "save"} => m.name \in Names
      /\ pc[r] = "build" <=> m.set # Nothing
    BY DEF TypeInv, HoldsInv
<1>4. m.rows \in SUBSET Devices /\ m.asked \in SUBSET Devices
    BY <1>1 DEF Memories
<1>5. CASE CheckNewName(r)
    BY <1>1, <1>2, <1>3, <1>5 DEF CheckNewName, Labels
<1>6. CASE SaveGroup(r)
  <2>1. group' \in [Groups -> GroupRows]
      BY <1>2, <1>3, <1>6 DEF SaveGroup, GroupRows
  <2> QED
      BY <1>1, <1>2, <1>6, <2>1 DEF SaveGroup
<1>7. CASE ReadForDelete(r)
  <2>1. [m EXCEPT !.rows = DevicesOf(m.group)] \in Memories
      BY <1>1 DEF Memories, DevicesOf, LiveDevices
  <2> QED
      BY <1>1, <1>2, <1>3, <1>7, <2>1 DEF ReadForDelete, Labels, Memories
<1>8. CASE DeleteGroup(r)
  <2>1. group' \in [Groups -> GroupRows]
      BY <1>2, <1>8 DEF DeleteGroup, GroupRows
  <2> QED
      BY <1>1, <1>2, <1>8, <2>1 DEF DeleteGroup
<1>9. CASE AddDeviceGroupDevices(r)
  <2>1. CASE pc[r] = "add"
      BY <1>1, <1>2, <1>3, <1>9, <2>1 DEF AddDeviceGroupDevices, Labels
  <2>2. CASE pc[r] = "append"
    <3>1. member' \subseteq Groups \X Devices
        BY <1>2, <1>3, <1>4, <1>9, <2>2 DEF AddDeviceGroupDevices
    <3> QED
        BY <1>1, <1>2, <1>9, <2>2, <3>1 DEF AddDeviceGroupDevices
  <2> QED
      BY <1>9, <2>1, <2>2 DEF AddDeviceGroupDevices
<1>10. CASE RemoveDevices(r)
  <2>1. CASE pc[r] = "findMembers"
    <3>1. [m EXCEPT !.rows = FoundAmong(DevicesOf(m.group), m.rows)] \in Memories
        BY <1>1 DEF Memories, FoundAmong, DevicesOf, LiveDevices
    <3> QED
        BY <1>1, <1>2, <1>3, <1>10, <2>1, <3>1 DEF RemoveDevices, Labels, Memories
  <2>2. CASE pc[r] = "remove"
      BY <1>1, <1>2, <1>10, <2>2 DEF RemoveDevices
  <2> QED
      BY <1>10, <2>1, <2>2 DEF RemoveDevices
<1>11. CASE FindMember(r)
  <2>1. [m EXCEPT !.rows = m.rows \cap DevicesOf(m.group)] \in Memories
      BY <1>1 DEF Memories
  <2> QED
      BY <1>1, <1>2, <1>3, <1>11, <2>1 DEF FindMember, Labels, Memories
<1>12. CASE GetLatestCommitFromDevices(r)
  <2> DEFINE sets == {device[d].set : d \in m.rows \cap LiveDevices}
  <2>1. CASE Nothing \in sets \/ Cardinality(sets) > 1
      BY <1>1, <1>12, <2>1 DEF GetLatestCommitFromDevices
  <2>2. CASE ~ (Nothing \in sets \/ Cardinality(sets) > 1)
    <3>1. sets \subseteq Sets
        BY <1>4, <2>2 DEF TypeInv, TypeOK, DeviceRows
    <3>2. PICK s \in IF sets = {} THEN Sets ELSE sets : Learn(r, "build", [m EXCEPT !.set = s])
        BY <1>12, <2>2 DEF GetLatestCommitFromDevices
    <3>3. s \in Sets /\ s # Nothing
        BY <3>1, <3>2, GroupsAssumption
    <3>4. [m EXCEPT !.set = s] \in Memories
        BY <1>1, <3>3 DEF Memories
    <3>5. UNCHANGED <<group, member, update>>
        BY <1>12, <2>2 DEF GetLatestCommitFromDevices
    <3> QED
        BY <1>1, <1>2, <1>3, <1>12, <3>2, <3>3, <3>4, <3>5
           DEF GetLatestCommitFromDevices, Labels, Memories
  <2> QED
      BY <2>1, <2>2
<1>13. CASE BuildUpdateTransactions(r)
  <2>1. CASE Refuse(r)
      BY <1>1, <2>1
  <2>2. ASSUME NEW d \in m.rows,
               update' \in {update, update \cup {[device |-> d, set |-> m.set]}},
               Learn(r, "build", [m EXCEPT !.rows = m.rows \ {d}]),
               UNCHANGED <<group, member>>
        PROVE  TypeInv'
    <3>1. pc[r] = "build"
        BY <1>13 DEF BuildUpdateTransactions
    <3>2. [m EXCEPT !.rows = m.rows \ {d}] \in Memories
        BY <1>1 DEF Memories
    <3>3. m.set \in Sets
        BY <1>1, <1>3, <3>1 DEF Memories
    <3>4. update' \subseteq Updates
        BY <1>2, <1>4, <2>2, <3>3 DEF Updates
    <3> QED
        BY <1>1, <1>2, <1>3, <2>2, <3>1, <3>2, <3>4 DEF Labels, Memories
  <2> QED
      BY <1>13, <2>1, <2>2 DEF BuildUpdateTransactions
<1>14. CASE Fail(r)
    BY <1>1, <1>14 DEF Fail
<1> QED
    BY <1>5, <1>6, <1>7, <1>8, <1>9, <1>10, <1>11, <1>12, <1>13, <1>14 DEF Continue

LEMMA TypeStep == ASSUME TypeInv, [Next]_vars  PROVE TypeInv'
<1>1. CASE UNCHANGED vars
    BY <1>1 DEF vars, TypeInv, TypeOK, HoldsInv
<1>2. ASSUME NEW r \in Requests, CreateDeviceGroup(r)
      PROVE  TypeInv'
  <2>1. ASSUME NEW n \in Names, Begin(r, "create", [NoMemory EXCEPT !.name = n])
        PROVE  TypeInv'
    <3> DEFINE m == [NoMemory EXCEPT !.name = n]
    <3>1. m = [group |-> 0, name |-> n, asked |-> {}, rows |-> {}, set |-> Nothing]
        BY DEF NoMemory
    <3>2. m \in Memories /\ m.name = n /\ m.set = Nothing
        BY <3>1, GroupsAssumption DEF Memories
    <3>3. Begin(r, "create", m)
        BY <2>1
    <3> HIDE DEF m
    <3> QED
        BY <3>2, <3>3, BeginTypes DEF Labels
  <2>2. CASE pc[r] = "create" /\ End(r)
    <3>1. PICK g \in Groups : group' = [group EXCEPT ![g] = [live |-> TRUE, name |-> mem[r].name]]
        BY <1>2, <2>2 DEF CreateDeviceGroup, Begin
    <3>2. mem[r].name \in Names
        BY <2>2 DEF TypeInv, HoldsInv
    <3>3. [live |-> TRUE, name |-> mem[r].name] \in GroupRows
        BY <3>2 DEF GroupRows
    <3>4. group' \in [Groups -> GroupRows]
        BY <3>1, <3>3 DEF TypeInv, TypeOK
    <3>5. UNCHANGED <<member, device, update, begun, contested>>
        BY <1>2, <2>2 DEF CreateDeviceGroup, Begin
    <3> QED
        BY <2>2, <3>4, <3>5, EndTypes, GoOnTypes DEF TypeInv, TypeOK
  <2> QED
      BY <1>2, <2>1, <2>2 DEF CreateDeviceGroup
<1>3. ASSUME NEW d \in Devices, DeleteDevice(d)
      PROVE  TypeInv'
  <2>1. device' \in [Devices -> DeviceRows]
      BY <1>3 DEF DeleteDevice, TypeInv, TypeOK, DeviceRows
  <2> QED
      BY <1>3, <2>1 DEF DeleteDevice, TypeInv, TypeOK, HoldsInv
<1>4. ASSUME NEW d \in Devices, NEW s \in Sets, ReportSet(d, s)
      PROVE  TypeInv'
  <2>1. device' \in [Devices -> DeviceRows]
      BY <1>4 DEF ReportSet, TypeInv, TypeOK, DeviceRows
  <2>2. contested' \subseteq contested \cup {d}
      BY <1>4 DEF ReportSet
  <2>3. contested' \subseteq Groups \cup Devices
      BY <2>2 DEF TypeInv, TypeOK
  <2> QED
      BY <1>4, <2>1, <2>3 DEF ReportSet, TypeInv, TypeOK, HoldsInv
<1> QED
    BY <1>1, <1>2, <1>3, <1>4, StartTypes, ContinueTypes DEF Next

LEMMA TypeStart == Init => TypeInv
<1>1. NoMemory \in Memories /\ NoGroup \in GroupRows /\ 0 \in 0..MaxRequests
    BY GroupsAssumption DEF NoMemory, Memories, NoGroup, GroupRows
<1> SUFFICES ASSUME Init  PROVE TypeInv
    OBVIOUS
<1>2. device \in [Devices -> DeviceRows]
  <2>1. \A s \in Sets \cup {Nothing} : [live |-> TRUE, set |-> s] \in DeviceRows
      BY DEF DeviceRows
  <2>2. device \in [Devices -> {[live |-> TRUE, set |-> s] : s \in Sets \cup {Nothing}}]
      BY DEF Init
  <2> QED
      BY <2>1, <2>2
<1>3. TypeOK
    BY <1>1, <1>2 DEF Init, TypeOK
<1>4. HoldsInv
    BY NoMemoryType DEF Init, HoldsInv
<1> QED
    BY <1>3, <1>4 DEF TypeInv

LEMMA TypeInvCorrect == Spec => []TypeInv
    BY TypeStart, TypeStep, PTL DEF Spec

\* Every variable keeps its type, and a request that writes a group has one.
THEOREM TypeCorrect == Spec => []TypeOK
<1>1. TypeInv => TypeOK
    BY DEF TypeInv
<1> QED
    BY <1>1, TypeInvCorrect, PTL

-------------------------------------------------------------------------------
(* Members have groups.                                                    *)

\* A request that begins with a group that another one writes makes it contested.
LEMMA BeginKeepsMembers ==
    ASSUME TypeInv, MemberInv, NEW r \in Requests, NEW label \in Labels \ {"append", "deleteGroup"},
           NEW m \in Memories, Begin(r, label, m)
    PROVE  MemberInv'
<1>1. /\ pc[r] = "idle" /\ pc' = [pc EXCEPT ![r] = label] /\ mem' = [mem EXCEPT ![r] = m]
      /\ pc \in [Requests -> Labels] /\ mem \in [Requests -> Memories]
      /\ UNCHANGED <<group, member, device>>
    BY DEF Begin, Learn, Goto, TypeInv, TypeOK, Labels
<1>2. /\ contested \subseteq contested'
      /\ m.group # 0 /\ (\E q \in Writers : mem[q].group = m.group) => m.group \in contested'
    BY DEF Begin
<1>3. ASSUME NEW p \in Requests, NEW q \in Requests, p # q,
             Writing(p)', Writing(q)', mem[p].group' = mem[q].group'
      PROVE  mem[p].group' \in contested' \cup {0}
  <2>1. CASE p # r /\ q # r
      BY <1>1, <1>2, <1>3, <2>1 DEF MemberInv, WritersInv, Writing
  <2>2. CASE p = r
    <3>1. q \in Writers /\ mem[q].group = m.group /\ mem[p].group' = m.group
        BY <1>1, <1>3, <2>2 DEF Writers, Writing
    <3> QED
        BY <1>2, <3>1
  <2>3. CASE q = r
    <3>1. p \in Writers /\ mem[p].group = m.group /\ mem[p].group' = m.group
        BY <1>1, <1>3, <2>3 DEF Writers, Writing
    <3> QED
        BY <1>2, <3>1
  <2> QED
      BY <2>1, <2>2, <2>3
<1>4. WritersInv'
    BY <1>3 DEF WritersInv
<1>5. AppendInv'
    BY <1>1, <1>2 DEF MemberInv, AppendInv
<1>6. DeleteInv'
    BY <1>1, <1>2 DEF MemberInv, DeleteInv
<1>7. MembersHaveGroups'
    BY <1>1, <1>2 DEF MemberInv, MembersHaveGroups
<1> QED
    BY <1>4, <1>5, <1>6, <1>7 DEF MemberInv

\* A request that goes on with its group, or ends, is not new to it.
LEMMA LearnKeepsWriters ==
    ASSUME TypeInv, MemberInv, NEW r \in Requests, NEW label \in Labels, NEW m \in Memories,
           Learn(r, label, m), UNCHANGED contested,
           label \in {"idle", "build"} \/ (Writing(r) /\ m.group = mem[r].group)
    PROVE  WritersInv'
<1>1. /\ pc' = [pc EXCEPT ![r] = label] /\ mem' = [mem EXCEPT ![r] = m]
      /\ pc \in [Requests -> Labels] /\ mem \in [Requests -> Memories]
    BY DEF Learn, Goto, TypeInv, TypeOK, Labels
<1> QED
    BY <1>1 DEF MemberInv, WritersInv, Writing

\* A step that changes no table keeps the members, unless it begins to write.
LEMMA LearnKeepsMembers ==
    ASSUME TypeInv, MemberInv, NEW r \in Requests,
           NEW label \in Labels \ {"append", "deleteGroup"}, NEW m \in Memories,
           Learn(r, label, m), UNCHANGED <<group, member, device, contested>>,
           label \in {"idle", "build"} \/ (Writing(r) /\ m.group = mem[r].group)
    PROVE  MemberInv'
<1>1. /\ pc' = [pc EXCEPT ![r] = label] /\ mem' = [mem EXCEPT ![r] = m]
      /\ pc \in [Requests -> Labels] /\ mem \in [Requests -> Memories]
    BY DEF Learn, Goto, TypeInv, TypeOK, Labels
<1>2. WritersInv'
    BY LearnKeepsWriters
<1>3. AppendInv' /\ DeleteInv' /\ MembersHaveGroups'
    BY <1>1 DEF MemberInv, AppendInv, DeleteInv, MembersHaveGroups
<1> QED
    BY <1>2, <1>3 DEF MemberInv

LEMMA RefuseKeepsMembers ==
    ASSUME TypeInv, MemberInv, NEW r \in Requests, Refuse(r), UNCHANGED <<device, contested>>
    PROVE  MemberInv'
    BY NoMemoryType, LearnKeepsMembers DEF Refuse, End, Labels

LEMMA StartKeepsMembers ==
    ASSUME TypeInv, MemberInv, NEW r \in Requests, Start(r)
    PROVE  MemberInv'
<1>1. ASSUME NEW label \in Labels \ {"append", "deleteGroup"}, NEW g \in Groups,
             NEW n \in Names \cup {Nothing}, NEW ds \in SUBSET Devices,
             BeginWith(r, label, g, n, ds)
      PROVE  MemberInv'
  <2> DEFINE m == [NoMemory EXCEPT !.group = g, !.name = n, !.asked = ds, !.rows = ds]
  <2>1. g \in 0..MaxGroup
      BY GroupsAssumption DEF Groups
  <2>2. \A o \in Memories :
            [o EXCEPT !.group = g, !.name = n, !.asked = ds, !.rows = ds] \in Memories
      BY <2>1 DEF Memories
  <2>3. m \in Memories
      BY <2>2, NoMemoryType
  <2>4. Begin(r, label, m)
      BY <1>1 DEF BeginWith
  <2> HIDE DEF m
  <2> QED
      BY <2>3, <2>4, BeginKeepsMembers
<1> USE <1>1 DEF Labels
<1>2. PICK g \in Groups :
          \/ UpdateDeviceGroup(r, g) \/ DeleteDeviceGroupByID(r, g) \/ AddDevices(r, g)
          \/ DeleteManyDevices(r, g) \/ DeleteOneDevice(r, g) \/ UpdateAllDevices(r, g)
    BY DEF Start
<1>3. CASE UpdateDeviceGroup(r, g)
    BY <1>3 DEF UpdateDeviceGroup
<1>4. CASE DeleteDeviceGroupByID(r, g)
    BY <1>4 DEF DeleteDeviceGroupByID
<1>5. CASE AddDevices(r, g)
    BY <1>5 DEF AddDevices
<1>6. CASE DeleteManyDevices(r, g)
    BY <1>6 DEF DeleteManyDevices
<1>7. CASE DeleteOneDevice(r, g)
    BY <1>7 DEF DeleteOneDevice
<1>8. CASE UpdateAllDevices(r, g)
  <2>1. DevicesOf(g) \in SUBSET Devices
      BY DEF DevicesOf, LiveDevices
  <2> QED
      BY <1>8, <2>1 DEF UpdateAllDevices
<1> QED
    BY <1>2, <1>3, <1>4, <1>5, <1>6, <1>7, <1>8

LEMMA DeleteGroupKeepsMembers ==
    ASSUME TypeInv, MemberInv, NEW r \in Requests, DeleteGroup(r), UNCHANGED <<device, contested>>
    PROVE  MemberInv'
<1> DEFINE m == mem[r]
<1>1. /\ pc[r] = "deleteGroup" /\ pc' = [pc EXCEPT ![r] = "idle"]
      /\ mem' = [mem EXCEPT ![r] = NoMemory]
      /\ group' = [group EXCEPT ![m.group].live = FALSE]
      /\ member' = member \ ({m.group} \X m.rows)
    BY DEF DeleteGroup, End, Learn, Goto
<1>2. /\ pc \in [Requests -> Labels] /\ mem \in [Requests -> Memories]
      /\ group \in [Groups -> GroupRows] /\ member \subseteq Groups \X Devices
      /\ m.group \in Groups /\ m.group # 0
    BY <1>1, GroupsAssumption DEF TypeInv, TypeOK, HoldsInv, Labels, Groups
<1>3. WritersInv'
    BY NoMemoryType, LearnKeepsWriters DEF DeleteGroup, End, Labels
<1>4. \A g \in Groups : g # m.group => group'[g] = group[g]
    BY <1>1, <1>2
<1>5. ASSUME NEW q \in Requests, pc'[q] = "append"
      PROVE  group'[mem'[q].group].live \/ mem'[q].group \in contested
  <2>1. q # r /\ pc[q] = "append" /\ mem'[q] = mem[q] /\ mem[q].group \in Groups
      BY <1>1, <1>2, <1>5 DEF TypeInv, HoldsInv
  <2>2. CASE mem[q].group = m.group
      BY <1>1, <1>2, <2>1, <2>2 DEF MemberInv, WritersInv, Writing
  <2>3. CASE mem[q].group # m.group
      BY <1>4, <2>1, <2>3 DEF MemberInv, AppendInv
  <2> QED
      BY <2>2, <2>3
<1>6. AppendInv'
    BY <1>5 DEF AppendInv
<1>7. DeleteInv'
    BY <1>1, <1>2 DEF MemberInv, DeleteInv
<1>8. ASSUME NEW p \in member'
      PROVE  group'[p[1]].live \/ ~ device[p[2]].live \/ p[1] \in contested
  <2>1. PICK g \in Groups, d \in Devices : p = <<g, d>>
      BY <1>1, <1>2
  <2>2. CASE g = m.group
    <3>1. <<m.group, d>> \in member /\ d \notin m.rows
        BY <1>1, <2>1, <2>2
    <3> QED
        BY <1>1, <2>1, <2>2, <3>1 DEF MemberInv, DeleteInv
  <2>3. CASE g # m.group
      BY <1>1, <1>4, <2>1, <2>3 DEF MemberInv, MembersHaveGroups
  <2> QED
      BY <2>2, <2>3
<1>9. MembersHaveGroups'
    BY <1>8 DEF MembersHaveGroups
<1> QED
    BY <1>3, <1>6, <1>7, <1>9 DEF MemberInv

LEMMA AddKeepsMembers ==
    ASSUME TypeInv, MemberInv, NEW r \in Requests, AddDeviceGroupDevices(r),
           UNCHANGED <<device, contested>>
    PROVE  MemberInv'
<1> DEFINE m == mem[r]
<1>1. /\ pc \in [Requests -> Labels] /\ mem \in [Requests -> Memories]
      /\ member \subseteq Groups \X Devices /\ m \in Memories
    BY DEF TypeInv, TypeOK, Labels
<1>2. CASE Refuse(r)
    BY <1>2, RefuseKeepsMembers
<1>3. CASE /\ pc[r] = "add" /\ group[m.group].live
           /\ Learn(r, "append", m) /\ UNCHANGED <<group, member, update>>
  <2>1. pc' = [pc EXCEPT ![r] = "append"] /\ mem' = [mem EXCEPT ![r] = m]
      BY <1>3 DEF Learn, Goto
  <2>2. WritersInv'
      BY <1>1, <1>3, LearnKeepsWriters DEF Labels, Writing
  <2>3. AppendInv' /\ DeleteInv' /\ MembersHaveGroups'
      BY <1>1, <1>3, <2>1 DEF MemberInv, AppendInv, DeleteInv, MembersHaveGroups
  <2> QED
      BY <2>2, <2>3 DEF MemberInv
<1>4. CASE pc[r] = "append" /\ member' = member \cup ({m.group} \X m.rows) /\ End(r)
           /\ UNCHANGED <<group, update>>
  <2>1. pc' = [pc EXCEPT ![r] = "idle"] /\ mem' = [mem EXCEPT ![r] = NoMemory]
      BY <1>4 DEF End, Learn, Goto
  <2>2. m.group \in Groups /\ m.group # 0
      BY <1>4, GroupsAssumption DEF TypeInv, HoldsInv, Groups
  <2>3. group[m.group].live \/ m.group \in contested
      BY <1>4 DEF MemberInv, AppendInv
  <2>4. WritersInv'
      BY <1>4, NoMemoryType, LearnKeepsWriters DEF End, Labels
  <2>5. AppendInv'
      BY <1>1, <1>4, <2>1 DEF MemberInv, AppendInv
  <2>6. ASSUME NEW q \in Requests, NEW d \in Devices, pc'[q] = "deleteGroup",
               <<mem'[q].group, d>> \in member', device[d].live
        PROVE  d \in mem'[q].rows \/ mem'[q].group \in contested
    <3>1. q # r /\ pc[q] = "deleteGroup" /\ mem'[q] = mem[q]
        BY <1>1, <1>4, <2>1, <2>6
    <3>2. CASE mem[q].group = m.group
        BY <1>4, <2>2, <3>1, <3>2 DEF MemberInv, WritersInv, Writing
    <3>3. CASE mem[q].group # m.group
        BY <1>4, <2>6, <3>1, <3>3 DEF MemberInv, DeleteInv
    <3> QED
        BY <3>2, <3>3
  <2>7. DeleteInv'
      BY <2>6 DEF DeleteInv
  <2>8. MembersHaveGroups'
      BY <1>4, <2>3 DEF MemberInv, MembersHaveGroups
  <2> QED
      BY <2>4, <2>5, <2>7, <2>8 DEF MemberInv
<1> QED
    BY <1>2, <1>3, <1>4 DEF AddDeviceGroupDevices

LEMMA ContinueKeepsMembers ==
    ASSUME TypeInv, MemberInv, NEW r \in Requests, Continue(r)
    PROVE  MemberInv'
<1> DEFINE m == mem[r]
<1> USE LearnKeepsMembers, RefuseKeepsMembers
<1>1. /\ m \in Memories /\ UNCHANGED <<device, contested>>
      /\ pc \in [Requests -> Labels] /\ mem \in [Requests -> Memories]
    BY DEF TypeInv, TypeOK, Continue, Labels
<1>2. pc[r] \notin {"idle", "create"} => m.group \in Groups
    BY DEF TypeInv, HoldsInv
<1>3. CASE CheckNewName(r)
    BY <1>1, <1>3 DEF CheckNewName, Labels, Writing
<1>4. CASE SaveGroup(r)
  <2>1. /\ pc' = [pc EXCEPT ![r] = "idle"] /\ mem' = [mem EXCEPT ![r] = NoMemory]
        /\ group' = [group EXCEPT ![m.group] = [live |-> TRUE, name |-> m.name]]
        /\ UNCHANGED member
      BY <1>4 DEF SaveGroup, End, Learn, Goto
  <2>2. WritersInv'
      BY <1>1, <1>4, NoMemoryType, LearnKeepsWriters DEF SaveGroup, End, Labels
  <2>3. \A g \in Groups : group[g].live => group'[g].live
      BY <2>1 DEF TypeInv, TypeOK
  <2>4. AppendInv'
      BY <1>1, <2>1, <2>3 DEF MemberInv, AppendInv, TypeInv, HoldsInv
  <2>5. DeleteInv'
      BY <1>1, <2>1 DEF MemberInv, DeleteInv
  <2>6. MembersHaveGroups'
      BY <1>1, <2>1, <2>3 DEF MemberInv, MembersHaveGroups, TypeInv, TypeOK
  <2> QED
      BY <2>2, <2>4, <2>5, <2>6 DEF MemberInv
<1>5. CASE ReadForDelete(r)
  <2>1. CASE Refuse(r)
      BY <1>1, <2>1
  <2>2. CASE ~ Refuse(r)
    <3> DEFINE n == [m EXCEPT !.rows = DevicesOf(m.group)]
    <3>1. n \in Memories /\ n.group = m.group /\ n.rows = DevicesOf(m.group)
        BY <1>1 DEF Memories, DevicesOf, LiveDevices
    <3>2. Learn(r, "deleteGroup", n) /\ UNCHANGED <<group, member>> /\ pc[r] = "delete"
        BY <1>5, <2>2 DEF ReadForDelete
    <3> HIDE DEF n
    <3>3. pc' = [pc EXCEPT ![r] = "deleteGroup"] /\ mem' = [mem EXCEPT ![r] = n]
        BY <3>2 DEF Learn, Goto
    <3>4. WritersInv'
        BY <1>1, <3>1, <3>2, LearnKeepsWriters DEF Labels, Writing
    <3>5. AppendInv' /\ MembersHaveGroups'
        BY <1>1, <3>2, <3>3 DEF MemberInv, AppendInv, MembersHaveGroups
    <3>6. DeleteInv'
        BY <1>1, <3>1, <3>2, <3>3 DEF MemberInv, DeleteInv, DevicesOf, LiveDevices
    <3> QED
        BY <3>4, <3>5, <3>6 DEF MemberInv
  <2> QED
      BY <2>1, <2>2
<1>6. CASE DeleteGroup(r)
    BY <1>1, <1>6, DeleteGroupKeepsMembers
<1>7. CASE AddDeviceGroupDevices(r)
    BY <1>1, <1>7, AddKeepsMembers
<1>8. CASE RemoveDevices(r)
  <2>1. CASE Refuse(r)
      BY <1>1, <2>1
  <2>2. CASE pc[r] = "findMembers" /\ ~ Refuse(r)
    <3> DEFINE n == [m EXCEPT !.rows = FoundAmong(DevicesOf(m.group), m.rows)]
    <3>1. n \in Memories /\ n.group = m.group
        BY <1>1 DEF Memories, FoundAmong, DevicesOf, LiveDevices
    <3>2. Learn(r, "remove", n) /\ UNCHANGED <<group, member>>
        BY <1>8, <2>2 DEF RemoveDevices
    <3> HIDE DEF n
    <3> QED
        BY <1>1, <2>2, <3>1, <3>2 DEF Labels, Writing
  <2>3. CASE pc[r] = "remove" /\ ~ Refuse(r)
    <3>1. /\ pc' = [pc EXCEPT ![r] = "idle"] /\ mem' = [mem EXCEPT ![r] = NoMemory]
          /\ member' \subseteq member /\ UNCHANGED group
        BY <1>8, <2>3 DEF RemoveDevices, End, Learn, Goto
    <3>2. WritersInv'
        BY <1>1, <1>8, <2>3, NoMemoryType, LearnKeepsWriters DEF RemoveDevices, End, Labels
    <3>3. AppendInv' /\ DeleteInv' /\ MembersHaveGroups'
        BY <1>1, <3>1 DEF MemberInv, AppendInv, DeleteInv, MembersHaveGroups
    <3> QED
        BY <3>2, <3>3 DEF MemberInv
  <2> QED
      BY <1>8, <2>1, <2>2, <2>3 DEF RemoveDevices
<1>9. CASE FindMember(r)
  <2> DEFINE n == [m EXCEPT !.rows = m.rows \cap DevicesOf(m.group)]
  <2>1. n \in Memories /\ n.group = m.group
      BY <1>1 DEF Memories
  <2>2. Refuse(r) \/ (Learn(r, "findMembers", n) /\ UNCHANGED <<group, member>>)
      BY <1>9 DEF FindMember
  <2>3. pc[r] = "findDevice"
      BY <1>9 DEF FindMember
  <2> HIDE DEF n
  <2> QED
      BY <1>1, <2>1, <2>2, <2>3 DEF Labels, Writing
<1>10. CASE GetLatestCommitFromDevices(r)
  <2>1. CASE Refuse(r)
      BY <1>1, <2>1
  <2>2. CASE ~ Refuse(r)
    <3>1. PICK s : Learn(r, "build", [m EXCEPT !.set = s])
        BY <1>10, <2>2 DEF GetLatestCommitFromDevices
    <3>2. UNCHANGED <<group, member>>
        BY <1>10, <2>2 DEF GetLatestCommitFromDevices
    <3>3. [m EXCEPT !.set = s] = mem'[r] /\ mem' \in [Requests -> Memories]
        BY <1>1, <3>1, ContinueTypes DEF Learn, TypeInv, TypeOK
    <3>4. [m EXCEPT !.set = s] \in Memories
        BY <3>3
    <3> QED
        BY <1>1, <3>1, <3>2, <3>4 DEF Labels
  <2> QED
      BY <2>1, <2>2
<1>11. CASE BuildUpdateTransactions(r)
  <2>1. CASE Refuse(r)
      BY <1>1, <2>1
  <2>2. CASE ~ Refuse(r)
    <3>1. PICK d \in m.rows : Learn(r, "build", [m EXCEPT !.rows = m.rows \ {d}])
                               /\ UNCHANGED <<group, member>>
        BY <1>11, <2>2 DEF BuildUpdateTransactions
    <3>2. [m EXCEPT !.rows = m.rows \ {d}] \in Memories
        BY <1>1 DEF Memories
    <3> QED
        BY <1>1, <3>1, <3>2 DEF Labels
  <2> QED
      BY <2>1, <2>2
<1>12. CASE Fail(r)
    BY <1>1, <1>12 DEF Fail
<1> QED
    BY <1>3, <1>4, <1>5, <1>6, <1>7, <1>8, <1>9, <1>10, <1>11, <1>12 DEF Continue

LEMMA MemberStep == ASSUME TypeInv, MemberInv, [Next]_vars  PROVE MemberInv'
<1>1. CASE UNCHANGED vars
    BY <1>1 DEF vars, MemberInv, WritersInv, Writing, AppendInv, DeleteInv, MembersHaveGroups
<1>2. ASSUME NEW r \in Requests, CreateDeviceGroup(r)
      PROVE  MemberInv'
  <2>1. ASSUME NEW n \in Names, Begin(r, "create", [NoMemory EXCEPT !.name = n])
        PROVE  MemberInv'
    <3>1. \A o \in Memories : [o EXCEPT !.name = n] \in Memories
        BY DEF Memories
    <3>2. [NoMemory EXCEPT !.name = n] \in Memories
        BY <3>1, NoMemoryType
    <3> QED
        BY <2>1, <3>2, BeginKeepsMembers DEF Labels
  <2>2. CASE pc[r] = "create" /\ End(r)
    <3>1. PICK g \in Groups : group' = [group EXCEPT ![g] = [live |-> TRUE, name |-> mem[r].name]]
        BY <1>2, <2>2 DEF CreateDeviceGroup, Begin
    <3>2. UNCHANGED <<member, device, contested>>
        BY <1>2, <2>2 DEF CreateDeviceGroup, Begin
    <3>3. /\ pc' = [pc EXCEPT ![r] = "idle"] /\ mem' = [mem EXCEPT ![r] = NoMemory]
          /\ pc \in [Requests -> Labels] /\ mem \in [Requests -> Memories]
        BY <2>2 DEF End, Learn, Goto, TypeInv, TypeOK, Labels
    <3>4. \A h \in Groups : group[h].live => group'[h].live
        BY <3>1 DEF TypeInv, TypeOK
    <3>5. WritersInv'
        BY <2>2, <3>2, NoMemoryType, LearnKeepsWriters DEF End, Labels
    <3>6. AppendInv'
        BY <3>2, <3>3, <3>4 DEF MemberInv, AppendInv, TypeInv, HoldsInv
    <3>7. DeleteInv'
        BY <3>2, <3>3 DEF MemberInv, DeleteInv
    <3>8. MembersHaveGroups'
        BY <3>2, <3>4 DEF MemberInv, MembersHaveGroups, TypeInv, TypeOK
    <3> QED
        BY <3>5, <3>6, <3>7, <3>8 DEF MemberInv
  <2> QED
      BY <1>2, <2>1, <2>2 DEF CreateDeviceGroup
<1>3. ASSUME NEW d \in Devices, DeleteDevice(d) \/ \E s \in Sets : ReportSet(d, s)
      PROVE  MemberInv'
  <2>1. /\ \A e \in Devices : device'[e].live => device[e].live
        /\ contested \subseteq contested' /\ UNCHANGED <<group, member, pc, mem>>
      BY <1>3 DEF DeleteDevice, ReportSet, TypeInv, TypeOK, DeviceRows
  <2>2. \A r, q \in Requests :
            r # q /\ Writing(r) /\ Writing(q) /\ mem[r].group = mem[q].group
                => mem[r].group \in contested' \cup {0}
      BY <2>1 DEF MemberInv, WritersInv
  <2>3. WritersInv'
      BY <2>1, <2>2 DEF WritersInv, Writing
  <2>4. AppendInv' /\ DeleteInv'
      BY <2>1 DEF MemberInv, AppendInv, DeleteInv
  <2>5. MembersHaveGroups'
      BY <2>1 DEF MemberInv, MembersHaveGroups, TypeInv, TypeOK
  <2> QED
      BY <2>3, <2>4, <2>5 DEF MemberInv
<1> QED
    BY <1>1, <1>2, <1>3, StartKeepsMembers, ContinueKeepsMembers DEF Next

LEMMA MemberStart == Init => MemberInv
    BY DEF Init, MemberInv, WritersInv, Writing, AppendInv, DeleteInv, MembersHaveGroups

\* Devices that are there are members of groups that are there, unless two requests were at
\* the group at a time: a delete has read every member that it leaves to the hook.
THEOREM MembersHaveGroupsCorrect == Spec => []MembersHaveGroups
<1>1. MemberInv => MembersHaveGroups
    BY DEF MemberInv
<1> QED
    BY <1>1, TypeInvCorrect, MemberStart, MemberStep, PTL DEF Spec

-------------------------------------------------------------------------------
(* Only what was asked for.                                                *)

LEMMA AskedStep == ASSUME TypeInv, AskedInv, [Next]_vars  PROVE AskedInv'
<1> DEFINE Safe(label, m) ==
        label \in {"add", "append", "findDevice", "findMembers", "remove"}
            => m.rows \subseteq m.asked
<1>1. CASE UNCHANGED vars
    BY <1>1 DEF vars, AskedInv
<1>2. ASSUME NEW r \in Requests, NEW label \in Labels, NEW m, Learn(r, label, m), Safe(label, m)
      PROVE  AskedInv'
    BY <1>2 DEF AskedInv, Learn, Goto, TypeInv, TypeOK
<1>3. ASSUME NEW r \in Requests, NEW label \in Labels, NEW g, NEW n, NEW ds,
             BeginWith(r, label, g, n, ds)
      PROVE  AskedInv'
  <2> DEFINE m == [NoMemory EXCEPT !.group = g, !.name = n, !.asked = ds, !.rows = ds]
  <2>1. m.rows = ds /\ m.asked = ds
      BY DEF NoMemory
  <2>2. Learn(r, label, m)
      BY <1>3 DEF BeginWith, Begin
  <2> HIDE DEF m
  <2> QED
      BY <1>2, <2>1, <2>2
<1>4. ASSUME NEW r \in Requests, Refuse(r)
      PROVE  AskedInv'
    BY <1>2, <1>4 DEF Refuse, End, Labels
<1>5. ASSUME NEW r \in Requests, CreateDeviceGroup(r)
      PROVE  AskedInv'
    BY <1>2, <1>5 DEF CreateDeviceGroup, Begin, End, Labels
<1>6. ASSUME NEW r \in Requests, Start(r)
      PROVE  AskedInv'
    BY <1>3, <1>6 DEF Start, UpdateDeviceGroup, DeleteDeviceGroupByID, AddDevices,
          DeleteManyDevices, DeleteOneDevice, UpdateAllDevices, Labels
<1>7. ASSUME NEW r \in Requests, Continue(r)
      PROVE  AskedInv'
  <2> DEFINE m == mem[r]
  <2>1. m.rows \in SUBSET Devices /\ m.asked \in SUBSET Devices /\ m \in Memories
      BY DEF TypeInv, TypeOK, Memories
  <2>2. Safe(pc[r], m)
      BY DEF AskedInv
  <2>3. CASE Refuse(r)
      BY <1>4, <2>3
  <2>4. CASE CheckNewName(r) \/ SaveGroup(r) \/ DeleteGroup(r) \/ Fail(r)
      BY <1>2, <1>4, <2>4 DEF CheckNewName, SaveGroup, DeleteGroup, Fail, End, Labels
  <2>5. CASE ReadForDelete(r)
      BY <1>2, <1>4, <2>5 DEF ReadForDelete, Labels
  <2>6. CASE AddDeviceGroupDevices(r)
      BY <1>2, <1>4, <2>2, <2>6 DEF AddDeviceGroupDevices, End, Labels
  <2>7. CASE RemoveDevices(r)
    <3>1. CASE pc[r] = "findMembers" /\ ~ Refuse(r)
      <4> DEFINE rows == FoundAmong(DevicesOf(m.group), m.rows)
                 n == [m EXCEPT !.rows = rows]
      <4>1. AllFound(rows, m.rows) /\ Learn(r, "remove", n)
          BY <2>7, <3>1 DEF RemoveDevices
      <4>2. DevicesOf(m.group) \in SUBSET Devices
          BY DEF DevicesOf, LiveDevices
      <4>3. rows \subseteq m.rows
          BY <2>1, <4>1, <4>2, FoundWereAsked
      <4>4. n.rows = rows /\ n.asked = m.asked
          BY <2>1 DEF Memories
      <4> HIDE DEF n, rows
      <4>5. Safe("remove", n)
          BY <2>2, <3>1, <4>3, <4>4
      <4> QED
          BY <1>2, <4>1, <4>5 DEF Labels
    <3> QED
        BY <1>2, <1>4, <2>7, <3>1 DEF RemoveDevices, End, Labels
  <2>8. CASE FindMember(r)
    <3> DEFINE n == [m EXCEPT !.rows = m.rows \cap DevicesOf(m.group)]
    <3>1. n.rows = m.rows \cap DevicesOf(m.group) /\ n.asked = m.asked
        BY <2>1 DEF Memories
    <3>2. Refuse(r) \/ Learn(r, "findMembers", n)
        BY <2>8 DEF FindMember
    <3>3. m.rows \subseteq m.asked
        BY <2>2, <2>8 DEF FindMember
    <3> HIDE DEF n
    <3> QED
        BY <1>2, <1>4, <3>1, <3>2, <3>3 DEF Labels
  <2>9. CASE GetLatestCommitFromDevices(r)
      BY <1>2, <1>4, <2>9 DEF GetLatestCommitFromDevices, Labels
  <2>10. CASE BuildUpdateTransactions(r)
      BY <1>2, <1>4, <2>10 DEF BuildUpdateTransactions, Labels
  <2> QED
      BY <1>7, <2>4, <2>5, <2>6, <2>7, <2>8, <2>9, <2>10 DEF Continue
<1>8. ASSUME NEW d \in Devices, DeleteDevice(d) \/ \E s \in Sets : ReportSet(d, s)
      PROVE  AskedInv'
    BY <1>8 DEF DeleteDevice, ReportSet, AskedInv
<1> QED
    BY <1>1, <1>5, <1>6, <1>7, <1>8 DEF Next

OnlyAskedNow ==
    \A g \in Groups, d \in Devices :
        (<<g, d>> \in member) # (<<g, d>> \in member') => AskedFor(g, d)

LEMMA MembershipStep == ASSUME TypeInv, AskedInv, Next  PROVE OnlyAskedNow
<1> SUFFICES ASSUME NEW g \in Groups, NEW d \in Devices,
                    (<<g, d>> \in member) # (<<g, d>> \in member')
             PROVE  AskedFor(g, d)
    BY DEF OnlyAskedNow
<1>1. member' # member
    OBVIOUS
<1>2. PICK r \in Requests : Continue(r)
    BY <1>1 DEF Next, CreateDeviceGroup, Start, Begin, BeginWith, UpdateDeviceGroup,
          DeleteDeviceGroupByID, AddDevices, DeleteManyDevices, DeleteOneDevice, UpdateAllDevices,
          DeleteDevice, ReportSet
<1>3. DeleteGroup(r) \/ AddDeviceGroupDevices(r) \/ RemoveDevices(r)
    BY <1>1, <1>2 DEF Continue, CheckNewName, SaveGroup, ReadForDelete, FindMember,
          GetLatestCommitFromDevices, BuildUpdateTransactions, Fail, Refuse
<1>4. CASE DeleteGroup(r)
    BY <1>4 DEF DeleteGroup, AskedFor
<1>5. CASE AddDeviceGroupDevices(r)
  <2>1. pc[r] = "append" /\ member' = member \cup ({mem[r].group} \X mem[r].rows)
      BY <1>1, <1>5 DEF AddDeviceGroupDevices, Refuse
  <2>2. mem[r].group = g /\ d \in mem[r].rows
      BY <2>1
  <2> QED
      BY <2>1, <2>2 DEF AskedInv, AskedFor
<1>6. CASE RemoveDevices(r)
  <2>1. pc[r] = "remove" /\ member' = member \ ({mem[r].group} \X mem[r].rows)
      BY <1>1, <1>6 DEF RemoveDevices, Refuse
  <2>2. mem[r].group = g /\ d \in mem[r].rows
      BY <2>1
  <2> QED
      BY <2>1, <2>2 DEF AskedInv, AskedFor
<1> QED
    BY <1>3, <1>4, <1>5, <1>6

\* A request changes the membership of the devices that it was asked for and of no other,
\* though a query without ids finds them all.
THEOREM OnlyAskedCorrect == Spec => OnlyAsked
<1>1. Init => AskedInv
    BY DEF Init, AskedInv
<1>2. TypeInv /\ AskedInv /\ [Next]_vars => [OnlyAskedNow]_vars
    BY MembershipStep
<1>3. Spec => [][OnlyAskedNow]_vars
    BY <1>1, <1>2, AskedStep, TypeInvCorrect, PTL DEF Spec
<1> QED
    BY <1>3 DEF OnlyAsked, OnlyAskedNow

-------------------------------------------------------------------------------
(* Updates of a group.                                                     *)

\* A step that leaves the devices alone, and does not lose what is contested.
LEMMA QuietKeepsSet ==
    ASSUME TypeInv, SetInv, NEW r \in Requests, NEW label \in Labels, NEW m \in Memories,
           Learn(r, label, m), UNCHANGED device, contested \subseteq contested',
           label = "build" => \A d \in m.rows : device[d].live
               => device[d].set = m.set \/ d \in contested
    PROVE  SetInv'
<1>1. /\ pc' = [pc EXCEPT ![r] = label] /\ mem' = [mem EXCEPT ![r] = m]
      /\ pc \in [Requests -> Labels] /\ mem \in [Requests -> Memories]
    BY DEF Learn, Goto, TypeInv, TypeOK, Labels
<1> QED
    BY <1>1 DEF SetInv

LEMMA RefuseKeepsSet ==
    ASSUME TypeInv, SetInv, NEW r \in Requests, End(r), UNCHANGED <<device, contested>>
    PROVE  SetInv'
    BY QuietKeepsSet, NoMemoryType DEF End, Labels

LEMMA LatestKeepsSet ==
    ASSUME TypeInv, SetInv, NEW r \in Requests, GetLatestCommitFromDevices(r),
           UNCHANGED <<device, contested>>
    PROVE  SetInv'
<1> DEFINE m == mem[r]
           rows == m.rows \cap LiveDevices
           sets == {device[d].set : d \in rows}
<1>1. CASE Nothing \in sets \/ Cardinality(sets) > 1
    BY <1>1, RefuseKeepsSet DEF GetLatestCommitFromDevices, Refuse
<1>2. CASE ~ (Nothing \in sets \/ Cardinality(sets) > 1)
  <2>1. m \in Memories /\ rows \in SUBSET Devices
      BY DEF TypeInv, TypeOK, Memories, LiveDevices
  <2>2. PICK s \in IF sets = {} THEN Sets ELSE sets : Learn(r, "build", [m EXCEPT !.set = s])
      BY <1>2 DEF GetLatestCommitFromDevices
  <2>3. s \in Sets \cup {Nothing}
      BY <2>1, <2>2 DEF TypeInv, TypeOK, DeviceRows
  <2> DEFINE n == [m EXCEPT !.set = s]
  <2>4. n \in Memories /\ n.rows = m.rows /\ n.set = s
      BY <2>1, <2>3 DEF Memories
  <2>5. ASSUME NEW d \in n.rows, device[d].live
        PROVE  device[d].set = n.set
    <3>1. d \in rows
        BY <2>1, <2>4, <2>5 DEF Memories, LiveDevices
    <3>2. PICK e \in rows : device[e].set = s
        BY <2>2, <3>1
    <3>3. ~ (Cardinality({device[x].set : x \in rows}) > 1)
        BY <1>2
    <3> HIDE DEF rows
    <3>4. device[d].set = device[e].set
        BY <2>1, <3>1, <3>2, <3>3, OneSet
    <3> QED
        BY <2>4, <3>2, <3>4
  <2>6. Learn(r, "build", n)
      BY <2>2
  <2> HIDE DEF n
  <2> QED
      BY <2>4, <2>5, <2>6, QuietKeepsSet DEF Labels
<1> QED
    BY <1>1, <1>2

LEMMA SetStep == ASSUME TypeInv, SetInv, [Next]_vars  PROVE SetInv'
<1>1. TypeInv'
    BY TypeStep
<1>2. CASE UNCHANGED vars
    BY <1>2 DEF vars, SetInv
<1>3. ASSUME NEW r \in Requests, NEW label \in Labels \ {"build"}, NEW m, Learn(r, label, m),
             UNCHANGED device, contested \subseteq contested'
      PROVE  SetInv'
  <2>1. m \in Memories
      BY <1>1, <1>3 DEF Learn, TypeInv, TypeOK
  <2> QED
      BY <1>3, <2>1, QuietKeepsSet
<1>4. ASSUME NEW r \in Requests, NEW label \in Labels \ {"build"}, NEW m, Begin(r, label, m)
      PROVE  SetInv'
    BY <1>3, <1>4 DEF Begin
<1>5. ASSUME NEW r \in Requests, CreateDeviceGroup(r) \/ Start(r)
      PROVE  SetInv'
    BY <1>3, <1>4, <1>5 DEF CreateDeviceGroup, End, Start, BeginWith, UpdateDeviceGroup,
          DeleteDeviceGroupByID, AddDevices, DeleteManyDevices, DeleteOneDevice,
          UpdateAllDevices, Labels
<1>6. ASSUME NEW r \in Requests, Continue(r)
      PROVE  SetInv'
  <2>1. UNCHANGED <<device, contested>>
      BY <1>6 DEF Continue
  <2>2. CASE Refuse(r)
      BY <2>1, <2>2, RefuseKeepsSet DEF Refuse
  <2>3. CASE CheckNewName(r) \/ SaveGroup(r) \/ ReadForDelete(r) \/ DeleteGroup(r) \/ Fail(r)
      BY <1>3, <2>1, <2>2, <2>3
         DEF CheckNewName, SaveGroup, ReadForDelete, DeleteGroup, Fail, End, Labels
  <2>4. CASE AddDeviceGroupDevices(r) \/ RemoveDevices(r) \/ FindMember(r)
      BY <1>3, <2>1, <2>2, <2>4 DEF AddDeviceGroupDevices, RemoveDevices, FindMember, End, Labels
  <2>5. CASE GetLatestCommitFromDevices(r)
      BY <2>1, <2>5, LatestKeepsSet
  <2>6. CASE BuildUpdateTransactions(r) /\ ~ Refuse(r)
    <3> DEFINE m == mem[r]
    <3>1. PICK d \in m.rows : Learn(r, "build", [m EXCEPT !.rows = m.rows \ {d}])
        BY <2>6 DEF BuildUpdateTransactions
    <3> DEFINE n == [m EXCEPT !.rows = m.rows \ {d}]
    <3>2. m \in Memories
        BY DEF TypeInv, TypeOK
    <3>3. n \in Memories /\ n.rows = m.rows \ {d} /\ n.set = m.set
        BY <3>2 DEF Memories
    <3>4. \A e \in m.rows : device[e].live => device[e].set = m.set \/ e \in contested
        BY <2>6, <3>2 DEF BuildUpdateTransactions, SetInv, Memories
    <3>5. Learn(r, "build", n)
        BY <3>1
    <3> HIDE DEF n
    <3> QED
        BY <2>1, <3>3, <3>4, <3>5, QuietKeepsSet DEF Labels
  <2> QED
      BY <1>6, <2>2, <2>3, <2>4, <2>5, <2>6 DEF Continue
<1>7. ASSUME NEW d \in Devices, DeleteDevice(d)
      PROVE  SetInv'
    BY <1>7 DEF DeleteDevice, SetInv, TypeInv, TypeOK, DeviceRows
<1>8. ASSUME NEW d \in Devices, NEW s \in Sets, ReportSet(d, s)
      PROVE  SetInv'
  <2>1. ASSUME NEW r \in Requests, NEW e \in Devices,
               pc'[r] = "build", e \in mem'[r].rows, device'[e].live
        PROVE  device'[e].set = mem'[r].set \/ e \in contested'
    <3>1. UNCHANGED <<pc, mem>> /\ contested \subseteq contested'
        BY <1>8 DEF ReportSet
    <3>2. CASE e # d
      <4>1. device'[e] = device[e]
          BY <1>8, <3>2 DEF ReportSet
      <4> QED
          BY <2>1, <3>1, <4>1 DEF SetInv
    <3>3. CASE e = d
      <4>1. mem[r].set # Nothing /\ d \in mem[r].rows
          BY <2>1, <3>1, <3>3 DEF TypeInv, HoldsInv
      <4> QED
          BY <1>8, <3>3, <4>1 DEF ReportSet
    <3> QED
        BY <3>2, <3>3
  <2> QED
      BY <2>1 DEF SetInv
<1> QED
    BY <1>2, <1>5, <1>6, <1>7, <1>8 DEF Next

UpdateIsOfItsSetNow ==
    \A u \in update' \ update : device[u.device].set = u.set \/ u.device \in contested

LEMMA UpdateStep == ASSUME TypeInv, SetInv, Next  PROVE UpdateIsOfItsSetNow
<1> SUFFICES ASSUME NEW u \in update' \ update
             PROVE  device[u.device].set = u.set \/ u.device \in contested
    BY DEF UpdateIsOfItsSetNow
<1>1. update' # update
    OBVIOUS
<1>2. PICK r \in Requests : Continue(r)
    BY <1>1 DEF Next, CreateDeviceGroup, Start, Begin, BeginWith, UpdateDeviceGroup,
          DeleteDeviceGroupByID, AddDevices, DeleteManyDevices, DeleteOneDevice, UpdateAllDevices,
          DeleteDevice, ReportSet
<1>3. BuildUpdateTransactions(r)
    BY <1>1, <1>2 DEF Continue, CheckNewName, SaveGroup, ReadForDelete, DeleteGroup,
          AddDeviceGroupDevices, RemoveDevices, FindMember, GetLatestCommitFromDevices, Fail, Refuse
<1>4. PICK d \in mem[r].rows :
          /\ device[d].live
          /\ update' \in {update, update \cup {[device |-> d, set |-> mem[r].set]}}
    BY <1>1, <1>3 DEF BuildUpdateTransactions, Refuse
<1>5. u = [device |-> d, set |-> mem[r].set]
    BY <1>4
<1>6. d \in Devices
    BY DEF TypeInv, TypeOK, Memories
<1> QED
    BY <1>3, <1>4, <1>5, <1>6 DEF SetInv, BuildUpdateTransactions

\* A device of a group is updated to a commit of the image set that it runs, unless it
\* changed its set after the second comparison.
THEOREM UpdateIsOfItsSetCorrect == Spec => UpdateIsOfItsSet
<1>1. Init => SetInv
    BY DEF Init, SetInv
<1>2. TypeInv /\ SetInv /\ [Next]_vars => [UpdateIsOfItsSetNow]_vars
    BY UpdateStep
<1>3. Spec => [][UpdateIsOfItsSetNow]_vars
    BY <1>1, <1>2, SetStep, TypeInvCorrect, PTL DEF Spec
<1> QED
    BY <1>3 DEF UpdateIsOfItsSet, UpdateIsOfItsSetNow
===============================================================================
