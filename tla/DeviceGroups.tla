------------------------------ MODULE DeviceGroups ------------------------------
(***************************************************************************)
(* Device groups: the requests that create, rename and delete them, that   *)
(* add and remove devices, and that update all devices of one              *)
(* (pkg/services/devicegroups.go, pkg/routes/devicegroups.go, and what     *)
(* UpdateAllDevicesFromGroup calls of devices.go and updates.go), beside   *)
(* devices that report another image or leave.                             *)
(*                                                                         *)
(* A step is one statement or one transaction.  The handlers of a group    *)
(* get a copy of it from DeviceGroupCtx, and most read the row again.  A   *)
(* delete marks the row of a group and takes its members out of the join   *)
(* table.  All rows belong to one organization.                            *)
(***************************************************************************)
EXTENDS Naturals, FiniteSets

CONSTANTS
    Requests,    \* the requests that may be under way at a time
    Names,       \* names of groups
    Devices,     \* the rows of devices
    Sets,        \* image sets, each with an image to update to
    Nothing,     \* no name and no image set
    MaxGroup,    \* bound on the groups ever created
    MaxRequests  \* bound on the requests ever begun

ASSUME GroupsAssumption ==
    /\ {MaxGroup, MaxRequests} \subseteq Nat
    /\ Nothing \notin Names \cup Sets
    /\ IsFiniteSet(Devices)

VARIABLES
    group,     \* group[g]: the rows of groups, in the order of their ids
    member,    \* the join table of groups and devices
    device,    \* device[d]: the rows of devices
    update,    \* the update transactions: a device and the set of the commit
    pc,        \* pc[r]: the next step of request r
    mem,       \* mem[r]: what request r asks for or has read
    begun,     \* how many requests have begun
    contested  \* groups and devices that changed under a request (history)

vars == <<group, member, device, update, pc, mem, begun, contested>>

Groups == 1..MaxGroup
GroupRows == [live : BOOLEAN, name : Names] \cup [live : {FALSE}, name : {Nothing}]
DeviceRows == [live : BOOLEAN, set : Sets \cup {Nothing}]
Updates == [device : Devices, set : Sets]

\* asked are the devices of the body or of the path; rows are those the request goes on
\* with, and set is the image set that they were found to have in common.
Memories ==
    [group : 0..MaxGroup, name : Names \cup {Nothing}, asked : SUBSET Devices,
     rows : SUBSET Devices, set : Sets \cup {Nothing}]

NoGroup == [live |-> FALSE, name |-> Nothing]
NoMemory == [group |-> 0, name |-> Nothing, asked |-> {}, rows |-> {}, set |-> Nothing]

NameExists(n) == \E g \in Groups : group[g].live /\ group[g].name = n
LiveDevices == {d \in Devices : device[d].live}

\* What Preload and Association find: the members whose rows are there.
DevicesOf(g) == {d \in LiveDevices : <<g, d>> \in member}

\* A query by a list of ids; without ids it has no condition.
FoundAmong(rows, ids) == IF ids = {} THEN rows ELSE rows \cap ids

-------------------------------------------------------------------------------
Goto(r, label) == pc' = [pc EXCEPT ![r] = label]
Learn(r, label, m) == Goto(r, label) /\ mem' = [mem EXCEPT ![r] = m]
End(r) == Learn(r, "idle", NoMemory)
Refuse(r) == End(r) /\ UNCHANGED <<group, member, update>>

\* The requests under way that may write what they were told of a group.
Writers == {r \in Requests : pc[r] \notin {"idle", "latest", "build"}}

Begin(r, label, m) ==
    /\ pc[r] = "idle"
    /\ begun < MaxRequests
    /\ begun' = begun + 1
    /\ Learn(r, label, m)
    /\ contested' = contested \cup
           {g \in {m.group} \ {0} : \E q \in Writers : mem[q].group = g}
    /\ UNCHANGED <<group, member, device, update>>

\* DeviceGroupCtx reads the group.
BeginWith(r, label, g, n, devices) ==
    /\ group[g].live
    /\ Begin(r, label,
             [NoMemory EXCEPT !.group = g, !.name = n, !.asked = devices, !.rows = devices])

\* The handlers.
UpdateDeviceGroup(r, g) == \E n \in Names : BeginWith(r, "rename", g, n, {})
DeleteDeviceGroupByID(r, g) == BeginWith(r, "delete", g, Nothing, {})
AddDevices(r, g) == \E ds \in SUBSET Devices : BeginWith(r, "add", g, Nothing, ds)
DeleteManyDevices(r, g) ==
    \E ds \in SUBSET Devices : BeginWith(r, "findMembers", g, Nothing, ds)
DeleteOneDevice(r, g) == \E d \in Devices : BeginWith(r, "findDevice", g, Nothing, {d})

CreateDeviceGroup(r) ==
    \/ \E n \in Names :
          ~ NameExists(n) /\ Begin(r, "create", [NoMemory EXCEPT !.name = n])
    \/ /\ pc[r] = "create"
       /\ \E g \in Groups :
             /\ \A h \in Groups : group[h] = NoGroup <=> h >= g
             /\ group' = [group EXCEPT ![g] = [live |-> TRUE, name |-> mem[r].name]]
       /\ End(r)
       /\ UNCHANGED <<member, device, update, begun, contested>>

\* UpdateDeviceGroup reads the group again, and looks for the new name.
CheckNewName(r) ==
    LET m == mem[r] IN
    /\ pc[r] = "rename"
    /\ IF group[m.group].live /\ ~ NameExists(m.name)
       THEN Learn(r, "save", m) /\ UNCHANGED <<group, member, update>>
       ELSE Refuse(r)

\* Mutant: an empty row is saved.
SaveEmpty(r) ==
    /\ pc[r] = "save"
    /\ group' = [group EXCEPT ![mem[r].group] = [live |-> TRUE, name |-> Nothing]]
    /\ End(r)
    /\ UNCHANGED <<member, update>>

\* The row is saved whole: if it was deleted in between it is inserted again.
SaveGroup(r) ==
    LET m == mem[r] IN
    /\ pc[r] = "save"
    /\ group' = [group EXCEPT ![m.group] = [live |-> TRUE, name |-> m.name]]
    /\ End(r)
    /\ UNCHANGED <<member, update>>

\* DeleteDeviceGroupByID reads the group with its devices.
ReadForDelete(r) ==
    LET m == mem[r] IN
    /\ pc[r] = "delete"
    /\ IF group[m.group].live
       THEN /\ Learn(r, "deleteGroup", [m EXCEPT !.rows = DevicesOf(m.group)])
            /\ UNCHANGED <<group, member, update>>
       ELSE Refuse(r)

\* Mutant: no hook.
DeleteRowOnly(r) ==
    /\ pc[r] = "deleteGroup"
    /\ group' = [group EXCEPT ![mem[r].group].live = FALSE]
    /\ End(r)
    /\ UNCHANGED <<member, update>>

\* The hook BeforeDelete takes the members out that were read.
DeleteGroup(r) ==
    LET m == mem[r] IN
    /\ pc[r] = "deleteGroup"
    /\ group' = [group EXCEPT ![m.group].live = FALSE]
    /\ member' = member \ ({m.group} \X m.rows)
    /\ End(r)
    /\ UNCHANGED update

\* AddDeviceGroupDevices: the group, the devices and the join rows, one after the other.
AddDeviceGroupDevices(r) ==
    LET m == mem[r]
        rows == FoundAmong(LiveDevices, m.asked)
    IN  \/ /\ pc[r] = "add"
           /\ IF group[m.group].live /\ Cardinality(rows) = Cardinality(m.asked)
              THEN Learn(r, "append", m) /\ UNCHANGED <<group, member, update>>
              ELSE Refuse(r)
        \/ /\ pc[r] = "append"
           /\ member' = member \cup ({m.group} \X m.rows)
           /\ End(r)
           /\ UNCHANGED <<group, update>>

\* Mutant: it is enough that some devices were found.
AnyFound(rows, ids) == rows # {}

\* All devices that were asked for must be found.
AllFound(rows, ids) == rows # {} /\ Cardinality(rows) = Cardinality(ids)

\* DeleteDeviceGroupDevices.
RemoveDevices(r) ==
    LET m == mem[r]
        rows == FoundAmong(DevicesOf(m.group), m.rows)
    IN  \/ /\ pc[r] = "findMembers"
           /\ IF group[m.group].live /\ AllFound(rows, m.rows)
              THEN /\ Learn(r, "remove", [m EXCEPT !.rows = rows])
                   /\ UNCHANGED <<group, member, update>>
              ELSE Refuse(r)
        \/ /\ pc[r] = "remove"
           /\ member' = member \ ({m.group} \X m.rows)
           /\ End(r)
           /\ UNCHANGED <<group, update>>

\* DeviceGroupDeviceCtx looks the device up among the members.  The row of no device is
\* what it finds when it is not one, and that has no id.
FindMember(r) ==
    LET m == mem[r] IN
    /\ pc[r] = "findDevice"
    /\ IF group[m.group].live
       THEN /\ Learn(r, "findMembers", [m EXCEPT !.rows = @ \cap DevicesOf(m.group)])
            /\ UNCHANGED <<group, member, update>>
       ELSE Refuse(r)

-------------------------------------------------------------------------------
(* Updating all devices of a group.                                        *)

\* Every device of the copy has an image, all of one set: else the request is refused.
UpdateAllDevices(r, g) ==
    LET sets == {device[d].set : d \in DevicesOf(g)} IN
    /\ Nothing \notin sets /\ Cardinality(sets) <= 1
    /\ BeginWith(r, "latest", g, Nothing, DevicesOf(g))

\* Mutant: the sets of the devices are not compared again.
LatestOfAny(r) ==
    LET m == mem[r]
        sets == {device[d].set : d \in m.rows \cap LiveDevices}
    IN  /\ pc[r] = "latest"
        /\ \E s \in (IF sets = {} THEN Sets ELSE sets) \ {Nothing} :
              Learn(r, "build", [m EXCEPT !.set = s])
        /\ UNCHANGED <<group, member, update>>

\* The devices are read again.  If none is left, the images are not restricted either, and
\* any set may be taken.
GetLatestCommitFromDevices(r) ==
    LET m == mem[r]
        sets == {device[d].set : d \in m.rows \cap LiveDevices}
    IN  /\ pc[r] = "latest"
        /\ IF Nothing \in sets \/ Cardinality(sets) > 1
           THEN Refuse(r)
           ELSE /\ \E s \in IF sets = {} THEN Sets ELSE sets :
                      Learn(r, "build", [m EXCEPT !.set = s])
                /\ UNCHANGED <<group, member, update>>

\* One transaction for each device that the inventory has and that does not run the commit.
\* A device without a row ends the request; what was made before stays.
BuildUpdateTransactions(r) ==
    LET m == mem[r] IN
    /\ pc[r] = "build"
    /\ \/ \E d \in m.rows :
             IF device[d].live
             THEN /\ update' \in {update, update \cup {[device |-> d, set |-> m.set]}}
                  /\ Learn(r, "build", [m EXCEPT !.rows = @ \ {d}])
                  /\ UNCHANGED <<group, member>>
             ELSE Refuse(r)
       \/ m.rows = {} /\ Refuse(r)

-------------------------------------------------------------------------------
(* Devices.                                                                *)

\* A device reports an image of a set.  A request that has compared the sets of its devices
\* does not see it.
ReportSet(d, s) ==
    /\ device[d].live /\ device[d].set # s
    /\ device' = [device EXCEPT ![d].set = s]
    /\ contested' = contested \cup
           {x \in {d} : \E r \in Requests : mem[r].set # Nothing /\ d \in mem[r].rows}
    /\ UNCHANGED <<group, member, update, pc, mem, begun>>

DeleteDevice(d) ==
    /\ device[d].live
    /\ device' = [device EXCEPT ![d].live = FALSE]
    /\ UNCHANGED <<group, member, update, pc, mem, begun, contested>>

\* The database fails, or the process ends.
Fail(r) == pc[r] # "idle" /\ Refuse(r)

-------------------------------------------------------------------------------
Init ==
    /\ group = [g \in Groups |-> NoGroup]
    /\ member = {}
    /\ device \in [Devices -> {[live |-> TRUE, set |-> s] : s \in Sets \cup {Nothing}}]
    /\ update = {}
    /\ pc = [r \in Requests |-> "idle"]
    /\ mem = [r \in Requests |-> NoMemory]
    /\ begun = 0
    /\ contested = {}

Start(r) ==
    \E g \in Groups :
        \/ UpdateDeviceGroup(r, g) \/ DeleteDeviceGroupByID(r, g) \/ AddDevices(r, g)
        \/ DeleteManyDevices(r, g) \/ DeleteOneDevice(r, g) \/ UpdateAllDevices(r, g)

Continue(r) ==
    /\ \/ CheckNewName(r) \/ SaveGroup(r) \/ ReadForDelete(r) \/ DeleteGroup(r)
       \/ AddDeviceGroupDevices(r) \/ RemoveDevices(r) \/ FindMember(r)
       \/ GetLatestCommitFromDevices(r) \/ BuildUpdateTransactions(r) \/ Fail(r)
    /\ UNCHANGED <<device, begun, contested>>

Next ==
    \/ \E r \in Requests : CreateDeviceGroup(r) \/ Start(r) \/ Continue(r)
    \/ \E d \in Devices : DeleteDevice(d) \/ \E s \in Sets : ReportSet(d, s)

Spec == Init /\ [][Next]_vars

-------------------------------------------------------------------------------
(* Properties.                                                             *)

\* Every variable has its type.
TypeOK ==
    /\ group \in [Groups -> GroupRows]
    /\ member \subseteq Groups \X Devices
    /\ device \in [Devices -> DeviceRows]
    /\ update \subseteq Updates
    /\ pc \in [Requests -> {"idle", "create", "rename", "save", "delete", "deleteGroup", "add",
                            "append", "findDevice", "findMembers", "remove", "latest", "build"}]
    /\ mem \in [Requests -> Memories]
    /\ begun \in 0..MaxRequests
    /\ contested \subseteq Groups \cup Devices

\* A device is a member of groups that are there: a delete leaves no member behind, unless
\* one was added meanwhile.
MembersHaveGroups ==
    \A p \in member :
        group[p[1]].live \/ ~ device[p[2]].live \/ p[1] \in contested

\* A request changes the membership of the devices it names and of no other: a query with
\* no ids finds all of them.
AskedFor(g, d) ==
    \E r \in Requests :
        mem[r].group = g /\ (d \in mem[r].asked \/ pc[r] = "deleteGroup")

OnlyAsked ==
    [][\A g \in Groups, d \in Devices :
          (<<g, d>> \in member) # (<<g, d>> \in member') => AskedFor(g, d)]_vars

\* A device is updated to a commit of the image set that it runs, though it may change it
\* while the update of its group is prepared; a change after the second look at the sets is
\* set apart.
UpdateIsOfItsSet ==
    [][\A u \in update' \ update : device[u.device].set = u.set \/ u.device \in contested]_vars

\* The comment of DeleteDeviceGroupByID: "deletes the device group by ID from the
\* database".  A rename that has read the group before brings it back.
DeletedIsGone ==
    [][\A g \in Groups : group[g] # NoGroup /\ ~ group[g].live => ~ group'[g].live]_vars
===============================================================================
