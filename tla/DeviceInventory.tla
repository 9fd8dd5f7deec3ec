---------------------------- MODULE DeviceInventory ----------------------------
(***************************************************************************)
(* The rows of devices, kept as a mirror of the platform inventory: the    *)
(* consumer of inventory events, the synchronisation that a view of the    *)
(* devices starts when the numbers differ (both in                         *)
(* pkg/services/devices.go), and the flag that tells whether a device has  *)
(* an update available, which is also written when an image is finished    *)
(* (pkg/services/images.go).                                               *)
(*                                                                         *)
(* All of them write the same table, without locks and without a unique    *)
(* index.  A step is one statement or one request to the inventory.  What  *)
(* an actor has read it holds in a copy, and saves the copy whole.  The    *)
(* inventory holds the devices of one organization and fits in one page.   *)
(***************************************************************************)
EXTENDS Naturals, Sequences, FiniteSets

CONSTANTS
    Hosts,       \* the devices, as the inventory identifies them
    Consumer,    \* the goroutine that consumes inventory events
    Syncs,       \* the synchronisations that may run at a time
    MaxImage,    \* images of the image set, numbered in the order they are created
    MaxRow,      \* bound on the rows that a device has had while someone holds one
    MaxChanges,  \* bound on the registrations, reboots and removals of devices
    SyncDeletes, \* the feature flag edge-management.device_sync_delete
    SyncCreates, \* the feature flag edge-management.device_sync_create
    MayFail      \* whether one request may fail, or the process be killed, once

ASSUME InventoryAssumption ==
    /\ Consumer \notin Syncs
    /\ IsFiniteSet(Hosts)
    /\ MaxImage \in Nat \ {0} /\ MaxRow \in Nat \ {0} /\ MaxChanges \in Nat
    /\ {SyncDeletes, SyncCreates, MayFail} \subseteq BOOLEAN

VARIABLES
    state,     \* state[h]: whether the inventory has device h
    booted,    \* booted[h]: the image it last reported, 0 for none of ours
    changes,   \* how often devices have changed
    topic,     \* topic[h]: the events of device h that are not committed
    row,       \* row[h][k]: the rows of device h in the order of their ids
    ready,     \* the images that are SUCCESS
    setter,    \* where the goroutine that finished an image is
    last,      \* the image that it took for the last one
    pc,        \* pc[x]: the next step of actor x
    event,     \* event[x]: the event that x handles, made up by a synchronisation
    copy,      \* copy[x]: the row that x holds
    todo,      \* todo[s]: the rows or the devices that synchronisation s goes through
    total,     \* total[s]: a number of devices that it has counted
    mishap,    \* the request that failed, or "crash" (history)
    contested  \* the devices that two actors handled events of at a time (history)

inventoryVars == <<state, booted, changes>>
imageVars == <<ready, setter, last>>
historyVars == <<mishap, contested>>
vars == <<inventoryVars, topic, row, imageVars, pc, event, copy, todo, total, historyVars>>

Actors == Syncs \cup {Consumer}
Images == 1..MaxImage
RowIds == 1..MaxRow
Rows == [live : BOOLEAN, image : 0..MaxImage, update : BOOLEAN]
NoRow == [live |-> FALSE, image |-> 0, update |-> FALSE]
Events == [type : {"created", "updated", "delete"}, host : Hosts, image : 0..MaxImage]
NoEvent == [type |-> "none"]
Copies == [id : 0..MaxRow, image : 0..MaxImage, update : BOOLEAN]
NoCopy == [id |-> 0, image |-> 0, update |-> FALSE]

Present == {h \in Hosts : state[h] = "present"}
Live(h) == {k \in RowIds : row[h][k].live}
First(h) == CHOOSE k \in Live(h) : \A j \in Live(h) : k <= j
LiveRows == {p \in Hosts \X RowIds : p[2] \in Live(p[1])}

\* The actors at work on device h.
At(h) == {x \in Actors : event[x] # NoEvent /\ event[x].host = h}

Init ==
    /\ state = [h \in Hosts |-> "unknown"]
    /\ booted = [h \in Hosts |-> 0]
    /\ changes = 0
    /\ topic = [h \in Hosts |-> <<>>]
    /\ row = [h \in Hosts |-> [k \in RowIds |-> NoRow]]
    /\ ready = {1}
    /\ setter = "idle"
    /\ last = 0
    /\ pc = [x \in Actors |-> "idle"]
    /\ event = [x \in Actors |-> NoEvent]
    /\ copy = [x \in Actors |-> NoCopy]
    /\ todo = [s \in Syncs |-> {}]
    /\ total = [s \in Syncs |-> 0]
    /\ mishap = "none"
    /\ contested = {}

Mishap(what) == MayFail /\ mishap = "none" /\ mishap' = what

Goto(x, p) == pc' = [pc EXCEPT ![x] = p]
Hold(x, h, k) ==
    copy' = [copy EXCEPT ![x] = [id |-> k, image |-> row[h][k].image, update |-> row[h][k].update]]

-------------------------------------------------------------------------------
(* The inventory and its events, in order for each device.                 *)

Emit(h, t, i) == topic' = [topic EXCEPT ![h] = Append(@, [type |-> t, host |-> h, image |-> i])]

Register(h) ==
    /\ state[h] = "unknown" /\ changes < MaxChanges
    /\ \E i \in 0..MaxImage :
          /\ booted' = [booted EXCEPT ![h] = i]
          /\ Emit(h, "created", i)
    /\ state' = [state EXCEPT ![h] = "present"]
    /\ changes' = changes + 1

Reboot(h) ==
    /\ state[h] = "present" /\ changes < MaxChanges
    /\ \E i \in (0..MaxImage) \ {booted[h]} :
          /\ booted' = [booted EXCEPT ![h] = i]
          /\ Emit(h, "updated", i)
    /\ changes' = changes + 1
    /\ UNCHANGED state

\* A device reports from time to time.
Report(h) ==
    /\ state[h] = "present" /\ topic[h] = <<>>
    /\ Emit(h, "updated", booted[h])
    /\ UNCHANGED inventoryVars

Remove(h) ==
    /\ state[h] = "present" /\ changes < MaxChanges
    /\ state' = [state EXCEPT ![h] = "gone"]
    /\ Emit(h, "delete", booted[h])
    /\ changes' = changes + 1
    /\ UNCHANGED booted

Inventory(h) ==
    /\ Register(h) \/ Reboot(h) \/ Report(h) \/ Remove(h)
    /\ UNCHANGED <<row, imageVars, pc, event, copy, todo, total, historyVars>>

-------------------------------------------------------------------------------
(* The handling of an event, by the consumer or by a synchronisation.      *)

\* Two actors at one device may get in each other's way.
Approach(x, e) ==
    /\ event' = [event EXCEPT ![x] = e]
    /\ contested' = IF At(e.host) = {} THEN contested ELSE contested \cup {e.host}

Fetch(h) ==
    /\ pc[Consumer] = "idle" /\ topic[h] # <<>>
    /\ Approach(Consumer, Head(topic[h]))
    /\ Goto(Consumer, Head(topic[h]).type)
    /\ UNCHANGED <<inventoryVars, topic, row, imageVars, copy, todo, total, mishap>>

\* The consumer commits the offset, whether the event was handled or failed.
Finish(x) ==
    /\ event' = [event EXCEPT ![x] = NoEvent]
    /\ copy' = [copy EXCEPT ![x] = NoCopy]
    /\ IF x = Consumer
       THEN Goto(x, "idle") /\ topic' = [topic EXCEPT ![event[x].host] = Tail(@)]
       ELSE Goto(x, "next") /\ UNCHANGED topic

\* Save updates the row, and if there is no such row any more it inserts it again.
Save(x) ==
    LET h == event[x].host IN
    row' = [row EXCEPT ![h][copy[x].id] =
               [live |-> TRUE, image |-> copy[x].image, update |-> copy[x].update]]

handlerQuiet == <<inventoryVars, imageVars, todo, total, historyVars>>

\* An unknown device is created, a known one saved with its new name.
ProcessPlatformInventoryUpdatedEvent(x) ==
    LET h == event[x].host IN
    /\ \/ /\ pc[x] = "updated" /\ Live(h) = {}
          /\ Goto(x, "check")
          /\ UNCHANGED <<row, copy>>
       \/ /\ pc[x] = "updated" /\ Live(h) # {}
          /\ Hold(x, h, First(h))
          /\ Goto(x, "saveName")
          /\ UNCHANGED row
       \/ /\ pc[x] = "saveName"
          /\ Save(x)
          /\ copy' = [copy EXCEPT ![x] = NoCopy]
          /\ Goto(x, "device")
    /\ UNCHANGED <<topic, event, handlerQuiet>>

\* Mutation of PlatformInventoryCreateEventHelper: nobody looks at the table.
CreateEventInserts(x) ==
    /\ pc[x] = "created"
    /\ Goto(x, "insert")
    /\ UNCHANGED <<topic, row, event, copy, handlerQuiet>>

\* FirstOrCreate
PlatformInventoryCreateEventHelper(x) ==
    /\ pc[x] = "created"
    /\ Goto(x, IF Live(event[x].host) = {} THEN "check" ELSE "device")
    /\ UNCHANGED <<topic, row, event, copy, handlerQuiet>>

\* The hook looks for the device once more; the row is inserted in another statement.
BeforeCreate(x) ==
    /\ pc[x] = "check"
    /\ IF Live(event[x].host) = {} THEN Goto(x, "insert") /\ UNCHANGED <<topic, event, copy>>
       ELSE Finish(x)
    /\ UNCHANGED <<row, handlerQuiet>>

\* Ids grow: the new row comes after all rows that are live or held by someone.
Used(h, k) ==
    \/ k \in Live(h)
    \/ \E x \in At(h) : copy[x].id = k
    \/ \E s \in Syncs : <<h, k>> \in todo[s]

Create(x) ==
    LET h == event[x].host IN
    /\ pc[x] = "insert"
    /\ \E k \in RowIds :
          /\ \A j \in RowIds : j >= k => ~Used(h, j)
          /\ k = 1 \/ Used(h, k - 1)
          /\ row' = [row EXCEPT ![h][k] = [NoRow EXCEPT !.live = TRUE]]
    /\ Goto(x, "device")
    /\ UNCHANGED <<topic, event, copy, handlerQuiet>>

\* The device is read again and saved with its image, if the commit is known.
ProcessPlatformInventoryEventUpdateDevice(x) ==
    LET h == event[x].host IN
    /\ \/ /\ pc[x] = "device"
          /\ Live(h) = {} \/ event[x].image = 0
          /\ Finish(x)
          /\ UNCHANGED row
       \/ /\ pc[x] = "device"
          /\ Live(h) # {} /\ event[x].image # 0
          /\ copy' = [copy EXCEPT ![x] = [id |-> First(h), image |-> event[x].image,
                                          update |-> row[h][First(h)].update]]
          /\ Goto(x, "saveImage")
          /\ UNCHANGED <<topic, row, event>>
       \/ /\ pc[x] = "saveImage"
          /\ Save(x)
          /\ Goto(x, "availability")
          /\ UNCHANGED <<topic, event, copy>>
    /\ UNCHANGED handlerQuiet

LaterImages(i) == {j \in ready : j > i}

\* Mutation of SetDeviceUpdateAvailability: the image itself counts as a later one.
SetUpdateAvailabilityToo(x) ==
    LET h == event[x].host
        k == copy[x].id
    IN
    /\ \/ /\ pc[x] = "availability"
          /\ k \in Live(h) => row[h][k].image = 0
          /\ Finish(x)
          /\ UNCHANGED row
       \/ /\ pc[x] = "availability"
          /\ k \in Live(h) /\ row[h][k].image # 0
          /\ Hold(x, h, k)
          /\ Goto(x, "images")
          /\ UNCHANGED <<topic, row, event>>
       \/ /\ pc[x] = "images"
          /\ copy' = [copy EXCEPT ![x].update = {j \in ready : j >= copy[x].image} # {}]
          /\ Goto(x, "saveAvailability")
          /\ UNCHANGED <<topic, row, event>>
       \/ /\ pc[x] = "saveAvailability"
          /\ Save(x) \/ (k \notin Live(h) /\ UNCHANGED row)
          /\ Finish(x)
    /\ UNCHANGED handlerQuiet

\* The row is read again by its id, then its later images, then it is saved; this save may
\* fail where it would insert.
SetDeviceUpdateAvailability(x) ==
    LET h == event[x].host
        k == copy[x].id
    IN
    /\ \/ /\ pc[x] = "availability"
          /\ k \in Live(h) => row[h][k].image = 0
          /\ Finish(x)
          /\ UNCHANGED row
       \/ /\ pc[x] = "availability"
          /\ k \in Live(h) /\ row[h][k].image # 0
          /\ Hold(x, h, k)
          /\ Goto(x, "images")
          /\ UNCHANGED <<topic, row, event>>
       \/ /\ pc[x] = "images"
          /\ copy' = [copy EXCEPT ![x].update = LaterImages(copy[x].image) # {}]
          /\ Goto(x, "saveAvailability")
          /\ UNCHANGED <<topic, row, event>>
       \/ /\ pc[x] = "saveAvailability"
          /\ Save(x) \/ (k \notin Live(h) /\ UNCHANGED row)
          /\ Finish(x)
    /\ UNCHANGED handlerQuiet

RemoveRow(h, k) == row' = [row EXCEPT ![h][k] = NoRow]

\* One of the rows of the device is found, then removed.
ProcessPlatformInventoryDeleteEvent(x) ==
    LET h == event[x].host IN
    /\ \/ /\ pc[x] = "delete" /\ Live(h) = {}
          /\ Finish(x)
          /\ UNCHANGED row
       \/ /\ pc[x] = "delete"
          /\ \E k \in Live(h) : Hold(x, h, k)
          /\ Goto(x, "remove")
          /\ UNCHANGED <<topic, row, event>>
       \/ /\ pc[x] = "remove"
          /\ RemoveRow(h, copy[x].id)
          /\ Finish(x)
    /\ UNCHANGED handlerQuiet

Handle(x) ==
    \/ ProcessPlatformInventoryUpdatedEvent(x) \/ PlatformInventoryCreateEventHelper(x)
    \/ BeforeCreate(x) \/ Create(x) \/ ProcessPlatformInventoryEventUpdateDevice(x)
    \/ SetDeviceUpdateAvailability(x) \/ ProcessPlatformInventoryDeleteEvent(x)

-------------------------------------------------------------------------------
(* The synchronisation: SyncDevicesWithInventory, which removes rows, then *)
(* SyncInventoryWithDevices, which adds devices.                           *)

syncQuiet == <<inventoryVars, topic, imageVars, copy>>

\* A view of the devices asks the inventory for their number and counts the rows.
GetDevicesView(s) ==
    /\ \/ /\ pc[s] = "idle"
          /\ total' = [total EXCEPT ![s] = Cardinality(Present)]
          /\ Goto(s, "view")
       \/ /\ pc[s] = "view"
          /\ Goto(s, IF total[s] # Cardinality(LiveRows) THEN "list" ELSE "idle")
          /\ total' = [total EXCEPT ![s] = 0]
    /\ UNCHANGED <<row, event, todo, mishap, contested, syncQuiet>>

\* Mutation of SyncDevicesWithInventory: the inventory is asked before the rows are listed.
AskThenList(s) ==
    /\ \/ /\ pc[s] = "list"
          /\ todo' = [todo EXCEPT ![s] = {<<h, 0>> : h \in Present}]
          /\ Goto(s, "ask")
       \/ /\ pc[s] = "ask"
          /\ todo' = [todo EXCEPT ![s] = {p \in LiveRows : p[1] \notin {d[1] : d \in @}}]
          /\ Goto(s, "removeMissing")
    /\ UNCHANGED <<row, event, total, mishap, contested, syncQuiet>>

\* Mutation of SyncDevicesWithInventory: if one is missing all are removed.
RemoveListed(s) ==
    /\ \/ /\ pc[s] = "list"
          /\ todo' = [todo EXCEPT ![s] = LiveRows]
          /\ Goto(s, "ask")
       \/ /\ pc[s] = "ask"
          /\ todo' = [todo EXCEPT ![s] =
                IF Cardinality(@) > Cardinality(Present \cap {p[1] : p \in @}) THEN @ ELSE {}]
          /\ Goto(s, "removeMissing")
    /\ UNCHANGED <<row, event, total, mishap, contested, syncQuiet>>

\* Mutation of SyncDevicesWithInventory: the numbers are compared the other way round.
RemoveIfFewer(s) ==
    /\ \/ /\ pc[s] = "list"
          /\ todo' = [todo EXCEPT ![s] = LiveRows]
          /\ Goto(s, "ask")
       \/ /\ pc[s] = "ask"
          /\ LET answer == Present \cap {p[1] : p \in todo[s]} IN
             todo' = [todo EXCEPT ![s] =
                IF Cardinality(@) < Cardinality(answer) THEN {p \in @ : p[1] \notin answer} ELSE {}]
          /\ Goto(s, "removeMissing")
    /\ UNCHANGED <<row, event, total, mishap, contested, syncQuiet>>

\* The rows are listed, and the inventory is asked for the devices in them.  When the
\* request fails the error is logged, and the answer is taken to be empty.
SyncDevicesWithInventory(s) ==
    /\ \/ /\ pc[s] = "list"
          /\ todo' = [todo EXCEPT ![s] = LiveRows]
          /\ Goto(s, "ask")
          /\ UNCHANGED mishap
       \/ /\ pc[s] = "ask"
          /\ \E answer \in {Present \cap {p[1] : p \in todo[s]}, {}} :
                /\ todo' = [todo EXCEPT ![s] =
                      IF SyncDeletes /\ Cardinality(@) > Cardinality(answer)
                      THEN {p \in @ : p[1] \notin answer} ELSE {}]
                /\ \/ /\ answer = Present \cap {p[1] : p \in todo[s]}
                      /\ UNCHANGED mishap
                   \/ answer = {} /\ Mishap("list")
          /\ Goto(s, "removeMissing")
    /\ UNCHANGED <<row, event, total, contested, syncQuiet>>

\* The missing devices are removed one by one.
RemoveMissing(s) ==
    /\ pc[s] = "removeMissing"
    /\ \/ /\ todo[s] = {}
          /\ Goto(s, "count")
          /\ UNCHANGED <<row, todo>>
       \/ \E p \in todo[s] :
             /\ RemoveRow(p[1], p[2])
             /\ todo' = [todo EXCEPT ![s] = @ \ {p}]
             /\ UNCHANGED pc
    /\ UNCHANGED <<event, total, mishap, contested, syncQuiet>>

\* The rows are counted again; if the numbers still differ the page of the inventory
\* is compared with the rows.
CompareTotals(s) ==
    /\ \/ /\ pc[s] = "count"
          /\ total' = [total EXCEPT ![s] = Cardinality(LiveRows)]
          /\ Goto(s, "compare")
          /\ UNCHANGED mishap
       \/ /\ pc[s] = "compare"
          /\ \/ /\ Goto(s, IF total[s] # Cardinality(Present) THEN "page" ELSE "idle")
                /\ UNCHANGED mishap
             \/ Goto(s, "idle") /\ Mishap("total")
          /\ total' = [total EXCEPT ![s] = 0]
    /\ UNCHANGED <<row, event, todo, contested, syncQuiet>>

\* The devices without a row are made up as events, if there are fewer rows than
\* devices.
SyncInventoryWithDevices(s) ==
    LET rows == {p \in LiveRows : p[1] \in {d[1] : d \in todo[s]}} IN
    /\ \/ /\ pc[s] = "page"
          /\ todo' = [todo EXCEPT ![s] = {<<h, booted[h]>> : h \in Present}]
          /\ Goto(s, "missing")
          /\ UNCHANGED mishap
       \/ /\ pc[s] = "page"
          /\ Goto(s, "idle") /\ Mishap("page")
          /\ UNCHANGED todo
       \/ /\ pc[s] = "missing"
          /\ todo' = [todo EXCEPT ![s] =
                IF SyncCreates /\ Cardinality(rows) < Cardinality(@)
                THEN {d \in @ : Live(d[1]) = {}} ELSE {}]
          /\ Goto(s, "next")
          /\ UNCHANGED mishap
    /\ UNCHANGED <<row, event, total, contested, syncQuiet>>

\* Mutation of AddMissing: the made up event says nothing about the image.
AddMissingByName(s) ==
    /\ pc[s] = "next"
    /\ \/ /\ todo[s] = {}
          /\ Goto(s, "idle")
          /\ UNCHANGED <<event, todo, contested>>
       \/ \E d \in todo[s] :
             /\ Approach(s, [type |-> "created", host |-> d[1]])
             /\ todo' = [todo EXCEPT ![s] = @ \ {d}]
             /\ Goto(s, "created")
    /\ UNCHANGED <<row, total, mishap, syncQuiet>>

AddMissing(s) ==
    /\ pc[s] = "next"
    /\ \/ /\ todo[s] = {}
          /\ Goto(s, "idle")
          /\ UNCHANGED <<event, todo, contested>>
       \/ \E d \in todo[s] :
             /\ Approach(s, [type |-> "created", host |-> d[1], image |-> d[2]])
             /\ todo' = [todo EXCEPT ![s] = @ \ {d}]
             /\ Goto(s, "created")
    /\ UNCHANGED <<row, total, mishap, syncQuiet>>

Sync(s) ==
    \/ GetDevicesView(s) \/ SyncDevicesWithInventory(s) \/ RemoveMissing(s)
    \/ CompareTotals(s) \/ SyncInventoryWithDevices(s) \/ AddMissing(s)

-------------------------------------------------------------------------------
(* An image becomes SUCCESS, then SetDevicesUpdateAvailabilityFromImageSet *)
(* runs: the last image is read, its devices lose the flag and those of    *)
(* the earlier ones get it.                                                *)

SetFlag(images, update) ==
    row' = [h \in Hosts |-> [k \in RowIds |->
        IF row[h][k].live /\ row[h][k].image \in images
        THEN [row[h][k] EXCEPT !.update = update] ELSE row[h][k]]]

SetDevicesUpdateAvailabilityFromImageSet ==
    /\ \/ /\ setter = "idle"
          /\ \E i \in Images \ ready :
                /\ \A j \in Images \ ready : i <= j
                /\ ready' = ready \cup {i}
          /\ setter' = "last"
          /\ UNCHANGED <<row, last>>
       \/ /\ setter = "last"
          /\ last' \in {i \in ready : LaterImages(i) = {}}
          /\ setter' = "same"
          /\ UNCHANGED <<row, ready>>
       \/ /\ setter = "same"
          /\ SetFlag({last}, FALSE)
          /\ setter' = "prior"
          /\ UNCHANGED <<ready, last>>
       \/ /\ setter = "prior"
          /\ SetFlag({i \in ready : i < last}, TRUE)
          /\ setter' = "idle"
          /\ last' = 0
          /\ UNCHANGED ready
    /\ UNCHANGED <<inventoryVars, topic, pc, event, copy, todo, total, historyVars>>

\* The event that was being handled is delivered again, or its offset was committed in
\* the background.
Crash ==
    /\ Mishap("crash")
    /\ pc' = [x \in Actors |-> "idle"]
    /\ event' = [x \in Actors |-> NoEvent]
    /\ copy' = [x \in Actors |-> NoCopy]
    /\ todo' = [s \in Syncs |-> {}]
    /\ total' = [s \in Syncs |-> 0]
    /\ setter' = "idle" /\ last' = 0
    /\ \/ UNCHANGED topic
       \/ /\ pc[Consumer] # "idle"
          /\ topic' = [topic EXCEPT ![event[Consumer].host] = Tail(@)]
    /\ UNCHANGED <<inventoryVars, row, ready, contested>>

Next ==
    \/ \E h \in Hosts : Inventory(h) \/ Fetch(h)
    \/ \E x \in Actors : Handle(x)
    \/ \E s \in Syncs : Sync(s)
    \/ SetDevicesUpdateAvailabilityFromImageSet
    \/ Crash

Spec == Init /\ [][Next]_vars

(***************************************************************************)
(* The goroutines run on, devices report and somebody looks at them from   *)
(* time to time.  The consumer gets to every event, whatever else is in    *)
(* the topic.  Nobody has to register, reboot or remove a device.          *)
(***************************************************************************)
FairSpec ==
    /\ Spec
    /\ \A h \in Hosts : SF_vars(Fetch(h)) /\ WF_vars(Inventory(h) /\ Report(h))
    /\ \A x \in Actors : WF_vars(Handle(x))
    /\ \A s \in Syncs : WF_vars(Sync(s))
    /\ WF_vars(setter # "idle" /\ SetDevicesUpdateAvailabilityFromImageSet)

-------------------------------------------------------------------------------
TypeOK ==
    /\ state \in [Hosts -> {"unknown", "present", "gone"}]
    /\ booted \in [Hosts -> 0..MaxImage]
    /\ changes \in 0..MaxChanges
    /\ topic \in [Hosts -> Seq(Events)]
    /\ row \in [Hosts -> [RowIds -> Rows]]
    /\ ready \subseteq Images
    /\ setter \in {"idle", "last", "same", "prior"}
    /\ last \in 0..MaxImage
    /\ pc \in [Actors ->
          {"idle", "created", "updated", "delete", "saveName", "check", "insert", "device",
           "saveImage", "availability", "images", "saveAvailability", "remove", "view", "list",
           "ask", "removeMissing", "count", "compare", "page", "missing", "next"}]
    /\ event \in [Actors -> Events \cup {NoEvent}]
    /\ copy \in [Actors -> Copies]
    /\ todo \in [Syncs -> SUBSET (Hosts \X Nat)]
    /\ total \in [Syncs -> Nat]
    /\ mishap \in {"none", "list", "total", "page", "crash"}
    /\ contested \subseteq Hosts

\* No device that the inventory has loses a row, whatever is stale when it is removed:
\* the list of rows, the answer of the inventory, the event.  Only a request that
\* failed can do that.
PresentIsKept ==
    [][\A h \in Hosts : \A k \in Live(h) :
          k \notin Live(h)' => state[h] = "gone" \/ mishap = "list"]_vars

\* A device has one row, through repeated events and synchronisations that remove it in
\* between, unless two actors handled events of it at a time.
OneRow == \A h \in Hosts \ contested : Cardinality(Live(h)) <= 1

\* The row by which a device is known is right: there is one if the inventory has the
\* device, with the image that it runs and the flag that goes with it.
Mirrored(h) ==
    /\ state[h] = "present" =>
          /\ Live(h) # {}
          /\ booted[h] # 0 =>
                /\ row[h][First(h)].image = booted[h]
                /\ row[h][First(h)].update <=> LaterImages(booted[h]) # {}
    /\ state[h] # "present" => Live(h) = {}

\* Whatever was lost, repeated, stale or overwritten, the table becomes the mirror of
\* the inventory and stays it, once the devices do not change any more.
Converges == <>[](\A h \in Hosts : Mirrored(h))

\* devices.go:1135 says of the synchronisation: "Delete devices in Edge Inventory that
\* are not in Insights Inventory".  So it deletes no others.
DeletedIsGone ==
    [][\A h \in Hosts : \A k \in Live(h) : k \notin Live(h)' => state[h] = "gone"]_vars
===============================================================================
