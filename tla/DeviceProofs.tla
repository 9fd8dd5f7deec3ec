----------------------------- MODULE DeviceProofs -----------------------------
(***************************************************************************)
(* Proofs about the mirror of the inventory: its types, that no device of  *)
(* the inventory loses a row (PresentIsKept), and that none has two        *)
(* (OneRow), for any number of devices, synchronisations, images and rows. *)
(*                                                                         *)
(* TypeInv adds to the types what keeps them: an actor that handles        *)
(* something has an event, and that of the consumer is in the topic.       *)
(* SafeInv says where a removal may come from: every row, event and list   *)
(* is about a device that the inventory has had, and what is going to be   *)
(* removed is about one that is gone or comes from a request that failed.  *)
(* RowInv says who is at a device alone, and that the row it holds or does *)
(* not find is the only one or that there is none.                         *)
(***************************************************************************)
EXTENDS DeviceInventory, FiniteSetTheorems, WellFoundedInduction, TLAPS

Handling == {"created", "updated", "delete", "saveName", "check", "insert", "device",
             "saveImage", "availability", "images", "saveAvailability", "remove"}
Removing == {"delete", "remove"}
RowTable == [Hosts -> [RowIds -> Rows]]

EventInv == \A x \in Actors : pc[x] \in Handling => event[x] \in Events

ConsumerInv ==
    /\ pc[Consumer] \in Handling \cup {"idle"}
    /\ pc[Consumer] \in Handling => topic[event[Consumer].host] # <<>>

AddingInv ==
    \A s \in Syncs : pc[s] \in Handling \cup {"missing", "next"} =>
        todo[s] \subseteq Hosts \X (0..MaxImage)

TypeInv == TypeOK /\ EventInv /\ ConsumerInv /\ AddingInv

KnownInv ==
    /\ \A h \in Hosts : topic[h] # <<>> => state[h] # "unknown"
    /\ \A h \in Hosts, k \in RowIds : row[h][k].live => state[h] # "unknown"
    /\ \A x \in Actors : pc[x] \in Handling => state[event[x].host] # "unknown"
    /\ \A s \in Syncs : \A p \in todo[s] : state[p[1]] # "unknown"

TopicInv ==
    \A h \in Hosts : \A i \in 1..Len(topic[h]) :
        topic[h][i].host = h /\ (topic[h][i].type = "delete" => state[h] = "gone")

RemoveInv ==
    /\ \A x \in Actors : pc[x] \in Removing => state[event[x].host] = "gone"
    /\ \A s \in Syncs : pc[s] = "removeMissing" =>
           \A p \in todo[s] : state[p[1]] = "gone" \/ mishap = "list"

SafeInv == KnownInv /\ TopicInv /\ RemoveInv

-------------------------------------------------------------------------------
(* What the operators return.                                              *)

LEMMA LessThanIsWellFounded ==
    \E R : IsWellFoundedOn(R, Nat) /\ \A j, k \in Nat : <<j, k>> \in R <=> j < k
<1>1. \A j, k \in Nat : <<j, k>> \in OpToRel(<, Nat) <=> j < k
    BY DEF OpToRel
<1> QED
    BY <1>1, NatLessThanWellFounded, Zenon

LEMMA LeastExists ==
    ASSUME NEW S \in SUBSET Nat, S # {}
    PROVE  \E k \in S : \A j \in S : k <= j
<1>1. PICK R : IsWellFoundedOn(R, Nat) /\ \A j, k \in Nat : <<j, k>> \in R <=> j < k
    BY LessThanIsWellFounded
<1>2. IsWellFoundedOn(R, Nat)
    BY <1>1
<1>3. S \subseteq Nat
    OBVIOUS
<1>4. \E k \in S : \A j \in S : ~ (<<j, k>> \in R)
    BY ONLY <1>2, <1>3, S # {}, WFMin, Zenon
<1>5. PICK k \in S : \A j \in S : ~ (<<j, k>> \in R)
    BY <1>4
<1>6. ASSUME NEW j \in S  PROVE k <= j
  <2>1. ~ (j < k)
      BY <1>1, <1>5
  <2> QED
      BY <2>1
<1> QED
    BY <1>6

\* The row by which a device is known is one of its rows.
LEMMA FirstIsLive ==
    ASSUME NEW h \in Hosts, Live(h) # {}
    PROVE  First(h) \in Live(h) /\ First(h) \in RowIds
<1>1. Live(h) \in SUBSET Nat /\ Live(h) \subseteq RowIds
    BY InventoryAssumption DEF Live, RowIds
<1>2. \E k \in Live(h) : \A j \in Live(h) : k <= j
    BY <1>1, LeastExists
<1> QED
    BY <1>1, <1>2 DEF First

\* There are finitely many rows and devices to count.
LEMMA CountsAreNumbers ==
    Cardinality(LiveRows) \in Nat /\ Cardinality(Present) \in Nat
<1>1. IsFiniteSet(Hosts) /\ IsFiniteSet(RowIds)
    BY InventoryAssumption, FS_Interval DEF RowIds
<1>2. IsFiniteSet(Hosts \X RowIds)
    BY <1>1, FS_Product
<1>3. LiveRows \in SUBSET (Hosts \X RowIds) /\ Present \in SUBSET Hosts
    BY DEF LiveRows, Present
<1> QED
    BY <1>1, <1>2, <1>3, FS_Subset, FS_CardinalityType

LEMMA HoldTypes ==
    ASSUME TypeInv, NEW x \in Actors, NEW h \in Hosts, NEW k \in RowIds, Hold(x, h, k)
    PROVE  copy' \in [Actors -> Copies]
<1>1. row[h][k] \in Rows /\ copy \in [Actors -> Copies] /\ k \in 0..MaxRow
    BY InventoryAssumption DEF TypeInv, TypeOK, RowIds
<1>2. [id |-> k, image |-> row[h][k].image, update |-> row[h][k].update] \in Copies
    BY <1>1 DEF Rows, Copies
<1> QED
    BY <1>1, <1>2 DEF Hold

\* A save keeps the rows there are, and may bring one back.
LEMMA SaveTypes ==
    ASSUME TypeInv, NEW x \in Actors, event[x] \in Events, Save(x)
    PROVE  /\ row' \in RowTable
           /\ \A h \in Hosts, k \in RowIds : row'[h][k].live =>
                  row[h][k].live \/ h = event[x].host
           /\ \A h \in Hosts, k \in RowIds : row[h][k].live => row'[h][k].live
<1> DEFINE saved == [live |-> TRUE, image |-> copy[x].image, update |-> copy[x].update]
<1>1. row \in RowTable /\ copy[x] \in Copies /\ event[x].host \in Hosts
    BY DEF TypeInv, TypeOK, RowTable, Events
<1>2. saved \in Rows /\ saved.live = TRUE
    BY <1>1 DEF Rows, Copies
<1>3. row' = [row EXCEPT ![event[x].host][copy[x].id] = saved]
    BY DEF Save
<1> HIDE DEF saved
<1> QED
    BY <1>1, <1>2, <1>3 DEF RowTable

LEMMA RemoveRowTypes ==
    ASSUME TypeInv, NEW d \in Hosts, NEW j, RemoveRow(d, j)
    PROVE  /\ row' \in RowTable
           /\ \A h \in Hosts, k \in RowIds : row'[h][k].live => row[h][k].live
           /\ \A h \in Hosts, k \in RowIds : row[h][k].live /\ ~ row'[h][k].live => h = d
<1>1. row \in RowTable
    BY DEF TypeInv, TypeOK, RowTable
<1>2. NoRow \in Rows /\ NoRow.live = FALSE
    BY InventoryAssumption DEF Rows, NoRow
<1>3. row' = [row EXCEPT ![d][j] = NoRow]
    BY DEF RemoveRow
<1> QED
    BY <1>1, <1>2, <1>3 DEF RowTable

-------------------------------------------------------------------------------
(* A step of a handler, seen from outside: it goes on or ends, and only    *)
(* the removal takes a live row away.                                      *)

GoesOn(x) ==
    /\ \E p \in Handling :
          /\ pc' = [pc EXCEPT ![x] = p]
          /\ p \in Removing => pc[x] \in Removing
    /\ UNCHANGED <<event, topic>>

Ends(x) ==
    /\ pc' = [pc EXCEPT ![x] = IF x = Consumer THEN "idle" ELSE "next"]
    /\ event' = [event EXCEPT ![x] = NoEvent]
    /\ topic' = IF x = Consumer THEN [topic EXCEPT ![event[x].host] = Tail(@)] ELSE topic

ChangesRow(x) ==
    /\ row' \in RowTable
    /\ \A h \in Hosts, k \in RowIds : row'[h][k].live => row[h][k].live \/ h = event[x].host
    /\ \A h \in Hosts, k \in RowIds : row[h][k].live /\ ~ row'[h][k].live =>
           h = event[x].host /\ pc[x] \in Removing

HandlerStep(x) ==
    /\ pc[x] \in Handling
    /\ GoesOn(x) \/ Ends(x)
    /\ ChangesRow(x)
    /\ copy' \in [Actors -> Copies]
    /\ UNCHANGED handlerQuiet

LEMMA KeepsRows ==
    ASSUME TypeInv, NEW x, UNCHANGED row
    PROVE  ChangesRow(x)
BY DEF TypeInv, TypeOK, RowTable, ChangesRow

LEMMA SavesRow ==
    ASSUME TypeInv, NEW x \in Actors, event[x] \in Events, Save(x)
    PROVE  ChangesRow(x)
BY SaveTypes DEF ChangesRow

LEMMA GotoGoesOn ==
    ASSUME NEW x, NEW p \in Handling \ Removing, Goto(x, p), UNCHANGED <<event, topic>>
    PROVE  GoesOn(x)
BY DEF Goto, GoesOn

LEMMA NoCopyTypes ==
    ASSUME TypeInv, NEW x, copy' = [copy EXCEPT ![x] = NoCopy]
    PROVE  copy' \in [Actors -> Copies]
<1>1. NoCopy \in Copies
    BY InventoryAssumption DEF NoCopy, Copies
<1> QED
    BY <1>1 DEF TypeInv, TypeOK

LEMMA FinishEnds ==
    ASSUME TypeInv, NEW x, Finish(x)
    PROVE  Ends(x) /\ copy' \in [Actors -> Copies]
BY NoCopyTypes DEF Finish, Goto, Ends

\* The steps of a handler that leave copies and rows typed.
LEMMA HandlerPlace ==
    ASSUME TypeInv, NEW x \in Actors, pc[x] \in Handling
    PROVE  /\ event[x] \in Events /\ event[x].host \in Hosts
           /\ event[x].image \in 0..MaxImage
BY DEF TypeInv, EventInv, Events

LEMMA UpdatedStep ==
    ASSUME TypeInv, NEW x \in Actors, ProcessPlatformInventoryUpdatedEvent(x)
    PROVE  HandlerStep(x)
<1> DEFINE h == event[x].host
<1>1. pc[x] \in Handling /\ UNCHANGED handlerQuiet /\ UNCHANGED <<event, topic>>
    BY DEF ProcessPlatformInventoryUpdatedEvent, Handling
<1>2. event[x] \in Events /\ h \in Hosts
    BY <1>1, HandlerPlace
<1>3. CASE Live(h) = {} /\ Goto(x, "check") /\ UNCHANGED <<row, copy>>
  <2>1. GoesOn(x) /\ ChangesRow(x)
      BY <1>1, <1>3, GotoGoesOn, KeepsRows DEF Handling, Removing
  <2> QED
      BY <1>1, <1>3, <2>1 DEF HandlerStep, TypeInv, TypeOK
<1>4. CASE Live(h) # {} /\ Hold(x, h, First(h)) /\ Goto(x, "saveName") /\ UNCHANGED row
  <2>1. GoesOn(x) /\ ChangesRow(x)
      BY <1>1, <1>4, GotoGoesOn, KeepsRows DEF Handling, Removing
  <2>2. First(h) \in RowIds
      BY <1>2, <1>4, FirstIsLive
  <2>3. copy' \in [Actors -> Copies]
      BY <1>2, <1>4, <2>2, HoldTypes
  <2> QED
      BY <1>1, <2>1, <2>3 DEF HandlerStep
<1>5. CASE Save(x) /\ copy' = [copy EXCEPT ![x] = NoCopy] /\ Goto(x, "device")
  <2>1. GoesOn(x) /\ ChangesRow(x) /\ copy' \in [Actors -> Copies]
      BY <1>1, <1>2, <1>5, GotoGoesOn, SavesRow, NoCopyTypes DEF Handling, Removing
  <2> QED
      BY <1>1, <2>1 DEF HandlerStep
<1> QED
    BY <1>3, <1>4, <1>5 DEF ProcessPlatformInventoryUpdatedEvent

LEMMA CreatedStep ==
    ASSUME TypeInv, NEW x \in Actors, PlatformInventoryCreateEventHelper(x)
    PROVE  HandlerStep(x)
<1>1. /\ pc[x] \in Handling /\ UNCHANGED handlerQuiet
      /\ UNCHANGED <<event, topic, row, copy>>
    BY DEF PlatformInventoryCreateEventHelper, Handling
<1>2. Goto(x, "check") \/ Goto(x, "device")
    BY DEF PlatformInventoryCreateEventHelper
<1>3. GoesOn(x) /\ ChangesRow(x)
    BY <1>1, <1>2, GotoGoesOn, KeepsRows DEF Handling, Removing
<1> QED
    BY <1>1, <1>3 DEF HandlerStep, TypeInv, TypeOK

LEMMA CheckStep ==
    ASSUME TypeInv, NEW x \in Actors, BeforeCreate(x)
    PROVE  HandlerStep(x)
<1>1. pc[x] \in Handling /\ UNCHANGED handlerQuiet /\ ChangesRow(x)
    BY KeepsRows DEF BeforeCreate, Handling
<1>2. CASE Goto(x, "insert") /\ UNCHANGED <<topic, event, copy>>
  <2>1. GoesOn(x)
      BY <1>2, GotoGoesOn DEF Handling, Removing
  <2> QED
      BY <1>1, <1>2, <2>1 DEF HandlerStep, TypeInv, TypeOK
<1>3. CASE Finish(x)
    BY <1>1, <1>3, FinishEnds DEF HandlerStep
<1> QED
    BY <1>2, <1>3 DEF BeforeCreate

LEMMA CreateStep ==
    ASSUME TypeInv, NEW x \in Actors, Create(x)
    PROVE  HandlerStep(x)
<1> DEFINE new == [NoRow EXCEPT !.live = TRUE]
<1>1. pc[x] \in Handling /\ UNCHANGED handlerQuiet /\ UNCHANGED <<event, topic, copy>>
    BY DEF Create, Handling
<1>2. event[x].host \in Hosts
    BY <1>1, HandlerPlace
<1>3. new \in Rows /\ new.live = TRUE
  <2>1. NoRow \in Rows
      BY InventoryAssumption DEF NoRow, Rows
  <2> QED
      BY <2>1 DEF Rows
<1>4. row \in RowTable
    BY DEF TypeInv, TypeOK, RowTable
<1>5. PICK j \in RowIds : row' = [row EXCEPT ![event[x].host][j] = new]
    BY DEF Create
<1>6. ChangesRow(x)
  <2> HIDE DEF new
  <2> QED
      BY <1>2, <1>3, <1>4, <1>5 DEF RowTable, ChangesRow
<1>7. Goto(x, "device")
    BY DEF Create
<1>8. GoesOn(x)
    BY <1>1, <1>7, GotoGoesOn DEF Handling, Removing
<1> QED
    BY <1>1, <1>6, <1>8 DEF HandlerStep, TypeInv, TypeOK

LEMMA DeviceStep ==
    ASSUME TypeInv, NEW x \in Actors, ProcessPlatformInventoryEventUpdateDevice(x)
    PROVE  HandlerStep(x)
<1> DEFINE h == event[x].host
           held == [id |-> First(h), image |-> event[x].image, update |-> row[h][First(h)].update]
<1>1. pc[x] \in Handling /\ UNCHANGED handlerQuiet
    BY DEF ProcessPlatformInventoryEventUpdateDevice, Handling
<1>2. event[x] \in Events /\ h \in Hosts /\ event[x].image \in 0..MaxImage
    BY <1>1, HandlerPlace
<1>3. CASE Finish(x) /\ UNCHANGED row
    BY <1>1, <1>3, FinishEnds, KeepsRows DEF HandlerStep
<1>4. CASE /\ Live(h) # {} /\ copy' = [copy EXCEPT ![x] = held]
           /\ Goto(x, "saveImage") /\ UNCHANGED <<topic, row, event>>
  <2>1. GoesOn(x) /\ ChangesRow(x)
      BY <1>4, GotoGoesOn, KeepsRows DEF Handling, Removing
  <2>2. First(h) \in RowIds
      BY <1>2, <1>4, FirstIsLive
  <2>3. row[h][First(h)] \in Rows /\ First(h) \in 0..MaxRow
      BY <1>2, <2>2, InventoryAssumption DEF TypeInv, TypeOK, RowIds
  <2>4. held \in Copies
      BY <1>2, <2>3 DEF Rows, Copies
  <2>5. copy' \in [Actors -> Copies]
    <3> HIDE DEF held
    <3> QED
        BY <1>4, <2>4 DEF TypeInv, TypeOK
  <2> QED
      BY <1>1, <2>1, <2>5 DEF HandlerStep
<1>5. CASE Save(x) /\ Goto(x, "availability") /\ UNCHANGED <<topic, event, copy>>
  <2>1. GoesOn(x) /\ ChangesRow(x)
      BY <1>2, <1>5, GotoGoesOn, SavesRow DEF Handling, Removing
  <2> QED
      BY <1>1, <1>5, <2>1 DEF HandlerStep, TypeInv, TypeOK
<1> QED
    BY <1>3, <1>4, <1>5 DEF ProcessPlatformInventoryEventUpdateDevice

LEMMA AvailabilityStep ==
    ASSUME TypeInv, NEW x \in Actors, SetDeviceUpdateAvailability(x)
    PROVE  HandlerStep(x)
<1> DEFINE h == event[x].host
           k == copy[x].id
           later == LaterImages(copy[x].image) # {}
<1>1. pc[x] \in Handling /\ UNCHANGED handlerQuiet
    BY DEF SetDeviceUpdateAvailability, Handling
<1>2. event[x] \in Events /\ h \in Hosts
    BY <1>1, HandlerPlace
<1>3. CASE Finish(x) /\ UNCHANGED row
    BY <1>1, <1>3, FinishEnds, KeepsRows DEF HandlerStep
<1>4. CASE k \in Live(h) /\ Hold(x, h, k) /\ Goto(x, "images") /\ UNCHANGED <<topic, row, event>>
  <2>1. GoesOn(x) /\ ChangesRow(x)
      BY <1>4, GotoGoesOn, KeepsRows DEF Handling, Removing
  <2>2. k \in RowIds
      BY <1>4 DEF Live
  <2>3. copy' \in [Actors -> Copies]
      BY <1>2, <1>4, <2>2, HoldTypes
  <2> QED
      BY <1>1, <2>1, <2>3 DEF HandlerStep
<1>5. CASE /\ copy' = [copy EXCEPT ![x].update = later]
           /\ Goto(x, "saveAvailability") /\ UNCHANGED <<topic, row, event>>
  <2>1. GoesOn(x) /\ ChangesRow(x)
      BY <1>5, GotoGoesOn, KeepsRows DEF Handling, Removing
  <2>2. later \in BOOLEAN
      OBVIOUS
  <2>3. copy' \in [Actors -> Copies]
    <3> HIDE DEF later
    <3> QED
        BY <1>5, <2>2 DEF TypeInv, TypeOK, Copies
  <2> QED
      BY <1>1, <2>1, <2>3 DEF HandlerStep
<1>6. CASE Save(x) /\ Finish(x)
    BY <1>1, <1>2, <1>6, FinishEnds, SavesRow DEF HandlerStep
<1> QED
    BY <1>3, <1>4, <1>5, <1>6 DEF SetDeviceUpdateAvailability

LEMMA DeleteStep ==
    ASSUME TypeInv, NEW x \in Actors, ProcessPlatformInventoryDeleteEvent(x)
    PROVE  HandlerStep(x)
<1> DEFINE h == event[x].host
<1>1. pc[x] \in Handling /\ pc[x] \in Removing /\ UNCHANGED handlerQuiet
    BY DEF ProcessPlatformInventoryDeleteEvent, Handling, Removing
<1>2. event[x] \in Events /\ h \in Hosts
    BY <1>1, HandlerPlace
<1>3. CASE Finish(x) /\ UNCHANGED row
    BY <1>1, <1>3, FinishEnds, KeepsRows DEF HandlerStep
<1>4. CASE /\ \E k \in Live(h) : Hold(x, h, k)
           /\ Goto(x, "remove") /\ UNCHANGED <<topic, row, event>>
  <2>1. GoesOn(x)
      BY <1>1, <1>4 DEF Goto, GoesOn, Handling
  <2>2. copy' \in [Actors -> Copies]
      BY <1>2, <1>4, HoldTypes DEF Live
  <2> QED
      BY <1>1, <1>4, <2>1, <2>2, KeepsRows DEF HandlerStep
<1>5. CASE RemoveRow(h, copy[x].id) /\ Finish(x)
  <2>1. ChangesRow(x)
      BY <1>1, <1>2, <1>5, RemoveRowTypes DEF ChangesRow
  <2> QED
      BY <1>1, <1>5, <2>1, FinishEnds DEF HandlerStep
<1> QED
    BY <1>3, <1>4, <1>5 DEF ProcessPlatformInventoryDeleteEvent

LEMMA HandleIsHandlerStep ==
    ASSUME TypeInv, NEW x \in Actors, Handle(x)
    PROVE  HandlerStep(x)
BY UpdatedStep, CreatedStep, CheckStep, CreateStep, DeviceStep, AvailabilityStep, DeleteStep
   DEF Handle

-------------------------------------------------------------------------------
(* A step of a synchronisation, seen from outside.                         *)

SyncPlaces == {"idle", "view", "list", "ask", "removeMissing", "count", "compare", "page",
               "missing", "next"}
Adding == {"missing", "next", "created"}
Known(T) == \A p \in T : state[p[1]] # "unknown"
Doomed(T) == \A p \in T : state[p[1]] = "gone" \/ mishap' = "list"
Inv == TypeInv /\ SafeInv

\* It goes to p with the list T.
SyncGoes(s, p, T) ==
    /\ pc[s] \in SyncPlaces
    /\ pc' = [pc EXCEPT ![s] = p]
    /\ todo' = [todo EXCEPT ![s] = T]
    /\ T \subseteq Hosts \X Nat /\ Known(T)
    /\ p \in Adding => T \subseteq Hosts \X (0..MaxImage)
    /\ p = "removeMissing" => Doomed(T)
    /\ \/ p \in SyncPlaces /\ UNCHANGED event
       \/ /\ p = "created"
          /\ \E e \in Events : event' = [event EXCEPT ![s] = e] /\ state[e.host] # "unknown"

SyncMoves(s) == \E p, T : SyncGoes(s, p, T)

SyncRows ==
    /\ row' \in RowTable
    /\ \A h \in Hosts, k \in RowIds : row'[h][k].live => row[h][k].live
    /\ \A h \in Hosts, k \in RowIds : row[h][k].live /\ ~ row'[h][k].live =>
           state[h] = "gone" \/ mishap = "list"

SyncHistory ==
    /\ total' \in [Syncs -> Nat]
    /\ contested' \subseteq Hosts
    /\ mishap' \in {"none", "list", "total", "page", "crash"}
    /\ mishap = "list" => mishap' = "list"

SyncStep(s) == SyncMoves(s) /\ SyncRows /\ SyncHistory /\ UNCHANGED syncQuiet

LEMMA SyncTypes ==
    ASSUME Inv, NEW s \in Syncs
    PROVE  /\ todo \in [Syncs -> SUBSET (Hosts \X Nat)] /\ total \in [Syncs -> Nat]
           /\ todo[s] \in SUBSET (Hosts \X Nat) /\ Known(todo[s])
           /\ contested \subseteq Hosts
           /\ mishap \in {"none", "list", "total", "page", "crash"}
           /\ row \in RowTable
           /\ booted \in [Hosts -> 0..MaxImage]
           /\ state \in [Hosts -> {"unknown", "present", "gone"}]
           /\ pc[s] \in Adding => todo[s] \subseteq Hosts \X (0..MaxImage)
           /\ pc[s] = "removeMissing" =>
                  \A p \in todo[s] : state[p[1]] = "gone" \/ mishap = "list"
BY DEF Inv, TypeInv, TypeOK, AddingInv, SafeInv, KnownInv, RemoveInv, Known, RowTable,
       Handling, Adding

LEMMA SyncKeepsRows ==
    ASSUME Inv, UNCHANGED row
    PROVE  SyncRows
BY DEF Inv, TypeInv, TypeOK, RowTable, SyncRows

\* A list that stays or is emptied stays known.
LEMMA MovesOn ==
    ASSUME Inv, NEW s \in Syncs, pc[s] \in SyncPlaces,
           NEW p \in SyncPlaces \ (Adding \cup {"removeMissing"}),
           Goto(s, p), UNCHANGED <<event, todo>>
    PROVE  SyncMoves(s)
<1>1. todo' = [todo EXCEPT ![s] = todo[s]]
    BY SyncTypes
<1>2. SyncGoes(s, p, todo[s])
    BY <1>1, SyncTypes DEF SyncGoes, Goto
<1> QED
    BY <1>2 DEF SyncMoves

LEMMA SameHistory ==
    ASSUME Inv, NEW s \in Syncs, UNCHANGED <<total, contested>>,
           UNCHANGED mishap \/ Mishap("list") \/ Mishap("page")
    PROVE  SyncHistory
BY SyncTypes DEF SyncHistory, Mishap

LEMMA ViewStep ==
    ASSUME Inv, NEW s \in Syncs, GetDevicesView(s)
    PROVE  SyncStep(s)
<1>1. UNCHANGED <<row, event, todo, mishap, contested, syncQuiet>> /\ pc[s] \in SyncPlaces
    BY DEF GetDevicesView, SyncPlaces
<1>2. Goto(s, "view") \/ Goto(s, "list") \/ Goto(s, "idle")
    BY DEF GetDevicesView
<1>3. SyncMoves(s)
    BY <1>1, <1>2, MovesOn DEF SyncPlaces, Adding
<1>4. total' = [total EXCEPT ![s] = Cardinality(Present)] \/ total' = [total EXCEPT ![s] = 0]
    BY DEF GetDevicesView
<1>5. total' \in [Syncs -> Nat]
    BY <1>4, CountsAreNumbers, SyncTypes
<1>6. SyncHistory
    BY <1>1, <1>5, SyncTypes DEF SyncHistory
<1> QED
    BY <1>1, <1>3, <1>6, SyncKeepsRows DEF SyncStep

LEMMA ListStep ==
    ASSUME Inv, NEW s \in Syncs, SyncDevicesWithInventory(s)
    PROVE  SyncStep(s)
<1>1. /\ UNCHANGED <<row, event, total, contested, syncQuiet>>
      /\ pc[s] \in SyncPlaces
    BY DEF SyncDevicesWithInventory, SyncPlaces
<1>2. CASE pc[s] = "list"
  <2>0. todo' = [todo EXCEPT ![s] = LiveRows] /\ Goto(s, "ask") /\ UNCHANGED mishap
      BY <1>2 DEF SyncDevicesWithInventory
  <2>1. LiveRows \in SUBSET (Hosts \X Nat)
      BY InventoryAssumption DEF LiveRows, RowIds
  <2>2. Known(LiveRows)
      BY DEF Known, LiveRows, Live, Inv, SafeInv, KnownInv
  <2>3. SyncMoves(s)
    <3>1. SyncGoes(s, "ask", LiveRows)
        BY <1>1, <2>0, <2>1, <2>2 DEF SyncGoes, Goto, SyncPlaces, Adding
    <3> QED
        BY <3>1 DEF SyncMoves
  <2> QED
      BY <1>1, <2>0, <2>3, SameHistory, SyncKeepsRows DEF SyncStep
<1>3. CASE pc[s] = "ask"
  <2> DEFINE rest(a) == {p \in todo[s] : p[1] \notin a}
  <2>1. /\ Goto(s, "removeMissing")
        /\ UNCHANGED mishap \/ Mishap("list")
      BY <1>3 DEF SyncDevicesWithInventory
  <2>2. PICK a \in {Present \cap {p[1] : p \in todo[s]}, {}} :
           /\ todo' = [todo EXCEPT ![s] = IF SyncDeletes /\ Cardinality(@) > Cardinality(a)
                                          THEN {p \in @ : p[1] \notin a} ELSE {}]
           /\ \/ a = Present \cap {p[1] : p \in todo[s]} /\ UNCHANGED mishap
              \/ Mishap("list")
      BY <1>3 DEF SyncDevicesWithInventory
  <2>3. todo' = [todo EXCEPT ![s] = rest(a)] \/ todo' = [todo EXCEPT ![s] = {}]
      BY <2>2, SyncTypes
  <2>4. rest(a) \in SUBSET (Hosts \X Nat) /\ Known(rest(a))
      BY SyncTypes DEF Known
  <2>5. Doomed(rest(a))
    <3>1. CASE a = Present \cap {p[1] : p \in todo[s]}
        BY <3>1, SyncTypes DEF Doomed, Known, Present
    <3>2. CASE Mishap("list")
        BY <3>2 DEF Doomed, Mishap
    <3> QED
        BY <2>2, <3>1, <3>2
  <2>6. SyncMoves(s)
    <3> DEFINE left == rest(a)
    <3>1. left \in SUBSET (Hosts \X Nat) /\ Known(left) /\ Doomed(left)
        BY <2>4, <2>5
    <3>2. Known({}) /\ Doomed({})
        BY DEF Known, Doomed
    <3>3. todo' = [todo EXCEPT ![s] = left] \/ todo' = [todo EXCEPT ![s] = {}]
        BY <2>3
    <3> HIDE DEF left
    <3>4. \/ SyncGoes(s, "removeMissing", left)
          \/ SyncGoes(s, "removeMissing", {})
        BY <1>1, <2>1, <3>1, <3>2, <3>3 DEF SyncGoes, Goto, SyncPlaces, Adding
    <3> QED
        BY <3>4 DEF SyncMoves
  <2> QED
      BY <1>1, <2>1, <2>6, SameHistory, SyncKeepsRows DEF SyncStep
<1> QED
    BY <1>2, <1>3 DEF SyncDevicesWithInventory

LEMMA RemoveStep ==
    ASSUME Inv, NEW s \in Syncs, RemoveMissing(s)
    PROVE  SyncStep(s)
<1>1. /\ UNCHANGED <<event, total, mishap, contested, syncQuiet>>
      /\ pc[s] \in SyncPlaces /\ pc[s] = "removeMissing"
    BY DEF RemoveMissing, SyncPlaces
<1>2. CASE Goto(s, "count") /\ UNCHANGED <<row, todo>>
    BY <1>1, <1>2, MovesOn, SameHistory, SyncKeepsRows DEF SyncStep, SyncPlaces, Adding
<1>3. CASE \E p \in todo[s] :
             /\ RemoveRow(p[1], p[2])
             /\ todo' = [todo EXCEPT ![s] = @ \ {p}]
             /\ UNCHANGED pc
  <2>1. PICK p \in todo[s] :
             /\ RemoveRow(p[1], p[2])
             /\ todo' = [todo EXCEPT ![s] = @ \ {p}]
             /\ UNCHANGED pc
      BY <1>3
  <2>2. p[1] \in Hosts /\ (state[p[1]] = "gone" \/ mishap = "list")
      BY <1>1, SyncTypes
  <2>3. SyncRows
      BY <2>1, <2>2, RemoveRowTypes DEF SyncRows, Inv
  <2>5. SyncHistory
      BY <1>1, SameHistory
  <2>6. pc' = [pc EXCEPT ![s] = pc[s]]
      BY <2>1 DEF Inv, TypeInv, TypeOK, Actors
  <2>7. todo[s] \ {p} \in SUBSET (Hosts \X Nat) /\ Known(todo[s] \ {p})
      BY SyncTypes DEF Known
  <2>8. Doomed(todo[s] \ {p})
      BY <1>1, SyncTypes DEF Doomed
  <2>9. todo' = [todo EXCEPT ![s] = todo[s] \ {p}]
      BY <2>1
  <2>10. SyncMoves(s)
    <3>1. SyncGoes(s, pc[s], todo[s] \ {p})
        BY <1>1, <2>6, <2>7, <2>8, <2>9 DEF SyncGoes, Adding
    <3> QED
        BY <3>1 DEF SyncMoves
  <2> QED
      BY <1>1, <2>3, <2>5, <2>10 DEF SyncStep
<1> QED
    BY <1>2, <1>3 DEF RemoveMissing

LEMMA CompareStep ==
    ASSUME Inv, NEW s \in Syncs, CompareTotals(s)
    PROVE  SyncStep(s)
<1>1. UNCHANGED <<row, event, todo, contested, syncQuiet>> /\ pc[s] \in SyncPlaces
    BY DEF CompareTotals, SyncPlaces
<1>2. Goto(s, "compare") \/ Goto(s, "page") \/ Goto(s, "idle")
    BY DEF CompareTotals
<1>3. SyncMoves(s)
    BY <1>1, <1>2, MovesOn DEF SyncPlaces, Adding
<1>4. total' = [total EXCEPT ![s] = Cardinality(LiveRows)] \/ total' = [total EXCEPT ![s] = 0]
    BY DEF CompareTotals
<1>5. total' \in [Syncs -> Nat]
    BY <1>4, CountsAreNumbers, SyncTypes
<1>6. UNCHANGED mishap \/ Mishap("total")
    BY DEF CompareTotals
<1>7. SyncHistory
    BY <1>1, <1>5, <1>6, SyncTypes DEF SyncHistory, Mishap
<1> QED
    BY <1>1, <1>3, <1>7, SyncKeepsRows DEF SyncStep

LEMMA PageStep ==
    ASSUME Inv, NEW s \in Syncs, SyncInventoryWithDevices(s)
    PROVE  SyncStep(s)
<1>1. /\ UNCHANGED <<row, event, total, contested, syncQuiet>>
      /\ pc[s] \in SyncPlaces
    BY DEF SyncInventoryWithDevices, SyncPlaces
<1>2. CASE Goto(s, "idle") /\ Mishap("page") /\ UNCHANGED todo
    BY <1>1, <1>2, MovesOn, SameHistory, SyncKeepsRows DEF SyncStep, SyncPlaces, Adding
<1>3. CASE /\ todo' = [todo EXCEPT ![s] = {<<h, booted[h]>> : h \in Present}]
           /\ Goto(s, "missing") /\ UNCHANGED mishap
  <2> DEFINE page == {<<h, booted[h]>> : h \in Present}
  <2>1. page \in SUBSET (Hosts \X (0..MaxImage)) /\ Known(page)
      BY SyncTypes DEF Present, Known
  <2>2. page \in SUBSET (Hosts \X Nat)
      BY <2>1, InventoryAssumption
  <2>3. SyncMoves(s)
    <3>1. todo' = [todo EXCEPT ![s] = page]
        BY <1>3
    <3> HIDE DEF page
    <3>2. SyncGoes(s, "missing", page)
        BY <1>1, <1>3, <2>1, <2>2, <3>1 DEF SyncGoes, Goto, SyncPlaces, Adding
    <3> QED
        BY <3>2 DEF SyncMoves
  <2> QED
      BY <1>1, <1>3, <2>3, SameHistory, SyncKeepsRows DEF SyncStep
<1>4. CASE /\ pc[s] = "missing" /\ Goto(s, "next") /\ UNCHANGED mishap
           /\ \E T \in SUBSET todo[s] : todo' = [todo EXCEPT ![s] = T]
  <2>1. PICK T \in SUBSET todo[s] : todo' = [todo EXCEPT ![s] = T]
      BY <1>4
  <2>2. T \in SUBSET (Hosts \X Nat) /\ T \subseteq Hosts \X (0..MaxImage) /\ Known(T)
      BY <1>4, SyncTypes DEF Adding, Known
  <2>3. SyncMoves(s)
    <3>1. SyncGoes(s, "next", T)
        BY <1>1, <1>4, <2>1, <2>2 DEF SyncGoes, Goto, SyncPlaces, Adding
    <3> QED
        BY <3>1 DEF SyncMoves
  <2> QED
      BY <1>1, <1>4, <2>3, SameHistory, SyncKeepsRows DEF SyncStep
<1>5. ASSUME pc[s] = "missing"
      PROVE  /\ Goto(s, "next") /\ UNCHANGED mishap
             /\ \E T \in SUBSET todo[s] : todo' = [todo EXCEPT ![s] = T]
  <2>1. Goto(s, "next") /\ UNCHANGED mishap
      BY <1>5 DEF SyncInventoryWithDevices
  <2>2. \/ todo' = [todo EXCEPT ![s] = {d \in todo[s] : Live(d[1]) = {}}]
        \/ todo' = [todo EXCEPT ![s] = {}]
      BY <1>5, SyncTypes DEF SyncInventoryWithDevices
  <2> QED
      BY <2>1, <2>2
<1> QED
    BY <1>2, <1>3, <1>4, <1>5 DEF SyncInventoryWithDevices

LEMMA AddStep ==
    ASSUME Inv, NEW s \in Syncs, AddMissing(s)
    PROVE  SyncStep(s)
<1>1. /\ UNCHANGED <<row, total, mishap, syncQuiet>>
      /\ pc[s] \in SyncPlaces /\ pc[s] \in Adding
    BY DEF AddMissing, SyncPlaces, Adding
<1>2. CASE Goto(s, "idle") /\ UNCHANGED <<event, todo, contested>>
    BY <1>1, <1>2, MovesOn, SameHistory, SyncKeepsRows DEF SyncStep, SyncPlaces, Adding
<1>3. CASE \E d \in todo[s] :
             /\ Approach(s, [type |-> "created", host |-> d[1], image |-> d[2]])
             /\ todo' = [todo EXCEPT ![s] = @ \ {d}]
             /\ Goto(s, "created")
  <2>1. PICK d \in todo[s] :
             /\ Approach(s, [type |-> "created", host |-> d[1], image |-> d[2]])
             /\ todo' = [todo EXCEPT ![s] = @ \ {d}]
             /\ Goto(s, "created")
      BY <1>3
  <2> DEFINE e == [type |-> "created", host |-> d[1], image |-> d[2]]
  <2>2. d[1] \in Hosts /\ d[2] \in 0..MaxImage /\ state[d[1]] # "unknown"
      BY <1>1, SyncTypes DEF Known
  <2>3. e \in Events /\ e.host = d[1]
      BY <2>2 DEF Events
  <2>4. event' = [event EXCEPT ![s] = e] /\ contested' \subseteq Hosts
      BY <2>1, <2>2, SyncTypes DEF Approach
  <2>5. /\ todo[s] \ {d} \in SUBSET (Hosts \X Nat) /\ Known(todo[s] \ {d})
        /\ todo[s] \ {d} \subseteq Hosts \X (0..MaxImage)
      BY <1>1, SyncTypes DEF Known
  <2>6. todo' = [todo EXCEPT ![s] = todo[s] \ {d}] /\ pc' = [pc EXCEPT ![s] = "created"]
      BY <2>1 DEF Goto
  <2>7. SyncMoves(s)
    <3> HIDE DEF e
    <3>1. SyncGoes(s, "created", todo[s] \ {d})
        BY <1>1, <2>2, <2>3, <2>4, <2>5, <2>6 DEF SyncGoes
    <3> QED
        BY <3>1 DEF SyncMoves
  <2>8. SyncHistory
      BY <1>1, <2>4, SyncTypes DEF SyncHistory
  <2> QED
      BY <1>1, <2>7, <2>8, SyncKeepsRows DEF SyncStep
<1> QED
    BY <1>2, <1>3 DEF AddMissing

LEMMA SyncIsSyncStep ==
    ASSUME Inv, NEW s \in Syncs, Sync(s)
    PROVE  SyncStep(s)
BY ViewStep, ListStep, RemoveStep, CompareStep, PageStep, AddStep DEF Sync

-------------------------------------------------------------------------------
(* Every step keeps the invariant.                                         *)

RowsKept ==
    \A h \in Hosts : \A k \in Live(h) :
        k \notin Live(h)' => state[h] = "gone" \/ mishap = "list"

LEMMA InvTypes ==
    ASSUME Inv
    PROVE  /\ pc \in [Actors -> Handling \cup SyncPlaces]
           /\ event \in [Actors -> Events \cup {NoEvent}]
           /\ topic \in [Hosts -> Seq(Events)]
           /\ row \in RowTable
           /\ Consumer \in Actors /\ Consumer \notin Syncs /\ Syncs \subseteq Actors
           /\ \A x \in Actors : x # Consumer => x \in Syncs
BY InventoryAssumption
   DEF Inv, TypeInv, TypeOK, RowTable, Handling, SyncPlaces, Actors

LEMMA PlacesTypes ==
    (pc \in [Actors -> Handling \cup SyncPlaces])' <=>
    (pc \in [Actors ->
          {"idle", "created", "updated", "delete", "saveName", "check", "insert", "device",
           "saveImage", "availability", "images", "saveAvailability", "remove", "view", "list",
           "ask", "removeMissing", "count", "compare", "page", "missing", "next"}])'
<1>1. Handling \cup SyncPlaces =
          {"idle", "created", "updated", "delete", "saveName", "check", "insert", "device",
           "saveImage", "availability", "images", "saveAvailability", "remove", "view", "list",
           "ask", "removeMissing", "count", "compare", "page", "missing", "next"}
    BY DEF Handling, SyncPlaces
<1> QED
    BY <1>1 DEF Handling, SyncPlaces

LEMMA TailTypes ==
    ASSUME NEW S, NEW q \in Seq(S), q # <<>>
    PROVE  /\ Tail(q) \in Seq(S) /\ Head(q) \in S /\ Head(q) = q[1] /\ 1 \in 1..Len(q)
           /\ \A i \in 1..Len(Tail(q)) : Tail(q)[i] = q[i + 1] /\ i + 1 \in 1..Len(q)
OBVIOUS

LEMMA HandlerKeepsInv ==
    ASSUME Inv, NEW x \in Actors, HandlerStep(x)
    PROVE  Inv' /\ RowsKept
<1> DEFINE h == event[x].host
           next == IF x = Consumer THEN "idle" ELSE "next"
<1>1. /\ pc[x] \in Handling /\ UNCHANGED handlerQuiet
      /\ ChangesRow(x) /\ copy' \in [Actors -> Copies]
    BY DEF HandlerStep
<1>2. event[x] \in Events /\ h \in Hosts
    BY <1>1, HandlerPlace DEF Inv
<1>3. next \in SyncPlaces
    BY DEF SyncPlaces
<1>4. PICK p \in Handling \cup SyncPlaces :
        /\ pc' = [pc EXCEPT ![x] = p]
        /\ p \in Handling => UNCHANGED <<event, topic>>
        /\ p \in Handling /\ p \in Removing => pc[x] \in Removing
        /\ p \notin Handling => p = next /\ Ends(x)
  <2>1. CASE GoesOn(x)
      BY <2>1 DEF GoesOn, Handling
  <2>2. CASE Ends(x)
    <3>1. pc' = [pc EXCEPT ![x] = next] /\ next \notin Handling
        BY <2>2 DEF Ends, Handling
    <3> HIDE DEF next
    <3> QED
        BY <1>3, <2>2, <3>1
  <2> QED
      BY <2>1, <2>2 DEF HandlerStep
<1>5. x = Consumer => topic[h] # <<>> /\ topic[h] \in Seq(Events)
    BY <1>1, <1>2, InvTypes DEF Inv, TypeInv, ConsumerInv
<1>6. UNCHANGED topic \/ (x = Consumer /\ p = "idle" /\ topic' = [topic EXCEPT ![h] = Tail(topic[h])])
    BY <1>2, <1>4, InvTypes DEF Ends
<1>7. /\ UNCHANGED event \/ (p = next /\ event' = [event EXCEPT ![x] = NoEvent])
      /\ p \in Handling => UNCHANGED event
    BY <1>4 DEF Ends
<1>8. topic' \in [Hosts -> Seq(Events)]
  <2>1. CASE UNCHANGED topic
      BY <2>1, InvTypes
  <2>2. CASE x = Consumer /\ topic' = [topic EXCEPT ![h] = Tail(topic[h])]
    <3>1. Tail(topic[h]) \in Seq(Events)
        BY <1>5, <2>2, TailTypes
    <3> QED
        BY <2>2, <3>1, InvTypes
  <2> QED
      BY <1>6, <2>1, <2>2
<1>9. event' \in [Actors -> Events \cup {NoEvent}]
    BY <1>7, InvTypes
<1>10. (pc \in [Actors -> Handling \cup SyncPlaces])'
    BY <1>4, InvTypes
<1>11. \A y \in Actors : pc'[y] \in Handling =>
           pc[y] \in Handling /\ event'[y] = event[y]
               /\ (pc'[y] \in Removing => pc[y] \in Removing)
  <2> SUFFICES ASSUME NEW y \in Actors, pc'[y] \in Handling
               PROVE  pc[y] \in Handling /\ event'[y] = event[y]
                          /\ (pc'[y] \in Removing => pc[y] \in Removing)
      OBVIOUS
  <2>1. CASE y = x
      BY <1>1, <1>4, <1>7, <2>1, InvTypes
  <2>2. CASE y # x
      BY <1>4, <1>7, <2>2, InvTypes
  <2> QED
      BY <2>1, <2>2
<1>12. TypeOK'
    BY <1>1, <1>8, <1>9, <1>10, PlacesTypes
       DEF Inv, TypeInv, TypeOK, ChangesRow, RowTable, handlerQuiet, inventoryVars, imageVars,
           historyVars
<1>13. EventInv'
    BY <1>11 DEF EventInv, Inv, TypeInv
<1>14. ConsumerInv'
  <2>1. pc'[Consumer] \in Handling \cup {"idle"}
    <3>1. CASE x = Consumer
        BY <1>4, <3>1, InvTypes
    <3>2. CASE x # Consumer
        BY <1>4, <3>2, InvTypes DEF Inv, TypeInv, ConsumerInv
    <3> QED
        BY <3>1, <3>2
  <2>2. ASSUME pc'[Consumer] \in Handling  PROVE topic'[event'[Consumer].host] # <<>>
    <3>1. event'[Consumer] = event[Consumer] /\ pc[Consumer] \in Handling
        BY <1>11, <2>2, InvTypes
    <3>2. UNCHANGED topic
        BY <1>4, <1>6, <2>2, InvTypes DEF Handling
    <3> QED
        BY <3>1, <3>2 DEF Inv, TypeInv, ConsumerInv
  <2> QED
      BY <2>1, <2>2 DEF ConsumerInv
<1>15. AddingInv'
  <2> SUFFICES ASSUME NEW s \in Syncs, pc'[s] \in Handling \cup {"missing", "next"}
               PROVE  todo'[s] \subseteq Hosts \X (0..MaxImage)
      BY DEF AddingInv
  <2>1. pc[s] \in Handling \cup {"missing", "next"}
    <3>1. CASE s = x
        BY <1>1, <3>1
    <3>2. CASE s # x
        BY <1>4, <3>2, InvTypes
    <3> QED
        BY <3>1, <3>2
  <2> QED
      BY <1>1, <2>1 DEF Inv, TypeInv, AddingInv, handlerQuiet
<1>16. KnownInv'
  <2>1. UNCHANGED <<state, todo>>
      BY <1>1 DEF handlerQuiet, inventoryVars
  <2>2. state[h] # "unknown"
      BY <1>1 DEF Inv, SafeInv, KnownInv
  <2>3. \A g \in Hosts : topic'[g] # <<>> => state[g] # "unknown"
      BY <1>2, <1>6, <2>2, InvTypes DEF Inv, SafeInv, KnownInv
  <2>4. \A g \in Hosts, k \in RowIds : row'[g][k].live => state[g] # "unknown"
      BY <1>1, <2>2 DEF Inv, SafeInv, KnownInv, ChangesRow
  <2>5. \A y \in Actors : pc'[y] \in Handling => state[event'[y].host] # "unknown"
      BY <1>11 DEF Inv, SafeInv, KnownInv
  <2> QED
      BY <2>1, <2>3, <2>4, <2>5 DEF Inv, SafeInv, KnownInv
<1>17. TopicInv'
  <2>1. UNCHANGED state
      BY <1>1 DEF handlerQuiet, inventoryVars
  <2>2. CASE UNCHANGED topic
      BY <2>1, <2>2 DEF Inv, SafeInv, TopicInv
  <2>3. CASE x = Consumer /\ topic' = [topic EXCEPT ![h] = Tail(topic[h])]
    <3> SUFFICES ASSUME NEW g \in Hosts, NEW i \in 1..Len(topic'[g])
                 PROVE  topic'[g][i].host = g /\ (topic'[g][i].type = "delete" => state[g] = "gone")
        BY <2>1 DEF TopicInv
    <3>1. CASE g = h
      <4>1. topic'[g] = Tail(topic[h])
          BY <1>2, <2>3, <3>1, InvTypes
      <4>2. topic'[g][i] = topic[g][i + 1] /\ i + 1 \in 1..Len(topic[g])
        <5>1. topic[h] # <<>> /\ topic[h] \in Seq(Events) /\ i \in 1..Len(Tail(topic[h]))
            BY <1>5, <2>3, <4>1
        <5>2. Tail(topic[h])[i] = topic[h][i + 1] /\ i + 1 \in 1..Len(topic[h])
            BY <5>1, TailTypes
        <5> QED
            BY <3>1, <4>1, <5>2
      <4> QED
          BY <4>2 DEF Inv, SafeInv, TopicInv
    <3>2. CASE g # h
        BY <2>3, <3>2, InvTypes DEF Inv, SafeInv, TopicInv
    <3> QED
        BY <3>1, <3>2
  <2> QED
      BY <1>6, <2>2, <2>3
<1>18. RemoveInv'
  <2>1. UNCHANGED <<state, todo, mishap>>
      BY <1>1 DEF handlerQuiet, inventoryVars, historyVars
  <2>2. \A y \in Actors : pc'[y] \in Removing => state[event'[y].host] = "gone"
      BY <1>11 DEF Inv, SafeInv, RemoveInv, Removing, Handling
  <2>3. \A s \in Syncs : pc'[s] = "removeMissing" => pc[s] = "removeMissing"
      BY <1>4, InvTypes DEF Handling
  <2> QED
      BY <2>1, <2>2, <2>3 DEF Inv, SafeInv, RemoveInv
<1>19. RowsKept
    BY <1>1 DEF RowsKept, ChangesRow, Live, Inv, SafeInv, RemoveInv
<1> QED
    BY <1>12, <1>13, <1>14, <1>15, <1>16, <1>17, <1>18, <1>19 DEF Inv, TypeInv, SafeInv

LEMMA SyncKeepsInv ==
    ASSUME Inv, NEW s \in Syncs, SyncStep(s)
    PROVE  Inv' /\ RowsKept
<1>1. /\ SyncRows /\ SyncHistory
      /\ UNCHANGED <<state, booted, changes, topic, ready, setter, last, copy>>
    BY DEF SyncStep, syncQuiet, inventoryVars, imageVars
<1>2. PICK p, T : SyncGoes(s, p, T)
    BY DEF SyncStep, SyncMoves
<1>3. /\ pc[s] \in SyncPlaces /\ pc' = [pc EXCEPT ![s] = p]
      /\ todo' = [todo EXCEPT ![s] = T]
      /\ T \subseteq Hosts \X Nat /\ Known(T)
      /\ p \in Adding => T \subseteq Hosts \X (0..MaxImage)
      /\ p = "removeMissing" => Doomed(T)
    BY <1>2 DEF SyncGoes
<1>4. \/ p \in SyncPlaces /\ UNCHANGED event
      \/ /\ p = "created"
         /\ \E e \in Events : event' = [event EXCEPT ![s] = e] /\ state[e.host] # "unknown"
    BY <1>2 DEF SyncGoes
<1>5. p \in Handling \cup SyncPlaces /\ s \in Actors /\ s # Consumer
    BY <1>4, InvTypes DEF Handling
<1>6. event' \in [Actors -> Events \cup {NoEvent}]
    BY <1>4, InvTypes
<1>7. \A y \in Actors : y # s => pc'[y] = pc[y] /\ event'[y] = event[y]
    BY <1>3, <1>4, InvTypes
<1>8. /\ pc'[s] = p /\ todo'[s] = T
      /\ \A z \in Syncs : z # s => todo'[z] = todo[z]
    BY <1>3, <1>5, InvTypes, SyncTypes
<1>9. p \in Handling => p = "created" /\ event'[s] \in Events /\ state[event'[s].host] # "unknown"
    BY <1>4, <1>5, InvTypes DEF Handling, SyncPlaces
<1>10. (pc \in [Actors -> Handling \cup SyncPlaces])'
    BY <1>3, <1>5, InvTypes
<1>11. todo' \in [Syncs -> SUBSET (Hosts \X Nat)]
    BY <1>3, SyncTypes
<1>12. TypeOK'
    BY <1>1, <1>6, <1>10, <1>11, PlacesTypes
       DEF Inv, TypeInv, TypeOK, SyncRows, SyncHistory, RowTable
<1>13. EventInv'
    BY <1>7, <1>8, <1>9 DEF EventInv, Inv, TypeInv
<1>14. ConsumerInv'
    BY <1>1, <1>5, <1>7, InvTypes DEF ConsumerInv, Inv, TypeInv
<1>15. AddingInv'
  <2> SUFFICES ASSUME NEW z \in Syncs, pc'[z] \in Handling \cup {"missing", "next"}
               PROVE  todo'[z] \subseteq Hosts \X (0..MaxImage)
      BY DEF AddingInv
  <2>1. CASE z = s
      BY <1>3, <1>8, <1>9, <2>1 DEF Adding
  <2>2. CASE z # s
      BY <1>7, <1>8, <2>2, InvTypes DEF Inv, TypeInv, AddingInv
  <2> QED
      BY <2>1, <2>2
<1>16. KnownInv'
  <2>1. \A g \in Hosts, k \in RowIds : row'[g][k].live => state[g] # "unknown"
      BY <1>1 DEF Inv, SafeInv, KnownInv, SyncRows
  <2>2. \A y \in Actors : pc'[y] \in Handling => state[event'[y].host] # "unknown"
      BY <1>7, <1>8, <1>9 DEF Inv, SafeInv, KnownInv
  <2>3. \A z \in Syncs : \A d \in todo'[z] : state[d[1]] # "unknown"
      BY <1>3, <1>8 DEF Inv, SafeInv, KnownInv, Known
  <2> QED
      BY <1>1, <2>1, <2>2, <2>3 DEF Inv, SafeInv, KnownInv
<1>17. TopicInv'
    BY <1>1 DEF Inv, SafeInv, TopicInv
<1>18. RemoveInv'
  <2>1. \A y \in Actors : pc'[y] \in Removing => state[event'[y].host] = "gone"
    <3> SUFFICES ASSUME NEW y \in Actors, pc'[y] \in Removing
                 PROVE  state[event'[y].host] = "gone"
        OBVIOUS
    <3>1. y # s
        BY <1>4, <1>8 DEF Removing, SyncPlaces
    <3> QED
        BY <1>7, <3>1 DEF Inv, SafeInv, RemoveInv
  <2>2. \A z \in Syncs : pc'[z] = "removeMissing" =>
            \A d \in todo'[z] : state[d[1]] = "gone" \/ mishap' = "list"
    <3> SUFFICES ASSUME NEW z \in Syncs, pc'[z] = "removeMissing"
                 PROVE  \A d \in todo'[z] : state[d[1]] = "gone" \/ mishap' = "list"
        OBVIOUS
    <3>1. CASE z = s
        BY <1>3, <1>8, <3>1 DEF Doomed
    <3>2. CASE z # s
        BY <1>1, <1>7, <1>8, <3>2, InvTypes DEF Inv, SafeInv, RemoveInv, SyncHistory
    <3> QED
        BY <3>1, <3>2
  <2> QED
      BY <1>1, <2>1, <2>2 DEF RemoveInv
<1>19. RowsKept
    BY <1>1 DEF RowsKept, SyncRows, Live
<1> QED
    BY <1>12, <1>13, <1>14, <1>15, <1>16, <1>17, <1>18, <1>19 DEF Inv, TypeInv, SafeInv

LEMMA AppendTypes ==
    ASSUME NEW S, NEW q \in Seq(S), NEW e \in S
    PROVE  /\ Append(q, e) \in Seq(S) /\ Append(q, e) # <<>>
           /\ \A i \in 1..Len(Append(q, e)) :
                  (i \in 1..Len(q) /\ Append(q, e)[i] = q[i]) \/ Append(q, e)[i] = e
OBVIOUS

\* A device changes in the inventory only in these ways, and tells it in an event.
LEMMA InventoryStep ==
    ASSUME Inv, NEW h \in Hosts, Inventory(h)
    PROVE  /\ state' \in [Hosts -> {"unknown", "present", "gone"}]
           /\ booted' \in [Hosts -> 0..MaxImage] /\ changes' \in 0..MaxChanges
           /\ \A g \in Hosts : /\ state[g] = "gone" => state'[g] = "gone"
                               /\ state[g] # "unknown" => state'[g] # "unknown"
           /\ state'[h] # "unknown"
           /\ \E e \in Events : /\ topic' = [topic EXCEPT ![h] = Append(topic[h], e)]
                                /\ e.host = h
                                /\ e.type = "delete" => state'[h] = "gone"
<1>1. /\ state \in [Hosts -> {"unknown", "present", "gone"}]
      /\ booted \in [Hosts -> 0..MaxImage] /\ changes \in 0..MaxChanges
    BY DEF Inv, TypeInv, TypeOK
<1>2. MaxChanges \in Nat
    BY InventoryAssumption
<1>3. ASSUME NEW t \in {"created", "updated", "delete"}, NEW i \in 0..MaxImage, Emit(h, t, i)
      PROVE  \E e \in Events : /\ topic' = [topic EXCEPT ![h] = Append(topic[h], e)]
                               /\ e.host = h /\ e.type = t
  <2> DEFINE e == [type |-> t, host |-> h, image |-> i]
  <2>1. e \in Events /\ e.host = h /\ e.type = t
      BY DEF Events
  <2>2. topic' = [topic EXCEPT ![h] = Append(topic[h], e)]
      BY <1>3, InvTypes DEF Emit
  <2> QED
      BY <2>1, <2>2
<1>4. CASE Register(h)
  <2>1. PICK i \in 0..MaxImage : booted' = [booted EXCEPT ![h] = i] /\ Emit(h, "created", i)
      BY <1>4 DEF Register
  <2>2. /\ state[h] = "unknown" /\ state' = [state EXCEPT ![h] = "present"]
        /\ changes < MaxChanges /\ changes' = changes + 1
      BY <1>4 DEF Register
  <2> QED
      BY <1>1, <1>2, <1>3, <2>1, <2>2
<1>5. CASE Reboot(h)
  <2>1. PICK i \in 0..MaxImage : booted' = [booted EXCEPT ![h] = i] /\ Emit(h, "updated", i)
      BY <1>5 DEF Reboot
  <2>2. /\ state[h] = "present" /\ UNCHANGED state
        /\ changes < MaxChanges /\ changes' = changes + 1
      BY <1>5 DEF Reboot
  <2> QED
      BY <1>1, <1>2, <1>3, <2>1, <2>2
<1>6. CASE Report(h)
  <2>1. state[h] = "present" /\ UNCHANGED <<state, booted, changes>>
      BY <1>6 DEF Report, inventoryVars
  <2>2. Emit(h, "updated", booted[h]) /\ booted[h] \in 0..MaxImage
      BY <1>1, <1>6 DEF Report
  <2> QED
      BY <1>1, <1>3, <2>1, <2>2
<1>7. CASE Remove(h)
  <2>1. /\ state[h] = "present" /\ state' = [state EXCEPT ![h] = "gone"] /\ UNCHANGED booted
        /\ changes < MaxChanges /\ changes' = changes + 1
      BY <1>7 DEF Remove
  <2>2. Emit(h, "delete", booted[h]) /\ booted[h] \in 0..MaxImage
      BY <1>1, <1>7 DEF Remove
  <2> QED
      BY <1>1, <1>2, <1>3, <2>1, <2>2
<1> QED
    BY <1>4, <1>5, <1>6, <1>7 DEF Inventory

LEMMA InventoryKeepsInv ==
    ASSUME Inv, NEW h \in Hosts, Inventory(h)
    PROVE  Inv' /\ RowsKept
<1>1. UNCHANGED <<row, ready, setter, last, pc, event, copy, todo, total, mishap, contested>>
    BY DEF Inventory, imageVars, historyVars
<1>2. /\ state' \in [Hosts -> {"unknown", "present", "gone"}]
      /\ booted' \in [Hosts -> 0..MaxImage] /\ changes' \in 0..MaxChanges
      /\ state'[h] # "unknown"
    BY InventoryStep
<1>3. \A g \in Hosts : /\ state[g] = "gone" => state'[g] = "gone"
                       /\ state[g] # "unknown" => state'[g] # "unknown"
    BY InventoryStep
<1>4. PICK e \in Events : /\ topic' = [topic EXCEPT ![h] = Append(topic[h], e)]
                          /\ e.host = h /\ (e.type = "delete" => state'[h] = "gone")
    BY InventoryStep
<1>5. topic[h] \in Seq(Events)
    BY InvTypes
<1>6. topic' \in [Hosts -> Seq(Events)] /\ topic'[h] # <<>>
  <2>1. Append(topic[h], e) \in Seq(Events) /\ Append(topic[h], e) # <<>>
      BY <1>5, AppendTypes
  <2> QED
      BY <1>4, <2>1, InvTypes
<1>7. \A g \in Hosts : g # h => topic'[g] = topic[g]
    BY <1>4, InvTypes
<1>8. \A y \in Actors : pc[y] \in Handling => event[y].host \in Hosts
    BY HandlerPlace DEF Inv
<1>9. TypeOK'
    BY <1>1, <1>2, <1>6 DEF Inv, TypeInv, TypeOK
<1>10. EventInv' /\ AddingInv'
    BY <1>1 DEF Inv, TypeInv, EventInv, AddingInv
<1>11. ConsumerInv'
    BY <1>1, <1>6, <1>7, <1>8, InvTypes DEF Inv, TypeInv, ConsumerInv
<1>12. KnownInv'
  <2>1. \A g \in Hosts : topic'[g] # <<>> => state'[g] # "unknown"
      BY <1>2, <1>3, <1>7 DEF Inv, SafeInv, KnownInv
  <2>2. \A g \in Hosts, k \in RowIds : row'[g][k].live => state'[g] # "unknown"
      BY <1>1, <1>3 DEF Inv, SafeInv, KnownInv
  <2>3. \A y \in Actors : pc'[y] \in Handling => state'[event'[y].host] # "unknown"
      BY <1>1, <1>3, <1>8 DEF Inv, SafeInv, KnownInv
  <2>4. \A z \in Syncs : \A d \in todo'[z] : state'[d[1]] # "unknown"
      BY <1>1, <1>3 DEF Inv, SafeInv, KnownInv, TypeInv, TypeOK
  <2> QED
      BY <2>1, <2>2, <2>3, <2>4 DEF KnownInv
<1>13. TopicInv'
  <2> SUFFICES ASSUME NEW g \in Hosts, NEW i \in 1..Len(topic'[g])
               PROVE  topic'[g][i].host = g /\ (topic'[g][i].type = "delete" => state'[g] = "gone")
      BY DEF TopicInv
  <2>1. CASE g = h
    <3>1. topic'[g] = Append(topic[h], e)
        BY <1>4, <2>1, InvTypes
    <3>2. (i \in 1..Len(topic[h]) /\ topic'[g][i] = topic[h][i]) \/ topic'[g][i] = e
        BY <1>5, <3>1, AppendTypes
    <3> QED
        BY <1>3, <1>4, <2>1, <3>2 DEF Inv, SafeInv, TopicInv
  <2>2. CASE g # h
      BY <1>3, <1>7, <2>2 DEF Inv, SafeInv, TopicInv
  <2> QED
      BY <2>1, <2>2
<1>14. RemoveInv'
  <2>1. \A y \in Actors : pc'[y] \in Removing => state'[event'[y].host] = "gone"
      BY <1>1, <1>3, <1>8 DEF Inv, SafeInv, RemoveInv, Removing, Handling
  <2>2. \A z \in Syncs : pc'[z] = "removeMissing" =>
            \A d \in todo'[z] : state'[d[1]] = "gone" \/ mishap' = "list"
      BY <1>1, <1>3 DEF Inv, SafeInv, RemoveInv, TypeInv, TypeOK
  <2> QED
      BY <2>1, <2>2 DEF RemoveInv
<1>15. RowsKept
    BY <1>1 DEF RowsKept, Live
<1> QED
    BY <1>9, <1>10, <1>11, <1>12, <1>13, <1>14, <1>15 DEF Inv, TypeInv, SafeInv

LEMMA FetchKeepsInv ==
    ASSUME Inv, NEW h \in Hosts, Fetch(h)
    PROVE  Inv' /\ RowsKept
<1> DEFINE e == Head(topic[h])
<1>1. /\ pc[Consumer] = "idle" /\ topic[h] # <<>> /\ topic[h] \in Seq(Events)
      /\ UNCHANGED <<state, booted, changes, topic, row, ready, setter, last, copy, todo,
                     total, mishap>>
    BY InvTypes DEF Fetch, inventoryVars, imageVars
<1>2. e \in Events /\ e = topic[h][1] /\ 1 \in 1..Len(topic[h])
    BY <1>1, TailTypes
<1>3. /\ e.host = h /\ state[h] # "unknown" /\ (e.type = "delete" => state[h] = "gone")
    BY <1>1, <1>2 DEF Inv, SafeInv, TopicInv, KnownInv
<1>4. e.type \in {"created", "updated", "delete"}
    BY <1>2 DEF Events
<1>5. /\ event' = [event EXCEPT ![Consumer] = e]
      /\ contested' = IF At(e.host) = {} THEN contested ELSE contested \cup {e.host}
      /\ pc' = [pc EXCEPT ![Consumer] = e.type]
    BY DEF Fetch, Approach, Goto
<1> HIDE DEF e
<1>6. /\ event'[Consumer] = e /\ pc'[Consumer] = e.type
      /\ \A y \in Actors : y # Consumer => pc'[y] = pc[y] /\ event'[y] = event[y]
      /\ event' \in [Actors -> Events \cup {NoEvent}]
    BY <1>2, <1>5, InvTypes
<1>7. e.type \in Handling
    BY <1>4 DEF Handling
<1>8. (pc \in [Actors -> Handling \cup SyncPlaces])'
    BY <1>5, <1>7, InvTypes
<1>9. contested' \subseteq Hosts
    BY <1>3, <1>5 DEF Inv, TypeInv, TypeOK
<1>10. TypeOK'
    BY <1>1, <1>6, <1>8, <1>9, PlacesTypes DEF Inv, TypeInv, TypeOK
<1>11. EventInv'
    BY <1>2, <1>6 DEF Inv, TypeInv, EventInv
<1>12. ConsumerInv'
    BY <1>1, <1>3, <1>6, <1>7 DEF ConsumerInv
<1>13. AddingInv'
    BY <1>1, <1>6, InvTypes DEF Inv, TypeInv, AddingInv
<1>14. KnownInv'
    BY <1>1, <1>3, <1>6 DEF Inv, SafeInv, KnownInv
<1>15. TopicInv'
    BY <1>1 DEF Inv, SafeInv, TopicInv
<1>16. RemoveInv'
  <2>1. \A y \in Actors : pc'[y] \in Removing => state[event'[y].host] = "gone"
      BY <1>3, <1>4, <1>6 DEF Inv, SafeInv, RemoveInv, Removing
  <2> QED
      BY <1>1, <1>6, <2>1, InvTypes DEF Inv, SafeInv, RemoveInv
<1>17. RowsKept
    BY <1>1 DEF RowsKept, Live
<1> QED
    BY <1>10, <1>11, <1>12, <1>13, <1>14, <1>15, <1>16, <1>17 DEF Inv, TypeInv, SafeInv

\* Setting the flag of devices neither adds nor removes a row.
LEMMA SetFlagTypes ==
    ASSUME Inv, NEW images, NEW update \in BOOLEAN, SetFlag(images, update)
    PROVE  row' \in RowTable /\ \A h \in Hosts, k \in RowIds : row'[h][k].live = row[h][k].live
<1>1. row \in RowTable
    BY InvTypes
<1>2. ASSUME NEW h \in Hosts, NEW k \in RowIds
      PROVE  row'[h][k] \in Rows /\ row'[h][k].live = row[h][k].live
  <2>1. row'[h][k] = IF row[h][k].live /\ row[h][k].image \in images
                     THEN [row[h][k] EXCEPT !.update = update] ELSE row[h][k]
      BY DEF SetFlag
  <2>2. row[h][k] \in Rows
      BY <1>1 DEF RowTable
  <2> QED
      BY <2>1, <2>2 DEF Rows
<1>3. \A h \in Hosts : row'[h] \in [RowIds -> Rows]
  <2> SUFFICES ASSUME NEW h \in Hosts  PROVE row'[h] \in [RowIds -> Rows]
      OBVIOUS
  <2>1. row'[h] = [k \in RowIds |-> row'[h][k]]
      BY DEF SetFlag
  <2> QED
      BY <1>2, <2>1
<1>4. row' = [h \in Hosts |-> row'[h]]
    BY DEF SetFlag
<1> QED
    BY <1>2, <1>3, <1>4 DEF RowTable

LEMMA SetterKeepsInv ==
    ASSUME Inv, SetDevicesUpdateAvailabilityFromImageSet
    PROVE  Inv' /\ RowsKept
<1>1. UNCHANGED <<state, booted, changes, topic, pc, event, copy, todo, total, mishap, contested>>
    BY DEF SetDevicesUpdateAvailabilityFromImageSet, inventoryVars, historyVars
<1>2. ready \subseteq Images /\ last \in 0..MaxImage /\ row \in RowTable
    BY InvTypes DEF Inv, TypeInv, TypeOK
<1>3. /\ row' \in RowTable
      /\ \A h \in Hosts, k \in RowIds : row'[h][k].live = row[h][k].live
    BY <1>2, SetFlagTypes DEF SetDevicesUpdateAvailabilityFromImageSet
<1>4. ready' \subseteq Images /\ setter' \in {"idle", "last", "same", "prior"}
    BY <1>2 DEF SetDevicesUpdateAvailabilityFromImageSet
<1>5. last' \in 0..MaxImage
  <2>1. last' \in ready \/ last' = last \/ last' = 0
      BY DEF SetDevicesUpdateAvailabilityFromImageSet
  <2>2. \A i \in ready : i \in 0..MaxImage
      BY <1>2, InventoryAssumption DEF Images
  <2>3. 0 \in 0..MaxImage
      BY InventoryAssumption
  <2> QED
      BY <1>2, <2>1, <2>2, <2>3
<1>6. TypeOK'
    BY <1>1, <1>3, <1>4, <1>5 DEF Inv, TypeInv, TypeOK, RowTable
<1>7. EventInv' /\ ConsumerInv' /\ AddingInv'
    BY <1>1 DEF Inv, TypeInv, EventInv, ConsumerInv, AddingInv
<1>8. KnownInv' /\ TopicInv' /\ RemoveInv'
    BY <1>1, <1>3 DEF Inv, SafeInv, KnownInv, TopicInv, RemoveInv
<1>9. RowsKept
    BY <1>3 DEF RowsKept, Live
<1> QED
    BY <1>6, <1>7, <1>8, <1>9 DEF Inv, TypeInv, SafeInv

LEMMA CrashKeepsInv ==
    ASSUME Inv, Crash
    PROVE  Inv' /\ RowsKept
<1> DEFINE h == event[Consumer].host
<1>1. /\ UNCHANGED <<state, booted, changes, row, ready, contested>>
      /\ mishap = "none" /\ mishap' = "crash"
      /\ setter' = "idle" /\ last' = 0
    BY DEF Crash, Mishap, inventoryVars
<1>2. /\ pc' = [x \in Actors |-> "idle"]
      /\ event' = [x \in Actors |-> NoEvent]
      /\ copy' = [x \in Actors |-> NoCopy]
      /\ todo' = [s \in Syncs |-> {}]
      /\ total' = [s \in Syncs |-> 0]
    BY DEF Crash
<1>3. NoCopy \in Copies /\ 0 \in 0..MaxImage
    BY InventoryAssumption DEF NoCopy, Copies
<1>4. pc[Consumer] # "idle" =>
          h \in Hosts /\ topic[h] # <<>> /\ topic[h] \in Seq(Events)
    BY HandlerPlace, InvTypes DEF Inv, TypeInv, ConsumerInv
<1>5. \/ UNCHANGED topic
      \/ /\ h \in Hosts /\ topic[h] # <<>> /\ topic[h] \in Seq(Events)
         /\ topic' = [topic EXCEPT ![h] = Tail(topic[h])]
    BY <1>4, InvTypes DEF Crash
<1>6. topic' \in [Hosts -> Seq(Events)]
  <2>1. CASE UNCHANGED topic
      BY <2>1, InvTypes
  <2>2. CASE /\ h \in Hosts /\ topic[h] # <<>> /\ topic[h] \in Seq(Events)
             /\ topic' = [topic EXCEPT ![h] = Tail(topic[h])]
    <3>1. Tail(topic[h]) \in Seq(Events)
        BY <2>2, TailTypes
    <3> QED
        BY <2>2, <3>1, InvTypes
  <2> QED
      BY <1>5, <2>1, <2>2
<1>7. TypeOK'
  <2>1. (pc \in [Actors -> Handling \cup SyncPlaces])'
      BY <1>2 DEF SyncPlaces
  <2>2. /\ event' \in [Actors -> Events \cup {NoEvent}] /\ copy' \in [Actors -> Copies]
        /\ todo' \in [Syncs -> SUBSET (Hosts \X Nat)] /\ total' \in [Syncs -> Nat]
      BY <1>2, <1>3
  <2> QED
      BY <1>1, <1>3, <1>6, <2>1, <2>2, PlacesTypes DEF Inv, TypeInv, TypeOK
<1>8. \A x \in Actors : pc'[x] = "idle"
    BY <1>2
<1>9. EventInv' /\ ConsumerInv' /\ AddingInv'
    BY <1>8, InvTypes DEF EventInv, ConsumerInv, AddingInv, Handling
<1>10. KnownInv'
  <2>1. \A g \in Hosts : topic'[g] # <<>> => state[g] # "unknown"
      BY <1>5, InvTypes DEF Inv, SafeInv, KnownInv
  <2> QED
      BY <1>1, <1>2, <1>8, <2>1 DEF Inv, SafeInv, KnownInv, Handling
<1>11. TopicInv'
  <2>1. CASE UNCHANGED topic
      BY <1>1, <2>1 DEF Inv, SafeInv, TopicInv
  <2>2. CASE /\ h \in Hosts /\ topic[h] # <<>> /\ topic[h] \in Seq(Events)
             /\ topic' = [topic EXCEPT ![h] = Tail(topic[h])]
    <3> SUFFICES ASSUME NEW g \in Hosts, NEW i \in 1..Len(topic'[g])
                 PROVE  topic'[g][i].host = g /\ (topic'[g][i].type = "delete" => state[g] = "gone")
        BY <1>1 DEF TopicInv
    <3>1. CASE g = h
      <4>1. topic'[g] = Tail(topic[h]) /\ i \in 1..Len(Tail(topic[h]))
          BY <2>2, <3>1, InvTypes
      <4>2. Tail(topic[h])[i] = topic[h][i + 1] /\ i + 1 \in 1..Len(topic[h])
          BY <2>2, <4>1, TailTypes
      <4> QED
          BY <3>1, <4>1, <4>2 DEF Inv, SafeInv, TopicInv
    <3>2. CASE g # h
        BY <2>2, <3>2, InvTypes DEF Inv, SafeInv, TopicInv
    <3> QED
        BY <3>1, <3>2
  <2> QED
      BY <1>5, <2>1, <2>2
<1>12. RemoveInv'
    BY <1>2, <1>8, InvTypes DEF RemoveInv, Removing
<1>13. RowsKept
    BY <1>1 DEF RowsKept, Live
<1> QED
    BY <1>7, <1>9, <1>10, <1>11, <1>12, <1>13 DEF Inv, TypeInv, SafeInv

LEMMA StutterKeepsInv ==
    ASSUME Inv, UNCHANGED vars
    PROVE  Inv' /\ RowsKept
<1>1. UNCHANGED <<state, booted, changes, topic, row, ready, setter, last, pc, event, copy,
                  todo, total, mishap, contested>>
    BY DEF vars, inventoryVars, imageVars, historyVars
<1> QED
    BY <1>1 DEF Inv, TypeInv, TypeOK, EventInv, ConsumerInv, AddingInv, SafeInv, KnownInv,
                TopicInv, RemoveInv, RowsKept, Live

LEMMA InitInv == Init => Inv
<1> SUFFICES ASSUME Init PROVE Inv
    OBVIOUS
<1>1. NoRow \in Rows /\ NoRow.live = FALSE /\ NoCopy \in Copies /\ 0 \in 0..MaxImage
    BY InventoryAssumption DEF NoRow, Rows, NoCopy, Copies
<1>2. 1 \in Images /\ 0 \in 0..MaxChanges
    BY InventoryAssumption DEF Images
<1>3. TypeOK
    BY <1>1, <1>2 DEF Init, TypeOK
<1>4. \A x \in Actors : pc[x] = "idle"
    BY DEF Init
<1>5. Consumer \in Actors /\ Syncs \subseteq Actors
    BY DEF Actors
<1>6. EventInv /\ ConsumerInv /\ AddingInv
    BY <1>4, <1>5 DEF EventInv, ConsumerInv, AddingInv, Handling
<1>7. KnownInv /\ TopicInv /\ RemoveInv
    BY <1>1, <1>4, <1>5 DEF Init, KnownInv, TopicInv, RemoveInv, Handling, Removing
<1> QED
    BY <1>3, <1>6, <1>7 DEF Inv, TypeInv, SafeInv

LEMMA NextKeepsInv ==
    ASSUME Inv, [Next]_vars
    PROVE  Inv' /\ RowsKept
<1>1. ASSUME NEW h \in Hosts, Inventory(h)  PROVE Inv' /\ RowsKept
    BY <1>1, InventoryKeepsInv
<1>2. ASSUME NEW h \in Hosts, Fetch(h)  PROVE Inv' /\ RowsKept
    BY <1>2, FetchKeepsInv
<1>3. ASSUME NEW x \in Actors, Handle(x)  PROVE Inv' /\ RowsKept
    BY <1>3, HandleIsHandlerStep, HandlerKeepsInv DEF Inv
<1>4. ASSUME NEW s \in Syncs, Sync(s)  PROVE Inv' /\ RowsKept
    BY <1>4, SyncIsSyncStep, SyncKeepsInv
<1>5. CASE SetDevicesUpdateAvailabilityFromImageSet
    BY <1>5, SetterKeepsInv
<1>6. CASE Crash
    BY <1>6, CrashKeepsInv
<1>7. CASE UNCHANGED vars
    BY <1>7, StutterKeepsInv
<1> QED
    BY <1>1, <1>2, <1>3, <1>4, <1>5, <1>6, <1>7 DEF Next

-------------------------------------------------------------------------------
(* One row for a device: who is alone at a device keeps it to one row.     *)

Holding == {"saveName", "saveImage", "availability", "images", "saveAvailability"}

Single(h) == \A j, k \in Live(h) : j = k

\* Who is about to insert has found no row, and who holds a copy holds that of the only row.
Placed(x, h) ==
    /\ pc[x] = "insert" => Live(h) = {}
    /\ pc[x] \in Holding => Live(h) \subseteq {copy[x].id}

AloneInv ==
    \A h \in Hosts \ contested : \A x, y \in At(h) : x = y
SingleInv == \A h \in Hosts \ contested : Single(h)
PlaceInv ==
    \A h \in Hosts \ contested : \A x \in At(h) : pc[x] \in Handling => Placed(x, h)

RowInv == AloneInv /\ SingleInv /\ PlaceInv

LEMMA EventsAreSome == \A e \in Events : e # NoEvent
<1>1. \A e \in Events : e.type # "none"
    BY DEF Events
<1> QED
    BY <1>1 DEF NoEvent

LEMMA OnlyFirst ==
    ASSUME NEW h \in Hosts, Single(h), Live(h) # {}
    PROVE  Live(h) \subseteq {First(h)}
BY FirstIsLive DEF Single

\* What a handler leaves of the device that it is at, and of the other ones.
Leaves(x, h) ==
    /\ Single(h)'
    /\ Placed(x, h)'
    /\ \A g \in Hosts : g # h => row'[g] = row[g]

LEMMA LeavesRows ==
    ASSUME NEW x, NEW h \in Hosts, Single(h), UNCHANGED row,
           pc'[x] = "insert" => Live(h) = {},
           pc'[x] \in Holding => Live(h) \subseteq {copy'[x].id}
    PROVE  Leaves(x, h)
BY DEF Leaves, Single, Placed, Live

\* Saving the copy of the only row leaves one row, that one.
LEMMA LeavesSaved ==
    ASSUME Inv, NEW x \in Actors, NEW h \in Hosts, h = event[x].host, Save(x),
           Live(h) \subseteq {copy[x].id}, pc'[x] # "insert",
           pc'[x] \in Holding => copy'[x].id = copy[x].id
    PROVE  Leaves(x, h)
<1> DEFINE saved == [live |-> TRUE, image |-> copy[x].image, update |-> copy[x].update]
<1>1. row \in RowTable
    BY DEF Inv, TypeInv, TypeOK, RowTable
<1>2. row' = [row EXCEPT ![h][copy[x].id] = saved]
    BY DEF Save
<1> HIDE DEF saved
<1>3. \A k \in RowIds : k # copy[x].id => row'[h][k] = row[h][k]
    BY <1>1, <1>2 DEF RowTable
<1>4. Live(h)' \subseteq {copy[x].id}
    BY <1>3 DEF Live
<1>5. \A g \in Hosts : g # h => row'[g] = row[g]
    BY <1>1, <1>2 DEF RowTable
<1> QED
    BY <1>4, <1>5 DEF Leaves, Single, Placed

LEMMA UpdatedLeaves ==
    ASSUME Inv, NEW x \in Actors, NEW h \in Hosts, h = event[x].host, Single(h), Placed(x, h),
           ProcessPlatformInventoryUpdatedEvent(x)
    PROVE  Leaves(x, h)
<1>0. pc \in [Actors -> Handling \cup SyncPlaces] /\ copy \in [Actors -> Copies]
    BY InvTypes DEF Inv, TypeInv, TypeOK
<1>1. CASE Goto(x, "check") /\ UNCHANGED row
    BY <1>0, <1>1, LeavesRows DEF Goto, Holding
<1>2. CASE Live(h) # {} /\ Hold(x, h, First(h)) /\ Goto(x, "saveName") /\ UNCHANGED row
  <2>1. pc'[x] = "saveName" /\ copy'[x].id = First(h)
      BY <1>0, <1>2 DEF Goto, Hold
  <2> QED
      BY <1>2, <2>1, OnlyFirst, LeavesRows
<1>3. CASE pc[x] = "saveName" /\ Save(x) /\ Goto(x, "device")
    BY <1>0, <1>3, LeavesSaved DEF Goto, Placed, Holding
<1> QED
    BY <1>1, <1>2, <1>3 DEF ProcessPlatformInventoryUpdatedEvent

LEMMA CreatedLeaves ==
    ASSUME Inv, NEW x \in Actors, NEW h \in Hosts, h = event[x].host, Single(h),
           PlatformInventoryCreateEventHelper(x)
    PROVE  Leaves(x, h)
<1>1. pc \in [Actors -> Handling \cup SyncPlaces] /\ UNCHANGED row
    BY InvTypes DEF PlatformInventoryCreateEventHelper
<1>2. pc'[x] = "check" \/ pc'[x] = "device"
    BY <1>1 DEF PlatformInventoryCreateEventHelper, Goto
<1> QED
    BY <1>1, <1>2, LeavesRows DEF Holding

LEMMA FinishPlace ==
    ASSUME Inv, NEW x \in Actors, Finish(x)
    PROVE  pc'[x] \in {"idle", "next"} /\ event'[x] = NoEvent
<1>1. pc \in [Actors -> Handling \cup SyncPlaces] /\ event \in [Actors -> Events \cup {NoEvent}]
    BY InvTypes
<1> QED
    BY <1>1 DEF Finish, Goto

LEMMA CheckLeaves ==
    ASSUME Inv, NEW x \in Actors, NEW h \in Hosts, h = event[x].host, Single(h),
           BeforeCreate(x)
    PROVE  Leaves(x, h)
<1>1. pc \in [Actors -> Handling \cup SyncPlaces] /\ UNCHANGED row
    BY InvTypes DEF BeforeCreate
<1>2. CASE Live(h) = {} /\ Goto(x, "insert")
    BY <1>1, <1>2, LeavesRows DEF Goto, Holding
<1>3. CASE Finish(x)
    BY <1>1, <1>3, FinishPlace, LeavesRows DEF Holding
<1> QED
    BY <1>2, <1>3 DEF BeforeCreate

\* The row that is inserted is the only one.
LEMMA CreateLeaves ==
    ASSUME Inv, NEW x \in Actors, NEW h \in Hosts, h = event[x].host, Placed(x, h), Create(x)
    PROVE  Leaves(x, h)
<1> DEFINE new == [NoRow EXCEPT !.live = TRUE]
<1>1. pc \in [Actors -> Handling \cup SyncPlaces] /\ row \in RowTable
    BY InvTypes DEF Inv, TypeInv, TypeOK, RowTable
<1>2. PICK j \in RowIds : row' = [row EXCEPT ![h][j] = new]
    BY DEF Create
<1>3. Live(h) = {}
    BY DEF Create, Placed
<1>4. pc'[x] = "device"
    BY <1>1 DEF Create, Goto
<1> HIDE DEF new
<1>5. \A k \in RowIds : k # j => row'[h][k] = row[h][k]
    BY <1>1, <1>2 DEF RowTable
<1>6. Live(h)' \subseteq {j}
    BY <1>3, <1>5 DEF Live
<1>7. \A g \in Hosts : g # h => row'[g] = row[g]
    BY <1>1, <1>2 DEF RowTable
<1> QED
    BY <1>4, <1>6, <1>7 DEF Leaves, Single, Placed, Holding

LEMMA DeviceLeaves ==
    ASSUME Inv, NEW x \in Actors, NEW h \in Hosts, h = event[x].host, Single(h), Placed(x, h),
           ProcessPlatformInventoryEventUpdateDevice(x)
    PROVE  Leaves(x, h)
<1> DEFINE held == [id |-> First(h), image |-> event[x].image, update |-> row[h][First(h)].update]
<1>0. pc \in [Actors -> Handling \cup SyncPlaces] /\ copy \in [Actors -> Copies]
    BY InvTypes DEF Inv, TypeInv, TypeOK
<1>1. CASE Finish(x) /\ UNCHANGED row
    BY <1>1, FinishPlace, LeavesRows DEF Holding
<1>2. CASE Live(h) # {} /\ copy' = [copy EXCEPT ![x] = held] /\ Goto(x, "saveImage") /\ UNCHANGED row
  <2>1. pc'[x] = "saveImage" /\ copy'[x].id = First(h)
      BY <1>0, <1>2 DEF Goto
  <2> QED
      BY <1>2, <2>1, OnlyFirst, LeavesRows
<1>3. CASE pc[x] = "saveImage" /\ Save(x) /\ Goto(x, "availability") /\ UNCHANGED copy
  <2>1. pc'[x] = "availability" /\ Live(h) \subseteq {copy[x].id}
      BY <1>0, <1>3 DEF Goto, Placed, Holding
  <2> QED
      BY <1>3, <2>1, LeavesSaved
<1> QED
    BY <1>1, <1>2, <1>3 DEF ProcessPlatformInventoryEventUpdateDevice

LEMMA AvailabilityLeaves ==
    ASSUME Inv, NEW x \in Actors, NEW h \in Hosts, h = event[x].host, Single(h), Placed(x, h),
           SetDeviceUpdateAvailability(x)
    PROVE  Leaves(x, h)
<1> DEFINE k == copy[x].id
           later == LaterImages(copy[x].image) # {}
<1>0. pc \in [Actors -> Handling \cup SyncPlaces] /\ copy \in [Actors -> Copies]
    BY InvTypes DEF Inv, TypeInv, TypeOK
<1>1. CASE Finish(x) /\ UNCHANGED row
    BY <1>1, FinishPlace, LeavesRows DEF Holding
<1>2. CASE k \in Live(h) /\ Hold(x, h, k) /\ Goto(x, "images") /\ UNCHANGED row
  <2>1. pc'[x] = "images" /\ copy'[x].id = k
      BY <1>0, <1>2 DEF Goto, Hold
  <2>2. Live(h) \subseteq {k}
      BY <1>2 DEF Single
  <2> QED
      BY <1>2, <2>1, <2>2, LeavesRows
<1>3. CASE /\ pc[x] = "images" /\ copy' = [copy EXCEPT ![x].update = later]
           /\ Goto(x, "saveAvailability") /\ UNCHANGED row
  <2>1. pc'[x] = "saveAvailability"
      BY <1>0, <1>3 DEF Goto
  <2>2. copy'[x].id = k
    <3> HIDE DEF later
    <3> QED
        BY <1>0, <1>3 DEF Copies
  <2>3. Live(h) \subseteq {k}
      BY <1>3 DEF Placed, Holding
  <2> QED
      BY <1>3, <2>1, <2>2, <2>3, LeavesRows
<1>4. CASE pc[x] = "saveAvailability" /\ Save(x) /\ Finish(x)
  <2>1. pc'[x] \in {"idle", "next"} /\ Live(h) \subseteq {k}
      BY <1>4, FinishPlace DEF Placed, Holding
  <2> QED
      BY <1>4, <2>1, LeavesSaved DEF Holding
<1> QED
    BY <1>1, <1>2, <1>3, <1>4 DEF SetDeviceUpdateAvailability

LEMMA DeleteLeaves ==
    ASSUME Inv, NEW x \in Actors, NEW h \in Hosts, h = event[x].host, Single(h),
           ProcessPlatformInventoryDeleteEvent(x)
    PROVE  Leaves(x, h)
<1>0. pc \in [Actors -> Handling \cup SyncPlaces] /\ row \in RowTable
    BY InvTypes DEF Inv, TypeInv, TypeOK, RowTable
<1>1. CASE Finish(x) /\ UNCHANGED row
    BY <1>1, FinishPlace, LeavesRows DEF Holding
<1>2. CASE Goto(x, "remove") /\ UNCHANGED row
    BY <1>0, <1>2, LeavesRows DEF Goto, Holding
<1>3. CASE RemoveRow(h, copy[x].id) /\ Finish(x)
  <2>1. pc'[x] \in {"idle", "next"}
      BY <1>3, FinishPlace
  <2>2. Live(h)' \subseteq Live(h)
      BY <1>3, RemoveRowTypes DEF Inv, Live
  <2>3. \A g \in Hosts : g # h => row'[g] = row[g]
      BY <1>0, <1>3 DEF RemoveRow, RowTable
  <2> QED
      BY <2>1, <2>2, <2>3 DEF Leaves, Single, Placed, Holding
<1> QED
    BY <1>1, <1>2, <1>3 DEF ProcessPlatformInventoryDeleteEvent

LEMMA HandlerLeaves ==
    ASSUME Inv, NEW x \in Actors, NEW h \in Hosts, h = event[x].host, Single(h), Placed(x, h),
           Handle(x)
    PROVE  Leaves(x, h)
BY UpdatedLeaves, CreatedLeaves, CheckLeaves, CreateLeaves, DeviceLeaves, AvailabilityLeaves,
   DeleteLeaves DEF Handle

\* The others stay where they are, with what they hold.
LEMMA HandlerOthers ==
    ASSUME Inv, NEW x \in Actors, Handle(x)
    PROVE  /\ \A y \in Actors \ {x} :
                  pc'[y] = pc[y] /\ event'[y] = event[y] /\ copy'[y] = copy[y]
           /\ event'[x] \in {event[x], NoEvent}
           /\ UNCHANGED contested
<1>0. /\ pc \in [Actors -> Handling \cup SyncPlaces]
      /\ event \in [Actors -> Events \cup {NoEvent}] /\ copy \in [Actors -> Copies]
    BY InvTypes DEF Inv, TypeInv, TypeOK
<1>1. HandlerStep(x)
    BY HandleIsHandlerStep DEF Inv
<1>2. UNCHANGED contested
    BY <1>1 DEF HandlerStep, handlerQuiet, historyVars
<1>3. /\ \A y \in Actors \ {x} : pc'[y] = pc[y] /\ event'[y] = event[y]
      /\ event'[x] \in {event[x], NoEvent}
    BY <1>0, <1>1 DEF HandlerStep, GoesOn, Ends
<1>4. \A y \in Actors \ {x} : copy'[y] = copy[y]
    BY <1>0 DEF Handle, ProcessPlatformInventoryUpdatedEvent, PlatformInventoryCreateEventHelper,
       BeforeCreate, Create, ProcessPlatformInventoryEventUpdateDevice,
       SetDeviceUpdateAvailability, ProcessPlatformInventoryDeleteEvent, Hold, Finish
<1> QED
    BY <1>2, <1>3, <1>4

LEMMA HandlerKeepsRow ==
    ASSUME Inv, RowInv, NEW x \in Actors, Handle(x)
    PROVE  RowInv'
<1>1. PICK h : h = event[x].host
    OBVIOUS
<1>2. h \in Hosts /\ event[x] \in Events /\ event[x] # NoEvent /\ x \in At(h) /\ pc[x] \in Handling
  <2>1. pc[x] \in Handling
      BY HandleIsHandlerStep DEF Inv, HandlerStep
  <2>2. event[x] \in Events /\ event[x].host \in Hosts
      BY <2>1, HandlerPlace DEF Inv
  <2> QED
      BY <1>1, <2>1, <2>2, EventsAreSome DEF At
<1>3. /\ \A y \in Actors \ {x} : pc'[y] = pc[y] /\ event'[y] = event[y] /\ copy'[y] = copy[y]
      /\ event'[x] \in {event[x], NoEvent}
      /\ contested' = contested
    BY HandlerOthers
<1>4. \A g \in Hosts : At(g)' \subseteq At(g)
    BY <1>3 DEF At
<1>5. h \notin contested => Leaves(x, h)
  <2> SUFFICES ASSUME h \notin contested  PROVE Leaves(x, h)
      OBVIOUS
  <2>1. Single(h) /\ Placed(x, h)
      BY <1>2 DEF RowInv, SingleInv, PlaceInv
  <2> QED
      BY <1>1, <1>2, <2>1, HandlerLeaves
<1>6. \A g \in Hosts : g # h => \A k \in RowIds : row'[g][k].live <=> row[g][k].live
  <2>1. HandlerStep(x)
      BY HandleIsHandlerStep DEF Inv
  <2> QED
      BY <1>1, <2>1, Zenon DEF HandlerStep, ChangesRow
<1>7. AloneInv'
    BY <1>3, <1>4 DEF AloneInv, RowInv
<1>8. SingleInv'
  <2> SUFFICES ASSUME NEW g \in Hosts, g \notin contested  PROVE Single(g)'
      BY <1>3 DEF SingleInv
  <2>1. CASE g = h
      BY <1>5, <2>1 DEF Leaves
  <2>2. CASE g # h
      BY <1>6, <2>2 DEF RowInv, SingleInv, Single, Live
  <2> QED
      BY <2>1, <2>2
<1>9. PlaceInv'
  <2> SUFFICES ASSUME NEW g \in Hosts, g \notin contested, NEW y \in At(g)', pc'[y] \in Handling
               PROVE  Placed(y, g)'
      BY <1>3 DEF PlaceInv
  <2>1. y \in At(g) /\ y \in Actors
      BY <1>4 DEF At
  <2>2. CASE g = h
    <3>1. y = x
        BY <1>2, <2>1, <2>2 DEF RowInv, AloneInv
    <3> QED
        BY <1>5, <2>2, <3>1 DEF Leaves
  <2>3. CASE g # h
    <3>1. y # x
        BY <1>1, <2>1, <2>3 DEF At
    <3>2. Live(g)' = Live(g) /\ pc'[y] = pc[y] /\ copy'[y] = copy[y]
        BY <1>3, <1>6, <2>1, <2>3, <3>1 DEF Live
    <3>3. Placed(y, g)
        BY <2>1, <3>2 DEF RowInv, PlaceInv
    <3> QED
        BY <3>2, <3>3 DEF Placed
  <2> QED
      BY <2>2, <2>3
<1> QED
    BY <1>7, <1>8, <1>9 DEF RowInv

\* Rows may go at any time, and whoever stays at a device stays as it was.
LEMMA FewerRows ==
    ASSUME RowInv, contested' = contested,
           \A g \in Hosts : Live(g)' \subseteq Live(g) /\ At(g)' \subseteq At(g),
           \A y \in Actors : pc'[y] \in Handling => pc'[y] = pc[y] /\ copy'[y] = copy[y]
    PROVE  RowInv'
<1>1. AloneInv'
    BY DEF RowInv, AloneInv
<1>2. SingleInv'
    BY DEF RowInv, SingleInv, Single
<1>3. PlaceInv'
  <2> SUFFICES ASSUME NEW g \in Hosts, g \notin contested, NEW y \in At(g)', pc'[y] \in Handling
               PROVE  Placed(y, g)'
      BY DEF PlaceInv
  <2>1. y \in At(g) /\ pc'[y] = pc[y] /\ copy'[y] = copy[y]
      BY DEF At
  <2>2. Placed(y, g)
      BY <2>1 DEF RowInv, PlaceInv
  <2> QED
      BY <2>1, <2>2 DEF Placed
<1> QED
    BY <1>1, <1>2, <1>3 DEF RowInv

\* Who takes up an event of a device is alone at it, or the device is contested.
LEMMA ApproachKeepsRow ==
    ASSUME Inv, RowInv, NEW x \in Actors, NEW e \in Events, Approach(x, e),
           NEW p \in Handling \ ({"insert"} \cup Holding), Goto(x, p), UNCHANGED <<row, copy>>
    PROVE  RowInv'
<1>1. /\ event'[x] = e /\ pc'[x] = p
      /\ \A y \in Actors \ {x} : event'[y] = event[y] /\ pc'[y] = pc[y]
    BY InvTypes DEF Approach, Goto
<1>2. contested \subseteq contested' /\ (e.host \in contested' \/ At(e.host) = {})
    BY DEF Approach
<1>3. \A g \in Hosts : At(g)' \subseteq At(g) \cup {x}
    BY <1>1 DEF At
<1>4. \A g \in Hosts : g # e.host => x \notin At(g)'
    BY <1>1 DEF At
<1>5. \A g \in Hosts \ contested' : At(g)' \subseteq At(g) \/ At(g)' \subseteq {x}
    BY <1>2, <1>3, <1>4
<1>6. AloneInv'
    BY <1>2, <1>5 DEF RowInv, AloneInv
<1>7. SingleInv'
    BY <1>2 DEF RowInv, SingleInv, Single, Live
<1>8. PlaceInv'
  <2> SUFFICES ASSUME NEW g \in Hosts, g \notin contested', NEW y \in At(g)', pc'[y] \in Handling
               PROVE  Placed(y, g)'
      BY DEF PlaceInv
  <2>1. CASE y = x
      BY <1>1, <2>1 DEF Placed
  <2>2. CASE y # x
    <3>1. y \in At(g) /\ pc'[y] = pc[y]
        BY <1>1, <1>3, <2>2 DEF At
    <3>2. Placed(y, g)
        BY <1>2, <3>1 DEF RowInv, PlaceInv
    <3> QED
        BY <3>1, <3>2 DEF Placed, Live
  <2> QED
      BY <2>1, <2>2
<1> QED
    BY <1>6, <1>7, <1>8 DEF RowInv

LEMMA FetchKeepsRow ==
    ASSUME Inv, RowInv, NEW h \in Hosts, Fetch(h)
    PROVE  RowInv'
<1> DEFINE e == Head(topic[h])
<1>1. topic[h] # <<>> /\ topic[h] \in Seq(Events)
    BY InvTypes DEF Fetch
<1>2. e \in Events
    BY <1>1, TailTypes
<1>3. e.type \in Handling \ ({"insert"} \cup Holding)
    BY <1>2 DEF Events, Handling, Holding
<1>4. Approach(Consumer, e) /\ Goto(Consumer, e.type) /\ UNCHANGED <<row, copy>>
    BY DEF Fetch
<1> QED
    BY <1>2, <1>3, <1>4, InvTypes, ApproachKeepsRow

LEMMA AddKeepsRow ==
    ASSUME Inv, RowInv, NEW s \in Syncs, AddMissing(s), UNCHANGED copy
    PROVE  RowInv'
<1>1. s \in Actors /\ UNCHANGED row /\ pc[s] = "next"
    BY DEF Actors, AddMissing
<1>2. CASE Goto(s, "idle") /\ UNCHANGED <<event, todo, contested>>
  <2>1. \A y \in Actors : pc'[y] \in Handling => pc'[y] = pc[y] /\ copy'[y] = copy[y]
      BY <1>1, <1>2, InvTypes DEF Goto, Handling
  <2> QED
      BY <1>1, <1>2, <2>1, FewerRows DEF At, Live
<1>3. CASE \E d \in todo[s] :
             /\ Approach(s, [type |-> "created", host |-> d[1], image |-> d[2]])
             /\ Goto(s, "created")
  <2>1. PICK d \in todo[s] :
             /\ Approach(s, [type |-> "created", host |-> d[1], image |-> d[2]])
             /\ Goto(s, "created")
      BY <1>3
  <2>2. d[1] \in Hosts /\ d[2] \in 0..MaxImage
      BY <1>1, SyncTypes DEF Adding
  <2>3. [type |-> "created", host |-> d[1], image |-> d[2]] \in Events
      BY <2>2 DEF Events
  <2>4. "created" \in Handling \ ({"insert"} \cup Holding)
      BY DEF Handling, Holding
  <2> QED
      BY <1>1, <2>1, <2>3, <2>4, ApproachKeepsRow
<1> QED
    BY <1>2, <1>3 DEF AddMissing

LEMMA SyncKeepsRow ==
    ASSUME Inv, RowInv, NEW s \in Syncs, Sync(s)
    PROVE  RowInv'
<1>1. SyncStep(s)
    BY SyncIsSyncStep
<1>2. copy' = copy /\ \A g \in Hosts : Live(g)' \subseteq Live(g)
    BY <1>1 DEF SyncStep, SyncRows, syncQuiet, Live
<1>3. CASE AddMissing(s)
    BY <1>2, <1>3, AddKeepsRow
<1>4. CASE \/ GetDevicesView(s) \/ SyncDevicesWithInventory(s) \/ RemoveMissing(s)
           \/ CompareTotals(s) \/ SyncInventoryWithDevices(s)
  <2>1. event' = event /\ contested' = contested
      BY <1>4 DEF GetDevicesView, SyncDevicesWithInventory, RemoveMissing, CompareTotals,
         SyncInventoryWithDevices
  <2>2. pc'[s] \notin Handling
      BY <1>4, InvTypes DEF GetDevicesView, SyncDevicesWithInventory, RemoveMissing,
         CompareTotals, SyncInventoryWithDevices, Goto, Handling
  <2>3. \A y \in Actors : y # s => pc'[y] = pc[y]
      BY <1>1, InvTypes DEF SyncStep, SyncMoves, SyncGoes
  <2> QED
      BY <1>2, <2>1, <2>2, <2>3, FewerRows DEF At
<1> QED
    BY <1>3, <1>4 DEF Sync

LEMMA InitRow == Init => RowInv
<1> SUFFICES ASSUME Init PROVE RowInv
    OBVIOUS
<1>1. \A h \in Hosts : Live(h) = {} /\ At(h) = {}
    BY DEF Init, Live, NoRow, At
<1> QED
    BY <1>1 DEF RowInv, AloneInv, SingleInv, Single, PlaceInv

LEMMA NextKeepsRow ==
    ASSUME Inv, RowInv, [Next]_vars
    PROVE  RowInv'
<1>1. ASSUME NEW h \in Hosts, Inventory(h)  PROVE RowInv'
    BY <1>1, FewerRows DEF Inventory, historyVars, Live, At
<1>2. ASSUME NEW h \in Hosts, Fetch(h)  PROVE RowInv'
    BY <1>2, FetchKeepsRow
<1>3. ASSUME NEW x \in Actors, Handle(x)  PROVE RowInv'
    BY <1>3, HandlerKeepsRow
<1>4. ASSUME NEW s \in Syncs, Sync(s)  PROVE RowInv'
    BY <1>4, SyncKeepsRow
<1>5. CASE SetDevicesUpdateAvailabilityFromImageSet
  <2>1. UNCHANGED <<pc, event, copy, contested>>
      BY <1>5 DEF SetDevicesUpdateAvailabilityFromImageSet, historyVars
  <2>2. \A h \in Hosts, k \in RowIds : row'[h][k].live = row[h][k].live
      BY <1>5, SetFlagTypes DEF SetDevicesUpdateAvailabilityFromImageSet
  <2> QED
      BY <2>1, <2>2, FewerRows DEF Live, At
<1>6. CASE Crash
  <2>1. UNCHANGED <<row, contested>>
      BY <1>6 DEF Crash
  <2>2. \A x \in Actors : pc'[x] \notin Handling /\ event'[x] = NoEvent
      BY <1>6 DEF Crash, Handling
  <2> QED
      BY <2>1, <2>2, FewerRows DEF Live, At
<1>7. CASE UNCHANGED vars
    BY <1>7, FewerRows DEF vars, historyVars, Live, At
<1> QED
    BY <1>1, <1>2, <1>3, <1>4, <1>5, <1>6, <1>7 DEF Next

LEMMA SingleIsOne ==
    ASSUME NEW h \in Hosts, Single(h)
    PROVE  Cardinality(Live(h)) <= 1
<1>1. CASE Live(h) = {}
    BY <1>1, FS_EmptySet
<1>2. CASE Live(h) # {}
  <2>1. PICK k \in Live(h) : TRUE
      BY <1>2
  <2>2. Live(h) = {k}
      BY <2>1 DEF Single
  <2> QED
      BY <2>2, FS_Singleton
<1> QED
    BY <1>1, <1>2

-------------------------------------------------------------------------------

\* Events, rows, copies and lists are well formed in every state, whatever the events
\* handled by the consumer and the synchronisations of devices.go do to each other.
THEOREM TypeCorrect == Spec => []TypeOK
<1>1. Init => Inv
    BY InitInv
<1>2. Inv /\ [Next]_vars => Inv'
    BY NextKeepsInv
<1>3. Inv => TypeOK
    BY DEF Inv, TypeInv
<1> QED
    BY <1>1, <1>2, <1>3, PTL DEF Spec

\* No device that the inventory has loses a row to an event or to a synchronisation of
\* devices.go, however old the list of rows and the answer of the inventory are, unless
\* the request for a chunk of devices has failed.
THEOREM PresentIsKeptCorrect == Spec => PresentIsKept
<1>1. Init => Inv
    BY InitInv
<1>2. Inv /\ [Next]_vars => Inv'
    BY NextKeepsInv
<1>3. Inv /\ [Next]_vars =>
          [\A h \in Hosts : \A k \in Live(h) :
              k \notin Live(h)' => state[h] = "gone" \/ mishap = "list"]_vars
    BY NextKeepsInv DEF RowsKept
<1> QED
    BY <1>1, <1>2, <1>3, PTL DEF Spec, PresentIsKept

\* A device of devices.go never comes to have two rows, whatever events are repeated and
\* whatever a synchronisation removes in between, unless two actors handled events of it at
\* a time: the table has no unique index, so nothing else prevents it.
THEOREM OneRowCorrect == Spec => []OneRow
<1> DEFINE IInv == Inv /\ RowInv
<1>1. Init => IInv
    BY InitInv, InitRow
<1>2. IInv /\ [Next]_vars => IInv'
    BY NextKeepsInv, NextKeepsRow
<1>3. IInv => OneRow
    BY SingleIsOne DEF OneRow, RowInv, SingleInv
<1> QED
    BY <1>1, <1>2, <1>3, PTL DEF Spec

====
