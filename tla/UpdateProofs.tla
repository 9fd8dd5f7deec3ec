----------------------------- MODULE UpdateProofs -----------------------------
(***************************************************************************)
(* Theorems of UpdateTransaction, for all requests, updates, devices and   *)
(* commits, with an interrupt and a crash.                                 *)
(***************************************************************************)
EXTENDS UpdateTransaction, TLAPS

\* The steps of Next, one by one.  A proof that a formula is preserved has a step
\* for each.
AtomicStep ==
    \/ \E u \in Updates : LoadDevice(u)
    \/ \E u \in Updates : CreateDisconnected(u)
    \/ \E u \in Updates : StoreDevice(u)
    \/ \E u \in Updates : CreateUpdateRow(u)
    \/ \E u \in Updates : BuildFails(u)
    \/ \E u \in Updates : CreateUpdateAsync(u)
    \/ \E u \in Updates : Begin(u)
    \/ \E u \in Updates : LoadUpdate(u)
    \/ \E u \in Updates : BuildUpdateRepo(u)
    \/ \E u \in Updates : BuildUpdateRepoFails(u)
    \/ \E u \in Updates : WriteTemplate(u)
    \/ \E u \in Updates : ExecuteDispatcher(u)
    \/ \E u \in Updates : DispatchFails(u)
    \/ \E u \in Updates : SaveDevice(u)
    \/ \E u \in Updates : SetUpdateStatus(u)
    \/ \E u \in Updates : SaveUpdate(u)
    \/ \E u \in Updates : WatchStops(u)
    \/ \E u \in Updates : WatchReads(u)
    \/ \E u \in Updates : WatchWrites(u)
    \/ \E u \in Updates : Fetch(u)
    \/ \E u \in Updates : FindRecord(u)
    \/ \E u \in Updates : SaveRecord(u)
    \/ \E u \in Updates : SaveRecordDevice(u)
    \/ \E u \in Updates : SetUpdateStatusBasedOnDispatchRecord(u)
    \/ \E u \in Updates : UpdateDevicesFromUpdateTransaction(u)
    \/ \E u \in Updates : CommitOffset(u)
    \/ \E u \in Updates, o \in Outcomes : RunEnds(u, o)
    \/ \E r \in Requests : SaveUpdates(r)
    \/ Interrupt
    \/ Crash
    \/ UNCHANGED vars

LEMMA AtomicSteps == [Next \/ Idle]_vars => AtomicStep
<1> SUFFICES ASSUME [Next \/ Idle]_vars
             PROVE  AtomicStep
    OBVIOUS
<1> USE DEF AtomicStep
<1>1. ASSUME NEW u \in Updates, HandlerStep(u)
      PROVE  AtomicStep
    BY <1>1 DEF HandlerStep
<1>2. ASSUME NEW u \in Updates, JobStep(u)
      PROVE  AtomicStep
    BY <1>2 DEF JobStep
<1>3. ASSUME NEW u \in Updates, WatchStep(u)
      PROVE  AtomicStep
    BY <1>3 DEF WatchStep
<1>4. ASSUME NEW u \in Updates, HandleEvent(u)
      PROVE  AtomicStep
    BY <1>4 DEF HandleEvent
<1>5. CASE Idle \/ UNCHANGED vars
    BY <1>5 DEF Idle
<1>6. QED
    BY <1>1, <1>2, <1>3, <1>4, <1>5 DEF Next

-------------------------------------------------------------------------------
(* Type correctness.                                                       *)

LEMMA FirstRows == \A d \in Devices : FirstRow(d) \in DeviceRow
BY UpdateAssumption DEF FirstRow, DeviceRow

LEMMA InitTypeOK == Init => TypeOK
<1> SUFFICES ASSUME Init
             PROVE  TypeOK
    OBVIOUS
<1>1. /\ local \in [Updates -> DeviceRow]
      /\ device \in [Devices -> DeviceRow]
    BY FirstRows, UpdateAssumption DEF Init
<1>2. /\ topic \in [Updates -> Seq(Outcomes)]
      /\ ran \in [Devices -> SUBSET Commits]
    BY UpdateAssumption DEF Init
<1>3. QED
    BY <1>1, <1>2 DEF Init, TypeOK, Statuses

\* What the other lemmas use of TypeOK.
LEMMA EventType ==
    ASSUME TypeOK
    PROVE  /\ consumer = NoEvent => consumer.at = "idle"
           /\ consumer # NoEvent =>
                /\ consumer.at \in {"fetched", "handled", "found", "recordSaved",
                                    "deviceSaved", "statusSet"}
                /\ consumer.update \in Updates
                /\ consumer.outcome \in Outcomes
           /\ consumer.at \in {"found", "recordSaved", "deviceSaved", "statusSet"} =>
                /\ consumer.row \in DeviceRow
                /\ consumer \in [at : {"found", "recordSaved", "deviceSaved", "statusSet"},
                                 update : Updates, outcome : Outcomes, row : DeviceRow]
BY DEF TypeOK, NoEvent

LEMMA RowFacts ==
    ASSUME TypeOK
    PROVE  /\ \A u \in Updates : Dev(u) \in DeviceRow /\ Commit(u) \in Commits
           /\ \A u \in Updates : local[u] \in DeviceRow
BY UpdateAssumption DEF TypeOK, Dev, Commit

LEMMA NextTypeOK == TypeOK /\ [Next \/ Idle]_vars => TypeOK'
<1> SUFFICES ASSUME TypeOK, AtomicStep
             PROVE  TypeOK'
    BY AtomicSteps
<1> USE DEF handlerVars, jobVars, rowVars, worldVars
<1>a. /\ built \in [Updates -> {"no", "loaded", "stored", "created", "skipped"}]
      /\ job \in [Updates -> {"none", "queued", "begun", "loaded", "built", "written",
                             "dispatched", "deviceSaved", "statusSet", "done"}]
      /\ status \in [Updates -> Statuses \cup {"none"}]
      /\ repo \in [Updates -> {"none", "BUILDING", "SUCCESS", "ERROR"}]
      /\ device \in [Devices -> DeviceRow]
      /\ topic \in [Updates -> Seq(Outcomes)]
      /\ lost \subseteq Updates
      /\ ran \in [Devices -> SUBSET Commits]
    BY DEF TypeOK
<1>1. ASSUME NEW u \in Updates, LoadDevice(u)
      PROVE  TypeOK'
    BY <1>1, RowFacts, UpdateAssumption DEF LoadDevice, TypeOK
<1>2. ASSUME NEW u \in Updates, CreateDisconnected(u)
      PROVE  TypeOK'
    BY <1>2 DEF CreateDisconnected, TypeOK, Statuses, Outcomes
<1>3. ASSUME NEW u \in Updates, StoreDevice(u)
      PROVE  TypeOK'
    <2>1. device' \in [Devices -> DeviceRow]
        <3>1. [local[u] EXCEPT !.available = Commit(u)] \in DeviceRow
            BY RowFacts DEF DeviceRow
        <3>2. QED
            BY <1>3, <1>a, <3>1 DEF StoreDevice
    <2>2. QED
        BY <1>3, <2>1 DEF StoreDevice, TypeOK
<1>4. ASSUME NEW u \in Updates, CreateUpdateRow(u)
      PROVE  TypeOK'
    <2>1. /\ status' \in [Updates -> Statuses \cup {"none"}]
          /\ repo' \in [Updates -> {"none", "BUILDING", "SUCCESS", "ERROR"}]
          /\ built' \in [Updates -> {"no", "loaded", "stored", "created", "skipped"}]
        BY <1>4, <1>a DEF CreateUpdateRow, Statuses
    <2>2. QED
        BY <1>4, <2>1 DEF CreateUpdateRow, TypeOK
<1>5. ASSUME NEW u \in Updates, BuildFails(u)
      PROVE  TypeOK'
    BY <1>5 DEF BuildFails, TypeOK, Statuses, Outcomes
<1>6. ASSUME NEW u \in Updates, CreateUpdateAsync(u)
      PROVE  TypeOK'
    BY <1>6 DEF CreateUpdateAsync, TypeOK, Statuses, Outcomes
<1>7. ASSUME NEW u \in Updates, Begin(u)
      PROVE  TypeOK'
    BY <1>7 DEF Begin, TypeOK, Statuses, Outcomes
<1>8. ASSUME NEW u \in Updates, LoadUpdate(u)
      PROVE  TypeOK'
    BY <1>8, RowFacts DEF LoadUpdate, TypeOK
<1>9. ASSUME NEW u \in Updates, BuildUpdateRepo(u)
      PROVE  TypeOK'
    BY <1>9 DEF BuildUpdateRepo, TypeOK, Statuses, Outcomes
<1>10. ASSUME NEW u \in Updates, BuildUpdateRepoFails(u)
      PROVE  TypeOK'
    BY <1>10 DEF BuildUpdateRepoFails, TypeOK, Statuses, Outcomes
<1>11. ASSUME NEW u \in Updates, WriteTemplate(u)
      PROVE  TypeOK'
    <2>1. /\ status' \in [Updates -> Statuses \cup {"none"}]
          /\ job' \in [Updates -> {"none", "queued", "begun", "loaded", "built", "written",
                                   "dispatched", "deviceSaved", "statusSet", "done"}]
        BY <1>11, <1>a DEF WriteTemplate, Statuses
    <2>2. QED
        BY <1>11, <2>1 DEF WriteTemplate, TypeOK
<1>12. ASSUME NEW u \in Updates, ExecuteDispatcher(u)
      PROVE  TypeOK'
    BY <1>12 DEF ExecuteDispatcher, TypeOK, Statuses, Outcomes
<1>13. ASSUME NEW u \in Updates, DispatchFails(u)
      PROVE  TypeOK'
    BY <1>13 DEF DispatchFails, TypeOK, Statuses, Outcomes
<1>14. ASSUME NEW u \in Updates, SaveDevice(u)
      PROVE  TypeOK'
    BY <1>14 DEF SaveDevice, TypeOK, Statuses, Outcomes
<1>15. ASSUME NEW u \in Updates, SetUpdateStatus(u)
      PROVE  TypeOK'
    BY <1>15 DEF SetUpdateStatus, TypeOK, Statuses, Outcomes
<1>16. ASSUME NEW u \in Updates, SaveUpdate(u)
      PROVE  TypeOK'
    BY <1>16 DEF SaveUpdate, TypeOK, Statuses, Outcomes
<1>17. ASSUME NEW u \in Updates, WatchStops(u)
      PROVE  TypeOK'
    BY <1>17 DEF WatchStops, TypeOK, Statuses, Outcomes
<1>18. ASSUME NEW u \in Updates, WatchReads(u)
      PROVE  TypeOK'
    BY <1>18 DEF WatchReads, TypeOK, Statuses, Outcomes
<1>19. ASSUME NEW u \in Updates, WatchWrites(u)
      PROVE  TypeOK'
    BY <1>19 DEF WatchWrites, TypeOK, Statuses, Outcomes
<1>20. ASSUME NEW u \in Updates, Fetch(u)
      PROVE  TypeOK'
    BY <1>20 DEF Fetch, TypeOK, Statuses, Outcomes
<1>21. ASSUME NEW u \in Updates, FindRecord(u)
      PROVE  TypeOK'
    <2>1. \/ consumer' \in [at : {"found", "recordSaved", "deviceSaved", "statusSet"},
                            update : Updates, outcome : Outcomes, row : DeviceRow]
          \/ consumer' \in [at : {"fetched", "handled"}, update : Updates, outcome : Outcomes]
        BY <1>21, EventType, RowFacts DEF FindRecord, Handled, NoEvent
    <2>2. lost' \subseteq Updates
        BY <1>21, <1>a DEF FindRecord
    <2>3. QED
        BY <1>21, <2>1, <2>2 DEF FindRecord, TypeOK
<1>22. ASSUME NEW u \in Updates, SaveRecord(u)
      PROVE  TypeOK'
    <2>1. consumer' \in [at : {"found", "recordSaved", "deviceSaved", "statusSet"},
                         update : Updates, outcome : Outcomes, row : DeviceRow]
        BY <1>22, EventType DEF SaveRecord
    <2>2. QED
        BY <1>22, <2>1 DEF SaveRecord, TypeOK
<1>23. ASSUME NEW u \in Updates, SaveRecordDevice(u)
      PROVE  TypeOK'
    <2>1. device' \in [Devices -> DeviceRow]
        BY <1>23, <1>a, EventType DEF SaveRecordDevice, DeviceRow
    <2>2. consumer' \in [at : {"found", "recordSaved", "deviceSaved", "statusSet"},
                         update : Updates, outcome : Outcomes, row : DeviceRow]
        BY <1>23, EventType DEF SaveRecordDevice
    <2>3. QED
        BY <1>23, <2>1, <2>2 DEF SaveRecordDevice, TypeOK
<1>24. ASSUME NEW u \in Updates, SetUpdateStatusBasedOnDispatchRecord(u)
      PROVE  TypeOK'
    <2>1. status' \in [Updates -> Statuses \cup {"none"}]
        BY <1>24, <1>a DEF SetUpdateStatusBasedOnDispatchRecord, Statuses
    <2>2. \/ consumer' \in [at : {"found", "recordSaved", "deviceSaved", "statusSet"},
                            update : Updates, outcome : Outcomes, row : DeviceRow]
          \/ consumer' \in [at : {"fetched", "handled"}, update : Updates, outcome : Outcomes]
        BY <1>24, EventType DEF SetUpdateStatusBasedOnDispatchRecord, Handled, NoEvent
    <2>3. QED
        BY <1>24, <2>1, <2>2 DEF SetUpdateStatusBasedOnDispatchRecord, TypeOK
<1>25. ASSUME NEW u \in Updates, UpdateDevicesFromUpdateTransaction(u)
      PROVE  TypeOK'
    <2>1. device' \in [Devices -> DeviceRow]
        <3>1. [Dev(u) EXCEPT !.image = Commit(u)] \in DeviceRow
            BY RowFacts DEF DeviceRow
        <3>2. QED
            BY <1>25, <1>a, <3>1 DEF UpdateDevicesFromUpdateTransaction, Dev
    <2>2. consumer' \in [at : {"fetched", "handled"}, update : Updates, outcome : Outcomes]
        BY <1>25, EventType DEF UpdateDevicesFromUpdateTransaction, Handled, NoEvent
    <2>3. QED
        BY <1>25, <2>1, <2>2 DEF UpdateDevicesFromUpdateTransaction, TypeOK
<1>26. ASSUME NEW u \in Updates, CommitOffset(u)
      PROVE  TypeOK'
    BY <1>26 DEF CommitOffset, TypeOK, Statuses, Outcomes
<1>27. ASSUME NEW u \in Updates, NEW o \in Outcomes, RunEnds(u, o)
      PROVE  TypeOK'
    <2>1. Append(topic[u], o) \in Seq(Outcomes)
        BY <1>a
    <2>2. topic' \in [Updates -> Seq(Outcomes)]
        BY <1>27, <1>a, <2>1 DEF RunEnds
    <2>3. ran' \in [Devices -> SUBSET Commits]
        BY <1>27, <1>a, RowFacts DEF RunEnds
    <2>4. QED
        BY <1>27, <2>2, <2>3 DEF RunEnds, TypeOK
<1>28. ASSUME NEW r \in Requests, SaveUpdates(r)
      PROVE  TypeOK'
    <2>1. status' \in [Updates -> Statuses \cup {"none"}]
        BY <1>28, <1>a DEF SaveUpdates, Statuses
    <2>2. QED
        BY <1>28, <2>1 DEF SaveUpdates, TypeOK
<1>29. CASE Interrupt
    BY <1>29 DEF Interrupt, TypeOK, Statuses, Outcomes
<1>30. CASE Crash
    <2>1. /\ handler' \in [Requests -> {"idle", "build", "done"}]
          /\ job' \in [Updates -> {"none", "queued", "begun", "loaded", "built", "written",
                                   "dispatched", "deviceSaved", "statusSet", "done"}]
          /\ watch' \in [Updates -> {"none", "signalled", "read"}]
        BY <1>30 DEF Crash, TypeOK
    <2>2. topic' \in [Updates -> Seq(Outcomes)]
        <3>1. CASE topic' = topic
            BY <1>a, <3>1
        <3>2. CASE consumer # NoEvent
                   /\ topic' = [topic EXCEPT ![consumer.update] = <<consumer.outcome>> \o @]
            <4>1. ASSUME NEW u \in Updates
                  PROVE  <<consumer.outcome>> \o topic[u] \in Seq(Outcomes)
                BY <1>a, <3>2, EventType
            <4>2. QED
                BY <1>a, <3>2, <4>1
        <3>3. QED
            BY <1>30, <3>1, <3>2 DEF Crash
    <2>3. lost' \subseteq Updates
        BY <1>30, <1>a, EventType DEF Crash
    <2>4. QED
        BY <1>30, <2>1, <2>2, <2>3 DEF Crash, TypeOK
<1>31. CASE UNCHANGED vars
    BY <1>31 DEF vars, TypeOK, Statuses, Outcomes
<1>32. QED
    BY <1>1, <1>2, <1>3, <1>4, <1>5, <1>6, <1>7, <1>8, <1>9, <1>10, <1>11, <1>12,
       <1>13, <1>14, <1>15, <1>16, <1>17, <1>18, <1>19, <1>20, <1>21, <1>22, <1>23,
       <1>24, <1>25, <1>26, <1>27, <1>28, <1>29, <1>30, <1>31 DEF AtomicStep

\* The variables keep their types through every interleaving, interrupt and crash.
THEOREM TypeCorrect == Spec => []TypeOK
BY InitTypeOK, NextTypeOK, PTL DEF Spec

-------------------------------------------------------------------------------
(* The inductive invariant of SuccessIsReal.                               *)

Beyond == {"found", "recordSaved", "deviceSaved", "statusSet"}
Undispatched == {"none", "queued", "begun", "loaded", "built", "written"}

\* A job has no run before it dispatches one and no record before it has ended, and
\* a status it carries along is not SUCCESS; the consumer goes beyond FindRecord with
\* a recorded run only.
JobInv(u) ==
    /\ job[u] \in Undispatched => run[u] = "none"
    /\ job[u] # "done" => record[u] = "none"
    /\ mem[u] # "SUCCESS"
    /\ Handling(u) /\ consumer.at \in Beyond => record[u] # "none"

\* A success that is pending, or in the hands of the consumer, is the last event of
\* a run that succeeded, and once it is recorded no other event is left.
EventInv(u) ==
    /\ \A i \in 1..Len(topic[u]) :
          /\ topic[u][i] = "success" => run[u] = "success"
          /\ topic[u][i] # "success" => record[u] # "COMPLETE"
          /\ \A k \in 1..Len(topic[u]) :
                i < k /\ topic[u][i] = "success" => topic[u][k] = "success"
    /\ Handling(u) =>
          /\ consumer.outcome = "success" =>
                /\ run[u] = "success"
                /\ \A i \in 1..Len(topic[u]) : topic[u][i] = "success"
          /\ consumer.outcome # "success" => record[u] # "COMPLETE"

\* What the rows say of success.
StatusInv(u) ==
    /\ record[u] = "COMPLETE" => run[u] = "success"
    /\ status[u] = "SUCCESS" => record[u] = "COMPLETE"
    /\ Handling(u) /\ consumer.at = "statusSet" => run[u] = "success"

SuccessInv == \A u \in Updates : JobInv(u) /\ EventInv(u) /\ StatusInv(u)

\* What the proofs use of TypeOK.
LEMMA RowTypes ==
    ASSUME TypeOK
    PROVE  /\ job \in [Updates -> {"none", "queued", "begun", "loaded", "built", "written",
                                  "dispatched", "deviceSaved", "statusSet", "done"}]
           /\ mem \in [Updates -> Statuses \cup {"none"}]
           /\ status \in [Updates -> Statuses \cup {"none"}]
           /\ record \in [Updates -> {"none", "CREATED", "COMPLETE", "ERROR"}]
           /\ run \in [Updates -> Outcomes \cup {"none", "running"}]
           /\ topic \in [Updates -> Seq(Outcomes)]
BY DEF TypeOK

LEMMA InitSuccessInv == Init => SuccessInv
BY DEF Init, SuccessInv, Undispatched, JobInv, EventInv, StatusInv, Handling, NoEvent

LEMMA NextJobInv ==
    ASSUME TypeOK, SuccessInv, AtomicStep, NEW v \in Updates
    PROVE  JobInv(v)'
<1> USE DEF JobInv, Handling, Beyond, Undispatched, handlerVars, jobVars, rowVars, worldVars
<1>t. JobInv(v) /\ StatusInv(v)
    BY DEF SuccessInv
<1>1. ASSUME NEW u \in Updates, LoadDevice(u)
      PROVE  JobInv(v)'
    BY <1>1, <1>t DEF LoadDevice
<1>2. ASSUME NEW u \in Updates, CreateDisconnected(u)
      PROVE  JobInv(v)'
    BY <1>2, <1>t DEF CreateDisconnected
<1>3. ASSUME NEW u \in Updates, StoreDevice(u)
      PROVE  JobInv(v)'
    BY <1>3, <1>t DEF StoreDevice
<1>4. ASSUME NEW u \in Updates, CreateUpdateRow(u)
      PROVE  JobInv(v)'
    BY <1>4, <1>t DEF CreateUpdateRow
<1>5. ASSUME NEW u \in Updates, BuildFails(u)
      PROVE  JobInv(v)'
    BY <1>5, <1>t DEF BuildFails
<1>6. ASSUME NEW u \in Updates, CreateUpdateAsync(u)
      PROVE  JobInv(v)'
    BY <1>6, <1>t, RowTypes DEF CreateUpdateAsync
<1>7. ASSUME NEW u \in Updates, Begin(u)
      PROVE  JobInv(v)'
    BY <1>7, <1>t, RowTypes DEF Begin
<1>8. ASSUME NEW u \in Updates, LoadUpdate(u)
      PROVE  JobInv(v)'
    BY <1>8, <1>t, RowTypes DEF LoadUpdate, StatusInv
<1>9. ASSUME NEW u \in Updates, BuildUpdateRepo(u)
      PROVE  JobInv(v)'
    BY <1>9, <1>t, RowTypes DEF BuildUpdateRepo
<1>10. ASSUME NEW u \in Updates, BuildUpdateRepoFails(u)
      PROVE  JobInv(v)'
    BY <1>10, <1>t, RowTypes DEF BuildUpdateRepoFails
<1>11. ASSUME NEW u \in Updates, WriteTemplate(u)
      PROVE  JobInv(v)'
    BY <1>11, <1>t, RowTypes DEF WriteTemplate
<1>12. ASSUME NEW u \in Updates, ExecuteDispatcher(u)
      PROVE  JobInv(v)'
    BY <1>12, <1>t, RowTypes DEF ExecuteDispatcher
<1>13. ASSUME NEW u \in Updates, DispatchFails(u)
      PROVE  JobInv(v)'
    BY <1>13, <1>t, RowTypes DEF DispatchFails
<1>14. ASSUME NEW u \in Updates, SaveDevice(u)
      PROVE  JobInv(v)'
    BY <1>14, <1>t, RowTypes DEF SaveDevice
<1>15. ASSUME NEW u \in Updates, SetUpdateStatus(u)
      PROVE  JobInv(v)'
    BY <1>15, <1>t, RowTypes DEF SetUpdateStatus
<1>16. ASSUME NEW u \in Updates, SaveUpdate(u)
      PROVE  JobInv(v)'
    BY <1>16, <1>t, RowTypes DEF SaveUpdate
<1>17. ASSUME NEW u \in Updates, WatchStops(u)
      PROVE  JobInv(v)'
    BY <1>17, <1>t DEF WatchStops
<1>18. ASSUME NEW u \in Updates, WatchReads(u)
      PROVE  JobInv(v)'
    BY <1>18, <1>t DEF WatchReads
<1>19. ASSUME NEW u \in Updates, WatchWrites(u)
      PROVE  JobInv(v)'
    BY <1>19, <1>t DEF WatchWrites
<1>20. ASSUME NEW u \in Updates, Fetch(u)
      PROVE  JobInv(v)'
    BY <1>20, <1>t, RowTypes, EventType DEF Fetch, Handled, NoEvent
<1>21. ASSUME NEW u \in Updates, FindRecord(u)
      PROVE  JobInv(v)'
    BY <1>21, <1>t, RowTypes, EventType DEF FindRecord, Handled, NoEvent
<1>22. ASSUME NEW u \in Updates, SaveRecord(u)
      PROVE  JobInv(v)'
    BY <1>22, <1>t, RowTypes, EventType DEF SaveRecord, Handled, NoEvent
<1>23. ASSUME NEW u \in Updates, SaveRecordDevice(u)
      PROVE  JobInv(v)'
    BY <1>23, <1>t, RowTypes, EventType DEF SaveRecordDevice, Handled, NoEvent
<1>24. ASSUME NEW u \in Updates, SetUpdateStatusBasedOnDispatchRecord(u)
      PROVE  JobInv(v)'
    BY <1>24, <1>t, RowTypes, EventType DEF SetUpdateStatusBasedOnDispatchRecord, Handled, NoEvent
<1>25. ASSUME NEW u \in Updates, UpdateDevicesFromUpdateTransaction(u)
      PROVE  JobInv(v)'
    BY <1>25, <1>t, RowTypes, EventType DEF UpdateDevicesFromUpdateTransaction, Handled, NoEvent
<1>26. ASSUME NEW u \in Updates, CommitOffset(u)
      PROVE  JobInv(v)'
    BY <1>26, <1>t, RowTypes, EventType DEF CommitOffset, Handled, NoEvent
<1>27. ASSUME NEW u \in Updates, NEW o \in Outcomes, RunEnds(u, o)
      PROVE  JobInv(v)'
    BY <1>27, <1>t, RowTypes DEF RunEnds
<1>28. ASSUME NEW r \in Requests, SaveUpdates(r)
      PROVE  JobInv(v)'
    BY <1>28, <1>t DEF SaveUpdates
<1>29. CASE Interrupt
    BY <1>29, <1>t DEF Interrupt
<1>30. CASE Crash
    BY <1>30, <1>t, RowTypes DEF Crash, NoEvent
<1>31. CASE UNCHANGED vars
    BY <1>31, <1>t DEF vars
<1>32. QED
    BY <1>1, <1>2, <1>3, <1>4, <1>5, <1>6, <1>7, <1>8, <1>9, <1>10, <1>11, <1>12,
       <1>13, <1>14, <1>15, <1>16, <1>17, <1>18, <1>19, <1>20, <1>21, <1>22, <1>23,
       <1>24, <1>25, <1>26, <1>27, <1>28, <1>29, <1>30, <1>31 DEF AtomicStep

LEMMA NextStatusInv ==
    ASSUME TypeOK, SuccessInv, AtomicStep, NEW v \in Updates
    PROVE  StatusInv(v)'
<1> USE DEF StatusInv, Handling, handlerVars, jobVars, rowVars, worldVars
<1>t. JobInv(v) /\ EventInv(v) /\ StatusInv(v)
    BY DEF SuccessInv
<1>1. ASSUME NEW u \in Updates, LoadDevice(u)
      PROVE  StatusInv(v)'
    BY <1>1, <1>t DEF LoadDevice
<1>2. ASSUME NEW u \in Updates, CreateDisconnected(u)
      PROVE  StatusInv(v)'
    BY <1>2, <1>t, RowTypes DEF CreateDisconnected, JobInv
<1>3. ASSUME NEW u \in Updates, StoreDevice(u)
      PROVE  StatusInv(v)'
    BY <1>3, <1>t DEF StoreDevice
<1>4. ASSUME NEW u \in Updates, CreateUpdateRow(u)
      PROVE  StatusInv(v)'
    BY <1>4, <1>t, RowTypes DEF CreateUpdateRow, JobInv
<1>5. ASSUME NEW u \in Updates, BuildFails(u)
      PROVE  StatusInv(v)'
    BY <1>5, <1>t DEF BuildFails
<1>6. ASSUME NEW u \in Updates, CreateUpdateAsync(u)
      PROVE  StatusInv(v)'
    BY <1>6, <1>t DEF CreateUpdateAsync
<1>7. ASSUME NEW u \in Updates, Begin(u)
      PROVE  StatusInv(v)'
    BY <1>7, <1>t, RowTypes DEF Begin, JobInv
<1>8. ASSUME NEW u \in Updates, LoadUpdate(u)
      PROVE  StatusInv(v)'
    BY <1>8, <1>t DEF LoadUpdate
<1>9. ASSUME NEW u \in Updates, BuildUpdateRepo(u)
      PROVE  StatusInv(v)'
    BY <1>9, <1>t, RowTypes DEF BuildUpdateRepo, JobInv
<1>10. ASSUME NEW u \in Updates, BuildUpdateRepoFails(u)
      PROVE  StatusInv(v)'
    BY <1>10, <1>t, RowTypes DEF BuildUpdateRepoFails, JobInv
<1>11. ASSUME NEW u \in Updates, WriteTemplate(u)
      PROVE  StatusInv(v)'
    BY <1>11, <1>t, RowTypes DEF WriteTemplate, JobInv
<1>12. ASSUME NEW u \in Updates, ExecuteDispatcher(u)
      PROVE  StatusInv(v)'
    <2>1. job[u] = "written"
        BY <1>12 DEF ExecuteDispatcher
    <2>2. record[u] = "none"
        BY <2>1 DEF SuccessInv, JobInv
    <2>3. status' = status /\ record' = record /\ consumer' = consumer
        BY <1>12 DEF ExecuteDispatcher
    <2>4. run'[v] = run[v] \/ v = u
        BY <1>12 DEF ExecuteDispatcher
    <2>5. ~(Handling(u) /\ consumer.at = "statusSet")
        BY <2>2 DEF SuccessInv, JobInv, Beyond
    <2>6. QED
        BY <2>2, <2>3, <2>4, <2>5, <1>t
<1>13. ASSUME NEW u \in Updates, DispatchFails(u)
      PROVE  StatusInv(v)'
    BY <1>13, <1>t, RowTypes DEF DispatchFails, JobInv
<1>14. ASSUME NEW u \in Updates, SaveDevice(u)
      PROVE  StatusInv(v)'
    BY <1>14, <1>t DEF SaveDevice
<1>15. ASSUME NEW u \in Updates, SetUpdateStatus(u)
      PROVE  StatusInv(v)'
    BY <1>15, <1>t, RowTypes DEF SetUpdateStatus, JobInv
<1>16. ASSUME NEW u \in Updates, SaveUpdate(u)
      PROVE  StatusInv(v)'
    BY <1>16, <1>t, RowTypes DEF SaveUpdate, JobInv
<1>17. ASSUME NEW u \in Updates, WatchStops(u)
      PROVE  StatusInv(v)'
    BY <1>17, <1>t DEF WatchStops
<1>18. ASSUME NEW u \in Updates, WatchReads(u)
      PROVE  StatusInv(v)'
    BY <1>18, <1>t DEF WatchReads
<1>19. ASSUME NEW u \in Updates, WatchWrites(u)
      PROVE  StatusInv(v)'
    BY <1>19, <1>t, RowTypes DEF WatchWrites, JobInv
<1>20. ASSUME NEW u \in Updates, Fetch(u)
      PROVE  StatusInv(v)'
    BY <1>20, <1>t, RowTypes, EventType DEF Fetch, Handled, NoEvent
<1>21. ASSUME NEW u \in Updates, FindRecord(u)
      PROVE  StatusInv(v)'
    BY <1>21, <1>t, RowTypes, EventType DEF FindRecord, Handled, NoEvent
<1>22. ASSUME NEW u \in Updates, SaveRecord(u)
      PROVE  StatusInv(v)'
    BY <1>22, <1>t, RowTypes, EventType DEF SaveRecord, EventInv
<1>23. ASSUME NEW u \in Updates, SaveRecordDevice(u)
      PROVE  StatusInv(v)'
    BY <1>23, <1>t, RowTypes, EventType DEF SaveRecordDevice, Handled, NoEvent
<1>24. ASSUME NEW u \in Updates, SetUpdateStatusBasedOnDispatchRecord(u)
      PROVE  StatusInv(v)'
    <2> USE DEF SetUpdateStatusBasedOnDispatchRecord
    <2>1. /\ record' = record /\ run' = run
          /\ consumer.at = "deviceSaved" /\ consumer.update = u
        BY <1>24
    <2>2. status'[v] = "SUCCESS" => record[v] = "COMPLETE"
        BY <1>24, <1>t, RowTypes
    <2>3. consumer'.at = "statusSet" =>
              /\ consumer' = [consumer EXCEPT !.at = "statusSet"]
              /\ record[u] = "COMPLETE"
        <3>1. CASE record[u] = "COMPLETE" /\ consumer' = [consumer EXCEPT !.at = "statusSet"]
            BY <3>1
        <3>2. CASE consumer' = Handled
            BY <3>2 DEF Handled
        <3>3. QED
            BY <1>24, <3>1, <3>2
    <2>4. consumer'.at = "statusSet" => consumer'.update = u /\ record[u] = "COMPLETE"
        BY <2>1, <2>3, EventType
    <2>5. QED
        BY <2>1, <2>2, <2>4, <1>t
<1>25. ASSUME NEW u \in Updates, UpdateDevicesFromUpdateTransaction(u)
      PROVE  StatusInv(v)'
    BY <1>25, <1>t, RowTypes, EventType DEF UpdateDevicesFromUpdateTransaction, Handled, NoEvent
<1>26. ASSUME NEW u \in Updates, CommitOffset(u)
      PROVE  StatusInv(v)'
    BY <1>26, <1>t, RowTypes, EventType DEF CommitOffset, Handled, NoEvent
<1>27. ASSUME NEW u \in Updates, NEW o \in Outcomes, RunEnds(u, o)
      PROVE  StatusInv(v)'
    BY <1>27, <1>t, RowTypes DEF RunEnds
<1>28. ASSUME NEW r \in Requests, SaveUpdates(r)
      PROVE  StatusInv(v)'
    BY <1>28, <1>t, RowTypes DEF SaveUpdates
<1>29. CASE Interrupt
    BY <1>29, <1>t DEF Interrupt
<1>30. CASE Crash
    BY <1>30, <1>t DEF Crash, NoEvent
<1>31. CASE UNCHANGED vars
    BY <1>31, <1>t DEF vars
<1>32. QED
    BY <1>1, <1>2, <1>3, <1>4, <1>5, <1>6, <1>7, <1>8, <1>9, <1>10, <1>11, <1>12,
       <1>13, <1>14, <1>15, <1>16, <1>17, <1>18, <1>19, <1>20, <1>21, <1>22, <1>23,
       <1>24, <1>25, <1>26, <1>27, <1>28, <1>29, <1>30, <1>31 DEF AtomicStep

LEMMA NextEventInv ==
    ASSUME TypeOK, SuccessInv, AtomicStep, NEW v \in Updates
    PROVE  EventInv(v)'
<1> USE DEF EventInv, Handling, handlerVars, jobVars, rowVars, worldVars
<1>t. JobInv(v) /\ EventInv(v) /\ StatusInv(v)
    BY DEF SuccessInv
<1>1. ASSUME NEW u \in Updates, LoadDevice(u)
      PROVE  EventInv(v)'
    BY <1>1, <1>t DEF LoadDevice
<1>2. ASSUME NEW u \in Updates, CreateDisconnected(u)
      PROVE  EventInv(v)'
    BY <1>2, <1>t DEF CreateDisconnected
<1>3. ASSUME NEW u \in Updates, StoreDevice(u)
      PROVE  EventInv(v)'
    BY <1>3, <1>t DEF StoreDevice
<1>4. ASSUME NEW u \in Updates, CreateUpdateRow(u)
      PROVE  EventInv(v)'
    BY <1>4, <1>t DEF CreateUpdateRow
<1>5. ASSUME NEW u \in Updates, BuildFails(u)
      PROVE  EventInv(v)'
    BY <1>5, <1>t DEF BuildFails
<1>6. ASSUME NEW u \in Updates, CreateUpdateAsync(u)
      PROVE  EventInv(v)'
    BY <1>6, <1>t DEF CreateUpdateAsync
<1>7. ASSUME NEW u \in Updates, Begin(u)
      PROVE  EventInv(v)'
    BY <1>7, <1>t DEF Begin
<1>8. ASSUME NEW u \in Updates, LoadUpdate(u)
      PROVE  EventInv(v)'
    BY <1>8, <1>t DEF LoadUpdate
<1>9. ASSUME NEW u \in Updates, BuildUpdateRepo(u)
      PROVE  EventInv(v)'
    BY <1>9, <1>t DEF BuildUpdateRepo
<1>10. ASSUME NEW u \in Updates, BuildUpdateRepoFails(u)
      PROVE  EventInv(v)'
    BY <1>10, <1>t DEF BuildUpdateRepoFails
<1>11. ASSUME NEW u \in Updates, WriteTemplate(u)
      PROVE  EventInv(v)'
    BY <1>11, <1>t DEF WriteTemplate
<1>12. ASSUME NEW u \in Updates, ExecuteDispatcher(u)
      PROVE  EventInv(v)'
    <2>1. job[u] = "written"
        BY <1>12 DEF ExecuteDispatcher
    <2>2. topic' = topic /\ record' = record /\ consumer' = consumer
        BY <1>12 DEF ExecuteDispatcher
    <2>3. run'[v] = run[v] \/ v = u
        BY <1>12 DEF ExecuteDispatcher
    <2>4. run[v] = "success" => run'[v] = "success"
        BY <1>12, <2>1, <2>3, <1>t DEF JobInv, Undispatched
    <2>5. QED
        BY <2>2, <2>4, <1>t
<1>13. ASSUME NEW u \in Updates, DispatchFails(u)
      PROVE  EventInv(v)'
    BY <1>13, <1>t, RowTypes DEF DispatchFails
<1>14. ASSUME NEW u \in Updates, SaveDevice(u)
      PROVE  EventInv(v)'
    BY <1>14, <1>t DEF SaveDevice
<1>15. ASSUME NEW u \in Updates, SetUpdateStatus(u)
      PROVE  EventInv(v)'
    BY <1>15, <1>t DEF SetUpdateStatus
<1>16. ASSUME NEW u \in Updates, SaveUpdate(u)
      PROVE  EventInv(v)'
    BY <1>16, <1>t, RowTypes DEF SaveUpdate
<1>17. ASSUME NEW u \in Updates, WatchStops(u)
      PROVE  EventInv(v)'
    BY <1>17, <1>t DEF WatchStops
<1>18. ASSUME NEW u \in Updates, WatchReads(u)
      PROVE  EventInv(v)'
    BY <1>18, <1>t DEF WatchReads
<1>19. ASSUME NEW u \in Updates, WatchWrites(u)
      PROVE  EventInv(v)'
    BY <1>19, <1>t DEF WatchWrites
<1>20. ASSUME NEW u \in Updates, Fetch(u)
      PROVE  EventInv(v)'
    <2>1. CASE v # u
        <3>1. topic'[v] = topic[v] /\ run' = run /\ record' = record
            BY <1>20, <2>1, RowTypes DEF Fetch
        <3>2. ~Handling(v)'
            BY <1>20, <2>1 DEF Fetch
        <3>3. QED
            BY <3>1, <3>2, <1>t
    <2>2. CASE v = u
        <3>1. topic[v] \in Seq(Outcomes) /\ topic[v] # <<>>
            BY <1>20, <2>2, RowTypes DEF Fetch
        <3>2. /\ topic'[v] = Tail(topic[v]) /\ run' = run /\ record' = record
              /\ consumer'.outcome = topic[v][1]
            BY <1>20, <2>2, <3>1, RowTypes DEF Fetch
        <3>3. /\ Len(topic'[v]) = Len(topic[v]) - 1
              /\ \A i \in 1..Len(topic'[v]) : topic'[v][i] = topic[v][i + 1]
              /\ Len(topic[v]) \in Nat /\ 1 \in 1..Len(topic[v])
              /\ \A i \in 1..Len(topic'[v]) : i + 1 \in 1..Len(topic[v]) /\ 1 < i + 1
            BY <3>1, <3>2
        <3>4. \A i \in 1..Len(topic'[v]) :
                  /\ topic'[v][i] = "success" => run'[v] = "success"
                  /\ topic'[v][i] # "success" => record'[v] # "COMPLETE"
                  /\ consumer'.outcome = "success" => topic'[v][i] = "success"
            BY <3>2, <3>3, <1>t
        <3>5. \A i, k \in 1..Len(topic'[v]) :
                  i < k /\ topic'[v][i] = "success" => topic'[v][k] = "success"
            <4>1. ASSUME NEW i \in 1..Len(topic'[v]), NEW k \in 1..Len(topic'[v]),
                         i < k, topic'[v][i] = "success"
                  PROVE  topic'[v][k] = "success"
                <5>1. i + 1 \in 1..Len(topic[v]) /\ k + 1 \in 1..Len(topic[v]) /\ i + 1 < k + 1
                    BY <3>3, <4>1
                <5>2. QED
                    BY <5>1, <3>3, <4>1, <1>t
            <4>2. QED
                BY <4>1
        <3>6. /\ consumer'.outcome = "success" => run'[v] = "success"
              /\ consumer'.outcome # "success" => record'[v] # "COMPLETE"
            BY <3>2, <3>3, <1>t
        <3>7. QED
            BY <3>4, <3>5, <3>6
    <2>3. QED
        BY <2>1, <2>2
<1>21. ASSUME NEW u \in Updates, FindRecord(u)
      PROVE  EventInv(v)'
    <2>1. /\ consumer'.update = consumer.update /\ consumer'.outcome = consumer.outcome
          /\ consumer # NoEvent
        BY <1>21 DEF FindRecord, Handled, NoEvent
    <2>2. record' = record /\ run' = run /\ topic' = topic
        BY <1>21 DEF FindRecord
    <2>3. QED
        BY <2>1, <2>2, <1>t
<1>22. ASSUME NEW u \in Updates, SaveRecord(u)
      PROVE  EventInv(v)'
    <2>1. /\ consumer'.update = u /\ consumer'.outcome = consumer.outcome
          /\ consumer # NoEvent /\ consumer.update = u
        BY <1>22, EventType DEF SaveRecord, NoEvent
    <2>2. run' = run /\ topic' = topic
        BY <1>22 DEF SaveRecord
    <2>3. /\ record'[v] = record[v] \/ v = u
          /\ v = u => (record'[v] = "COMPLETE" <=> consumer.outcome = "success")
        BY <1>22, RowTypes DEF SaveRecord
    <2>4. QED
        BY <2>1, <2>2, <2>3, <1>t
<1>23. ASSUME NEW u \in Updates, SaveRecordDevice(u)
      PROVE  EventInv(v)'
    BY <1>23, <1>t, EventType DEF SaveRecordDevice, Handled, NoEvent
<1>24. ASSUME NEW u \in Updates, SetUpdateStatusBasedOnDispatchRecord(u)
      PROVE  EventInv(v)'
    <2>1. /\ consumer'.update = consumer.update /\ consumer'.outcome = consumer.outcome
          /\ consumer # NoEvent
        <3>1. CASE consumer' = [consumer EXCEPT !.at = "statusSet"]
            BY <1>24, <3>1, EventType DEF SetUpdateStatusBasedOnDispatchRecord, NoEvent
        <3>2. CASE consumer' = Handled
            BY <1>24, <3>2 DEF SetUpdateStatusBasedOnDispatchRecord, Handled, NoEvent
        <3>3. QED
            BY <1>24, <3>1, <3>2 DEF SetUpdateStatusBasedOnDispatchRecord
    <2>2. record' = record /\ run' = run /\ topic' = topic
        BY <1>24 DEF SetUpdateStatusBasedOnDispatchRecord
    <2>3. QED
        BY <2>1, <2>2, <1>t
<1>25. ASSUME NEW u \in Updates, UpdateDevicesFromUpdateTransaction(u)
      PROVE  EventInv(v)'
    BY <1>25, <1>t, EventType DEF UpdateDevicesFromUpdateTransaction, Handled, NoEvent
<1>26. ASSUME NEW u \in Updates, CommitOffset(u)
      PROVE  EventInv(v)'
    BY <1>26, <1>t, EventType DEF CommitOffset, Handled, NoEvent
<1>27. ASSUME NEW u \in Updates, NEW o \in Outcomes, RunEnds(u, o)
      PROVE  EventInv(v)'
    <2>1. CASE v # u
        BY <1>27, <2>1, <1>t, RowTypes DEF RunEnds
    <2>2. CASE v = u
        <3>1. topic[v] \in Seq(Outcomes) /\ run[v] # "success"
            BY <1>27, <2>2, RowTypes DEF RunEnds
        <3>2. /\ topic'[v] = Append(topic[v], o) /\ run'[v] = o
              /\ record' = record /\ consumer' = consumer
            BY <1>27, <2>2, RowTypes DEF RunEnds
        <3>3. /\ record[v] # "COMPLETE"
              /\ Handling(v) => consumer.outcome # "success"
              /\ \A i \in 1..Len(topic[v]) : topic[v][i] # "success"
            BY <3>1, <1>t DEF StatusInv
        <3>4. /\ Len(topic'[v]) = Len(topic[v]) + 1 /\ Len(topic[v]) \in Nat
              /\ topic'[v][Len(topic[v]) + 1] = o
              /\ \A i \in 1..Len(topic[v]) : topic'[v][i] = topic[v][i]
            BY <3>1, <3>2
        <3>5. \A i \in 1..Len(topic'[v]) :
                  topic'[v][i] = "success" => i = Len(topic'[v]) /\ run'[v] = "success"
            BY <3>2, <3>3, <3>4
        <3>6. \A i, k \in 1..Len(topic'[v]) : ~(i < k /\ topic'[v][i] = "success")
            BY <3>4, <3>5
        <3>7. QED
            BY <3>2, <3>3, <3>5, <3>6
    <2>3. QED
        BY <2>1, <2>2
<1>28. ASSUME NEW r \in Requests, SaveUpdates(r)
      PROVE  EventInv(v)'
    BY <1>28, <1>t DEF SaveUpdates
<1>29. CASE Interrupt
    BY <1>29, <1>t DEF Interrupt
<1>30. CASE Crash
    <2>1. consumer' = NoEvent /\ run' = run /\ record' = record
        BY <1>30 DEF Crash
    <2>2. CASE topic' = topic
        BY <2>1, <2>2, <1>t
    <2>3. CASE /\ consumer # NoEvent
               /\ topic' = [topic EXCEPT ![consumer.update] = <<consumer.outcome>> \o @]
        <3>1. CASE v # consumer.update
            BY <2>1, <2>3, <3>1, <1>t, RowTypes
        <3>2. CASE v = consumer.update
            <4>1. /\ topic[v] \in Seq(Outcomes) /\ consumer.outcome \in Outcomes
                  /\ Handling(v)
                BY <2>3, <3>2, RowTypes, EventType
            <4>2. topic'[v] = <<consumer.outcome>> \o topic[v]
                BY <2>3, <3>2, RowTypes
            <4>3. /\ Len(topic'[v]) = Len(topic[v]) + 1 /\ Len(topic[v]) \in Nat
                  /\ topic'[v][1] = consumer.outcome
                  /\ \A i \in 2..Len(topic'[v]) : topic'[v][i] = topic[v][i - 1]
                BY <4>1, <4>2
            <4>4. \A i \in 2..Len(topic'[v]) : i - 1 \in 1..Len(topic[v])
                BY <4>3
            <4>5. \A i \in 1..Len(topic'[v]) : i = 1 \/ i \in 2..Len(topic'[v])
                BY <4>3
            <4>6. \A i \in 1..Len(topic'[v]) :
                      /\ topic'[v][i] = "success" => run'[v] = "success"
                      /\ topic'[v][i] # "success" => record'[v] # "COMPLETE"
                BY <2>1, <4>1, <4>3, <4>4, <4>5, <1>t
            <4>7. \A i, k \in 1..Len(topic'[v]) :
                      i < k /\ topic'[v][i] = "success" => topic'[v][k] = "success"
                <5>1. ASSUME NEW i \in 1..Len(topic'[v]), NEW k \in 1..Len(topic'[v]),
                             i < k, topic'[v][i] = "success"
                      PROVE  topic'[v][k] = "success"
                    <6>1. k \in 2..Len(topic'[v])
                        BY <5>1, <4>3
                    <6>2. CASE i = 1
                        BY <5>1, <6>1, <6>2, <4>1, <4>3, <4>4, <1>t
                    <6>3. CASE i \in 2..Len(topic'[v])
                        <7>1. i - 1 < k - 1
                            BY <5>1
                        <7>2. QED
                            BY <5>1, <6>1, <6>3, <7>1, <4>3, <4>4, <1>t
                    <6>4. QED
                        BY <4>5, <6>2, <6>3
                <5>2. QED
                    BY <5>1
            <4>8. QED
                BY <2>1, <4>6, <4>7
        <3>3. QED
            BY <3>1, <3>2
    <2>4. \/ topic' = topic
          \/ /\ consumer # NoEvent
             /\ topic' = [topic EXCEPT ![consumer.update] = <<consumer.outcome>> \o @]
        BY <1>30, ZenonT(30) DEF Crash
    <2>5. QED
        BY <2>2, <2>3, <2>4
<1>31. CASE UNCHANGED vars
    BY <1>31, <1>t DEF vars
<1>32. QED
    BY <1>1, <1>2, <1>3, <1>4, <1>5, <1>6, <1>7, <1>8, <1>9, <1>10, <1>11, <1>12,
       <1>13, <1>14, <1>15, <1>16, <1>17, <1>18, <1>19, <1>20, <1>21, <1>22, <1>23,
       <1>24, <1>25, <1>26, <1>27, <1>28, <1>29, <1>30, <1>31 DEF AtomicStep

LEMMA SuccessInvariant == Spec => []SuccessInv
<1>1. TypeOK /\ SuccessInv /\ [Next \/ Idle]_vars => SuccessInv'
    BY AtomicSteps, NextJobInv, NextEventInv, NextStatusInv DEF SuccessInv
<1>2. QED
    BY <1>1, InitSuccessInv, TypeCorrect, PTL DEF Spec

\* An update shows SUCCESS only after its playbook run succeeded and the event of that
\* was recorded, however the saves of the handler, the job, the watch and the consumer
\* interleave.
THEOREM SuccessIsRealCorrect == Spec => []SuccessIsReal
<1>1. SuccessInv => SuccessIsReal
    BY DEF SuccessInv, StatusInv, SuccessIsReal
<1>2. QED
    BY <1>1, SuccessInvariant, PTL

-------------------------------------------------------------------------------
(* The inductive invariant of DispatchedIsReady.                           *)

ReadyInv(u) ==
    /\ run[u] # "none" => DeviceOf[u] \notin Disconnected /\ repo[u] = "SUCCESS"
    /\ built[u] # "created" => job[u] = "none"
    /\ built[u] = "stored" => DeviceOf[u] \notin Disconnected
    /\ repo[u] # "none" => DeviceOf[u] \notin Disconnected
    /\ job[u] \in Undispatched => run[u] = "none"
    /\ job[u] \in {"built", "written", "dispatched", "deviceSaved", "statusSet"}
           => repo[u] = "SUCCESS"

LEMMA InitReadyInv == Init => \A u \in Updates : ReadyInv(u)
BY DEF Init, ReadyInv, Undispatched

LEMMA NextReadyInv ==
    ASSUME TypeOK, AtomicStep, \A u \in Updates : ReadyInv(u), NEW v \in Updates
    PROVE  ReadyInv(v)'
<1> USE DEF ReadyInv, Undispatched, handlerVars, jobVars, rowVars, worldVars
<1>t. /\ ReadyInv(v)
      /\ built \in [Updates -> {"no", "loaded", "stored", "created", "skipped"}]
      /\ job \in [Updates -> {"none", "queued", "begun", "loaded", "built", "written",
                             "dispatched", "deviceSaved", "statusSet", "done"}]
      /\ repo \in [Updates -> {"none", "BUILDING", "SUCCESS", "ERROR"}]
      /\ run \in [Updates -> Outcomes \cup {"none", "running"}]
    BY DEF TypeOK
<1>1. ASSUME NEW u \in Updates, LoadDevice(u)
      PROVE  ReadyInv(v)'
    BY <1>1, <1>t DEF LoadDevice
<1>2. ASSUME NEW u \in Updates, CreateDisconnected(u)
      PROVE  ReadyInv(v)'
    BY <1>2, <1>t DEF CreateDisconnected
<1>3. ASSUME NEW u \in Updates, StoreDevice(u)
      PROVE  ReadyInv(v)'
    BY <1>3, <1>t DEF StoreDevice
<1>4. ASSUME NEW u \in Updates, CreateUpdateRow(u)
      PROVE  ReadyInv(v)'
    BY <1>4, <1>t DEF CreateUpdateRow
<1>5. ASSUME NEW u \in Updates, BuildFails(u)
      PROVE  ReadyInv(v)'
    BY <1>5, <1>t DEF BuildFails
<1>6. ASSUME NEW u \in Updates, CreateUpdateAsync(u)
      PROVE  ReadyInv(v)'
    BY <1>6, <1>t DEF CreateUpdateAsync, Asynchronous, UpdatesOf
<1>7. ASSUME NEW u \in Updates, Begin(u)
      PROVE  ReadyInv(v)'
    BY <1>7, <1>t DEF Begin
<1>8. ASSUME NEW u \in Updates, LoadUpdate(u)
      PROVE  ReadyInv(v)'
    BY <1>8, <1>t DEF LoadUpdate
<1>9. ASSUME NEW u \in Updates, BuildUpdateRepo(u)
      PROVE  ReadyInv(v)'
    BY <1>9, <1>t DEF BuildUpdateRepo
<1>10. ASSUME NEW u \in Updates, BuildUpdateRepoFails(u)
      PROVE  ReadyInv(v)'
    BY <1>10, <1>t DEF BuildUpdateRepoFails
<1>11. ASSUME NEW u \in Updates, WriteTemplate(u)
      PROVE  ReadyInv(v)'
    BY <1>11, <1>t DEF WriteTemplate
<1>12. ASSUME NEW u \in Updates, ExecuteDispatcher(u)
      PROVE  ReadyInv(v)'
    BY <1>12, <1>t DEF ExecuteDispatcher
<1>13. ASSUME NEW u \in Updates, DispatchFails(u)
      PROVE  ReadyInv(v)'
    BY <1>13, <1>t DEF DispatchFails
<1>14. ASSUME NEW u \in Updates, SaveDevice(u)
      PROVE  ReadyInv(v)'
    BY <1>14, <1>t DEF SaveDevice
<1>15. ASSUME NEW u \in Updates, SetUpdateStatus(u)
      PROVE  ReadyInv(v)'
    BY <1>15, <1>t DEF SetUpdateStatus
<1>16. ASSUME NEW u \in Updates, SaveUpdate(u)
      PROVE  ReadyInv(v)'
    BY <1>16, <1>t DEF SaveUpdate
<1>17. ASSUME NEW u \in Updates, WatchStops(u)
      PROVE  ReadyInv(v)'
    BY <1>17, <1>t DEF WatchStops
<1>18. ASSUME NEW u \in Updates, WatchReads(u)
      PROVE  ReadyInv(v)'
    BY <1>18, <1>t DEF WatchReads
<1>19. ASSUME NEW u \in Updates, WatchWrites(u)
      PROVE  ReadyInv(v)'
    BY <1>19, <1>t DEF WatchWrites
<1>20. ASSUME NEW u \in Updates, Fetch(u)
      PROVE  ReadyInv(v)'
    BY <1>20, <1>t DEF Fetch
<1>21. ASSUME NEW u \in Updates, FindRecord(u)
      PROVE  ReadyInv(v)'
    BY <1>21, <1>t DEF FindRecord
<1>22. ASSUME NEW u \in Updates, SaveRecord(u)
      PROVE  ReadyInv(v)'
    BY <1>22, <1>t DEF SaveRecord
<1>23. ASSUME NEW u \in Updates, SaveRecordDevice(u)
      PROVE  ReadyInv(v)'
    BY <1>23, <1>t DEF SaveRecordDevice
<1>24. ASSUME NEW u \in Updates, SetUpdateStatusBasedOnDispatchRecord(u)
      PROVE  ReadyInv(v)'
    BY <1>24, <1>t DEF SetUpdateStatusBasedOnDispatchRecord
<1>25. ASSUME NEW u \in Updates, UpdateDevicesFromUpdateTransaction(u)
      PROVE  ReadyInv(v)'
    BY <1>25, <1>t DEF UpdateDevicesFromUpdateTransaction
<1>26. ASSUME NEW u \in Updates, CommitOffset(u)
      PROVE  ReadyInv(v)'
    BY <1>26, <1>t DEF CommitOffset
<1>27. ASSUME NEW u \in Updates, NEW o \in Outcomes, RunEnds(u, o)
      PROVE  ReadyInv(v)'
    BY <1>27, <1>t DEF RunEnds
<1>28. ASSUME NEW r \in Requests, SaveUpdates(r)
      PROVE  ReadyInv(v)'
    BY <1>28, <1>t DEF SaveUpdates
<1>29. CASE Interrupt
    BY <1>29, <1>t DEF Interrupt
<1>30. CASE Crash
    BY <1>30, <1>t DEF Crash
<1>31. CASE UNCHANGED vars
    BY <1>31, <1>t DEF vars
<1>32. QED
    BY <1>1, <1>2, <1>3, <1>4, <1>5, <1>6, <1>7, <1>8, <1>9, <1>10, <1>11, <1>12,
       <1>13, <1>14, <1>15, <1>16, <1>17, <1>18, <1>19, <1>20, <1>21, <1>22, <1>23,
       <1>24, <1>25, <1>26, <1>27, <1>28, <1>29, <1>30, <1>31 DEF AtomicStep

\* No playbook is sent for a disconnected device, or for an update whose repository is
\* not ready, although the job of every update of a group is started.
THEOREM DispatchedIsReadyCorrect == Spec => []DispatchedIsReady
<1> DEFINE Inv == \A u \in Updates : ReadyInv(u)
<1>1. TypeOK /\ Inv /\ [Next \/ Idle]_vars => Inv'
    BY AtomicSteps, NextReadyInv
<1>2. Init => Inv
    BY InitReadyInv
<1>3. Inv => DispatchedIsReady
    BY DEF ReadyInv, DispatchedIsReady
<1> HIDE DEF Inv
<1>4. QED
    BY <1>1, <1>2, <1>3, TypeCorrect, PTL DEF Spec

-------------------------------------------------------------------------------
(* The inductive invariant of ImageWasReached: the copies of a device row  *)
(* are as old as they may be, and the device runs more and more commits.   *)

ReachInv ==
    /\ ImageWasReached
    /\ \A u \in Updates : run[u] = "success" => Commit(u) \in ran[DeviceOf[u]]
    /\ consumer.at \in Beyond => consumer.row.image \in ran[DeviceOf[consumer.update]]

LEMMA InitReachInv == Init => ReachInv
BY UpdateAssumption DEF Init, ReachInv, ImageWasReached, FirstRow, NoEvent, Beyond

LEMMA NextReachInv ==
    ASSUME TypeOK, SuccessInv, ReachInv, AtomicStep
    PROVE  ReachInv'
<1> USE DEF ReachInv, ImageWasReached, Beyond, Commit, handlerVars, jobVars, rowVars, worldVars
<1>t. /\ local \in [Updates -> DeviceRow]
      /\ device \in [Devices -> DeviceRow]
      /\ run \in [Updates -> Outcomes \cup {"none", "running"}]
      /\ ran \in [Devices -> SUBSET Commits]
      /\ DeviceOf \in [Updates -> Devices]
    BY UpdateAssumption DEF TypeOK
<1>1. ASSUME NEW u \in Updates, LoadDevice(u)
      PROVE  ReachInv'
    BY <1>1, <1>t DEF LoadDevice, Dev
<1>2. ASSUME NEW u \in Updates, CreateDisconnected(u)
      PROVE  ReachInv'
    BY <1>2, <1>t DEF CreateDisconnected
<1>3. ASSUME NEW u \in Updates, StoreDevice(u)
      PROVE  ReachInv'
    <2>1. device' = [device EXCEPT ![DeviceOf[u]] = [local[u] EXCEPT !.available = Commit(u)]]
        BY <1>3 DEF StoreDevice
    <2>2. [local[u] EXCEPT !.available = Commit(u)].image = local[u].image
        BY <1>t DEF DeviceRow
    <2>3. \A d \in Devices : device'[d].image \in ran[d]
        BY <2>1, <2>2, <1>t
    <2>4. QED
        BY <1>3, <2>3 DEF StoreDevice
<1>4. ASSUME NEW u \in Updates, CreateUpdateRow(u)
      PROVE  ReachInv'
    BY <1>4, <1>t DEF CreateUpdateRow
<1>5. ASSUME NEW u \in Updates, BuildFails(u)
      PROVE  ReachInv'
    BY <1>5, <1>t DEF BuildFails
<1>6. ASSUME NEW u \in Updates, CreateUpdateAsync(u)
      PROVE  ReachInv'
    BY <1>6, <1>t DEF CreateUpdateAsync
<1>7. ASSUME NEW u \in Updates, Begin(u)
      PROVE  ReachInv'
    BY <1>7, <1>t DEF Begin
<1>8. ASSUME NEW u \in Updates, LoadUpdate(u)
      PROVE  ReachInv'
    BY <1>8, <1>t DEF LoadUpdate, Dev
<1>9. ASSUME NEW u \in Updates, BuildUpdateRepo(u)
      PROVE  ReachInv'
    BY <1>9, <1>t DEF BuildUpdateRepo
<1>10. ASSUME NEW u \in Updates, BuildUpdateRepoFails(u)
      PROVE  ReachInv'
    BY <1>10, <1>t DEF BuildUpdateRepoFails
<1>11. ASSUME NEW u \in Updates, WriteTemplate(u)
      PROVE  ReachInv'
    BY <1>11, <1>t DEF WriteTemplate
<1>12. ASSUME NEW u \in Updates, ExecuteDispatcher(u)
      PROVE  ReachInv'
    <2>1. job[u] = "written"
        BY <1>12 DEF ExecuteDispatcher
    <2>2. \A w \in Updates : run'[w] = "success" => run[w] = "success"
        BY <1>12, <1>t DEF ExecuteDispatcher
    <2>3. QED
        BY <1>12, <2>2 DEF ExecuteDispatcher
<1>13. ASSUME NEW u \in Updates, DispatchFails(u)
      PROVE  ReachInv'
    BY <1>13, <1>t DEF DispatchFails
<1>14. ASSUME NEW u \in Updates, SaveDevice(u)
      PROVE  ReachInv'
    BY <1>14, <1>t DEF SaveDevice
<1>15. ASSUME NEW u \in Updates, SetUpdateStatus(u)
      PROVE  ReachInv'
    BY <1>15, <1>t DEF SetUpdateStatus
<1>16. ASSUME NEW u \in Updates, SaveUpdate(u)
      PROVE  ReachInv'
    BY <1>16, <1>t DEF SaveUpdate
<1>17. ASSUME NEW u \in Updates, WatchStops(u)
      PROVE  ReachInv'
    BY <1>17, <1>t DEF WatchStops
<1>18. ASSUME NEW u \in Updates, WatchReads(u)
      PROVE  ReachInv'
    BY <1>18, <1>t DEF WatchReads
<1>19. ASSUME NEW u \in Updates, WatchWrites(u)
      PROVE  ReachInv'
    BY <1>19, <1>t DEF WatchWrites
<1>20. ASSUME NEW u \in Updates, Fetch(u)
      PROVE  ReachInv'
    BY <1>20, <1>t DEF Fetch
<1>21. ASSUME NEW u \in Updates, FindRecord(u)
      PROVE  ReachInv'
    <2>1. \/ /\ consumer'.at \in Beyond
             /\ consumer'.row = Dev(u)
             /\ consumer'.update = u
          \/ consumer'.at \notin Beyond
        BY <1>21 DEF FindRecord, Handled
    <2>2. QED
        BY <1>21, <2>1, <1>t DEF FindRecord, Dev
<1>22. ASSUME NEW u \in Updates, SaveRecord(u)
      PROVE  ReachInv'
    <2>1. consumer'.row = consumer.row /\ consumer'.update = consumer.update
        BY <1>22, EventType DEF SaveRecord
    <2>2. QED
        BY <1>22, <2>1 DEF SaveRecord
<1>23. ASSUME NEW u \in Updates, SaveRecordDevice(u)
      PROVE  ReachInv'
    <2> DEFINE row == IF consumer.outcome = "success"
                      THEN [consumer.row EXCEPT !.current = consumer.row.available,
                                                !.available = DevNull]
                      ELSE consumer.row
    <2>1. /\ device' = [device EXCEPT ![DeviceOf[u]] = row]
          /\ consumer' = [consumer EXCEPT !.at = "deviceSaved"]
          /\ consumer.at = "recordSaved" /\ consumer.update = u
        BY <1>23 DEF SaveRecordDevice
    <2>2. consumer.row \in DeviceRow
        BY <2>1, EventType
    <2>3. row.image = consumer.row.image
        BY <2>2 DEF DeviceRow
    <2>4. consumer'.row = consumer.row /\ consumer'.update = consumer.update
        BY <2>1, EventType
    <2> HIDE DEF row
    <2>5. \A d \in Devices : device'[d].image \in ran[d]
        BY <2>1, <2>3, <1>t
    <2>6. QED
        BY <1>23, <2>1, <2>4, <2>5 DEF SaveRecordDevice
<1>24. ASSUME NEW u \in Updates, SetUpdateStatusBasedOnDispatchRecord(u)
      PROVE  ReachInv'
    <2>1. \/ consumer' = [consumer EXCEPT !.at = "statusSet"]
          \/ consumer'.at \notin Beyond
        BY <1>24 DEF SetUpdateStatusBasedOnDispatchRecord, Handled
    <2>2. consumer.at = "deviceSaved"
        BY <1>24 DEF SetUpdateStatusBasedOnDispatchRecord
    <2>3. consumer'.at \in Beyond =>
              consumer'.row = consumer.row /\ consumer'.update = consumer.update
        BY <2>1, <2>2, EventType
    <2>4. QED
        BY <1>24, <2>2, <2>3 DEF SetUpdateStatusBasedOnDispatchRecord
<1>25. ASSUME NEW u \in Updates, UpdateDevicesFromUpdateTransaction(u)
      PROVE  ReachInv'
    <2>1. /\ device' = [device EXCEPT ![DeviceOf[u]].image = Commit(u)]
          /\ consumer.at = "statusSet" /\ consumer.update = u
          /\ consumer'.at \notin Beyond
        BY <1>25 DEF UpdateDevicesFromUpdateTransaction, Handled
    <2>2. run[u] = "success"
        BY <2>1, EventType DEF SuccessInv, StatusInv, Handling, NoEvent
    <2>3. \A d \in Devices :
              device'[d].image = IF d = DeviceOf[u] THEN Commit(u) ELSE device[d].image
        <3>1. [Dev(u) EXCEPT !.image = Commit(u)].image = Commit(u)
            BY <1>t DEF DeviceRow, Dev
        <3>2. device' = [device EXCEPT ![DeviceOf[u]] = [Dev(u) EXCEPT !.image = Commit(u)]]
            BY <2>1 DEF Dev
        <3>3. QED
            BY <3>1, <3>2, <1>t
    <2>4. \A d \in Devices : device'[d].image \in ran[d]
        BY <2>2, <2>3
    <2>5. QED
        BY <1>25, <2>1, <2>4 DEF UpdateDevicesFromUpdateTransaction
<1>26. ASSUME NEW u \in Updates, CommitOffset(u)
      PROVE  ReachInv'
    BY <1>26 DEF CommitOffset, NoEvent
<1>27. ASSUME NEW u \in Updates, NEW o \in Outcomes, RunEnds(u, o)
      PROVE  ReachInv'
    <2>1. /\ run' = [run EXCEPT ![u] = o]
          /\ ran' = [ran EXCEPT ![DeviceOf[u]] =
                        IF o = "success" THEN @ \cup {Commit(u)} ELSE @]
          /\ device' = device /\ local' = local /\ consumer' = consumer
        BY <1>27 DEF RunEnds
    <2>2. /\ \A d \in Devices : ran[d] \subseteq ran'[d]
          /\ o = "success" => Commit(u) \in ran'[DeviceOf[u]]
        BY <2>1, <1>t
    <2>3. \A w \in Updates : run'[w] = "success" => Commit(w) \in ran'[DeviceOf[w]]
        BY <2>1, <2>2, <1>t
    <2>4. consumer.at \in Beyond => consumer.update \in Updates
        BY EventType, Zenon DEF NoEvent
    <2>5. QED
        BY <2>1, <2>2, <2>3, <2>4, <1>t
<1>28. ASSUME NEW r \in Requests, SaveUpdates(r)
      PROVE  ReachInv'
    BY <1>28, <1>t DEF SaveUpdates
<1>29. CASE Interrupt
    BY <1>29, <1>t DEF Interrupt
<1>30. CASE Crash
    BY <1>30 DEF Crash, NoEvent
<1>31. CASE UNCHANGED vars
    BY <1>31, <1>t DEF vars
<1>32. QED
    BY <1>1, <1>2, <1>3, <1>4, <1>5, <1>6, <1>7, <1>8, <1>9, <1>10, <1>11, <1>12,
       <1>13, <1>14, <1>15, <1>16, <1>17, <1>18, <1>19, <1>20, <1>21, <1>22, <1>23,
       <1>24, <1>25, <1>26, <1>27, <1>28, <1>29, <1>30, <1>31 DEF AtomicStep

\* The image that a device is shown with is one that it has run, however old the
\* copy of the row was that the last writer saved.
THEOREM ImageWasReachedCorrect == Spec => []ImageWasReached
<1>1. TypeOK /\ SuccessInv /\ ReachInv /\ [Next \/ Idle]_vars => ReachInv'
    BY AtomicSteps, NextReachInv
<1>2. ReachInv => ImageWasReached
    BY DEF ReachInv
<1>3. QED
    BY <1>1, <1>2, InitReachInv, TypeCorrect, SuccessInvariant, PTL DEF Spec
===============================================================================
