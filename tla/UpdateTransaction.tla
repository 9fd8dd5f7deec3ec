-------------------------- MODULE UpdateTransaction --------------------------
(***************************************************************************)
(* The life of an update transaction, from the request to the last event   *)
(* of its playbook run: the handlers AddUpdate and                         *)
(* UpdateAllDevicesFromGroup (pkg/routes), the goroutine or job of         *)
(* CreateUpdate, the goroutine that watches it for an interrupt and the    *)
(* consumer of playbook events (pkg/services/updates.go).                  *)
(*                                                                         *)
(* They meet in the database only, where nothing is locked between a read  *)
(* and the write that follows, and where a save writes every column of the *)
(* row.  A step is one statement on the database or one call to another    *)
(* service.  The database itself does not fail.  Every update is for one   *)
(* device, as BuildUpdateTransactions creates them.                        *)
(***************************************************************************)
EXTENDS Naturals, Sequences, FiniteSets

CONSTANTS
    Requests,      \* the HTTP requests
    GroupRequests, \* those of them that update all devices of a group
    Updates,       \* one for each request and device of it
    Devices,
    Disconnected,  \* the devices without an RHC client, in the inventory
    Commits,       \* the OSTree commits, one image for each
    FirstCommit,   \* FirstCommit[d]: what device d runs at first
    DevNull,       \* the value of a hash that is none
    RequestOf,     \* RequestOf[u], DeviceOf[u]: whose update u is
    DeviceOf,
    CommitOf,      \* CommitOf[r]: the commit that request r asks for
    MayInterrupt,  \* whether the process may receive SIGTERM
    MayCrash       \* whether it may be killed

ASSUME UpdateAssumption ==
    /\ GroupRequests \subseteq Requests
    /\ Disconnected \subseteq Devices
    /\ FirstCommit \in [Devices -> Commits]
    /\ DevNull \notin Commits
    /\ RequestOf \in [Updates -> Requests]
    /\ DeviceOf \in [Updates -> Devices]
    /\ CommitOf \in [Requests -> Commits]
    /\ MayInterrupt \in BOOLEAN
    /\ MayCrash \in BOOLEAN

VARIABLES
    handler,      \* handler[r]: where the handler of request r is
    built,        \* built[u]: how far BuildUpdateTransactions got with u
    job,          \* job[u]: where CreateUpdate(u) is
    mem,          \* mem[u]: the status in the row that CreateUpdate loaded
    local,        \* local[u]: the device row that the handler, then the job loaded
    watch,        \* watch[u]: where the goroutine that waits for an interrupt is
    answer,       \* answer[u]: what ExecuteDispatcher returned
    status,       \* the column status of the update's row, "none" without a row
    repo,         \* the status of the update's repo row
    record,       \* the status of the update's dispatch record
    device,       \* the row of the device
    consumer,     \* the consumer of playbook events, and the event in its hands
    run,          \* the playbook run, in the Playbook Dispatcher
    topic,        \* topic[u]: the events of the run still to be fetched
    ran,          \* ran[d]: the commits that the device has run (history)
    lost,         \* the updates of which an event was dropped (history)
    interrupted,  \* the process received SIGTERM
    crashed       \* the process was killed, and started again

handlerVars == <<handler, built>>
jobVars == <<job, mem, answer, watch>>
rowVars == <<status, repo, record, device>>
worldVars == <<run, topic, ran>>
vars == <<handlerVars, jobVars, local, rowVars, consumer, worldVars, lost,
          interrupted, crashed>>

Statuses == {"CREATED", "BUILDING", "ERROR", "SUCCESS", "DISCONNECTED"}
Outcomes == {"success", "failure", "timeout"}
DeviceRow == [image : Commits, current : Commits \cup {DevNull},
              available : Commits \cup {DevNull}]
FirstRow(d) == [image |-> FirstCommit[d], current |-> FirstCommit[d], available |-> DevNull]
NoEvent == [at |-> "idle"]

Commit(u) == CommitOf[RequestOf[u]]
UpdatesOf(r) == {u \in Updates : RequestOf[u] = r}
Dev(u) == device[DeviceOf[u]]
Row(u) == status[u] # "none"

Init ==
    /\ handler = [r \in Requests |-> "idle"]
    /\ built = [u \in Updates |-> "no"]
    /\ job = [u \in Updates |-> "none"]
    /\ mem = [u \in Updates |-> "none"]
    /\ local = [u \in Updates |-> FirstRow(DeviceOf[u])]
    /\ watch = [u \in Updates |-> "none"]
    /\ answer = [u \in Updates |-> "none"]
    /\ status = [u \in Updates |-> "none"]
    /\ repo = [u \in Updates |-> "none"]
    /\ record = [u \in Updates |-> "none"]
    /\ device = [d \in Devices |-> FirstRow(d)]
    /\ consumer = NoEvent
    /\ run = [u \in Updates |-> "none"]
    /\ topic = [u \in Updates |-> <<>>]
    /\ ran = [d \in Devices |-> {FirstCommit[d]}]
    /\ lost = {}
    /\ interrupted = FALSE
    /\ crashed = FALSE

-------------------------------------------------------------------------------
(* The handlers.  BuildUpdateTransactions takes the devices one by one.    *)

Building(r) == \E u \in UpdatesOf(r) : built[u] \in {"loaded", "stored"}

\* The device is read from the database.
LoadDevice(u) ==
    LET r == RequestOf[u] IN
    /\ handler[r] \in {"idle", "build"}
    /\ built[u] = "no"
    /\ ~Building(r)
    /\ handler' = [handler EXCEPT ![r] = "build"]
    /\ built' = [built EXCEPT ![u] = "loaded"]
    /\ local' = [local EXCEPT ![u] = Dev(u)]
    /\ UNCHANGED <<jobVars, rowVars, consumer, worldVars, lost, interrupted, crashed>>

\* A disconnected device gets a row of its own and no repository.
CreateDisconnected(u) ==
    /\ handler[RequestOf[u]] = "build"
    /\ built[u] = "loaded"
    /\ DeviceOf[u] \in Disconnected
    /\ status' = [status EXCEPT ![u] = "DISCONNECTED"]
    /\ built' = [built EXCEPT ![u] = "created"]
    /\ UNCHANGED <<handler, jobVars, local, repo, record, device, consumer, worldVars,
                   lost, interrupted, crashed>>

\* The device is saved with the commit as its available hash.
StoreDevice(u) ==
    /\ handler[RequestOf[u]] = "build"
    /\ built[u] = "loaded"
    /\ DeviceOf[u] \notin Disconnected
    /\ device' = [device EXCEPT ![DeviceOf[u]] = [local[u] EXCEPT !.available = Commit(u)]]
    /\ built' = [built EXCEPT ![u] = "stored"]
    /\ UNCHANGED <<handler, jobVars, local, status, repo, record, consumer, worldVars,
                   lost, interrupted, crashed>>

\* The inventory reports some commit that the device has booted; no update is
\* created for a device that runs the commit already.
CreateUpdateRow(u) ==
    /\ handler[RequestOf[u]] = "build"
    /\ built[u] = "stored"
    /\ \E booted \in ran[DeviceOf[u]] :
          \/ /\ booted = Commit(u)
             /\ built' = [built EXCEPT ![u] = "skipped"]
             /\ UNCHANGED <<status, repo>>
          \/ /\ booted # Commit(u)
             /\ built' = [built EXCEPT ![u] = "created"]
             /\ status' = [status EXCEPT ![u] = "CREATED"]
             /\ repo' = [repo EXCEPT ![u] = "BUILDING"]
    /\ UNCHANGED <<handler, jobVars, local, record, device, consumer, worldVars,
                   lost, interrupted, crashed>>

\* An image is not found: the rows created so far stay behind.
BuildFails(u) ==
    /\ handler[RequestOf[u]] = "build"
    /\ built[u] = "stored"
    /\ handler' = [handler EXCEPT ![RequestOf[u]] = "done"]
    /\ UNCHANGED <<built, jobVars, local, rowVars, consumer, worldVars, lost,
                   interrupted, crashed>>

Asynchronous(r) ==
    {u \in UpdatesOf(r) :
        built[u] = "created" /\ (r \in GroupRequests \/ DeviceOf[u] \notin Disconnected)}

\* CreateUpdateAsync for one update after the other.  AddUpdate leaves out
\* the disconnected ones, UpdateAllDevicesFromGroup does not.
CreateUpdateAsync(u) ==
    LET r == RequestOf[u] IN
    /\ handler[r] = "build"
    /\ \A v \in UpdatesOf(r) : built[v] \in {"created", "skipped"}
    /\ u \in Asynchronous(r)
    /\ job[u] = "none"
    /\ job' = [job EXCEPT ![u] = "queued"]
    /\ UNCHANGED <<handlerVars, mem, answer, watch, local, rowVars, consumer, worldVars,
                   lost, interrupted, crashed>>

\* The transactions as BuildUpdateTransactions returned them are saved after the
\* jobs have been started; the request may be gone by then, and its context with it.
SaveUpdates(r) ==
    /\ handler[r] = "build"
    /\ \A u \in UpdatesOf(r) : built[u] \in {"created", "skipped"}
    /\ \A u \in Asynchronous(r) : job[u] # "none"
    /\ handler' = [handler EXCEPT ![r] = "done"]
    /\ \/ status' = [u \in Updates |->
                        IF u \notin UpdatesOf(r) \/ built[u] # "created" THEN status[u]
                        ELSE IF DeviceOf[u] \in Disconnected THEN "DISCONNECTED"
                        ELSE "CREATED"]
       \/ status' = status
    /\ UNCHANGED <<built, jobVars, local, repo, record, device, consumer, worldVars, lost,
                   interrupted, crashed>>

-------------------------------------------------------------------------------
(* CreateUpdate.                                                           *)

Begin(u) ==
    /\ job[u] = "queued"
    /\ job' = [job EXCEPT ![u] = "begun"]
    /\ status' = [status EXCEPT ![u] = "BUILDING"]
    /\ UNCHANGED <<handlerVars, mem, answer, watch, local, repo, record, device, consumer,
                   worldVars, lost, interrupted, crashed>>

\* RepoBuilder.BuildUpdateRepo loads the update with its device; the watch for an
\* interrupt is set up.
LoadUpdate(u) ==
    /\ job[u] = "begun"
    /\ job' = [job EXCEPT ![u] = "loaded"]
    /\ mem' = [mem EXCEPT ![u] = status[u]]
    /\ local' = [local EXCEPT ![u] = Dev(u)]
    /\ UNCHANGED <<handlerVars, answer, watch, rowVars, consumer, worldVars, lost,
                   interrupted, crashed>>

\* Mutation of BuildUpdateRepo: a transaction without a repository is let through.
BuildUpdateRepoUnchecked(u) ==
    /\ job[u] = "loaded"
    /\ job' = [job EXCEPT ![u] = "built"]
    /\ status' = [status EXCEPT ![u] = mem[u]]
    /\ repo' = [repo EXCEPT ![u] = IF @ = "none" THEN @ ELSE "SUCCESS"]
    /\ UNCHANGED <<handlerVars, mem, answer, watch, local, record, device, consumer,
                   worldVars, lost, interrupted, crashed>>

\* The update's repository is pointed to that of the commit, and both rows saved.
BuildUpdateRepo(u) ==
    /\ job[u] = "loaded"
    /\ repo[u] # "none"
    /\ job' = [job EXCEPT ![u] = "built"]
    /\ status' = [status EXCEPT ![u] = mem[u]]
    /\ repo' = [repo EXCEPT ![u] = "SUCCESS"]
    /\ UNCHANGED <<handlerVars, mem, answer, watch, local, record, device, consumer,
                   worldVars, lost, interrupted, crashed>>

\* Mutation of BuildUpdateRepoFails: the error is returned and nothing saved.
BuildUpdateRepoFailsSilently(u) ==
    /\ job[u] = "loaded"
    /\ job' = [job EXCEPT ![u] = "done"]
    /\ UNCHANGED <<handlerVars, mem, answer, watch, local, rowVars, consumer, worldVars,
                   lost, interrupted, crashed>>

\* No repository, or its commit is not to be had: both rows go to ERROR.
BuildUpdateRepoFails(u) ==
    /\ job[u] = "loaded"
    /\ job' = [job EXCEPT ![u] = "done"]
    /\ status' = [status EXCEPT ![u] = "ERROR"]
    /\ repo' = [repo EXCEPT ![u] = IF @ = "none" THEN @ ELSE "ERROR"]
    /\ UNCHANGED <<handlerVars, mem, answer, watch, local, record, device, consumer,
                   worldVars, lost, interrupted, crashed>>

\* The playbook is written to the storage, or cannot be.
WriteTemplate(u) ==
    /\ job[u] = "built"
    /\ \/ /\ job' = [job EXCEPT ![u] = "written"]
          /\ UNCHANGED status
       \/ /\ job' = [job EXCEPT ![u] = "done"]
          /\ status' = [status EXCEPT ![u] = "ERROR"]
    /\ UNCHANGED <<handlerVars, mem, answer, watch, local, repo, record, device, consumer,
                   worldVars, lost, interrupted, crashed>>

\* The call may fail although the run was created.
ExecuteDispatcher(u) ==
    /\ job[u] = "written"
    /\ job' = [job EXCEPT ![u] = "dispatched"]
    /\ \E a \in {"created", "refused", "error"}, new \in BOOLEAN :
          /\ a = "created" => new
          /\ a = "refused" => ~new
          /\ answer' = [answer EXCEPT ![u] = a]
          /\ run' = [run EXCEPT ![u] = IF new THEN "running" ELSE @]
    /\ UNCHANGED <<handlerVars, mem, watch, local, rowVars, consumer, topic, ran,
                   lost, interrupted, crashed>>

\* The update and a record without the identity of a run are saved together.
DispatchFails(u) ==
    /\ job[u] = "dispatched"
    /\ answer[u] = "error"
    /\ job' = [job EXCEPT ![u] = "done"]
    /\ status' = [status EXCEPT ![u] = "ERROR"]
    /\ record' = [record EXCEPT ![u] = "ERROR"]
    /\ UNCHANGED <<handlerVars, mem, answer, watch, local, repo, device, consumer,
                   worldVars, lost, interrupted, crashed>>

\* The device row is saved as LoadUpdate found it, but for the column connected.
SaveDevice(u) ==
    /\ job[u] = "dispatched"
    /\ answer[u] # "error"
    /\ job' = [job EXCEPT ![u] = "deviceSaved"]
    /\ device' = [device EXCEPT ![DeviceOf[u]] = local[u]]
    /\ UNCHANGED <<handlerVars, mem, answer, watch, local, status, repo, record, consumer,
                   worldVars, lost, interrupted, crashed>>

\* Mutation of SetUpdateStatus: success when no record is in error.
SetUpdateStatusNoError(u) ==
    /\ job[u] = "deviceSaved"
    /\ job' = [job EXCEPT ![u] = "statusSet"]
    /\ mem' = [mem EXCEPT ![u] = IF answer[u] = "refused" THEN "ERROR" ELSE "SUCCESS"]
    /\ status' = [status EXCEPT ![u] = mem'[u]]
    /\ UNCHANGED <<handlerVars, answer, watch, local, repo, record, device, consumer,
                   worldVars, lost, interrupted, crashed>>

\* SetUpdateStatus over the record in memory, which is CREATED or ERROR.
SetUpdateStatus(u) ==
    /\ job[u] = "deviceSaved"
    /\ job' = [job EXCEPT ![u] = "statusSet"]
    /\ mem' = [mem EXCEPT ![u] = IF answer[u] = "refused" THEN "ERROR" ELSE @]
    /\ status' = [status EXCEPT ![u] = mem'[u]]
    /\ UNCHANGED <<handlerVars, answer, watch, local, repo, record, device, consumer,
                   worldVars, lost, interrupted, crashed>>

\* One transaction of the database saves the row and inserts the record.
SaveUpdate(u) ==
    /\ job[u] = "statusSet"
    /\ job' = [job EXCEPT ![u] = "done"]
    /\ status' = [status EXCEPT ![u] = mem[u]]
    /\ record' = [record EXCEPT ![u] = IF answer[u] = "refused" THEN "ERROR" ELSE "CREATED"]
    /\ UNCHANGED <<handlerVars, mem, answer, watch, local, repo, device, consumer,
                   worldVars, lost, interrupted, crashed>>

-------------------------------------------------------------------------------
(* SetUpdateErrorStatusWhenInterrupted, a goroutine beside CreateUpdate.   *)

Watched(u) == job[u] \notin {"none", "queued", "begun", "done"}

Interrupt ==
    /\ MayInterrupt /\ ~interrupted
    /\ interrupted' = TRUE
    /\ watch' = [u \in Updates |-> IF Watched(u) THEN "signalled" ELSE watch[u]]
    /\ UNCHANGED <<handlerVars, job, mem, answer, local, rowVars, consumer, worldVars,
                   lost, crashed>>

\* When its context is done too, the select may take that case.
WatchStops(u) ==
    /\ watch[u] = "signalled"
    /\ job[u] \in {"built", "done"}
    /\ watch' = [watch EXCEPT ![u] = "none"]
    /\ UNCHANGED <<handlerVars, job, mem, answer, local, rowVars, consumer, worldVars,
                   lost, interrupted, crashed>>

WatchReads(u) ==
    /\ watch[u] = "signalled"
    /\ watch' = [watch EXCEPT ![u] = IF status[u] = "BUILDING" THEN "read" ELSE "none"]
    /\ UNCHANGED <<handlerVars, job, mem, answer, local, rowVars, consumer, worldVars,
                   lost, interrupted, crashed>>

WatchWrites(u) ==
    /\ watch[u] = "read"
    /\ watch' = [watch EXCEPT ![u] = "none"]
    /\ status' = [status EXCEPT ![u] = "ERROR"]
    /\ UNCHANGED <<handlerVars, job, mem, answer, local, repo, record, device, consumer,
                   worldVars, lost, interrupted, crashed>>

-------------------------------------------------------------------------------
(* The run of the playbook, outside: it ends, or times out in the          *)
(* dispatcher and may still succeed on the device.                         *)

RunEnds(u, o) ==
    /\ \/ run[u] = "running"
       \/ run[u] = "timeout" /\ o = "success"
    /\ run' = [run EXCEPT ![u] = o]
    /\ topic' = [topic EXCEPT ![u] = Append(@, o)]
    /\ ran' = [ran EXCEPT ![DeviceOf[u]] =
                  IF o = "success" THEN @ \cup {Commit(u)} ELSE @]
    /\ UNCHANGED <<handlerVars, jobVars, local, rowVars, consumer, lost, interrupted,
                   crashed>>

-------------------------------------------------------------------------------
(* The consumer (consumers.go) and ProcessPlaybookDispatcherRunEvent.  One *)
(* goroutine takes the events of the topic and commits the offset after    *)
(* each, handled or not; the client library commits in the background too. *)

Fetch(u) ==
    /\ consumer = NoEvent
    /\ topic[u] # <<>>
    /\ consumer' = [at |-> "fetched", update |-> u, outcome |-> Head(topic[u])]
    /\ topic' = [topic EXCEPT ![u] = Tail(@)]
    /\ UNCHANGED <<handlerVars, jobVars, local, rowVars, run, ran, lost, interrupted,
                   crashed>>

Handled == [at |-> "handled", update |-> consumer.update, outcome |-> consumer.outcome]

\* Mutation of FindRecord: a timeout is passed over, as a running playbook is.
FindRecordUnlessTimeout(u) ==
    /\ consumer.at = "fetched" /\ consumer.update = u
    /\ \/ /\ record[u] # "none" /\ answer[u] = "created" /\ consumer.outcome # "timeout"
          /\ consumer' = [at |-> "found", update |-> u, outcome |-> consumer.outcome,
                          row |-> Dev(u)]
          /\ UNCHANGED lost
       \/ /\ ~(record[u] # "none" /\ answer[u] = "created")
          /\ consumer' = Handled
          /\ lost' = lost \cup {u}
       \/ /\ consumer.outcome = "timeout"
          /\ consumer' = Handled
          /\ UNCHANGED lost
    /\ UNCHANGED <<handlerVars, jobVars, local, rowVars, worldVars, interrupted, crashed>>

\* The record is found by the identity of the run, with its device.
FindRecord(u) ==
    /\ consumer.at = "fetched" /\ consumer.update = u
    /\ \/ /\ record[u] # "none" /\ answer[u] = "created"
          /\ consumer' = [at |-> "found", update |-> u, outcome |-> consumer.outcome,
                          row |-> Dev(u)]
          /\ UNCHANGED lost
       \/ /\ ~(record[u] # "none" /\ answer[u] = "created")
          /\ consumer' = Handled
          /\ lost' = lost \cup {u}
    /\ UNCHANGED <<handlerVars, jobVars, local, rowVars, worldVars, interrupted, crashed>>

\* Mutation of SaveRecord: the word of the event is stored.
SaveRecordOutcome(u) ==
    /\ consumer.at = "found" /\ consumer.update = u
    /\ record' = [record EXCEPT ![u] = consumer.outcome]
    /\ consumer' = [consumer EXCEPT !.at = "recordSaved"]
    /\ UNCHANGED <<handlerVars, jobVars, local, status, repo, device, worldVars, lost,
                   interrupted, crashed>>

SaveRecord(u) ==
    /\ consumer.at = "found" /\ consumer.update = u
    /\ record' = [record EXCEPT ![u] =
                     IF consumer.outcome = "success" THEN "COMPLETE" ELSE "ERROR"]
    /\ consumer' = [consumer EXCEPT !.at = "recordSaved"]
    /\ UNCHANGED <<handlerVars, jobVars, local, status, repo, device, worldVars, lost,
                   interrupted, crashed>>

\* The device row is saved whole, with the hashes moved on after a success.
SaveRecordDevice(u) ==
    /\ consumer.at = "recordSaved" /\ consumer.update = u
    /\ device' = [device EXCEPT ![DeviceOf[u]] =
                     IF consumer.outcome = "success"
                     THEN [consumer.row EXCEPT !.current = consumer.row.available,
                                               !.available = DevNull]
                     ELSE consumer.row]
    /\ consumer' = [consumer EXCEPT !.at = "deviceSaved"]
    /\ UNCHANGED <<handlerVars, jobVars, local, status, repo, record, worldVars, lost,
                   interrupted, crashed>>

\* Mutation: the devices are updated whatever the status is.
SetUpdateStatusAndDevices(u) ==
    /\ consumer.at = "deviceSaved" /\ consumer.update = u
    /\ status' = [status EXCEPT ![u] = IF record[u] = "COMPLETE" THEN "SUCCESS" ELSE "ERROR"]
    /\ consumer' = [consumer EXCEPT !.at = "statusSet"]
    /\ UNCHANGED <<handlerVars, jobVars, local, repo, record, device, worldVars, lost,
                   interrupted, crashed>>

SetUpdateStatusBasedOnDispatchRecord(u) ==
    /\ consumer.at = "deviceSaved" /\ consumer.update = u
    /\ \/ /\ record[u] = "COMPLETE"
          /\ status' = [status EXCEPT ![u] = "SUCCESS"]
          /\ consumer' = [consumer EXCEPT !.at = "statusSet"]
       \/ /\ record[u] = "ERROR"
          /\ status' = [status EXCEPT ![u] = "ERROR"]
          /\ consumer' = Handled
    /\ UNCHANGED <<handlerVars, jobVars, local, repo, record, device, worldVars, lost,
                   interrupted, crashed>>

UpdateDevicesFromUpdateTransaction(u) ==
    /\ consumer.at = "statusSet" /\ consumer.update = u
    /\ device' = [device EXCEPT ![DeviceOf[u]].image = Commit(u)]
    /\ consumer' = Handled
    /\ UNCHANGED <<handlerVars, jobVars, local, status, repo, record, worldVars, lost,
                   interrupted, crashed>>

CommitOffset(u) ==
    /\ consumer.at = "handled" /\ consumer.update = u
    /\ consumer' = NoEvent
    /\ UNCHANGED <<handlerVars, jobVars, local, rowVars, worldVars, lost, interrupted,
                   crashed>>

-------------------------------------------------------------------------------
(* The process is killed: handlers, jobs and watches are gone.  The event  *)
(* in hand is gone too if its offset was committed in the background, and  *)
(* comes again otherwise.                                                  *)

Crash ==
    /\ MayCrash /\ ~crashed
    /\ crashed' = TRUE
    /\ handler' = [r \in Requests |-> IF handler[r] = "idle" THEN "idle" ELSE "done"]
    /\ job' = [u \in Updates |-> IF job[u] = "none" THEN "none" ELSE "done"]
    /\ watch' = [u \in Updates |-> "none"]
    /\ consumer' = NoEvent
    /\ \/ /\ consumer # NoEvent
          /\ topic' = [topic EXCEPT ![consumer.update] = <<consumer.outcome>> \o @]
          /\ UNCHANGED lost
       \/ /\ lost' = IF consumer = NoEvent THEN lost ELSE lost \cup {consumer.update}
          /\ UNCHANGED topic
    /\ UNCHANGED <<built, mem, answer, local, rowVars, run, ran, interrupted>>

HandlerStep(u) ==
    \/ LoadDevice(u) \/ CreateDisconnected(u) \/ StoreDevice(u) \/ CreateUpdateRow(u)
    \/ BuildFails(u) \/ CreateUpdateAsync(u)

JobStep(u) ==
    \/ Begin(u) \/ LoadUpdate(u) \/ BuildUpdateRepo(u) \/ BuildUpdateRepoFails(u)
    \/ WriteTemplate(u) \/ ExecuteDispatcher(u) \/ DispatchFails(u) \/ SaveDevice(u)
    \/ SetUpdateStatus(u) \/ SaveUpdate(u)

WatchStep(u) == WatchStops(u) \/ WatchReads(u) \/ WatchWrites(u)

HandleEvent(u) ==
    \/ FindRecord(u) \/ SaveRecord(u) \/ SaveRecordDevice(u)
    \/ SetUpdateStatusBasedOnDispatchRecord(u) \/ UpdateDevicesFromUpdateTransaction(u)
    \/ CommitOffset(u)

Next ==
    \/ \E u \in Updates :
          \/ HandlerStep(u) \/ JobStep(u) \/ WatchStep(u) \/ Fetch(u) \/ HandleEvent(u)
          \/ \E o \in Outcomes : RunEnds(u, o)
    \/ \E r \in Requests : SaveUpdates(r)
    \/ Interrupt
    \/ Crash

\* Every request was served, every job and run is over and every event handled.
Idle ==
    /\ \A r \in Requests : handler[r] = "done"
    /\ \A u \in Updates : job[u] \in {"none", "done"} /\ run[u] # "running"
                              /\ topic[u] = <<>> /\ watch[u] = "none"
    /\ consumer = NoEvent
    /\ UNCHANGED vars

Spec == Init /\ [][Next \/ Idle]_vars

(***************************************************************************)
(* A handler, a job, a watch and the consumer run on; a run ends or times  *)
(* out; nothing else is owed.  The steps of one job that may go two ways   *)
(* are fair together.                                                      *)
(***************************************************************************)
FairSpec ==
    /\ Spec
    /\ \A u \in Updates :
          /\ WF_vars(HandlerStep(u) /\ handler[RequestOf[u]] # "idle")
          /\ WF_vars(JobStep(u))
          /\ WF_vars(WatchStep(u))
          /\ WF_vars(run[u] = "running" /\ \E o \in Outcomes : RunEnds(u, o))
    /\ \A r \in Requests : WF_vars(SaveUpdates(r))
    /\ SF_vars(\E u \in Updates : Fetch(u))
    /\ WF_vars(\E u \in Updates : HandleEvent(u))

-------------------------------------------------------------------------------
TypeOK ==
    /\ handler \in [Requests -> {"idle", "build", "done"}]
    /\ built \in [Updates -> {"no", "loaded", "stored", "created", "skipped"}]
    /\ job \in [Updates -> {"none", "queued", "begun", "loaded", "built", "written",
                            "dispatched", "deviceSaved", "statusSet", "done"}]
    /\ mem \in [Updates -> Statuses \cup {"none"}]
    /\ local \in [Updates -> DeviceRow]
    /\ watch \in [Updates -> {"none", "signalled", "read"}]
    /\ answer \in [Updates -> {"none", "created", "refused", "error"}]
    /\ status \in [Updates -> Statuses \cup {"none"}]
    /\ repo \in [Updates -> {"none", "BUILDING", "SUCCESS", "ERROR"}]
    /\ record \in [Updates -> {"none", "CREATED", "COMPLETE", "ERROR"}]
    /\ device \in [Devices -> DeviceRow]
    /\ \/ consumer = NoEvent
       \/ consumer \in [at : {"fetched", "handled"}, update : Updates, outcome : Outcomes]
       \/ consumer \in [at : {"found", "recordSaved", "deviceSaved", "statusSet"},
                        update : Updates, outcome : Outcomes, row : DeviceRow]
    /\ run \in [Updates -> Outcomes \cup {"none", "running"}]
    /\ topic \in [Updates -> Seq(Outcomes)]
    /\ ran \in [Devices -> SUBSET Commits]
    /\ lost \subseteq Updates
    /\ interrupted \in BOOLEAN
    /\ crashed \in BOOLEAN

Handling(u) == consumer # NoEvent /\ consumer.update = u

\* SUCCESS is never shown of an update whose playbook did not succeed, whichever of
\* the four writers of the row wrote last and however old its copy was.
SuccessIsReal ==
    \A u \in Updates :
        status[u] = "SUCCESS" =>
            /\ run[u] = "success"
            /\ record[u] = "COMPLETE"

\* A device is never shown with an image that it has not run, although its row is
\* saved whole from copies of any age.
ImageWasReached ==
    /\ \A d \in Devices : device[d].image \in ran[d]
    /\ \A u \in Updates : local[u].image \in ran[DeviceOf[u]]

\* No playbook is sent for a disconnected device, nor before the repository that it
\* points the device to is ready, though UpdateAllDevicesFromGroup starts the job
\* of every update.
DispatchedIsReady ==
    \A u \in Updates :
        run[u] # "none" => DeviceOf[u] \notin Disconnected /\ repo[u] = "SUCCESS"

\* Every update that was begun comes out of BUILDING, with the same exceptions.
BuildingEnds ==
    \A u \in Updates :
        status[u] = "BUILDING" ~> status[u] # "BUILDING" \/ u \in lost \/ crashed

\* Every run that was recorded gets its outcome into the record.
RecordIsAnswered ==
    \A u \in Updates :
        record[u] = "CREATED" ~> record[u] \in {"COMPLETE", "ERROR"} \/ u \in lost \/ crashed

===============================================================================
