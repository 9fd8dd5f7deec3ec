-------------------------------- MODULE Cleanup --------------------------------
(***************************************************************************)
(* The cleanup job (cmd/cleanup): it soft deletes old images, empties the  *)
(* storage of images that were deleted or failed, erases their rows, then  *)
(* those of deleted devices with their updates, and the commits that       *)
(* nothing uses.  It runs beside the service, which builds images, updates *)
(* devices and deletes both; the job runs alone (concurrencyPolicy of      *)
(* deploy/clowdapp.yaml) and again and again.                              *)
(*                                                                         *)
(* A step is one statement, one transaction or one removal from the        *)
(* storage.  The candidates of a page are copied and cleaned side by side, *)
(* each by a goroutine; a page holds all candidates here.  An image has    *)
(* one commit, with one repository, and its id stands for theirs.          *)
(***************************************************************************)
EXTENDS Naturals, FiniteSets

CONSTANTS
    Images, Sets, SetOf,   \* SetOf[i]: the image set of image i
    Installing,            \* the images with an installer
    Devices,
    Updates,               \* CommitOf[u], DeviceOf[u]: the image whose commit update u is
    CommitOf, DeviceOf,    \*     to bring, and the device
    Legacy,                \* old updates, with a repository of their own, that only their
                           \*     dispatch record links to the device
    NoImage,
    MaxRetries,            \* bound on the builds ever begun again
    MaxFaults              \* bound on the ends of the job and the failures of the storage

ASSUME CleanupAssumption ==
    /\ SetOf \in [Images -> Sets] /\ Installing \subseteq Images
    /\ CommitOf \in [Updates -> Images] /\ DeviceOf \in [Updates -> Devices]
    /\ Legacy \subseteq Updates
    /\ NoImage \notin Images
    /\ {MaxRetries, MaxFaults} \subseteq Nat
    /\ Images \cap Updates = {} /\ Images \cap Devices = {} /\ Updates \cap Devices = {}

VARIABLES
    image,    \* image[i]: whether the row of image i is there, and its status
    set,      \* set[s]: whether the row of image set s is there
    part,     \* part[x][p]: the status of the commit, the repository or the installer of x
    stored,   \* stored[x]: the parts of x whose content is in the storage
    update,   \* update[u]: the update transactions
    device,   \* device[d]: the rows of devices, with the image they run
    build,    \* build[i]: what the build of image i stores next
    retries,  \* how many builds were begun again
    stage,    \* what the job is at
    task,     \* task[x]: what the job is doing to candidate x
    faults,   \* how often the job ended or the storage failed
    raced,    \* images a build wrote while they were being cleaned or deleted (history)
    lost      \* contents that a later failure took out of the rows' sight (history)

jobVars == <<stage, task, faults>>
serviceVars == <<update, device, build, retries>>
vars == <<image, set, part, stored, update, device, build, retries, stage, task, faults,
          raced, lost>>

Parts == {"commit", "repo", "installer"}
Rows == {"live", "deleted", "erased"}
Candidates == Images \cup Updates \cup Devices
PartsOf(x) == IF x \in Installing THEN Parts
              ELSE IF x \in Images THEN {"commit", "repo"} ELSE {"repo"}

Tasks == [at : {"none", "cleaning", "marking", "done", "failed"}, todo : SUBSET Parts,
          erase : BOOLEAN]
NoTask == [at |-> "none", todo |-> {}, erase |-> FALSE]
AtWork(x) == task[x].at \in {"cleaning", "marking"}

Exists(x, p) == part[x][p] \notin {"none", "erased"}

\* Mutation of Erased: the rows are soft deleted only.
SoftErased(f) == [p \in Parts |-> IF f[p] = "none" THEN "none" ELSE "deleted"]

Erased(f) == [p \in Parts |-> IF f[p] = "none" THEN "none" ELSE "erased"]

\* A write of the build to an image that the job holds or that was deleted.
Races(i) == raced' = raced \cup {x \in {i} : AtWork(i) \/ image[i].row # "live"}

\* What is in the storage under a row that does not say so any more.
Loses(i) ==
    lost' = {l \in lost : l[1] # i} \cup
                {<<i, p>> : p \in {q \in stored'[i] : part'[i][q] # "SUCCESS"}}

-------------------------------------------------------------------------------
(* The service: builds.                                                    *)

\* RetryCreateImage sets the rows of the image, the commit and the installer to be built,
\* and the build begins with the commit.  (Its steps are in ImageBuild.)
RetryCreateImage(i) ==
    /\ image[i].row = "live" /\ build[i] = "none" /\ retries < MaxRetries
    /\ retries' = retries + 1
    /\ image' = [image EXCEPT ![i].status = "BUILDING"]
    /\ part' = [part EXCEPT ![i] =
           [p \in Parts |-> IF @[p] = "none" \/ p = "repo" THEN @[p] ELSE "BUILDING"]]
    /\ build' = [build EXCEPT ![i] = "commit"]
    /\ Races(i)
    /\ stored' = stored /\ Loses(i)
    /\ UNCHANGED <<set, update, device, jobVars>>

\* A part is stored and its row saved, which is inserted again when it was erased.  The row
\* of the repository is reset before its upload, and that of the image saved at the end:
\* not when its set is gone, to which it refers.
StorePart(i) ==
    LET p == build[i]
        last == p # "commit" /\ (p = "installer" \/ i \notin Installing)
        rows == [part[i] EXCEPT ![p] = "SUCCESS"]
        back == last /\ (image[i].row # "erased" \/ set[SetOf[i]] # "erased")
    IN
    /\ p # "none"
    /\ stored' = [stored EXCEPT ![i] = @ \cup {p}]
    /\ part' = [part EXCEPT ![i] =
           IF p = "commit" THEN [rows EXCEPT !["repo"] = "BUILDING"]
           ELSE IF back THEN [q \in Parts |-> IF rows[q] = "erased" THEN "SUCCESS" ELSE rows[q]]
           ELSE rows]
    /\ build' = [build EXCEPT ![i] = IF p = "commit" THEN "repo"
                                     ELSE IF last THEN "none" ELSE "installer"]
    /\ image' = [image EXCEPT ![i] = IF back THEN [row |-> "live", status |-> "SUCCESS"] ELSE @]
    /\ Races(i) /\ Loses(i)
    /\ UNCHANGED <<set, update, device, retries, jobVars>>

\* A build that fails at the commit or the repository sets ERROR on the commit and the
\* installer too (SetErrorStatusOnImage), one that fails at the installer may leave the
\* commit as it is (SetFinalImageStatus).
FailBuild(i) ==
    LET p == build[i]
        back == image[i].row # "erased" \/ set[SetOf[i]] # "erased"
        kept == [q \in Parts |-> IF part[i][q] = "erased" THEN "BUILDING" ELSE part[i][q]]
    IN
    /\ p # "none"
    /\ \E failed \in {{p, "commit", "installer"}} \cup {f \in {{"installer"}} : p \in f} :
           part' = [part EXCEPT ![i] =
               [q \in Parts |-> IF q \in failed /\ @[q] # "none" THEN "ERROR" ELSE kept[q]]]
    /\ image' = [image EXCEPT ![i] = IF back THEN [row |-> "live", status |-> "ERROR"] ELSE @]
    /\ build' = [build EXCEPT ![i] = "none"]
    /\ stored' = stored
    /\ Races(i) /\ Loses(i)
    /\ UNCHANGED <<set, update, device, retries, jobVars>>

-------------------------------------------------------------------------------
(* The service: deletions, updates and devices.                            *)

\* An image in ERROR is deleted, and its set when it is the only one.
DeleteImage(i) ==
    /\ image[i] = [row |-> "live", status |-> "ERROR"]
    /\ image' = [image EXCEPT ![i].row = "deleted"]
    /\ set' = [set EXCEPT ![SetOf[i]] =
           IF \E j \in Images \ {i} : SetOf[j] = SetOf[i] /\ image[j].row = "live"
           THEN @ ELSE "deleted"]
    /\ UNCHANGED <<part, stored, serviceVars, jobVars, raced, lost>>

\* A set that no device runs is deleted with its images.
DeleteImageSet(s) ==
    /\ set[s] = "live"
    /\ \A d \in Devices : device[d].row = "live" /\ device[d].runs # NoImage
                              => SetOf[device[d].runs] # s
    /\ set' = [set EXCEPT ![s] = "deleted"]
    /\ image' = [i \in Images |-> IF SetOf[i] = s /\ image[i].row = "live"
                                  THEN [image[i] EXCEPT !.row = "deleted"] ELSE image[i]]
    /\ UNCHANGED <<part, stored, serviceVars, jobVars, raced, lost>>

\* An update to the commit of an image that was built, with a repository of its own.
BuildUpdateTransactions(u) ==
    LET i == CommitOf[u] IN
    /\ update[u] = "none" /\ device[DeviceOf[u]].row = "live"
    /\ image[i] = [row |-> "live", status |-> "SUCCESS"] /\ Exists(i, "commit")
    /\ update' = [update EXCEPT ![u] = "CREATED"]
    /\ part' = [part EXCEPT ![u]["repo"] = "BUILDING"]
    /\ UNCHANGED <<image, set, stored, device, build, retries, jobVars, raced, lost>>

\* The repository of the update points to that of the commit; nothing is stored.
BuildUpdateRepo(u) ==
    /\ update[u] = "CREATED"
    /\ update' = [update EXCEPT ![u] = "BUILDING"]
    /\ part' = [part EXCEPT ![u]["repo"] = "SUCCESS"]
    /\ UNCHANGED <<image, set, stored, device, build, retries, jobVars, raced, lost>>

\* The device was updated and reports its image, if that is found; or it was not.
EndUpdate(u) ==
    LET i == CommitOf[u]
        d == DeviceOf[u]
    IN
    /\ update[u] = "BUILDING"
    /\ \/ /\ "repo" \in stored[i]
          /\ update' = [update EXCEPT ![u] = "SUCCESS"]
          /\ device' = IF device[d].row = "live" /\ image[i].row = "live"
                       THEN [device EXCEPT ![d].runs = i] ELSE device
       \/ /\ update' = [update EXCEPT ![u] = "ERROR"]
          /\ UNCHANGED device
    /\ UNCHANGED <<image, set, part, stored, build, retries, jobVars, raced, lost>>

DeleteDevice(d) ==
    /\ device[d].row = "live"
    /\ device' = [device EXCEPT ![d].row = "deleted"]
    /\ UNCHANGED <<image, set, part, stored, update, build, retries, jobVars, raced, lost>>

-------------------------------------------------------------------------------
(* The job: soft deletion.                                                 *)

Start ==
    /\ stage = "off"
    /\ stage' = "orphans"
    /\ UNCHANGED <<image, set, part, stored, serviceVars, task, faults, raced, lost>>

\* Images whose set was deleted.
DeleteOrphanImages ==
    /\ stage = "orphans"
    /\ stage' = "old"
    /\ image' = [i \in Images |->
           IF image[i].row = "live" /\ set[SetOf[i]] = "deleted"
           THEN [image[i] EXCEPT !.row = "deleted"] ELSE image[i]]
    /\ UNCHANGED <<set, part, stored, serviceVars, task, faults, raced, lost>>

\* Images that the row of no device runs, a deleted one included, and of these any that were
\* not changed for a week and whose name is not among those to keep.  (A build does not
\* take a week.)
DeleteOldImages ==
    /\ stage = "old"
    /\ stage' = "images"
    /\ \E old \in SUBSET {i \in Images : build[i] = "none" /\ image[i].row = "live"} :
           image' = [i \in Images |->
               IF i \in old /\ \A d \in Devices : device[d].row = "erased" \/ device[d].runs # i
               THEN [image[i] EXCEPT !.row = "deleted"] ELSE image[i]]
    /\ UNCHANGED <<set, part, stored, serviceVars, task, faults, raced, lost>>

-------------------------------------------------------------------------------
(* The job: candidates, page by page.                                      *)

IsBuilt(i) == {p \in Parts : part[i][p] = "SUCCESS"}

\* Mutation of CandidateImage: any image with something to clean.
CandidateAnyImage(i) ==
    /\ \A p \in Parts : Exists(i, p)
    /\ image[i].row = "deleted" \/ (image[i].row = "live" /\ IsBuilt(i) # {})

\* Mutation of CandidateImage: of the parts only the commit is looked at.
CandidateWithCommit(i) ==
    /\ \A p \in Parts : Exists(i, p)
    /\ \/ image[i].row = "deleted"
       \/ image[i].row = "live" /\ image[i].status = "ERROR" /\ part[i]["commit"] = "SUCCESS"

\* Mutation of CandidateImage: a deleted image must have something to clean too.
CandidateWithContent(i) ==
    /\ \A p \in Parts : Exists(i, p)
    /\ image[i].row # "erased" /\ IsBuilt(i) # {}
    /\ image[i].row = "deleted" \/ image[i].status = "ERROR"

\* The query joins the commit, the repository and the installer, so that an image without
\* an installer is none.
CandidateImage(i) ==
    /\ \A p \in Parts : Exists(i, p)
    /\ \/ image[i].row = "deleted"
       \/ image[i].row = "live" /\ image[i].status = "ERROR" /\ IsBuilt(i) # {}

\* An update that only a dispatch record links to a deleted device.
CandidateUnlinked(u) ==
    u \in Legacy /\ update[u] \notin {"none", "erased"} /\ device[DeviceOf[u]].row = "deleted"

\* A deleted device, once for each of its updates, or alone without any.
UpdatesOf(d) == {u \in Updates \ Legacy : DeviceOf[u] = d /\ update[u] \notin {"none", "erased"}}

\* Mutation of CandidateDevice: a device must have updates.
CandidateUpdatedDevice(x) ==
    /\ x \in Updates
    /\ x \in UpdatesOf(DeviceOf[x]) /\ device[DeviceOf[x]].row = "deleted"

CandidateDevice(x) ==
    \/ /\ x \in Devices
       /\ device[x].row = "deleted" /\ UpdatesOf(x) = {}
    \/ /\ x \in Updates
       /\ x \in UpdatesOf(DeviceOf[x]) /\ device[DeviceOf[x]].row = "deleted"

\* No row of an image and no update refers to the commit.
IsUpdated(i) == \E u \in Updates : CommitOf[u] = i /\ update[u] \notin {"none", "erased"}

CandidateCommit(i) == Exists(i, "commit") /\ image[i].row = "erased" /\ ~ IsUpdated(i)

Page ==
    CASE stage = "images" -> {i \in Images : CandidateImage(i)}
      [] stage = "unlinked" -> {u \in Updates : CandidateUnlinked(u)}
      [] stage = "devices" -> {x \in Updates \cup Devices : CandidateDevice(x)}
      [] OTHER -> {i \in Images : CandidateCommit(i)}

\* What is to be cleaned is copied with the candidate: of an orphan commit the repository
\* only, of an update its repository when it has one of its own and its URL.
ToClean(x) ==
    CASE stage = "images" -> IsBuilt(x)
      [] stage = "commits" -> IsBuilt(x) \cap {"repo"}
      [] OTHER -> IF x \in Legacy /\ part[x]["repo"] # "STORAGE_CLEANED" THEN {"repo"} ELSE {}

NextStage ==
    CASE stage = "images" -> "unlinked"
      [] stage = "unlinked" ->
             IF \E x \in Candidates : task[x].at = "failed" THEN "commits" ELSE "devices"
      [] stage = "devices" -> "commits"
      [] OTHER -> "off"

\* The next page, unless a candidate of this one failed or there is none: then the next
\* kind of rows.
NextPage ==
    LET more == Page # {} /\ \A x \in Candidates : task[x].at # "failed" IN
    /\ stage \in {"images", "unlinked", "devices", "commits"}
    /\ \A x \in Candidates : ~ AtWork(x)
    /\ stage' = IF more THEN stage ELSE NextStage
    /\ task' = [x \in Candidates |->
           IF more /\ x \in Page
           THEN [at |-> "cleaning", todo |-> ToClean(x),
                 erase |-> x \notin Images \/ stage = "commits" \/ image[x].row = "deleted"]
           ELSE NoTask]
    /\ UNCHANGED <<image, set, part, stored, serviceVars, faults, raced, lost>>

-------------------------------------------------------------------------------
(* The job: the storage.                                                   *)

\* The tar file of the commit, the repository, the ISO file.
NextPart(x) ==
    IF "commit" \in task[x].todo THEN "commit"
    ELSE IF "repo" \in task[x].todo THEN "repo" ELSE "installer"

\* Mutation of EmptyStorage: an error of the storage is not returned.
EmptyStorageOrNot(x) ==
    /\ task[x].at = "cleaning" /\ task[x].todo # {}
    /\ \/ stored' = [stored EXCEPT ![x] = @ \ {NextPart(x)}]
       \/ faults < MaxFaults /\ stored' = stored
    /\ task' = [task EXCEPT ![x].at = "marking"]
    /\ UNCHANGED <<image, set, part, serviceVars, stage, faults, raced, lost>>

EmptyStorage(x) ==
    /\ task[x].at = "cleaning" /\ task[x].todo # {}
    /\ stored' = [stored EXCEPT ![x] = @ \ {NextPart(x)}]
    /\ task' = [task EXCEPT ![x].at = "marking"]
    /\ UNCHANGED <<image, set, part, serviceVars, stage, faults, raced, lost>>

\* All attempts failed; a directory may be lacking files by then.
StorageFails(x) ==
    /\ task[x].at = "cleaning" /\ task[x].todo # {}
    /\ faults < MaxFaults
    /\ faults' = faults + 1
    /\ stored' \in {stored, [stored EXCEPT ![x] = @ \ {NextPart(x)}]}
    /\ task' = [task EXCEPT ![x].at = "failed"]
    /\ UNCHANGED <<image, set, part, serviceVars, stage, raced, lost>>

\* Then the row says so and has no URL.
MarkCleaned(x) ==
    LET p == NextPart(x) IN
    /\ task[x].at = "marking"
    /\ part' = [part EXCEPT ![x][p] = IF @ = "erased" THEN @ ELSE "STORAGE_CLEANED"]
    /\ task' = [task EXCEPT ![x].at = "cleaning", ![x].todo = @ \ {p}]
    /\ UNCHANGED <<image, set, stored, serviceVars, stage, faults, raced, lost>>

-------------------------------------------------------------------------------
(* The job: the rows.                                                      *)

\* All storage is cleaned and the rows are next.
Erasing(x) == task[x].at = "cleaning" /\ task[x].todo = {} /\ task[x].erase
Done(x) == task' = [task EXCEPT ![x].at = "done"]

\* An image in ERROR keeps its rows.
KeepImage(i) ==
    /\ task[i].at = "cleaning" /\ task[i].todo = {} /\ ~ task[i].erase
    /\ Done(i)
    /\ UNCHANGED <<image, set, part, stored, serviceVars, stage, faults, raced, lost>>

\* Mutation of EraseImage: the updates of the commit are not counted.
EraseImageAndCommit(i) ==
    /\ stage = "images" /\ Erasing(i) /\ Done(i)
    /\ image' = [image EXCEPT ![i].row = "erased"]
    /\ part' = [part EXCEPT ![i] = Erased(@)]
    /\ set' = [set EXCEPT ![SetOf[i]] =
           IF \E j \in Images : SetOf[j] = SetOf[i] /\ image'[j].row # "erased"
           THEN @ ELSE "erased"]
    /\ UNCHANGED <<stored, serviceVars, stage, faults, raced, lost>>

\* The image, its commit and repository unless an update has the commit, its installer, and
\* its set unless another image is in it.
EraseImage(i) ==
    /\ stage = "images" /\ Erasing(i) /\ Done(i)
    /\ image' = [image EXCEPT ![i].row = "erased"]
    /\ part' = [part EXCEPT ![i] =
           IF IsUpdated(i) THEN [@ EXCEPT !["installer"] = "erased"] ELSE Erased(@)]
    /\ set' = [set EXCEPT ![SetOf[i]] =
           IF \E j \in Images : SetOf[j] = SetOf[i] /\ image'[j].row # "erased"
           THEN @ ELSE "erased"]
    /\ UNCHANGED <<stored, serviceVars, stage, faults, raced, lost>>

EraseUpdate(u) ==
    /\ stage \in {"unlinked", "devices"} /\ Erasing(u) /\ Done(u)
    /\ update' = [update EXCEPT ![u] = "erased"]
    /\ part' = [part EXCEPT ![u] = Erased(@)]
    /\ UNCHANGED <<image, set, stored, device, build, retries, stage, faults, raced, lost>>

\* The dispatch records go with the device; the database refuses it while an update has one.
EraseDevice(d) ==
    LET recorded == \E u \in Legacy : DeviceOf[u] = d /\ update[u] # "erased" IN
    /\ stage = "devices" /\ Erasing(d)
    /\ IF recorded
       THEN task' = [task EXCEPT ![d].at = "failed"] /\ UNCHANGED device
       ELSE Done(d) /\ device' = [device EXCEPT ![d] = [row |-> "erased", runs |-> NoImage]]
    /\ UNCHANGED <<image, set, part, stored, update, build, retries, stage, faults, raced, lost>>

\* The database refuses it when an image or an update has come to have the commit.
EraseCommit(i) ==
    /\ stage = "commits" /\ Erasing(i)
    /\ IF image[i].row # "erased" \/ IsUpdated(i)
       THEN task' = [task EXCEPT ![i].at = "failed"] /\ UNCHANGED part
       ELSE /\ Done(i)
            /\ part' = [part EXCEPT ![i] = [@ EXCEPT !["commit"] = "erased", !["repo"] = "erased"]]
    /\ UNCHANGED <<image, set, stored, serviceVars, stage, faults, raced, lost>>

\* The job ends in the middle of anything.
Crash ==
    /\ stage # "off" /\ faults < MaxFaults
    /\ faults' = faults + 1
    /\ stage' = "off"
    /\ task' = [x \in Candidates |-> NoTask]
    /\ UNCHANGED <<image, set, part, stored, serviceVars, raced, lost>>

-------------------------------------------------------------------------------
(* An image was built, or failed at its installer, the commit being stored. *)
FirstImage == [row : {"live"}, status : {"SUCCESS", "ERROR"}]
FirstPart(x, s) ==
    [p \in Parts |-> IF p \notin PartsOf(x) THEN "none"
                     ELSE IF x \in Updates \ Legacy THEN "none"
                     ELSE IF p = "installer" THEN s ELSE "SUCCESS"]

Init ==
    /\ image \in [Images -> FirstImage]
    /\ \A i \in Images \ Installing : image[i].status = "SUCCESS"
    /\ set = [s \in Sets |-> "live"]
    /\ part = [x \in Images \cup Updates |->
           FirstPart(x, IF x \in Images THEN image[x].status ELSE "SUCCESS")]
    /\ stored = [x \in Images \cup Updates |-> {p \in Parts : part[x][p] = "SUCCESS"}]
    /\ update = [u \in Updates |-> IF u \in Legacy THEN "SUCCESS" ELSE "none"]
    /\ device \in [Devices -> [row : {"live"},
           runs : {i \in Images : image[i].status = "SUCCESS"} \cup {NoImage}]]
    /\ build = [i \in Images |-> "none"]
    /\ retries = 0
    /\ stage = "off"
    /\ task = [x \in Candidates |-> NoTask]
    /\ faults = 0
    /\ raced = {} /\ lost = {}

Service ==
    \/ \E i \in Images : RetryCreateImage(i) \/ StorePart(i) \/ FailBuild(i) \/ DeleteImage(i)
    \/ \E s \in Sets : DeleteImageSet(s)
    \/ \E u \in Updates : BuildUpdateTransactions(u) \/ BuildUpdateRepo(u) \/ EndUpdate(u)
    \/ \E d \in Devices : DeleteDevice(d)

Clean(x) == x \in Images \cup Updates /\ (EmptyStorage(x) \/ MarkCleaned(x))

Erase(x) ==
    \/ x \in Images /\ (KeepImage(x) \/ EraseImage(x) \/ EraseCommit(x))
    \/ x \in Updates /\ EraseUpdate(x)
    \/ x \in Devices /\ EraseDevice(x)

Job ==
    \/ Start \/ DeleteOrphanImages \/ DeleteOldImages \/ NextPage
    \/ \E x \in Candidates : Clean(x) \/ Erase(x)

Next ==
    \/ Service \/ Job \/ Crash
    \/ \E x \in Images \cup Updates : StorageFails(x)

Spec == Init /\ [][Next]_vars

\* The job is scheduled again and again, and goes on.
FairSpec == Spec /\ WF_vars(Job)

-------------------------------------------------------------------------------
(* Properties.                                                             *)

\* Every variable has its type; what is to be erased has been cleaned at most.
TypeOK ==
    /\ image \in [Images -> [row : Rows, status : {"BUILDING", "SUCCESS", "ERROR"}]]
    /\ set \in [Sets -> Rows]
    /\ part \in [Images \cup Updates -> [Parts ->
           {"none", "BUILDING", "SUCCESS", "ERROR", "STORAGE_CLEANED", "erased"}]]
    /\ stored \in [Images \cup Updates -> SUBSET Parts]
    /\ update \in [Updates -> {"none", "CREATED", "BUILDING", "SUCCESS", "ERROR", "erased"}]
    /\ device \in [Devices -> [row : Rows, runs : Images \cup {NoImage}]]
    /\ build \in [Images -> {"none"} \cup Parts]
    /\ retries \in 0..MaxRetries
    /\ stage \in {"off", "orphans", "old", "images", "unlinked", "devices", "commits"}
    /\ task \in [Candidates -> Tasks]
    /\ faults \in 0..MaxFaults
    /\ raced \subseteq Images
    /\ lost \subseteq Images \X Parts

\* An image that is a success and was not deleted has all its content in the storage and
\* its rows say so, whatever the job cleans beside it and before it was built again; one
\* that is built while the job cleans it is set apart.
KeptIsStored ==
    \A i \in Images \ raced :
        image[i] = [row |-> "live", status |-> "SUCCESS"]
            => /\ \A p \in PartsOf(i) : part[i][p] = "SUCCESS"
               /\ PartsOf(i) \subseteq stored[i]

\* Where a row promises content that was removed, because the job ended or failed between
\* the two, the job will find the candidate again, or is at it, or a build is to write it.
EmptiedIsFound ==
    \A i \in Images \ raced : \A p \in Parts :
        part[i][p] = "SUCCESS" /\ p \notin stored[i]
            => CandidateImage(i) \/ CandidateCommit(i) \/ AtWork(i) \/ build[i] # "none"

\* Nothing stays in the storage that no row tells of: a row is marked after its content was
\* removed, and erased after it was marked.  What a build that fails later had stored, and
\* what is stored while the job cleans it, is set apart.
NothingIsForgotten ==
    \A i \in Images \ raced : \A p \in stored[i] : part[i][p] = "SUCCESS" \/ <<i, p>> \in lost

\* No row refers to one that was erased: an image to its commit, repository, installer and
\* set, an update to its commit and its repository.  The database would refuse to erase it,
\* in this run of the job and in every later one.
ReferencesHold ==
    /\ \A i \in Images : image[i].row # "erased"
           => set[SetOf[i]] # "erased" /\ \A p \in PartsOf(i) : Exists(i, p)
    /\ \A i \in Images : Exists(i, "commit") => Exists(i, "repo")
    /\ \A u \in Updates : update[u] \notin {"none", "erased"}
           => Exists(CommitOf[u], "commit") /\ Exists(u, "repo")

\* An image with an installer that is deleted is erased, unless a build brings it back.
DeletedIsErased ==
    \A i \in Installing : image[i].row = "deleted" ~> image[i].row # "deleted"

\* A deleted device is erased, after its updates.
DeviceIsErased ==
    \A d \in Devices : device[d].row = "deleted" ~> device[d].row = "erased"

\* RepoStatusSuccess is "for when a Repo is available to the user" (pkg/models/commits.go):
\* while an update is under way to a device, its repository is in the storage.
UpdateRepoIsAvailable ==
    \A u \in Updates :
        update[u] = "BUILDING" /\ part[u]["repo"] = "SUCCESS" /\ device[DeviceOf[u]].row = "live"
            => "repo" \in stored[CommitOf[u]]
===============================================================================
