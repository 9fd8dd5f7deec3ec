----------------------------- MODULE CleanupProofs -----------------------------
(***************************************************************************)
(* Proofs about the cleanup job, for any number of images, sets, devices,  *)
(* updates, retries and failures.                                          *)
(***************************************************************************)
EXTENDS Cleanup, TLAPS

ImageRows == [row : Rows, status : {"BUILDING", "SUCCESS", "ERROR"}]
PartRows == {"none", "BUILDING", "SUCCESS", "ERROR", "STORAGE_CLEANED", "erased"}
UpdateRows == {"none", "CREATED", "BUILDING", "SUCCESS", "ERROR", "erased"}
DeviceRows == [row : Rows, runs : Images \cup {NoImage}]
Stages == {"off", "orphans", "old", "images", "unlinked", "devices", "commits"}
Stored == Images \cup Updates

\* An image has rows for its parts, and a build stores these only.
PartsInv ==
    /\ \A i \in Images : \A p \in Parts : part[i][p] = "none" <=> p \notin PartsOf(i)
    /\ \A i \in Images : build[i] = "installer" => i \in Installing

\* The job cleans the parts an image has, and marks a row when there is one to be marked.
\* A candidate among the images has an installer, one among the commits need not.
TodoInv ==
    \A x \in Candidates :
        /\ task[x].at = "marking" => task[x].todo # {}
        /\ x \in Images => task[x].todo \subseteq PartsOf(x)
        /\ x \in Images /\ AtWork(x) => stage = "commits" \/ (stage = "images" /\ x \in Installing)

TypeInv == TypeOK /\ PartsInv /\ TodoInv

-------------------------------------------------------------------------------
(* Types.                                                                  *)

LEMMA HistoryTypes ==
    ASSUME TypeOK, NEW i \in Images, Races(i), Loses(i), stored' \in [Stored -> SUBSET Parts]
    PROVE  raced' \subseteq Images /\ lost' \subseteq Images \X Parts
<1>1. raced' \subseteq raced \cup {i}
    BY DEF Races
<1>2. stored'[i] \subseteq Parts
    BY DEF Stored
<1>3. lost' \subseteq lost \cup {<<i, p>> : p \in Parts}
    BY <1>2 DEF Loses
<1> QED
    BY <1>1, <1>3 DEF TypeOK

\* What a build does to the rows and the storage of its image.
LEMMA BuildTypes ==
    ASSUME TypeInv, NEW i \in Images, Races(i), Loses(i),
           stored' \in [Stored -> SUBSET Parts], image' \in [Images -> ImageRows],
           build' \in [Images -> {"none"} \cup Parts], retries' \in 0..MaxRetries,
           NEW f \in [Parts -> PartRows], part' = [part EXCEPT ![i] = f],
           \A p \in Parts : f[p] = "none" <=> part[i][p] = "none",
           \A j \in Images : build'[j] = "installer" => j \in Installing,
           UNCHANGED <<set, update, device, jobVars>>
    PROVE  TypeInv'
<1>1. part' \in [Stored -> [Parts -> PartRows]]
    BY DEF TypeInv, TypeOK, Stored, PartRows
<1>2. raced' \subseteq Images /\ lost' \subseteq Images \X Parts
    BY HistoryTypes DEF TypeInv
<1>3. TypeOK'
    BY <1>1, <1>2 DEF TypeInv, TypeOK, jobVars, Stored, ImageRows, PartRows
<1>4. PartsInv'
    BY DEF TypeInv, TypeOK, PartsInv, PartsOf
<1>5. TodoInv'
    BY DEF TypeInv, TodoInv, PartsOf, AtWork, jobVars
<1> QED
    BY <1>3, <1>4, <1>5 DEF TypeInv

LEMMA RetryTypes ==
    ASSUME TypeInv, NEW i \in Images, RetryCreateImage(i)
    PROVE  TypeInv'
<1> DEFINE f == [p \in Parts |-> IF part[i][p] = "none" \/ p = "repo" THEN part[i][p] ELSE "BUILDING"]
<1>1. f \in [Parts -> PartRows] /\ \A p \in Parts : f[p] = "none" <=> part[i][p] = "none"
    BY DEF TypeInv, TypeOK, PartRows
<1>2. retries' \in 0..MaxRetries
    BY CleanupAssumption DEF RetryCreateImage, TypeInv, TypeOK
<1>3. /\ image' \in [Images -> ImageRows] /\ stored' \in [Stored -> SUBSET Parts]
      /\ build' \in [Images -> {"none"} \cup Parts]
    BY DEF RetryCreateImage, TypeInv, TypeOK, ImageRows, Stored, Parts
<1>4. part' = [part EXCEPT ![i] = f]
    BY DEF RetryCreateImage
<1>5. \A j \in Images : build'[j] = "installer" => j \in Installing
    BY DEF RetryCreateImage, TypeInv, TypeOK, PartsInv
<1> HIDE DEF f
<1> QED
    BY <1>1, <1>2, <1>3, <1>4, <1>5, BuildTypes DEF RetryCreateImage

\* The rows of an image after its build has stored a part.
StoredRows(i) ==
    LET p == build[i]
        last == p # "commit" /\ (p = "installer" \/ i \notin Installing)
        rows == [part[i] EXCEPT ![p] = "SUCCESS"]
        back == last /\ (image[i].row # "erased" \/ set[SetOf[i]] # "erased")
    IN  IF p = "commit" THEN [rows EXCEPT !["repo"] = "BUILDING"]
        ELSE IF back THEN [q \in Parts |-> IF rows[q] = "erased" THEN "SUCCESS" ELSE rows[q]]
        ELSE rows

LEMMA StorePartTypes ==
    ASSUME TypeInv, NEW i \in Images, StorePart(i)
    PROVE  TypeInv'
<1> DEFINE f == StoredRows(i)
<1>1. part[i] \in [Parts -> PartRows] /\ build[i] \in Parts /\ build[i] \in PartsOf(i)
    BY DEF TypeInv, TypeOK, PartRows, PartsInv, StorePart, Parts, PartsOf
<1>2. \A p \in Parts : p \in PartsOf(i) <=> part[i][p] # "none"
    BY DEF TypeInv, PartsInv
<1>3. f \in [Parts -> PartRows] /\ \A p \in Parts : f[p] = "none" <=> part[i][p] = "none"
    BY <1>1, <1>2 DEF StoredRows, PartRows, Parts, PartsOf
<1>4. part' = [part EXCEPT ![i] = f]
    BY DEF StorePart, StoredRows
<1>5. image' \in [Images -> ImageRows]
    BY DEF StorePart, TypeInv, TypeOK, ImageRows, Rows
<1>6. stored' \in [Stored -> SUBSET Parts]
    BY <1>1 DEF StorePart, TypeInv, TypeOK, Stored
<1>7. /\ build' \in [Images -> {"none"} \cup Parts]
      /\ \A j \in Images : build'[j] = "installer" => j \in Installing
    BY <1>1 DEF StorePart, TypeInv, TypeOK, PartsInv, Parts
<1>8. /\ Races(i) /\ Loses(i) /\ retries' \in 0..MaxRetries
      /\ UNCHANGED <<set, update, device, jobVars>>
    BY DEF StorePart, TypeInv, TypeOK
<1> HIDE DEF f
<1> QED
    BY <1>3, <1>4, <1>5, <1>6, <1>7, <1>8, BuildTypes

LEMMA FailBuildTypes ==
    ASSUME TypeInv, NEW i \in Images, FailBuild(i)
    PROVE  TypeInv'
<1> DEFINE kept == [q \in Parts |-> IF part[i][q] = "erased" THEN "BUILDING" ELSE part[i][q]]
<1>1. PICK failed : part' = [part EXCEPT ![i] =
          [q \in Parts |-> IF q \in failed /\ part[i][q] # "none" THEN "ERROR" ELSE kept[q]]]
    BY DEF FailBuild
<1> DEFINE f == [q \in Parts |-> IF q \in failed /\ part[i][q] # "none" THEN "ERROR" ELSE kept[q]]
<1>2. f \in [Parts -> PartRows] /\ \A p \in Parts : f[p] = "none" <=> part[i][p] = "none"
    BY DEF TypeInv, TypeOK, PartRows
<1>3. part' = [part EXCEPT ![i] = f]
    BY <1>1
<1>4. image' \in [Images -> ImageRows]
    BY DEF FailBuild, TypeInv, TypeOK, ImageRows, Rows
<1>5. /\ build' \in [Images -> {"none"} \cup Parts]
      /\ \A j \in Images : build'[j] = "installer" => j \in Installing
      /\ stored' \in [Stored -> SUBSET Parts]
    BY DEF FailBuild, TypeInv, TypeOK, PartsInv, Stored
<1>6. /\ Races(i) /\ Loses(i) /\ retries' \in 0..MaxRetries
      /\ UNCHANGED <<set, update, device, jobVars>>
    BY DEF FailBuild, TypeInv, TypeOK
<1> HIDE DEF f
<1> QED
    BY <1>2, <1>3, <1>4, <1>5, <1>6, BuildTypes

ServiceRest ==
    \/ \E i \in Images : DeleteImage(i)
    \/ \E s \in Sets : DeleteImageSet(s)
    \/ \E u \in Updates : BuildUpdateTransactions(u) \/ BuildUpdateRepo(u) \/ EndUpdate(u)
    \/ \E d \in Devices : DeleteDevice(d)

\* A step that keeps the rows of parts keeps what is known of them.
LEMMA SamePartsInv ==
    ASSUME TypeInv, UNCHANGED <<part, build>>
    PROVE  PartsInv'
    BY DEF TypeInv, PartsInv, PartsOf

LEMMA SameTodoInv ==
    ASSUME TypeInv, UNCHANGED <<task, stage>>
    PROVE  TodoInv'
    BY DEF TypeInv, TodoInv, PartsOf, AtWork

LEMMA ServiceTypes ==
    ASSUME TypeInv, ServiceRest
    PROVE  TypeInv'
<1>1. ASSUME NEW i \in Images, DeleteImage(i)
      PROVE  TypeInv'
  <2>1. image' \in [Images -> ImageRows] /\ set' \in [Sets -> Rows]
      BY <1>1, CleanupAssumption DEF DeleteImage, TypeInv, TypeOK, ImageRows, Rows
  <2> QED
      BY <1>1, <2>1, SamePartsInv, SameTodoInv DEF DeleteImage, TypeInv, TypeOK, serviceVars, jobVars, ImageRows
<1>2. ASSUME NEW s \in Sets, DeleteImageSet(s)
      PROVE  TypeInv'
  <2>1. image' \in [Images -> ImageRows] /\ set' \in [Sets -> Rows]
      BY <1>2 DEF DeleteImageSet, TypeInv, TypeOK, ImageRows, Rows
  <2> QED
      BY <1>2, <2>1, SamePartsInv, SameTodoInv
         DEF DeleteImageSet, TypeInv, TypeOK, serviceVars, jobVars, ImageRows
<1>3. ASSUME NEW u \in Updates, BuildUpdateTransactions(u) \/ BuildUpdateRepo(u)
      PROVE  TypeInv'
  <2>1. PICK status \in PartRows : part' = [part EXCEPT ![u]["repo"] = status]
      BY <1>3 DEF BuildUpdateTransactions, BuildUpdateRepo, PartRows
  <2>2. part' \in [Stored -> [Parts -> PartRows]]
      BY <2>1 DEF TypeInv, TypeOK, Stored, PartRows
  <2>3. update' \in [Updates -> UpdateRows]
      BY <1>3 DEF BuildUpdateTransactions, BuildUpdateRepo, TypeInv, TypeOK, UpdateRows
  <2>4. UNCHANGED <<image, set, stored, device, build, retries, jobVars, raced, lost>>
      BY <1>3 DEF BuildUpdateTransactions, BuildUpdateRepo
  <2>5. TypeOK'
      BY <2>2, <2>3, <2>4 DEF TypeInv, TypeOK, jobVars, Stored, PartRows, UpdateRows
  <2>6. \A i \in Images : part'[i] = part[i]
      BY <2>1, CleanupAssumption DEF TypeInv, TypeOK
  <2>7. PartsInv'
      BY <2>4, <2>6 DEF TypeInv, PartsInv, PartsOf
  <2> QED
      BY <2>4, <2>5, <2>7, SameTodoInv DEF TypeInv, jobVars
<1>4. ASSUME NEW u \in Updates, EndUpdate(u)
      PROVE  TypeInv'
  <2>1. update' \in [Updates -> UpdateRows]
      BY <1>4 DEF EndUpdate, TypeInv, TypeOK, UpdateRows
  <2>2. device' = device \/ device' = [device EXCEPT ![DeviceOf[u]].runs = CommitOf[u]]
      BY <1>4 DEF EndUpdate
  <2>3. CommitOf[u] \in Images /\ DeviceOf[u] \in Devices
      BY CleanupAssumption
  <2>4. device' \in [Devices -> DeviceRows]
    <3>1. device \in [Devices -> DeviceRows]
        BY DEF TypeInv, TypeOK, DeviceRows
    <3>2. [device[DeviceOf[u]] EXCEPT !.runs = CommitOf[u]] \in DeviceRows
        BY <2>3, <3>1 DEF DeviceRows
    <3> QED
        BY <2>2, <3>1, <3>2
  <2> QED
      BY <1>4, <2>1, <2>4, SamePartsInv, SameTodoInv
         DEF EndUpdate, TypeInv, TypeOK, serviceVars, jobVars, DeviceRows, UpdateRows
<1>5. ASSUME NEW d \in Devices, DeleteDevice(d)
      PROVE  TypeInv'
  <2>1. device' \in [Devices -> DeviceRows]
      BY <1>5 DEF DeleteDevice, TypeInv, TypeOK, DeviceRows, Rows
  <2> QED
      BY <1>5, <2>1, SamePartsInv, SameTodoInv DEF DeleteDevice, TypeInv, TypeOK, jobVars, DeviceRows
<1> QED
    BY <1>1, <1>2, <1>3, <1>4, <1>5 DEF ServiceRest

\* The tasks of a page.
LEMMA NextPageTypes ==
    ASSUME TypeInv, NextPage
    PROVE  TypeInv'
<1> DEFINE more == Page # {} /\ \A x \in Candidates : task[x].at # "failed"
           erase(x) == x \notin Images \/ stage = "commits" \/ image[x].row = "deleted"
<1>1. \A x \in Page : ToClean(x) \subseteq Parts
    BY DEF ToClean, IsBuilt, Page, Parts
<1>2. stage' \in Stages
    BY DEF NextPage, NextStage, TypeInv, TypeOK, Stages
<1>3. NoTask \in Tasks
    BY DEF NoTask, Tasks
<1>4. \A x \in Candidates :
          [at |-> "cleaning", todo |-> ToClean(x), erase |-> erase(x)].at = "cleaning"
    OBVIOUS
<1>5. \A x \in Page : [at |-> "cleaning", todo |-> ToClean(x), erase |-> erase(x)] \in Tasks
    BY <1>1 DEF Tasks
<1>6. task' = [x \in Candidates |->
          IF more /\ x \in Page
          THEN [at |-> "cleaning", todo |-> ToClean(x), erase |-> erase(x)] ELSE NoTask]
    BY DEF NextPage
<1> HIDE DEF erase, more
<1>7. task' \in [Candidates -> Tasks]
    BY <1>3, <1>5, <1>6
<1>8. \A x \in Candidates \cap Images : x \in Page => ToClean(x) \subseteq PartsOf(x)
    BY CleanupAssumption DEF ToClean, IsBuilt, Page, PartsOf, TypeInv, PartsInv, Parts
<1>9. TodoInv'
  <2> SUFFICES ASSUME NEW x \in Candidates
               PROVE  /\ task'[x].at = "marking" => task'[x].todo # {}
                      /\ x \in Images => task'[x].todo \subseteq PartsOf(x)
                      /\ x \in Images /\ task'[x].at \in {"cleaning", "marking"}
                             => stage' = "commits" \/ (stage' = "images" /\ x \in Installing)
      BY DEF TodoInv, PartsOf, AtWork
  <2>1. \/ task'[x] = NoTask
        \/ /\ task'[x] = [at |-> "cleaning", todo |-> ToClean(x), erase |-> erase(x)]
           /\ x \in Page /\ more
      BY <1>6
  <2>2. more => stage' = stage
      BY DEF NextPage, more
  <2>3. x \in Page /\ x \in Images => stage = "commits" \/ (stage = "images" /\ x \in Installing)
    <3>1. CandidateImage(x) /\ x \in Images => x \in Installing
        BY DEF CandidateImage, Exists, TypeInv, PartsInv, PartsOf, Parts
    <3> QED
        BY <3>1, CleanupAssumption DEF Page, NextPage, Candidates
  <2> QED
      BY <1>8, <2>1, <2>2, <2>3 DEF NoTask
<1> QED
    BY <1>2, <1>7, <1>9, SamePartsInv DEF NextPage, TypeInv, TypeOK, serviceVars, Stages

\* Storage and rows of a candidate.
LEMMA NextPartType == ASSUME NEW x  PROVE NextPart(x) \in Parts
    BY DEF NextPart, Parts

LEMMA TaskTypes ==
    ASSUME TypeOK, NEW x \in Candidates, NEW at \in {"none", "cleaning", "marking", "done", "failed"},
           NEW todo \in SUBSET Parts
    PROVE  [task EXCEPT ![x].at = at, ![x].todo = todo] \in [Candidates -> Tasks]
    BY DEF TypeOK, Tasks

LEMMA CleanTypes ==
    ASSUME TypeInv, NEW x \in Stored, EmptyStorage(x) \/ StorageFails(x) \/ MarkCleaned(x)
    PROVE  TypeInv'
<1>1. x \in Candidates
    BY DEF Stored, Candidates
<1>2. CASE EmptyStorage(x) \/ StorageFails(x)
  <2>1. task' \in [Candidates -> Tasks]
    <3>1. \E at \in {"marking", "failed"} : task' = [task EXCEPT ![x].at = at]
        BY <1>2 DEF EmptyStorage, StorageFails
    <3>2. task \in [Candidates -> Tasks]
        BY DEF TypeInv, TypeOK
    <3>3. \A at \in {"marking", "failed"} : [task[x] EXCEPT !.at = at] \in Tasks
        BY <1>1, <3>2 DEF Tasks
    <3> QED
        BY <3>1, <3>2, <3>3
  <2>2. stored' \in [Stored -> SUBSET Parts]
      BY <1>2 DEF EmptyStorage, StorageFails, TypeInv, TypeOK, Stored
  <2>3. faults' \in 0..MaxFaults
      BY <1>2, CleanupAssumption DEF EmptyStorage, StorageFails, TypeInv, TypeOK
  <2>4. UNCHANGED <<image, set, part, serviceVars, stage, raced, lost>>
      BY <1>2 DEF EmptyStorage, StorageFails
  <2>5. TodoInv'
    <3>1. task[x].at = "cleaning" /\ task[x].todo # {}
        BY <1>2 DEF EmptyStorage, StorageFails
    <3>2. \E at \in {"marking", "failed"} : task' = [task EXCEPT ![x].at = at]
        BY <1>2 DEF EmptyStorage, StorageFails
    <3>3. \A y \in Candidates : /\ task'[y].todo = task[y].todo
                                /\ y # x => task'[y].at = task[y].at
        BY <1>1, <3>2 DEF TypeInv, TypeOK, Tasks
    <3>4. AtWork(x) /\ stage' = stage
        BY <2>4, <3>1 DEF AtWork
    <3>5. \A y \in Candidates : task'[y].at = "marking" => task'[y].todo # {}
        BY <3>1, <3>3 DEF TypeInv, TodoInv
    <3>6. \A y \in Candidates \cap Images : task'[y].todo \subseteq PartsOf(y)
        BY <3>3 DEF TypeInv, TodoInv
    <3>7. \A y \in Candidates \cap Images : AtWork(y)' =>
              stage' = "commits" \/ (stage' = "images" /\ y \in Installing)
        BY <3>3, <3>4 DEF TypeInv, TodoInv, AtWork
    <3> QED
        BY <3>5, <3>6, <3>7 DEF TodoInv, PartsOf
  <2> QED
      BY <2>1, <2>2, <2>3, <2>4, <2>5, SamePartsInv DEF TypeInv, TypeOK, serviceVars, Stored
<1>3. CASE MarkCleaned(x)
  <2>1. task' \in [Candidates -> Tasks]
    <3>1. task[x].todo \ {NextPart(x)} \in SUBSET Parts
        BY <1>1 DEF TypeInv, TypeOK, Tasks
    <3>2. task' = [task EXCEPT ![x].at = "cleaning", ![x].todo = task[x].todo \ {NextPart(x)}]
        BY <1>1, <1>3 DEF MarkCleaned
    <3> QED
        BY <1>1, <3>1, <3>2, TaskTypes DEF TypeInv
  <2>2. part' \in [Stored -> [Parts -> PartRows]]
      BY <1>3, NextPartType DEF MarkCleaned, TypeInv, TypeOK, Stored, PartRows
  <2>3. UNCHANGED <<image, set, stored, serviceVars, stage, faults, raced, lost>>
      BY <1>3 DEF MarkCleaned
  <2>4. TypeOK'
      BY <2>1, <2>2, <2>3 DEF TypeInv, TypeOK, serviceVars, Stored, PartRows
  <2>5. NextPart(x) \in task[x].todo
      BY <1>1, <1>3 DEF MarkCleaned, NextPart, TypeInv, TypeOK, TodoInv, Tasks, Parts
  <2>6. \A i \in Images, p \in Parts : part'[i][p] = "none" <=> part[i][p] = "none"
    <3> SUFFICES ASSUME NEW i \in Images, NEW p \in Parts
                 PROVE  part'[i][p] = "none" <=> part[i][p] = "none"
        OBVIOUS
    <3>1. x = i /\ p = NextPart(x) => part[i][p] # "none"
        BY <1>1, <2>5 DEF TypeInv, TodoInv, PartsInv
    <3> QED
        BY <1>3, <3>1 DEF MarkCleaned, TypeInv, TypeOK, Stored
  <2>7. PartsInv'
      BY <2>3, <2>6 DEF TypeInv, PartsInv, PartsOf, serviceVars
  <2>8. TodoInv'
      BY <1>1, <1>3 DEF MarkCleaned, TypeInv, TypeOK, Tasks, TodoInv, PartsOf, AtWork
  <2> QED
      BY <2>4, <2>7, <2>8 DEF TypeInv
<1> QED
    BY <1>2, <1>3

\* The rows that are erased.
LEMMA DoneTypes ==
    ASSUME TypeInv, NEW x \in Candidates, NEW at \in {"done", "failed"},
           task' = [task EXCEPT ![x].at = at], stage' = stage
    PROVE  task' \in [Candidates -> Tasks] /\ TodoInv'
<1>1. task \in [Candidates -> Tasks]
    BY DEF TypeInv, TypeOK
<1>2. [task[x] EXCEPT !.at = at] \in Tasks
    BY <1>1 DEF Tasks
<1>3. task' \in [Candidates -> Tasks]
    BY <1>1, <1>2
<1>4. \A y \in Candidates : task'[y].todo = task[y].todo /\ task'[y].at \in {task[y].at, at}
    BY <1>1, <1>3 DEF Tasks
<1> QED
    BY <1>3, <1>4 DEF TypeInv, TodoInv, PartsOf, AtWork

LEMMA ImageErasureTypes ==
    ASSUME TypeInv, NEW x \in Images, KeepImage(x) \/ EraseImage(x) \/ EraseCommit(x)
    PROVE  TypeInv'
<1>0. x \in Candidates /\ x \in Stored
    BY DEF Candidates, Stored
<1>1. task' \in [Candidates -> Tasks] /\ TodoInv'
    BY <1>0, DoneTypes DEF KeepImage, EraseImage, EraseCommit, Done
<1>2. image' \in [Images -> ImageRows] /\ set' \in [Sets -> Rows]
  <2>1. CASE image' = [image EXCEPT ![x].row = "erased"]
    <3>1. image \in [Images -> ImageRows] /\ image' \in [Images -> ImageRows]
        BY <2>1 DEF TypeInv, TypeOK, ImageRows, Rows
    <3>2. \/ set' = set
          \/ \E b \in BOOLEAN : set' = [set EXCEPT ![SetOf[x]] = IF b THEN set[SetOf[x]] ELSE "erased"]
        BY <2>1 DEF KeepImage, EraseImage, EraseCommit
    <3>3. set' \in [Sets -> Rows]
        BY <3>2, CleanupAssumption DEF TypeInv, TypeOK, Rows
    <3> QED
        BY <3>1, <3>3
  <2>2. CASE UNCHANGED <<image, set>>
      BY <2>2 DEF TypeInv, TypeOK, ImageRows
  <2> QED
      BY <2>1, <2>2 DEF KeepImage, EraseImage, EraseCommit
<1>3. \E f \in [Parts -> PartRows] :
         /\ part' = [part EXCEPT ![x] = f]
         /\ \A p \in Parts : f[p] = "none" <=> part[x][p] = "none"
  <2>1. part \in [Stored -> [Parts -> PartRows]] /\ part[x] \in [Parts -> PartRows]
      BY <1>0 DEF TypeInv, TypeOK, Stored, PartRows
  <2>2. CASE KeepImage(x) \/ UNCHANGED part
      BY <2>1, <2>2 DEF KeepImage
  <2>3. CASE EraseImage(x)
    <3>1. part[x]["installer"] # "none"
        BY <1>0, <2>3 DEF EraseImage, Erasing, TypeInv, TodoInv, PartsInv, AtWork, PartsOf, Parts
    <3> DEFINE f == IF IsUpdated(x) THEN [part[x] EXCEPT !["installer"] = "erased"]
                    ELSE Erased(part[x])
    <3>2. f \in [Parts -> PartRows] /\ \A p \in Parts : f[p] = "none" <=> part[x][p] = "none"
        BY <2>1, <3>1 DEF Erased, PartRows
    <3>3. part' = [part EXCEPT ![x] = f]
        BY <2>3 DEF EraseImage
    <3> QED
        BY <3>2, <3>3
  <2>4. CASE EraseCommit(x) /\ ~ UNCHANGED part
    <3> DEFINE f == [part[x] EXCEPT !["commit"] = "erased", !["repo"] = "erased"]
    <3>1. part' = [part EXCEPT ![x] = f]
        BY <2>4 DEF EraseCommit
    <3>2. part[x]["commit"] # "none" /\ part[x]["repo"] # "none"
        BY DEF TypeInv, PartsInv, PartsOf, Parts
    <3>3. f \in [Parts -> PartRows] /\ \A p \in Parts : f[p] = "none" <=> part[x][p] = "none"
        BY <2>1, <3>2 DEF PartRows
    <3> QED
        BY <3>1, <3>3
  <2> QED
      BY <2>2, <2>3, <2>4
<1>4. UNCHANGED <<stored, serviceVars, stage, faults, raced, lost>>
    BY DEF KeepImage, EraseImage, EraseCommit
<1>5. part' \in [Stored -> [Parts -> PartRows]]
    BY <1>3 DEF TypeInv, TypeOK, Stored, PartRows
<1>6. PartsInv'
    BY <1>0, <1>3, <1>4, <1>5 DEF TypeInv, TypeOK, PartsInv, PartsOf, serviceVars, Stored
<1> QED
    BY <1>1, <1>2, <1>4, <1>5, <1>6
       DEF TypeInv, TypeOK, serviceVars, ImageRows, Stored, PartRows

LEMMA OtherErasureTypes ==
    ASSUME TypeInv, NEW x \in Candidates,
           (x \in Updates /\ EraseUpdate(x)) \/ (x \in Devices /\ EraseDevice(x))
    PROVE  TypeInv'
<1>1. task' \in [Candidates -> Tasks] /\ TodoInv'
    BY DoneTypes DEF EraseUpdate, EraseDevice, Done
<1>2. CASE x \in Updates /\ EraseUpdate(x)
  <2>1. update' \in [Updates -> UpdateRows]
      BY <1>2 DEF EraseUpdate, TypeInv, TypeOK, UpdateRows
  <2>2. part[x] \in [Parts -> PartRows] /\ part \in [Stored -> [Parts -> PartRows]]
      BY <1>2 DEF TypeInv, TypeOK, Stored, PartRows
  <2>3. Erased(part[x]) \in [Parts -> PartRows]
      BY <2>2 DEF Erased, PartRows
  <2>4. part' \in [Stored -> [Parts -> PartRows]]
      BY <1>2, <2>2, <2>3 DEF EraseUpdate
  <2>5. \A i \in Images : part'[i] = part[i]
      BY <1>2, CleanupAssumption DEF EraseUpdate, TypeInv, TypeOK
  <2>6. UNCHANGED <<image, set, stored, device, build, retries, stage, faults, raced, lost>>
      BY <1>2 DEF EraseUpdate
  <2>7. PartsInv'
      BY <2>5, <2>6 DEF TypeInv, PartsInv, PartsOf
  <2> QED
      BY <1>1, <2>1, <2>4, <2>6, <2>7 DEF TypeInv, TypeOK, Stored, PartRows, UpdateRows
<1>3. CASE x \in Devices /\ EraseDevice(x)
  <2>1. device \in [Devices -> DeviceRows] /\ [row |-> "erased", runs |-> NoImage] \in DeviceRows
      BY DEF TypeInv, TypeOK, DeviceRows, Rows
  <2>2. device' \in [Devices -> DeviceRows]
      BY <1>3, <2>1 DEF EraseDevice
  <2>3. UNCHANGED <<image, set, part, stored, update, build, retries, stage, faults, raced, lost>>
      BY <1>3 DEF EraseDevice
  <2> QED
      BY <1>1, <2>2, <2>3, SamePartsInv DEF TypeInv, TypeOK, DeviceRows
<1> QED
    BY <1>2, <1>3

\* The rest of the job: it begins, deletes images, and ends.
LEMMA JobTypes ==
    ASSUME TypeInv, Start \/ DeleteOrphanImages \/ DeleteOldImages \/ Crash
    PROVE  TypeInv'
<1>1. CASE Start \/ DeleteOrphanImages \/ DeleteOldImages
  <2>1. image' \in [Images -> ImageRows]
    <3>1. image \in [Images -> ImageRows]
        BY DEF TypeInv, TypeOK, ImageRows
    <3>2. \A i \in Images : [image[i] EXCEPT !.row = "deleted"] \in ImageRows
        BY <3>1 DEF ImageRows, Rows
    <3>3. CASE Start
        BY <3>1, <3>3 DEF Start
    <3>4. CASE DeleteOrphanImages
        BY <3>1, <3>2, <3>4 DEF DeleteOrphanImages
    <3>5. CASE DeleteOldImages
        BY <3>1, <3>2, <3>5 DEF DeleteOldImages
    <3> QED
        BY <1>1, <3>3, <3>4, <3>5
  <2>2. stage' \in Stages
      BY <1>1 DEF Start, DeleteOrphanImages, DeleteOldImages, Stages
  <2>3. UNCHANGED <<set, part, stored, serviceVars, task, faults, raced, lost>>
      BY <1>1 DEF Start, DeleteOrphanImages, DeleteOldImages
  <2>4. TodoInv'
      BY <1>1, <2>3 DEF Start, DeleteOrphanImages, DeleteOldImages, TypeInv, TodoInv, PartsOf, AtWork
  <2> QED
      BY <2>1, <2>2, <2>3, <2>4, SamePartsInv DEF TypeInv, TypeOK, serviceVars, Stages, ImageRows
<1>2. CASE Crash
  <2>1. faults' \in 0..MaxFaults /\ stage' \in Stages
      BY <1>2, CleanupAssumption DEF Crash, TypeInv, TypeOK, Stages
  <2>2. task' \in [Candidates -> Tasks] /\ TodoInv'
      BY <1>2 DEF Crash, NoTask, Tasks, TodoInv, AtWork
  <2> QED
      BY <1>2, <2>1, <2>2, SamePartsInv DEF Crash, TypeInv, TypeOK, serviceVars, Stages
<1> QED
    BY <1>1, <1>2

LEMMA InitTypes == Init => TypeInv
<1> SUFFICES ASSUME Init  PROVE TypeInv
    OBVIOUS
<1>1. \A x \in Stored : part[x] \in [Parts -> PartRows]
    BY DEF Init, Stored, FirstPart, FirstImage, PartRows
<1>2. part \in [Stored -> [Parts -> PartRows]] /\ stored \in [Stored -> SUBSET Parts]
    BY <1>1 DEF Init, Stored
<1>3. \A x \in Candidates : task[x] = NoTask
    BY DEF Init
<1>4. task \in [Candidates -> Tasks] /\ TodoInv
    BY <1>3 DEF Init, NoTask, Tasks, TodoInv, AtWork
<1>5. PartsInv
    BY CleanupAssumption DEF Init, PartsInv, FirstPart, FirstImage, PartsOf
<1>6. image \in [Images -> ImageRows] /\ device \in [Devices -> DeviceRows]
    BY DEF Init, FirstImage, ImageRows, DeviceRows, Rows
<1>7. TypeOK
    BY <1>2, <1>4, <1>6, CleanupAssumption
       DEF Init, TypeOK, Stored, PartRows, ImageRows, DeviceRows, Rows
<1> QED
    BY <1>4, <1>5, <1>7 DEF TypeInv

LEMMA NextTypes == TypeInv /\ [Next]_vars => TypeInv'
<1> SUFFICES ASSUME TypeInv, [Next]_vars  PROVE TypeInv'
    OBVIOUS
<1>1. CASE Service
    BY <1>1, RetryTypes, StorePartTypes, FailBuildTypes, ServiceTypes DEF Service, ServiceRest
<1>2. CASE Job
  <2>1. ASSUME NEW x \in Candidates, Clean(x) \/ Erase(x)
        PROVE  TypeInv'
      BY <2>1, CleanTypes, ImageErasureTypes, OtherErasureTypes DEF Clean, Erase, Stored
  <2> QED
      BY <1>2, <2>1, JobTypes, NextPageTypes DEF Job
<1>3. CASE Crash \/ \E x \in Images \cup Updates : StorageFails(x)
    BY <1>3, JobTypes, CleanTypes DEF Stored
<1>4. CASE UNCHANGED vars
  <2>1. TypeOK'
      BY <1>4 DEF vars, serviceVars, jobVars, TypeInv, TypeOK
  <2> QED
      BY <1>4, <2>1, SamePartsInv, SameTodoInv DEF vars, serviceVars, jobVars, TypeInv
<1> QED
    BY <1>1, <1>2, <1>3, <1>4 DEF Next

\* Every variable has its type in every state, for any images, devices, updates and bounds.
THEOREM TypeCorrect == Spec => []TypeOK
<1>1. TypeInv => TypeOK
    BY DEF TypeInv
<1> QED
    BY <1>1, InitTypes, NextTypes, PTL DEF Spec

LEMMA TypeInvCorrect == Spec => []TypeInv
    BY InitTypes, NextTypes, PTL DEF Spec

-------------------------------------------------------------------------------
(* References.  The invariant carries itself: a row is erased only where   *)
(* nothing refers to it, and a reference is made only to a row that is.    *)

\* The commits and the sets that rows refer to, when what is there only becomes more, or
\* rows of images and updates only become fewer.
Referring == \A i \in Images : image'[i].row # "erased" => image[i].row # "erased"
Updating == \A u \in Updates : update'[u] \notin {"none", "erased"} => update[u] \notin {"none", "erased"}
SetsStay == \A s \in Sets : set[s] # "erased" => set'[s] # "erased"
PartsStay == \A x \in Stored, p \in Parts : Exists(x, p) => part'[x][p] \notin {"none", "erased"}

LEMMA StayingReferences ==
    ASSUME TypeInv, ReferencesHold, Referring, Updating, SetsStay, PartsStay,
           \A i \in Images : part'[i]["commit"] \notin {"none", "erased"} => Exists(i, "commit")
    PROVE  ReferencesHold'
<1>1. \A i \in Images : SetOf[i] \in Sets /\ PartsOf(i) \subseteq Parts /\ i \in Stored
    BY CleanupAssumption DEF PartsOf, Parts, Stored
<1>2. \A u \in Updates : CommitOf[u] \in Images /\ u \in Stored
    BY CleanupAssumption DEF Stored
<1>3. {"commit", "repo"} \subseteq Parts
    BY DEF Parts
<1>4. ASSUME NEW i \in Images, image'[i].row # "erased"
      PROVE  set'[SetOf[i]] # "erased" /\ \A p \in PartsOf(i) : part'[i][p] \notin {"none", "erased"}
    BY <1>1, <1>4 DEF ReferencesHold, Referring, SetsStay, PartsStay
<1>5. ASSUME NEW i \in Images, part'[i]["commit"] \notin {"none", "erased"}
      PROVE  part'[i]["repo"] \notin {"none", "erased"}
    BY <1>1, <1>3, <1>5 DEF ReferencesHold, PartsStay
<1>6. ASSUME NEW u \in Updates, update'[u] \notin {"none", "erased"}
      PROVE  /\ part'[CommitOf[u]]["commit"] \notin {"none", "erased"}
             /\ part'[u]["repo"] \notin {"none", "erased"}
  <2>1. Exists(CommitOf[u], "commit") /\ Exists(u, "repo")
      BY <1>6 DEF ReferencesHold, Updating
  <2>2. CommitOf[u] \in Stored /\ u \in Stored
      BY <1>1, <1>2
  <2>3. part'[CommitOf[u]]["commit"] \notin {"none", "erased"}
      BY <1>3, <2>1, <2>2 DEF PartsStay
  <2>4. part'[u]["repo"] \notin {"none", "erased"}
      BY <1>3, <2>1, <2>2 DEF PartsStay
  <2> QED
      BY <2>3, <2>4
<1> QED
    BY <1>4, <1>5, <1>6 DEF ReferencesHold, Exists, PartsOf

\* A step that changes no row of a part, and no row of an image, a set or an update but by
\* deleting it.
LEMMA DeletingReferences ==
    ASSUME TypeInv, ReferencesHold, Referring, Updating, SetsStay, UNCHANGED part
    PROVE  ReferencesHold'
<1>1. PartsStay
    BY DEF PartsStay, Exists
<1> QED
    BY <1>1, StayingReferences DEF Exists

\* A step of a build, which writes the rows of its image.
LEMMA BuildReferences ==
    ASSUME TypeInv, TypeInv', ReferencesHold, NEW i \in Images, UNCHANGED <<set, update>>,
           \A j \in Images \ {i} : image'[j] = image[j],
           \A x \in Stored \ {i} : part'[x] = part[x],
           image'[i].row # "erased" =>
               /\ set[SetOf[i]] # "erased"
               /\ \A p \in PartsOf(i) : part'[i][p] \notin {"none", "erased"},
           part'[i]["commit"] \notin {"none", "erased"} =>
               part'[i]["repo"] \notin {"none", "erased"},
           Exists(i, "commit") => part'[i]["commit"] \notin {"none", "erased"}
    PROVE  ReferencesHold'
<1>1. ASSUME NEW j \in Images, image'[j].row # "erased"
      PROVE  set'[SetOf[j]] # "erased" /\ \A p \in PartsOf(j) : part'[j][p] \notin {"none", "erased"}
    BY <1>1 DEF ReferencesHold, Exists, Stored
<1>2. ASSUME NEW j \in Images, part'[j]["commit"] \notin {"none", "erased"}
      PROVE  part'[j]["repo"] \notin {"none", "erased"}
    BY <1>2 DEF ReferencesHold, Exists, Stored
<1>3. ASSUME NEW u \in Updates, update'[u] \notin {"none", "erased"}
      PROVE  /\ part'[CommitOf[u]]["commit"] \notin {"none", "erased"}
             /\ part'[u]["repo"] \notin {"none", "erased"}
  <2>1. Exists(CommitOf[u], "commit") /\ Exists(u, "repo") /\ CommitOf[u] \in Images
      BY <1>3, CleanupAssumption DEF ReferencesHold
  <2>2. u \in Stored \ {i} /\ CommitOf[u] \in Stored
      BY <2>1, CleanupAssumption DEF Stored
  <2> QED
      BY <2>1, <2>2 DEF Exists
<1> QED
    BY <1>1, <1>2, <1>3 DEF ReferencesHold, Exists, PartsOf

LEMMA RetryReferences ==
    ASSUME TypeInv, TypeInv', ReferencesHold, NEW i \in Images, RetryCreateImage(i)
    PROVE  ReferencesHold'
<1>1. image[i].row # "erased" /\ i \in Stored
    BY DEF RetryCreateImage, Stored
<1>2. \A p \in PartsOf(i) : p \in Parts /\ Exists(i, p)
    BY <1>1 DEF ReferencesHold, PartsOf, Parts
<1>3. \A p \in Parts : part'[i][p] = IF part[i][p] = "none" \/ p = "repo" THEN part[i][p] ELSE "BUILDING"
    BY <1>1 DEF RetryCreateImage, TypeInv, TypeOK, Stored
<1>4. \A p \in PartsOf(i) : part'[i][p] \notin {"none", "erased"}
    BY <1>2, <1>3 DEF Exists
<1>5. /\ \A j \in Images \ {i} : image'[j] = image[j]
      /\ \A x \in Stored \ {i} : part'[x] = part[x]
      /\ UNCHANGED <<set, update>>
    BY DEF RetryCreateImage, TypeInv, TypeOK, Stored
<1>6. set[SetOf[i]] # "erased"
    BY <1>1 DEF ReferencesHold
<1>7. "commit" \in PartsOf(i) /\ "repo" \in PartsOf(i)
    BY DEF PartsOf, Parts
<1> QED
    BY <1>4, <1>5, <1>6, <1>7, BuildReferences

LEMMA StorePartReferences ==
    ASSUME TypeInv, TypeInv', ReferencesHold, NEW i \in Images, StorePart(i)
    PROVE  ReferencesHold'
<1> DEFINE last == build[i] # "commit" /\ (build[i] = "installer" \/ i \notin Installing)
           back == last /\ (image[i].row # "erased" \/ set[SetOf[i]] # "erased")
<1>1. i \in Stored /\ build[i] \in Parts /\ build[i] \in PartsOf(i)
    BY DEF TypeInv, TypeOK, PartsInv, StorePart, Parts, PartsOf, Stored
<1>2. part[i] \in [Parts -> PartRows] /\ {"commit", "repo"} \subseteq PartsOf(i)
      /\ PartsOf(i) \subseteq Parts
    BY <1>1 DEF TypeInv, TypeOK, PartRows, Parts, PartsOf, Stored
<1>3. part' = [part EXCEPT ![i] = StoredRows(i)]
    BY DEF StorePart, StoredRows
<1>4. /\ \A j \in Images \ {i} : image'[j] = image[j]
      /\ \A x \in Stored \ {i} : part'[x] = part[x]
      /\ part'[i] = StoredRows(i)
      /\ UNCHANGED <<set, update>>
    BY <1>1, <1>3 DEF StorePart, TypeInv, TypeOK, Stored
<1>5. \A p \in Parts : Exists(i, p) => StoredRows(i)[p] \notin {"none", "erased"}
    BY <1>1, <1>2 DEF StoredRows, Exists, Parts
<1>6. \A p \in PartsOf(i) : part[i][p] # "none"
    BY <1>2 DEF TypeInv, PartsInv
<1>7. back => \A p \in PartsOf(i) : StoredRows(i)[p] \notin {"none", "erased"}
    BY <1>1, <1>2, <1>6 DEF StoredRows
<1>8. ~ back => image'[i] = image[i]
    BY DEF StorePart, TypeInv, TypeOK
<1>9. image'[i].row # "erased" =>
          /\ set[SetOf[i]] # "erased"
          /\ \A p \in PartsOf(i) : StoredRows(i)[p] \notin {"none", "erased"}
    BY <1>2, <1>5, <1>7, <1>8 DEF ReferencesHold
<1>10. StoredRows(i)["commit"] \notin {"none", "erased"} =>
           StoredRows(i)["repo"] \notin {"none", "erased"}
  <2>1. CASE build[i] = "commit"
      BY <1>2, <2>1 DEF StoredRows
  <2>2. CASE build[i] # "commit" /\ ~ back
    <3>1. StoredRows(i)["commit"] = part[i]["commit"]
        BY <1>2, <2>2 DEF StoredRows
    <3> QED
        BY <1>2, <1>5, <3>1 DEF ReferencesHold, Exists
  <2> QED
      BY <1>2, <1>7, <2>1, <2>2
<1> HIDE DEF last, back
<1> QED
    BY <1>2, <1>4, <1>5, <1>9, <1>10, BuildReferences

LEMMA FailBuildReferences ==
    ASSUME TypeInv, TypeInv', ReferencesHold, NEW i \in Images, FailBuild(i)
    PROVE  ReferencesHold'
<1>1. i \in Stored /\ {"commit", "repo"} \subseteq PartsOf(i) /\ PartsOf(i) \subseteq Parts
    BY DEF Stored, PartsOf, Parts
<1> DEFINE kept == [q \in Parts |-> IF part[i][q] = "erased" THEN "BUILDING" ELSE part[i][q]]
<1>2. PICK failed : part' = [part EXCEPT ![i] =
          [q \in Parts |-> IF q \in failed /\ part[i][q] # "none" THEN "ERROR" ELSE kept[q]]]
    BY DEF FailBuild
<1>3. \A p \in PartsOf(i) : part'[i][p] \notin {"none", "erased"}
  <2>1. \A p \in PartsOf(i) : part[i][p] # "none"
      BY <1>1 DEF TypeInv, PartsInv
  <2> QED
      BY <1>1, <1>2, <2>1 DEF TypeInv, TypeOK, Stored
<1>4. /\ \A j \in Images \ {i} : image'[j] = image[j]
      /\ \A x \in Stored \ {i} : part'[x] = part[x]
      /\ UNCHANGED <<set, update>>
    BY <1>2 DEF FailBuild, TypeInv, TypeOK, Stored
<1>5. image'[i].row # "erased" => set[SetOf[i]] # "erased"
    BY DEF FailBuild, TypeInv, TypeOK, ReferencesHold
<1> HIDE DEF kept
<1> QED
    BY <1>1, <1>3, <1>4, <1>5, BuildReferences

LEMMA ServiceReferences ==
    ASSUME TypeInv, ReferencesHold, ServiceRest
    PROVE  ReferencesHold'
<1>1. ASSUME NEW i \in Images, DeleteImage(i)
      PROVE  ReferencesHold'
  <2>1. Referring /\ Updating /\ SetsStay
      BY <1>1 DEF DeleteImage, Referring, Updating, SetsStay, TypeInv, TypeOK, serviceVars
  <2> QED
      BY <1>1, <2>1, DeletingReferences DEF DeleteImage
<1>2. ASSUME NEW s \in Sets, DeleteImageSet(s)
      PROVE  ReferencesHold'
  <2>1. Referring /\ Updating /\ SetsStay
      BY <1>2 DEF DeleteImageSet, Referring, Updating, SetsStay, TypeInv, TypeOK, serviceVars
  <2> QED
      BY <1>2, <2>1, DeletingReferences DEF DeleteImageSet
<1>3. ASSUME NEW u \in Updates, BuildUpdateTransactions(u) \/ BuildUpdateRepo(u)
      PROVE  ReferencesHold'
  <2>1. PICK status \in {"BUILDING", "SUCCESS"} : part' = [part EXCEPT ![u]["repo"] = status]
      BY <1>3 DEF BuildUpdateTransactions, BuildUpdateRepo
  <2>2. \A i \in Images : part'[i] = part[i]
      BY <2>1, CleanupAssumption DEF TypeInv, TypeOK
  <2>3. part'[u]["repo"] \notin {"none", "erased"}
      BY <2>1 DEF TypeInv, TypeOK, Parts
  <2>4. \A v \in Updates \ {u} : part'[v] = part[v] /\ update'[v] = update[v]
      BY <1>3, <2>1 DEF BuildUpdateTransactions, BuildUpdateRepo, TypeInv, TypeOK
  <2>5. Exists(CommitOf[u], "commit")
      BY <1>3 DEF BuildUpdateTransactions, BuildUpdateRepo, ReferencesHold
  <2>6. UNCHANGED <<image, set>>
      BY <1>3 DEF BuildUpdateTransactions, BuildUpdateRepo
  <2>7. \A v \in Updates : CommitOf[v] \in Images
      BY CleanupAssumption
  <2> QED
      BY <2>2, <2>3, <2>4, <2>5, <2>6, <2>7 DEF ReferencesHold, Exists, PartsOf
<1>4. ASSUME NEW u \in Updates, EndUpdate(u)
      PROVE  ReferencesHold'
  <2>1. Referring /\ Updating /\ SetsStay
      BY <1>4 DEF EndUpdate, Referring, Updating, SetsStay, TypeInv, TypeOK
  <2> QED
      BY <1>4, <2>1, DeletingReferences DEF EndUpdate
<1>5. ASSUME NEW d \in Devices, DeleteDevice(d)
      PROVE  ReferencesHold'
    BY <1>5, DeletingReferences DEF DeleteDevice, Referring, Updating, SetsStay
<1> QED
    BY <1>1, <1>2, <1>3, <1>4, <1>5 DEF ServiceRest

LEMMA CleanReferences ==
    ASSUME TypeInv, TypeInv', ReferencesHold, NEW x \in Stored,
           EmptyStorage(x) \/ StorageFails(x) \/ MarkCleaned(x)
    PROVE  ReferencesHold'
<1>1. Referring /\ Updating /\ SetsStay
    BY DEF EmptyStorage, StorageFails, MarkCleaned, serviceVars, Referring, Updating, SetsStay
<1>2. CASE UNCHANGED part
    BY <1>1, <1>2, DeletingReferences
<1>3. CASE MarkCleaned(x)
  <2>1. \A y \in Stored, p \in Parts :
            \/ part'[y][p] = part[y][p]
            \/ y = x /\ p = NextPart(x) /\ part'[y][p] = "STORAGE_CLEANED" /\ part[y][p] # "erased"
      BY <1>3, NextPartType DEF MarkCleaned, TypeInv, TypeOK, Stored
  <2>2. PartsStay
      BY <2>1 DEF PartsStay, Exists
  <2>3. \A i \in Images : part[i]["commit"] # "none" /\ i \in Stored /\ "commit" \in Parts
      BY DEF TypeInv, PartsInv, PartsOf, Parts, Stored
  <2>4. \A i \in Images : part'[i]["commit"] \notin {"none", "erased"} => Exists(i, "commit")
      BY <2>1, <2>3 DEF Exists
  <2> QED
      BY <1>1, <2>2, <2>4, StayingReferences
<1> QED
    BY <1>2, <1>3 DEF EmptyStorage, StorageFails

\* An image is erased with its commit unless an update has that, and with its set unless
\* another image is in it; a commit when neither has it.
LEMMA ImageErasureReferences ==
    ASSUME TypeInv, TypeInv', ReferencesHold, NEW x \in Images,
           KeepImage(x) \/ EraseImage(x) \/ EraseCommit(x)
    PROVE  ReferencesHold'
<1>0. x \in Stored /\ {"commit", "repo"} \subseteq Parts
    BY DEF Stored, Parts
<1>1. CASE KeepImage(x) \/ UNCHANGED <<part, image, set, update>>
  <2>1. Referring /\ Updating /\ SetsStay /\ UNCHANGED part
      BY <1>1 DEF KeepImage, Referring, Updating, SetsStay, serviceVars
  <2> QED
      BY <2>1, DeletingReferences
<1>2. CASE EraseImage(x)
  <2>1. /\ \A j \in Images \ {x} : image'[j] = image[j]
        /\ image'[x].row = "erased"
        /\ \A y \in Stored \ {x} : part'[y] = part[y]
        /\ UNCHANGED update
      BY <1>2 DEF EraseImage, TypeInv, TypeOK, Stored, serviceVars
  <2>2. \A j \in Images : image'[j].row # "erased" => set'[SetOf[j]] # "erased"
    <3> SUFFICES ASSUME NEW j \in Images, image'[j].row # "erased"
                 PROVE  set'[SetOf[j]] # "erased"
        OBVIOUS
    <3>1. image[j].row # "erased" /\ set[SetOf[j]] # "erased"
        BY <2>1 DEF ReferencesHold
    <3>2. SetOf[j] = SetOf[x] => set' = [set EXCEPT ![SetOf[x]] = set[SetOf[x]]]
        BY <1>2 DEF EraseImage
    <3>3. SetOf[j] # SetOf[x] => set'[SetOf[j]] = set[SetOf[j]]
        BY <1>2, CleanupAssumption DEF EraseImage, TypeInv, TypeOK
    <3> QED
        BY <3>1, <3>2, <3>3, CleanupAssumption DEF TypeInv, TypeOK
  <2>3. \/ IsUpdated(x) /\ part'[x]["commit"] = part[x]["commit"] /\ part'[x]["repo"] = part[x]["repo"]
        \/ ~ IsUpdated(x) /\ part'[x]["commit"] \in {"none", "erased"}
      BY <1>0, <1>2 DEF EraseImage, Erased, TypeInv, TypeOK, Stored
  <2>4. \A j \in Images : part'[j]["commit"] \notin {"none", "erased"} =>
                              part'[j]["repo"] \notin {"none", "erased"}
      BY <2>1, <2>3 DEF ReferencesHold, Exists, Stored
  <2>5. ASSUME NEW u \in Updates, update'[u] \notin {"none", "erased"}
        PROVE  /\ part'[CommitOf[u]]["commit"] \notin {"none", "erased"}
               /\ part'[u]["repo"] \notin {"none", "erased"}
    <3>1. Exists(CommitOf[u], "commit") /\ Exists(u, "repo")
        BY <2>1, <2>5 DEF ReferencesHold
    <3>2. CommitOf[u] \in Stored /\ u \in Stored \ {x}
        BY CleanupAssumption DEF Stored
    <3>3. CommitOf[u] = x => IsUpdated(x)
        BY <2>1, <2>5 DEF IsUpdated
    <3> QED
        BY <2>1, <2>3, <3>1, <3>2, <3>3 DEF Exists
  <2>6. \A j \in Images : image'[j].row # "erased" =>
            \A p \in PartsOf(j) : part'[j][p] \notin {"none", "erased"}
      BY <2>1 DEF ReferencesHold, Exists, Stored
  <2> QED
      BY <2>2, <2>4, <2>5, <2>6 DEF ReferencesHold, Exists, PartsOf
<1>3. CASE EraseCommit(x) /\ ~ UNCHANGED part
  <2>1. image[x].row = "erased" /\ ~ IsUpdated(x) /\ UNCHANGED <<image, set, update>>
      BY <1>3 DEF EraseCommit, serviceVars
  <2>2. /\ \A y \in Stored \ {x} : part'[y] = part[y]
        /\ part'[x]["commit"] = "erased"
      BY <1>0, <1>3 DEF EraseCommit, TypeInv, TypeOK, Stored
  <2>3. ASSUME NEW u \in Updates, update'[u] \notin {"none", "erased"}
        PROVE  /\ part'[CommitOf[u]]["commit"] \notin {"none", "erased"}
               /\ part'[u]["repo"] \notin {"none", "erased"}
    <3>1. Exists(CommitOf[u], "commit") /\ Exists(u, "repo") /\ CommitOf[u] # x
        BY <2>1, <2>3 DEF ReferencesHold, IsUpdated
    <3>2. CommitOf[u] \in Stored \ {x} /\ u \in Stored \ {x}
        BY <3>1, CleanupAssumption DEF Stored
    <3> QED
        BY <2>2, <3>1, <3>2 DEF Exists
  <2>4. \A j \in Images \ {x} : part'[j] = part[j]
      BY <2>2 DEF Stored
  <2> QED
      BY <2>1, <2>2, <2>3, <2>4 DEF ReferencesHold, Exists, PartsOf
<1> QED
    BY <1>1, <1>2, <1>3 DEF EraseCommit, serviceVars

LEMMA OtherErasureReferences ==
    ASSUME TypeInv, ReferencesHold, NEW x \in Candidates,
           (x \in Updates /\ EraseUpdate(x)) \/ (x \in Devices /\ EraseDevice(x))
    PROVE  ReferencesHold'
<1>1. CASE x \in Updates /\ EraseUpdate(x)
  <2>1. update'[x] = "erased" /\ \A u \in Updates \ {x} : update'[u] = update[u]
      BY <1>1 DEF EraseUpdate, TypeInv, TypeOK
  <2>2. \A y \in Stored \ {x} : part'[y] = part[y]
      BY <1>1 DEF EraseUpdate, TypeInv, TypeOK, Stored
  <2>3. \A i \in Images : part'[i] = part[i]
      BY <1>1, <2>2, CleanupAssumption DEF Stored
  <2>4. \A u \in Updates \ {x} : part'[u] = part[u]
      BY <2>2 DEF Stored
  <2>5. UNCHANGED <<image, set>>
      BY <1>1 DEF EraseUpdate
  <2>6. \A u \in Updates : CommitOf[u] \in Images
      BY CleanupAssumption
  <2> QED
      BY <2>1, <2>3, <2>4, <2>5, <2>6 DEF ReferencesHold, Exists, PartsOf
<1>2. CASE x \in Devices /\ EraseDevice(x)
    BY <1>2, DeletingReferences DEF EraseDevice, Referring, Updating, SetsStay
<1> QED
    BY <1>1, <1>2

LEMMA JobReferences ==
    ASSUME TypeInv, ReferencesHold,
           Start \/ DeleteOrphanImages \/ DeleteOldImages \/ NextPage \/ Crash
    PROVE  ReferencesHold'
<1>1. Referring
    BY DEF Start, DeleteOrphanImages, DeleteOldImages, NextPage, Crash, Referring
<1>2. UNCHANGED <<set, part, update>>
    BY DEF Start, DeleteOrphanImages, DeleteOldImages, NextPage, Crash, serviceVars
<1> QED
    BY <1>1, <1>2, DeletingReferences DEF Updating, SetsStay

LEMMA InitReferences == Init => ReferencesHold
<1> SUFFICES ASSUME Init  PROVE ReferencesHold
    OBVIOUS
<1>1. \A i \in Images : SetOf[i] \in Sets /\ i \in Stored /\ i \notin Updates
    BY CleanupAssumption DEF Stored
<1>2. \A i \in Images : \A p \in PartsOf(i) : part[i][p] \notin {"none", "erased"}
    BY <1>1 DEF Init, FirstPart, FirstImage, PartsOf, Parts, Stored
<1>3. \A i \in Images : {"commit", "repo"} \subseteq PartsOf(i)
    BY DEF PartsOf, Parts
<1>4. ASSUME NEW u \in Updates, update[u] \notin {"none", "erased"}
      PROVE  CommitOf[u] \in Images /\ part[u]["repo"] \notin {"none", "erased"}
    BY <1>4, CleanupAssumption DEF Init, FirstPart, PartsOf, Parts
<1>5. \A s \in Sets : set[s] # "erased"
    BY DEF Init
<1> QED
    BY <1>1, <1>2, <1>3, <1>4, <1>5 DEF ReferencesHold, Exists

LEMMA NextReferences == TypeInv /\ ReferencesHold /\ [Next]_vars => ReferencesHold'
<1> SUFFICES ASSUME TypeInv, ReferencesHold, [Next]_vars  PROVE ReferencesHold'
    OBVIOUS
<1>0. TypeInv'
    BY NextTypes
<1>1. CASE Service
    BY <1>0, <1>1, RetryReferences, StorePartReferences, FailBuildReferences, ServiceReferences
       DEF Service, ServiceRest
<1>2. CASE Job
  <2>1. ASSUME NEW x \in Candidates, Clean(x) \/ Erase(x)
        PROVE  ReferencesHold'
      BY <1>0, <2>1, CleanReferences, ImageErasureReferences, OtherErasureReferences
         DEF Clean, Erase, Stored
  <2> QED
      BY <1>2, <2>1, JobReferences DEF Job
<1>3. CASE Crash \/ \E x \in Images \cup Updates : StorageFails(x)
    BY <1>0, <1>3, JobReferences, CleanReferences DEF Stored
<1>4. CASE UNCHANGED vars
    BY <1>4 DEF vars, serviceVars, jobVars, ReferencesHold, Exists, PartsOf
<1> QED
    BY <1>1, <1>2, <1>3, <1>4 DEF Next

\* No row refers to one that was erased, whichever builds, updates and deletions go on beside
\* the job and wherever it ends.
THEOREM ReferencesHoldCorrect == Spec => []ReferencesHold
    BY TypeInvCorrect, InitReferences, NextReferences, PTL DEF Spec

-------------------------------------------------------------------------------
(* The storage.  NothingIsForgotten is not inductive: when a row is marked *)
(* its content must be gone already, when rows are erased the job must     *)
(* have worked off all that was in the storage when it copied the          *)
(* candidate, and a commit that outlives its image must have nothing left. *)

Told(i) == \A p \in stored[i] : part[i][p] = "SUCCESS" \/ <<i, p>> \in lost
RemovedFirst(i) == task[i].at = "marking" => NextPart(i) \notin stored[i]
LeftToClean(i) ==
    stage = "images" /\ AtWork(i) => \A p \in stored[i] : p \in task[i].todo \/ <<i, p>> \in lost
ErasedIsEmpty(i) == image[i].row = "erased" => \A p \in stored[i] : <<i, p>> \in lost

Accounted(i) == Told(i) /\ RemovedFirst(i) /\ LeftToClean(i) /\ ErasedIsEmpty(i)
StorageInv == \A i \in Images \ raced : Accounted(i)

\* An image whose rows, storage and task stay as they are.
LEMMA SameAccounted ==
    ASSUME NEW j \in Images, Accounted(j),
           image'[j].row = "erased" => image[j].row = "erased",
           part'[j] = part[j], stored'[j] = stored[j],
           task'[j].at = task[j].at, task'[j].todo = task[j].todo, stage' = stage,
           \A p \in Parts : <<j, p>> \in lost => <<j, p>> \in lost',
           stored[j] \subseteq Parts
    PROVE  Accounted(j)'
<1>1. NextPart(j)' = NextPart(j)
    BY DEF NextPart
<1>2. Told(j)' /\ ErasedIsEmpty(j)'
    BY DEF Accounted, Told, ErasedIsEmpty
<1>3. RemovedFirst(j)'
    BY <1>1 DEF Accounted, RemovedFirst
<1>4. LeftToClean(j)'
    BY DEF Accounted, LeftToClean, AtWork
<1> QED
    BY <1>2, <1>3, <1>4 DEF Accounted

\* A step of a build: what its rows do not tell is lost, and a build of an image that the
\* job holds, or that was deleted, is set apart.
LEMMA BuildAccounted ==
    ASSUME TypeInv, StorageInv, NEW i \in Images, Races(i), Loses(i),
           UNCHANGED <<task, stage>>,
           image[i].row = "live" => image'[i].row # "erased",
           \A j \in Images \ {i} :
               image'[j] = image[j] /\ part'[j] = part[j] /\ stored'[j] = stored[j]
    PROVE  StorageInv'
<1> SUFFICES ASSUME NEW j \in Images, j \notin raced'  PROVE Accounted(j)'
    BY DEF StorageInv, Accounted, Told, RemovedFirst, NextPart, LeftToClean, ErasedIsEmpty, AtWork
<1>1. Accounted(j)
    BY DEF StorageInv, Races
<1>2. stored[j] \subseteq Parts
    BY DEF TypeInv, TypeOK
<1>3. CASE j # i
  <2>1. \A p \in Parts : <<j, p>> \in lost => <<j, p>> \in lost'
      BY <1>3 DEF Loses
  <2> QED
      BY <1>1, <1>2, <1>3, <2>1, SameAccounted
<1>4. CASE j = i
  <2>1. ~ AtWork(i) /\ image[i].row = "live"
      BY <1>4 DEF Races
  <2>2. Told(i)'
      BY DEF Told, Loses
  <2>3. RemovedFirst(i)' /\ LeftToClean(i)'
      BY <2>1 DEF AtWork, RemovedFirst, LeftToClean
  <2>4. ErasedIsEmpty(i)'
      BY <2>1 DEF ErasedIsEmpty
  <2> QED
      BY <1>4, <2>2, <2>3, <2>4 DEF Accounted
<1> QED
    BY <1>3, <1>4

\* A step that changes no row of a part, no storage and no task of an image.
LEMMA OtherAccounted ==
    ASSUME TypeInv, StorageInv, UNCHANGED <<stored, raced, lost, stage>>,
           \A i \in Images : /\ image'[i].row = "erased" => image[i].row = "erased"
                             /\ part'[i] = part[i]
                             /\ task'[i] = task[i]
    PROVE  StorageInv'
<1> SUFFICES ASSUME NEW j \in Images, j \notin raced'  PROVE Accounted(j)'
    BY DEF StorageInv, Accounted, Told, RemovedFirst, NextPart, LeftToClean, ErasedIsEmpty, AtWork
<1>1. Accounted(j) /\ stored[j] \subseteq Parts
    BY DEF StorageInv, TypeInv, TypeOK
<1> QED
    BY <1>1, SameAccounted

LEMMA ServiceAccounted ==
    ASSUME TypeInv, StorageInv, Service
    PROVE  StorageInv'
<1>1. ASSUME NEW i \in Images, RetryCreateImage(i) \/ StorePart(i) \/ FailBuild(i)
      PROVE  StorageInv'
  <2>1. Races(i) /\ Loses(i) /\ UNCHANGED <<task, stage>>
      BY <1>1 DEF RetryCreateImage, StorePart, FailBuild, jobVars
  <2>2. image[i].row = "live" => image'[i].row # "erased"
      BY <1>1 DEF RetryCreateImage, StorePart, FailBuild, TypeInv, TypeOK
  <2>3. \A j \in Images \ {i} : image'[j] = image[j] /\ stored'[j] = stored[j]
      BY <1>1 DEF RetryCreateImage, StorePart, FailBuild, TypeInv, TypeOK
  <2>4. \E f : part' = [part EXCEPT ![i] = f]
      BY <1>1 DEF RetryCreateImage, StorePart, FailBuild
  <2>5. \A j \in Images \ {i} : part'[j] = part[j]
      BY <2>4 DEF TypeInv, TypeOK
  <2> QED
      BY <2>1, <2>2, <2>3, <2>5, BuildAccounted
<1>2. CASE ServiceRest
  <2>1. UNCHANGED <<stored, raced, lost, stage, task>>
      BY <1>2 DEF ServiceRest, DeleteImage, DeleteImageSet, BuildUpdateTransactions,
                  BuildUpdateRepo, EndUpdate, DeleteDevice, jobVars
  <2>2. \A i \in Images : image'[i].row = "erased" => image[i].row = "erased"
    <3>1. ASSUME NEW j \in Images, DeleteImage(j)
          PROVE  \A i \in Images : image'[i].row = "erased" => image[i].row = "erased"
        BY <3>1 DEF DeleteImage, TypeInv, TypeOK
    <3>2. ASSUME NEW s \in Sets, DeleteImageSet(s)
          PROVE  \A i \in Images : image'[i].row = "erased" => image[i].row = "erased"
        BY <3>2 DEF DeleteImageSet, TypeInv, TypeOK
    <3> QED
        BY <1>2, <3>1, <3>2
           DEF ServiceRest, BuildUpdateTransactions, BuildUpdateRepo, EndUpdate, DeleteDevice
  <2>3. \A i \in Images : part'[i] = part[i]
    <3>1. ASSUME NEW u \in Updates, BuildUpdateTransactions(u) \/ BuildUpdateRepo(u)
          PROVE  \A i \in Images : part'[i] = part[i]
        BY <3>1, CleanupAssumption DEF BuildUpdateTransactions, BuildUpdateRepo, TypeInv, TypeOK
    <3> QED
        BY <1>2, <3>1 DEF ServiceRest, DeleteImage, DeleteImageSet, EndUpdate, DeleteDevice
  <2> QED
      BY <2>1, <2>2, <2>3, OtherAccounted
<1> QED
    BY <1>1, <1>2 DEF Service, ServiceRest

\* A page copies all that the rows tell of; what they do not tell is lost already.
LEMMA NextPageAccounted ==
    ASSUME TypeInv, StorageInv, NextPage
    PROVE  StorageInv'
<1> SUFFICES ASSUME NEW j \in Images, j \notin raced'  PROVE Accounted(j)'
    BY DEF StorageInv, Accounted, Told, RemovedFirst, NextPart, LeftToClean, ErasedIsEmpty, AtWork
<1>1. UNCHANGED <<image, part, stored, raced, lost>> /\ j \in Candidates
    BY DEF NextPage, Candidates
<1>2. Accounted(j)
    BY <1>1 DEF StorageInv
<1>3. stored[j] \subseteq Parts
    BY DEF TypeInv, TypeOK
<1>4. \/ task'[j] = NoTask
      \/ task'[j].at = "cleaning" /\ task'[j].todo = ToClean(j) /\ stage' = stage
    BY <1>1 DEF NextPage
<1>5. RemovedFirst(j)'
    BY <1>4 DEF RemovedFirst, NoTask
<1>6. LeftToClean(j)'
  <2>1. CASE task'[j] = NoTask
      BY <2>1 DEF LeftToClean, NoTask, AtWork
  <2>2. CASE task'[j].todo = ToClean(j) /\ stage' = stage
    <3>1. stage = "images" => ToClean(j) = IsBuilt(j)
        BY DEF ToClean
    <3>2. \A p \in stored[j] : p \in IsBuilt(j) \/ <<j, p>> \in lost
        BY <1>2, <1>3 DEF Accounted, Told, IsBuilt
    <3> QED
        BY <1>1, <2>2, <3>1, <3>2 DEF LeftToClean, AtWork
  <2> QED
      BY <1>4, <2>1, <2>2
<1>7. Told(j)' /\ ErasedIsEmpty(j)'
    BY <1>1, <1>2 DEF Accounted, Told, ErasedIsEmpty
<1> QED
    BY <1>5, <1>6, <1>7 DEF Accounted

LEMMA EmptyStorageAccounted ==
    ASSUME TypeInv, StorageInv, NEW x \in Stored, EmptyStorage(x) \/ StorageFails(x)
    PROVE  StorageInv'
<1> SUFFICES ASSUME NEW j \in Images, j \notin raced'  PROVE Accounted(j)'
    BY DEF StorageInv, Accounted, Told, RemovedFirst, NextPart, LeftToClean, ErasedIsEmpty, AtWork
<1>1. UNCHANGED <<image, part, stage, raced, lost>> /\ j \in Candidates /\ x \in Candidates
    BY DEF EmptyStorage, StorageFails, Candidates, Stored
<1>2. Accounted(j) /\ stored[j] \subseteq Parts
    BY <1>1 DEF StorageInv, TypeInv, TypeOK
<1>3. \E at \in {"marking", "failed"} : task' = [task EXCEPT ![x].at = at]
    BY DEF EmptyStorage, StorageFails
<1>4. CASE j # x
  <2>1. stored'[j] = stored[j]
      BY <1>4 DEF EmptyStorage, StorageFails, TypeInv, TypeOK, Stored
  <2>2. task'[j] = task[j]
      BY <1>1, <1>3, <1>4 DEF TypeInv, TypeOK
  <2> QED
      BY <1>1, <1>2, <2>1, <2>2, SameAccounted
<1>5. CASE j = x
  <2>1. stored'[j] \subseteq stored[j]
      BY <1>5 DEF EmptyStorage, StorageFails, TypeInv, TypeOK
  <2>2. task'[j].todo = task[j].todo
      BY <1>1, <1>3 DEF TypeInv, TypeOK, Tasks
  <2>3. NextPart(j)' = NextPart(j)
      BY <2>2 DEF NextPart
  <2>4. AtWork(j)
      BY <1>5 DEF EmptyStorage, StorageFails, AtWork
  <2>5. RemovedFirst(j)'
    <3>1. EmptyStorage(x) => RemovedFirst(j)'
      <4> SUFFICES ASSUME EmptyStorage(x)  PROVE NextPart(j) \notin stored'[j]
          BY <2>3 DEF RemovedFirst
      <4> QED
          BY <1>5 DEF EmptyStorage, TypeInv, TypeOK
    <3>2. StorageFails(x) => task'[j].at = "failed"
        BY <1>1, <1>5 DEF StorageFails, TypeInv, TypeOK, Tasks
    <3> QED
        BY <3>1, <3>2 DEF RemovedFirst
  <2>6. Told(j)' /\ ErasedIsEmpty(j)'
      BY <1>1, <1>2, <2>1 DEF Accounted, Told, ErasedIsEmpty
  <2>7. LeftToClean(j)'
      BY <1>1, <1>2, <2>1, <2>2, <2>4 DEF Accounted, LeftToClean, AtWork
  <2> QED
      BY <2>5, <2>6, <2>7 DEF Accounted
<1> QED
    BY <1>4, <1>5

LEMMA MarkCleanedAccounted ==
    ASSUME TypeInv, StorageInv, NEW x \in Stored, MarkCleaned(x)
    PROVE  StorageInv'
<1> SUFFICES ASSUME NEW j \in Images, j \notin raced'  PROVE Accounted(j)'
    BY DEF StorageInv, Accounted, Told, RemovedFirst, NextPart, LeftToClean, ErasedIsEmpty, AtWork
<1>1. UNCHANGED <<image, stored, stage, raced, lost>> /\ j \in Candidates /\ x \in Candidates
    BY DEF MarkCleaned, Candidates, Stored
<1>2. Accounted(j) /\ stored[j] \subseteq Parts
    BY <1>1 DEF StorageInv, TypeInv, TypeOK
<1>3. CASE j # x
  <2>1. part'[j] = part[j]
      BY <1>3 DEF MarkCleaned, TypeInv, TypeOK
  <2>2. task'[j] = task[j]
      BY <1>1, <1>3 DEF MarkCleaned, TypeInv, TypeOK
  <2> QED
      BY <1>1, <1>2, <2>1, <2>2, SameAccounted
<1>4. CASE j = x
  <2>1. NextPart(j) \notin stored[j]
      BY <1>2, <1>4 DEF Accounted, RemovedFirst, MarkCleaned
  <2>2. \A p \in Parts : p # NextPart(j) => part'[j][p] = part[j][p]
      BY <1>4 DEF MarkCleaned, TypeInv, TypeOK, Stored
  <2>3. task'[j].at = "cleaning" /\ task'[j].todo = task[j].todo \ {NextPart(j)}
    <3>1. task' = [task EXCEPT ![j].at = "cleaning", ![j].todo = task[j].todo \ {NextPart(j)}]
        BY <1>1, <1>4 DEF MarkCleaned
    <3> QED
        BY <1>1, <3>1 DEF TypeInv, TypeOK, Tasks
  <2>4. AtWork(j)
      BY <1>4 DEF MarkCleaned, AtWork
  <2>5. Told(j)' /\ ErasedIsEmpty(j)'
      BY <1>1, <1>2, <2>1, <2>2 DEF Accounted, Told, ErasedIsEmpty
  <2>6. RemovedFirst(j)'
      BY <2>3 DEF RemovedFirst
  <2>7. LeftToClean(j)'
      BY <1>1, <1>2, <2>1, <2>3, <2>4 DEF Accounted, LeftToClean, AtWork
  <2> QED
      BY <2>5, <2>6, <2>7 DEF Accounted
<1> QED
    BY <1>3, <1>4

\* Rows are erased when nothing of the image is left in the storage.
LEMMA ErasureAccounted ==
    ASSUME TypeInv, StorageInv, NEW x \in Candidates, Erase(x)
    PROVE  StorageInv'
<1>1. UNCHANGED <<stored, stage, raced, lost>>
    BY DEF Erase, KeepImage, EraseImage, EraseCommit, EraseUpdate, EraseDevice, serviceVars
<1>2. \E at \in {"done", "failed"} : task' = [task EXCEPT ![x].at = at]
    BY DEF Erase, KeepImage, EraseImage, EraseCommit, EraseUpdate, EraseDevice, Done
<1>3. CASE x \notin Images
  <2>1. \A i \in Images : task'[i] = task[i]
      BY <1>2, <1>3 DEF TypeInv, TypeOK, Candidates
  <2>2. \A i \in Images : image'[i] = image[i] /\ part'[i] = part[i]
      BY <1>3 DEF Erase, EraseUpdate, EraseDevice, TypeInv, TypeOK
  <2> QED
      BY <1>1, <2>1, <2>2, OtherAccounted
<1>4. CASE x \in Images
  <2> SUFFICES ASSUME NEW j \in Images, j \notin raced'  PROVE Accounted(j)'
      BY DEF StorageInv, Accounted, Told, RemovedFirst, NextPart, LeftToClean, ErasedIsEmpty, AtWork
  <2>1. Accounted(j) /\ stored[j] \subseteq Parts /\ j \in Candidates
      BY <1>1 DEF StorageInv, TypeInv, TypeOK, Candidates
  <2>2. CASE j # x
    <3>1. task'[j] = task[j]
        BY <1>2, <2>1, <2>2 DEF TypeInv, TypeOK
    <3>2. image'[j] = image[j]
        BY <2>2, <1>4, CleanupAssumption
           DEF Erase, KeepImage, EraseImage, EraseCommit, EraseUpdate, EraseDevice, serviceVars,
               TypeInv, TypeOK
    <3>3. part'[j] = part[j]
        BY <2>2, <1>4, CleanupAssumption
           DEF Erase, KeepImage, EraseImage, EraseCommit, EraseUpdate, EraseDevice, serviceVars,
               TypeInv, TypeOK
    <3> QED
        BY <1>1, <2>1, <3>1, <3>2, <3>3, SameAccounted
  <2>3. CASE j = x
    <3>1. task'[j].at \in {"done", "failed"}
        BY <1>2, <2>1, <2>3 DEF TypeInv, TypeOK, Tasks
    <3>2. RemovedFirst(j)' /\ LeftToClean(j)'
        BY <3>1 DEF RemovedFirst, LeftToClean, AtWork
    <3>3. x \notin Updates /\ x \notin Devices
        BY <1>4, CleanupAssumption
    <3>4. CASE EraseImage(x)
      <4>1. \A p \in stored[x] : <<x, p>> \in lost
          BY <2>1, <2>3, <3>4 DEF Accounted, LeftToClean, EraseImage, Erasing, AtWork
      <4> QED
          BY <1>1, <2>3, <3>2, <4>1 DEF Accounted, Told, ErasedIsEmpty
    <3>5. CASE EraseCommit(x) /\ ~ UNCHANGED part
      <4>1. image[x].row = "erased" /\ image' = image
          BY <3>5 DEF EraseCommit
      <4>2. \A p \in stored[x] : <<x, p>> \in lost
          BY <2>1, <2>3, <4>1 DEF Accounted, ErasedIsEmpty
      <4> QED
          BY <1>1, <2>3, <3>2, <4>2 DEF Accounted, Told, ErasedIsEmpty
    <3>6. CASE UNCHANGED <<image, part>>
        BY <1>1, <2>1, <3>2, <3>6 DEF Accounted, Told, ErasedIsEmpty
    <3> QED
        BY <3>3, <3>4, <3>5, <3>6 DEF Erase, KeepImage, EraseCommit
  <2> QED
      BY <2>2, <2>3
<1> QED
    BY <1>3, <1>4

LEMMA JobAccounted ==
    ASSUME TypeInv, StorageInv, Start \/ DeleteOrphanImages \/ DeleteOldImages \/ Crash
    PROVE  StorageInv'
<1> SUFFICES ASSUME NEW j \in Images, j \notin raced'  PROVE Accounted(j)'
    BY DEF StorageInv, Accounted, Told, RemovedFirst, NextPart, LeftToClean, ErasedIsEmpty, AtWork
<1>1. UNCHANGED <<part, stored, raced, lost>> /\ j \in Candidates
    BY DEF Start, DeleteOrphanImages, DeleteOldImages, Crash, Candidates
<1>2. Accounted(j)
    BY <1>1 DEF StorageInv
<1>3. image'[j].row = "erased" => image[j].row = "erased"
  <2>1. image[j] \in ImageRows
      BY DEF TypeInv, TypeOK, ImageRows
  <2>2. image'[j] = image[j] \/ image'[j] = [image[j] EXCEPT !.row = "deleted"]
      BY DEF Start, DeleteOrphanImages, DeleteOldImages, Crash
  <2> QED
      BY <2>1, <2>2 DEF ImageRows
<1>4. Told(j)' /\ ErasedIsEmpty(j)'
    BY <1>1, <1>2, <1>3 DEF Accounted, Told, ErasedIsEmpty
<1>5. task'[j].at \notin {"cleaning", "marking"}
  <2>1. CASE Crash
      BY <1>1, <2>1 DEF Crash, NoTask
  <2>2. CASE ~ Crash
    <3>1. stage \notin {"images", "commits"} /\ task' = task
        BY <2>2 DEF Start, DeleteOrphanImages, DeleteOldImages
    <3> QED
        BY <1>1, <3>1 DEF TypeInv, TodoInv, AtWork
  <2> QED
      BY <2>1, <2>2
<1> QED
    BY <1>4, <1>5 DEF Accounted, RemovedFirst, LeftToClean, AtWork

LEMMA InitAccounted == Init => StorageInv
<1> SUFFICES ASSUME Init, NEW i \in Images  PROVE Accounted(i)
    BY DEF StorageInv
<1>1. stored[i] = {p \in Parts : part[i][p] = "SUCCESS"} /\ image[i].row = "live"
    BY DEF Init, FirstImage
<1>2. task[i] = NoTask
    BY DEF Init, Candidates
<1> QED
    BY <1>1, <1>2 DEF Accounted, Told, RemovedFirst, LeftToClean, ErasedIsEmpty, AtWork, NoTask

LEMMA NextAccounted == TypeInv /\ StorageInv /\ [Next]_vars => StorageInv'
<1> SUFFICES ASSUME TypeInv, StorageInv, [Next]_vars  PROVE StorageInv'
    OBVIOUS
<1>1. CASE Service
    BY <1>1, ServiceAccounted
<1>2. CASE Job
  <2>1. ASSUME NEW x \in Candidates, Clean(x) \/ Erase(x)
        PROVE  StorageInv'
      BY <2>1, EmptyStorageAccounted, MarkCleanedAccounted, ErasureAccounted DEF Clean, Stored
  <2> QED
      BY <1>2, <2>1, JobAccounted, NextPageAccounted DEF Job
<1>3. CASE Crash \/ \E x \in Images \cup Updates : StorageFails(x)
    BY <1>3, JobAccounted, EmptyStorageAccounted DEF Stored
<1>4. CASE UNCHANGED vars
    BY <1>4, OtherAccounted DEF vars, serviceVars, jobVars
<1> QED
    BY <1>1, <1>2, <1>3, <1>4 DEF Next

\* Nothing stays in the storage that no row tells of, wherever the job ends or the storage
\* fails, but what a failed build had stored and what was stored while the job cleaned it.
THEOREM NothingIsForgottenCorrect == Spec => []NothingIsForgotten
<1>1. StorageInv => NothingIsForgotten
    BY DEF StorageInv, Accounted, Told, NothingIsForgotten
<1> QED
    BY <1>1, TypeInvCorrect, InitAccounted, NextAccounted, PTL DEF Spec

-------------------------------------------------------------------------------
(* Images that are kept.  What the job holds and was not deleted is in     *)
(* ERROR, and a build that has not finished has stored what comes before.  *)

Before(p) == CASE p = "repo" -> {"commit"} [] p = "installer" -> {"commit", "repo"} [] OTHER -> {}

Holds(i, ps) == ps \subseteq stored[i] /\ \A p \in ps : part[i][p] = "SUCCESS"

Kept(i) ==
    image[i].row = "live" =>
        /\ image[i].status = "SUCCESS" => Holds(i, PartsOf(i))
        /\ build[i] # "none" =>
               ~ AtWork(i) /\ image[i].status = "BUILDING" /\ Holds(i, Before(build[i]))
        /\ AtWork(i) => image[i].status = "ERROR"

KeptInv == \A i \in Images \ raced : Kept(i)

\* An image whose row is no more live than before, and that the job does not begin to clean.
LEMMA SameKept ==
    ASSUME NEW j \in Images, Kept(j),
           image'[j] = image[j] \/ image'[j].row # "live",
           part'[j] = part[j], stored'[j] = stored[j], build'[j] = build[j],
           AtWork(j)' => AtWork(j)
    PROVE  Kept(j)'
    BY DEF Kept, Holds, PartsOf, Before

LEMMA BuildKept ==
    ASSUME TypeInv, KeptInv, NEW i \in Images,
           RetryCreateImage(i) \/ StorePart(i) \/ FailBuild(i)
    PROVE  KeptInv'
<1> SUFFICES ASSUME NEW j \in Images, j \notin raced'  PROVE Kept(j)'
    BY DEF KeptInv, Kept, Holds, PartsOf, Before, AtWork
<1>1. Races(i) /\ UNCHANGED task
    BY DEF RetryCreateImage, StorePart, FailBuild, jobVars
<1>2. Kept(j)
    BY <1>1 DEF KeptInv, Races
<1>3. CASE j # i
  <2>1. image'[j] = image[j] /\ stored'[j] = stored[j] /\ build'[j] = build[j]
      BY <1>3 DEF RetryCreateImage, StorePart, FailBuild, TypeInv, TypeOK
  <2>2. \E f : part' = [part EXCEPT ![i] = f]
      BY DEF RetryCreateImage, StorePart, FailBuild
  <2>3. part'[j] = part[j]
      BY <1>3, <2>2 DEF TypeInv, TypeOK
  <2> QED
      BY <1>1, <1>2, <2>1, <2>3, SameKept DEF AtWork
<1>4. CASE j = i
  <2>1. ~ AtWork(i) /\ image[i].row = "live" /\ ~ AtWork(i)'
      BY <1>1, <1>4 DEF Races, AtWork
  <2>2. CASE RetryCreateImage(i)
    <3>1. image'[i].status = "BUILDING" /\ build'[i] = "commit"
        BY <2>2 DEF RetryCreateImage, TypeInv, TypeOK
    <3> QED
        BY <1>4, <2>1, <3>1 DEF Kept, Before, Holds
  <2>3. CASE FailBuild(i)
    <3>1. image'[i].status = "ERROR" /\ build'[i] = "none"
        BY <2>1, <2>3 DEF FailBuild, TypeInv, TypeOK
    <3> QED
        BY <1>4, <2>1, <3>1 DEF Kept
  <2>4. CASE StorePart(i)
    <3> DEFINE last == build[i] # "commit" /\ (build[i] = "installer" \/ i \notin Installing)
    <3>1. build[i] \in PartsOf(i) /\ PartsOf(i) \subseteq Parts /\ i \in Stored
        BY <2>4 DEF StorePart, TypeInv, TypeOK, PartsInv, PartsOf, Parts, Stored
    <3>2. image[i].status = "BUILDING" /\ Holds(i, Before(build[i]))
        BY <1>2, <1>4, <2>1, <2>4 DEF Kept, StorePart
    <3>3. part' = [part EXCEPT ![i] = StoredRows(i)]
        BY <2>4 DEF StorePart, StoredRows
    <3>4. part'[i] = StoredRows(i) /\ stored'[i] = stored[i] \cup {build[i]}
        BY <2>4, <3>1, <3>3 DEF StorePart, TypeInv, TypeOK, Stored
    <3>5. part[i] \in [Parts -> PartRows]
        BY <3>1 DEF TypeInv, TypeOK, Stored, PartRows
    <3>0. PICK ps : ps = Before(build[i]) \cup {build[i]}
        OBVIOUS
    <3>6. \A p \in ps :
              p \in Parts /\ (p # "repo" \/ build[i] # "commit") => StoredRows(i)[p] = "SUCCESS"
        BY <3>0, <3>1, <3>2, <3>5 DEF StoredRows, Holds, Before
    <3>7. Before(build[i]) \subseteq Parts /\ build[i] \in Parts
        BY <3>1 DEF Before, Parts
    <3>8. Holds(i, ps)'
      <4>1. \A p \in ps : StoredRows(i)[p] = "SUCCESS"
          BY <3>0, <3>6, <3>7 DEF Before
      <4> QED
          BY <3>0, <3>2, <3>4, <4>1 DEF Holds
    <3>9. CASE last
      <4>1. image'[i].status = "SUCCESS" /\ build'[i] = "none"
          BY <2>1, <2>4, <3>9 DEF StorePart, TypeInv, TypeOK
      <4>2. PartsOf(i) \subseteq ps
          BY <3>0, <3>1, <3>9 DEF PartsOf, Parts, Before
      <4>3. Holds(i, PartsOf(i))'
          BY <3>4, <3>8, <4>2 DEF Holds, PartsOf
      <4> QED
          BY <1>4, <2>1, <4>1, <4>3 DEF Kept, PartsOf
    <3>10. CASE ~ last
      <4>1. image' = [image EXCEPT ![i] = image[i]]
          BY <2>4, <3>10 DEF StorePart
      <4>2. image'[i].status = "BUILDING"
          BY <3>2, <4>1 DEF TypeInv, TypeOK
      <4>3. \/ build'[i] = "repo" /\ build[i] = "commit"
            \/ build'[i] = "installer" /\ build[i] = "repo"
          BY <2>4, <3>1, <3>10 DEF StorePart, TypeInv, TypeOK, Parts, PartsOf
      <4>4. Before(build'[i]) = ps
          BY <3>0, <4>3 DEF Before
      <4> QED
          BY <1>4, <2>1, <3>8, <4>2, <4>4 DEF Kept, Holds, Before
    <3> QED
        BY <3>9, <3>10
  <2> QED
      BY <2>2, <2>3, <2>4
<1> QED
    BY <1>3, <1>4

\* A step that only deletes or erases rows of images, and that begins to clean none.
LEMMA OtherKept ==
    ASSUME TypeInv, KeptInv, UNCHANGED <<stored, raced, build>>,
           \A i \in Images : /\ image'[i] = image[i] \/ image'[i].row # "live"
                             /\ part'[i] = part[i]
                             /\ AtWork(i)' => AtWork(i)
    PROVE  KeptInv'
<1> SUFFICES ASSUME NEW j \in Images, j \notin raced'  PROVE Kept(j)'
    BY DEF KeptInv, Kept, Holds, PartsOf, Before, AtWork
<1>1. Kept(j)
    BY DEF KeptInv
<1> QED
    BY <1>1, SameKept

LEMMA ServiceRestKept ==
    ASSUME TypeInv, KeptInv, ServiceRest
    PROVE  KeptInv'
<1>1. UNCHANGED <<stored, raced, build, task>>
    BY DEF ServiceRest, DeleteImage, DeleteImageSet, BuildUpdateTransactions,
           BuildUpdateRepo, EndUpdate, DeleteDevice, jobVars, serviceVars
<1>2. \A i \in Images : image'[i] = image[i] \/ image'[i].row # "live"
  <2>1. ASSUME NEW j \in Images, DeleteImage(j)
        PROVE  \A i \in Images : image'[i] = image[i] \/ image'[i].row # "live"
      BY <2>1 DEF DeleteImage, TypeInv, TypeOK
  <2>2. ASSUME NEW s \in Sets, DeleteImageSet(s)
        PROVE  \A i \in Images : image'[i] = image[i] \/ image'[i].row # "live"
      BY <2>2 DEF DeleteImageSet, TypeInv, TypeOK
  <2> QED
      BY <2>1, <2>2
         DEF ServiceRest, BuildUpdateTransactions, BuildUpdateRepo, EndUpdate, DeleteDevice
<1>3. \A i \in Images : part'[i] = part[i]
  <2>1. ASSUME NEW u \in Updates, BuildUpdateTransactions(u) \/ BuildUpdateRepo(u)
        PROVE  \A i \in Images : part'[i] = part[i]
      BY <2>1, CleanupAssumption DEF BuildUpdateTransactions, BuildUpdateRepo, TypeInv, TypeOK
  <2> QED
      BY <2>1 DEF ServiceRest, DeleteImage, DeleteImageSet, EndUpdate, DeleteDevice
<1> QED
    BY <1>1, <1>2, <1>3, OtherKept DEF AtWork

\* A candidate is in ERROR, deleted or erased.
LEMMA NextPageKept ==
    ASSUME TypeInv, KeptInv, NextPage
    PROVE  KeptInv'
<1> SUFFICES ASSUME NEW j \in Images, j \notin raced'  PROVE Kept(j)'
    BY DEF KeptInv, Kept, Holds, PartsOf, Before, AtWork
<1>1. UNCHANGED <<image, part, stored, build, raced>> /\ j \in Candidates
    BY DEF NextPage, serviceVars, Candidates
<1>2. Kept(j)
    BY <1>1 DEF KeptInv
<1>3. AtWork(j)' => j \in Page
    BY <1>1 DEF NextPage, AtWork, NoTask
<1>4. j \in Page /\ image[j].row = "live" => image[j].status = "ERROR"
    BY CleanupAssumption DEF NextPage, Page, CandidateImage, CandidateCommit
<1> QED
    BY <1>1, <1>2, <1>3, <1>4 DEF Kept, Holds, PartsOf, Before

\* The job cleans nothing but such images.
LEMMA CleanKept ==
    ASSUME TypeInv, KeptInv, NEW x \in Stored,
           EmptyStorage(x) \/ StorageFails(x) \/ MarkCleaned(x)
    PROVE  KeptInv'
<1> SUFFICES ASSUME NEW j \in Images, j \notin raced'  PROVE Kept(j)'
    BY DEF KeptInv, Kept, Holds, PartsOf, Before, AtWork
<1>1. UNCHANGED <<image, build, raced>> /\ j \in Candidates /\ x \in Candidates
    BY DEF EmptyStorage, StorageFails, MarkCleaned, serviceVars, Candidates, Stored
<1>2. Kept(j)
    BY <1>1 DEF KeptInv
<1>3. CASE j # x
  <2>1. part'[j] = part[j] /\ stored'[j] = stored[j]
      BY <1>3 DEF EmptyStorage, StorageFails, MarkCleaned, TypeInv, TypeOK, Stored
  <2>2. task'[j] = task[j]
      BY <1>1, <1>3 DEF EmptyStorage, StorageFails, MarkCleaned, TypeInv, TypeOK
  <2> QED
      BY <1>1, <1>2, <2>1, <2>2, SameKept DEF AtWork
<1>4. CASE j = x
  <2>1. AtWork(j)
      BY <1>4 DEF EmptyStorage, StorageFails, MarkCleaned, AtWork
  <2>2. image[j].row = "live" => image[j].status = "ERROR" /\ build[j] = "none"
      BY <1>2, <2>1 DEF Kept
  <2> QED
      BY <1>1, <2>2 DEF Kept
<1> QED
    BY <1>3, <1>4

LEMMA ErasureKept ==
    ASSUME TypeInv, KeptInv, NEW x \in Candidates, Erase(x)
    PROVE  KeptInv'
<1>1. UNCHANGED <<stored, raced, build>>
    BY DEF Erase, KeepImage, EraseImage, EraseCommit, EraseUpdate, EraseDevice, serviceVars
<1>2. \E at \in {"done", "failed"} : task' = [task EXCEPT ![x].at = at]
    BY DEF Erase, KeepImage, EraseImage, EraseCommit, EraseUpdate, EraseDevice, Done
<1> SUFFICES ASSUME NEW j \in Images, j \notin raced'  PROVE Kept(j)'
    BY DEF KeptInv, Kept, Holds, PartsOf, Before, AtWork
<1>3. Kept(j) /\ j \in Candidates
    BY <1>1 DEF KeptInv, Candidates
<1>4. AtWork(j)' => AtWork(j)
    BY <1>2, <1>3 DEF TypeInv, TypeOK, Tasks, AtWork
<1>5. CASE j # x
  <2>1. image'[j] = image[j]
      BY <1>5, CleanupAssumption
         DEF Erase, KeepImage, EraseImage, EraseCommit, EraseUpdate, EraseDevice, serviceVars,
             TypeInv, TypeOK
  <2>2. part'[j] = part[j]
      BY <1>5, CleanupAssumption
         DEF Erase, KeepImage, EraseImage, EraseCommit, EraseUpdate, EraseDevice, serviceVars,
             TypeInv, TypeOK
  <2> QED
      BY <1>1, <1>3, <1>4, <2>1, <2>2, SameKept
<1>6. CASE j = x
  <2>1. j \notin Updates /\ j \notin Devices
      BY CleanupAssumption
  <2>2. CASE EraseImage(x) \/ (EraseCommit(x) /\ image[x].row = "erased")
    <3>1. image'[j].row = "erased"
        BY <1>6, <2>2 DEF EraseImage, EraseCommit, TypeInv, TypeOK
    <3> QED
        BY <3>1 DEF Kept
  <2>3. CASE UNCHANGED <<image, part>>
      BY <1>1, <1>3, <1>4, <2>3, SameKept
  <2>4. EraseCommit(x) /\ image[x].row # "erased" => UNCHANGED <<image, part>>
      BY DEF EraseCommit
  <2> QED
      BY <1>6, <2>1, <2>2, <2>3, <2>4 DEF Erase, KeepImage
<1> QED
    BY <1>5, <1>6

LEMMA JobKept ==
    ASSUME TypeInv, KeptInv, Start \/ DeleteOrphanImages \/ DeleteOldImages \/ Crash
    PROVE  KeptInv'
<1>1. UNCHANGED <<part, stored, build, raced>>
    BY DEF Start, DeleteOrphanImages, DeleteOldImages, Crash, serviceVars
<1>2. \A i \in Images : AtWork(i)' => AtWork(i)
    BY DEF Start, DeleteOrphanImages, DeleteOldImages, Crash, AtWork, NoTask, Candidates
<1>3. \A i \in Images : image'[i] = image[i] \/ image'[i].row # "live"
  <2>1. \A i \in Images : \/ image'[i] = image[i]
                          \/ image'[i] = [image[i] EXCEPT !.row = "deleted"]
      BY DEF Start, DeleteOrphanImages, DeleteOldImages, Crash
  <2>2. \A i \in Images : image[i] \in ImageRows
      BY DEF TypeInv, TypeOK, ImageRows
  <2> QED
      BY <2>1, <2>2 DEF ImageRows
<1> QED
    BY <1>1, <1>2, <1>3, OtherKept

LEMMA InitKept == Init => KeptInv
<1> SUFFICES ASSUME Init, NEW i \in Images  PROVE Kept(i)
    BY DEF KeptInv
<1>1. build[i] = "none" /\ task[i] = NoTask /\ i \in Stored /\ i \notin Updates
    BY CleanupAssumption DEF Init, Candidates, Stored
<1>2. part[i] = FirstPart(i, image[i].status)
    BY <1>1 DEF Init, Stored
<1>3. image[i].status = "SUCCESS" => \A p \in PartsOf(i) : part[i][p] = "SUCCESS"
    BY <1>1, <1>2 DEF FirstPart, PartsOf, Parts
<1>4. stored[i] = {p \in Parts : part[i][p] = "SUCCESS"}
    BY <1>1 DEF Init, Stored
<1>5. PartsOf(i) \subseteq Parts
    BY DEF PartsOf, Parts
<1> QED
    BY <1>1, <1>3, <1>4, <1>5 DEF Kept, Holds, AtWork, NoTask

LEMMA NextKept == TypeInv /\ KeptInv /\ [Next]_vars => KeptInv'
<1> SUFFICES ASSUME TypeInv, KeptInv, [Next]_vars  PROVE KeptInv'
    OBVIOUS
<1>1. CASE Service
    BY <1>1, BuildKept, ServiceRestKept DEF Service, ServiceRest
<1>2. CASE Job
  <2>1. ASSUME NEW x \in Candidates, Clean(x) \/ Erase(x)
        PROVE  KeptInv'
      BY <2>1, CleanKept, ErasureKept DEF Clean, Stored
  <2> QED
      BY <1>2, <2>1, JobKept, NextPageKept DEF Job
<1>3. CASE Crash \/ \E x \in Images \cup Updates : StorageFails(x)
    BY <1>3, JobKept, CleanKept DEF Stored
<1>4. CASE UNCHANGED vars
    BY <1>4, OtherKept DEF vars, serviceVars, jobVars, AtWork
<1> QED
    BY <1>1, <1>2, <1>3, <1>4 DEF Next

\* An image that is a success and was not deleted has its content in the storage and its rows
\* say so, whatever the job cleans beside it and wherever it ends.
THEOREM KeptIsStoredCorrect == Spec => []KeptIsStored
<1>1. KeptInv /\ TypeInv => KeptIsStored
  <2> SUFFICES ASSUME KeptInv, NEW i \in Images \ raced,
                      image[i] = [row |-> "live", status |-> "SUCCESS"]
               PROVE  /\ \A p \in PartsOf(i) : part[i][p] = "SUCCESS"
                      /\ PartsOf(i) \subseteq stored[i]
      BY DEF KeptIsStored
  <2> QED
      BY DEF KeptInv, Kept, Holds
<1> QED
    BY <1>1, TypeInvCorrect, InitKept, NextKept, PTL DEF Spec

-------------------------------------------------------------------------------
(* What was emptied.  EmptiedIsFound is not inductive: what the job holds  *)
(* must be a candidate again when the job loses it, rows are erased only   *)
(* when none of them promises anything, and an image that is no candidate, *)
(* for want of an installer, must never be emptied.                        *)

\* The image would be a candidate, did its rows promise anything.
Cleanable(i) ==
    /\ \A p \in Parts : Exists(i, p)
    /\ \/ image[i].row = "deleted"
       \/ image[i].row = "live" /\ image[i].status = "ERROR"

IsEmptied(i) == \E p \in IsBuilt(i) : p \notin stored[i]

Found(i) ==
    /\ IsEmptied(i) => AtWork(i) \/ build[i] # "none" \/ Cleanable(i)
    /\ AtWork(i) /\ IsBuilt(i) # {} => Cleanable(i)
    /\ i \notin Installing => ~ IsEmptied(i)
    /\ image[i].row = "erased" => IsBuilt(i) = {}
    /\ stage = "images" /\ AtWork(i) => IsBuilt(i) \subseteq task[i].todo

FoundInv == \A i \in Images \ raced : Found(i)

\* The operators of the rows, the storage and the tasks depend on these only.
LEMMA SameBuilt ==
    ASSUME NEW j, part'[j] = part[j], stored'[j] = stored[j]
    PROVE  IsBuilt(j)' = IsBuilt(j) /\ (IsEmptied(j)' <=> IsEmptied(j))
    BY DEF IsBuilt, IsEmptied

LEMMA StaysCleanable ==
    ASSUME NEW j \in Images, Cleanable(j),
           image'[j] = image[j] \/ image'[j].row = "deleted",
           \A p \in Parts : Exists(j, p) => Exists(j, p)'
    PROVE  Cleanable(j)'
    BY DEF Cleanable

\* An image whose rows and storage stay, that is deleted at most, and that the job loses at
\* most.
LEMMA SameFound ==
    ASSUME NEW j \in Images, Found(j),
           image'[j] = image[j] \/ image'[j].row = "deleted",
           part'[j] = part[j], stored'[j] = stored[j], build'[j] = build[j],
           AtWork(j)' => AtWork(j) /\ stage' = stage /\ task'[j].todo = task[j].todo
    PROVE  Found(j)'
<1>1. IsBuilt(j)' = IsBuilt(j) /\ (IsEmptied(j)' <=> IsEmptied(j))
    BY SameBuilt
<1>2. Cleanable(j) => Cleanable(j)'
    BY StaysCleanable DEF Exists
<1>3. IsEmptied(j) => IsBuilt(j) # {}
    BY DEF IsEmptied
<1> QED
    BY <1>1, <1>2, <1>3 DEF Found

\* An image none of whose rows promises anything.
LEMMA UnbuiltFound ==
    ASSUME NEW j \in Images, IsBuilt(j)' = {}
    PROVE  Found(j)'
<1>1. ~ IsEmptied(j)'
    BY DEF IsEmptied
<1> QED
    BY <1>1 DEF Found

LEMMA FoundPrimed == (\A j \in Images \ raced' : Found(j)') => FoundInv'
    BY DEF FoundInv

\* What a step of a build makes of an image that was neither deleted nor held.
LEMMA RetryFound ==
    ASSUME TypeInv, NEW i \in Images, Found(i), ~ AtWork(i), image[i].row = "live",
           RetryCreateImage(i)
    PROVE  Found(i)'
<1>1. build'[i] = "commit" /\ image'[i].row = "live" /\ stored' = stored /\ ~ AtWork(i)'
    BY DEF RetryCreateImage, TypeInv, TypeOK, AtWork, jobVars
<1>2. \A p \in Parts : part'[i][p] \in {part[i][p], "BUILDING"}
    BY DEF RetryCreateImage, TypeInv, TypeOK
<1>3. IsEmptied(i)' => IsEmptied(i)
    BY <1>1, <1>2 DEF IsEmptied, IsBuilt
<1> QED
    BY <1>1, <1>3 DEF Found

LEMMA FailFound ==
    ASSUME TypeInv, ReferencesHold', NEW i \in Images, Found(i), ~ AtWork(i),
           image[i].row = "live", FailBuild(i)
    PROVE  Found(i)'
<1>1. image'[i].row = "live" /\ image'[i].status = "ERROR" /\ stored' = stored /\ ~ AtWork(i)'
    BY DEF FailBuild, TypeInv, TypeOK, AtWork, jobVars
<1>2. \A p \in Parts : part'[i][p] \in {part[i][p], "BUILDING", "ERROR"}
    BY DEF FailBuild, TypeInv, TypeOK
<1>3. IsEmptied(i)' => IsEmptied(i)
    BY <1>1, <1>2 DEF IsEmptied, IsBuilt
<1>4. i \in Installing => Cleanable(i)'
    BY <1>1 DEF Cleanable, ReferencesHold, PartsOf
<1> QED
    BY <1>1, <1>3, <1>4 DEF Found

LEMMA StoreFound ==
    ASSUME TypeInv, TypeInv', ReferencesHold, NEW i \in Images, Found(i), Kept(i)', ~ AtWork(i),
           image[i].row = "live", StorePart(i)
    PROVE  Found(i)'
<1> DEFINE last == build[i] # "commit" /\ (build[i] = "installer" \/ i \notin Installing)
<1>1. i \in Stored /\ build[i] \in Parts /\ build[i] \in PartsOf(i) /\ PartsOf(i) \subseteq Parts
    BY DEF TypeInv, TypeOK, PartsInv, StorePart, Parts, PartsOf, Stored
<1>2. image'[i].row = "live" /\ ~ AtWork(i)' /\ stored'[i] = stored[i] \cup {build[i]}
    BY <1>1 DEF StorePart, TypeInv, TypeOK, AtWork, jobVars, Stored
<1>3. CASE last
  <2>1. image'[i].status = "SUCCESS"
      BY <1>3 DEF StorePart, TypeInv, TypeOK
  <2>2. PartsOf(i) \subseteq stored'[i]
      BY <1>2, <2>1 DEF Kept, Holds, PartsOf
  <2>3. \A p \in Parts : part'[i][p] = "SUCCESS" => p \in PartsOf(i)
      BY DEF TypeInv, PartsInv, PartsOf
  <2>4. ~ IsEmptied(i)'
      BY <2>2, <2>3 DEF IsEmptied, IsBuilt
  <2> QED
      BY <1>2, <2>4 DEF Found
<1>4. CASE ~ last
  <2>1. build'[i] # "none"
      BY <1>1, <1>4 DEF StorePart, TypeInv, TypeOK
  <2>2. part' = [part EXCEPT ![i] = StoredRows(i)] /\ part[i] \in [Parts -> PartRows]
      BY <1>1 DEF StorePart, StoredRows, TypeInv, TypeOK, Stored, PartRows
  <2>3. part'[i] = StoredRows(i)
      BY <1>1, <2>2 DEF TypeInv, TypeOK, Stored
  <2>4. \A p \in Parts : StoredRows(i)[p] = "SUCCESS" => p = build[i] \/ part[i][p] = "SUCCESS"
      BY <1>1, <1>4, <2>2 DEF StoredRows
  <2>5. IsEmptied(i)' => IsEmptied(i)
      BY <1>2, <2>3, <2>4 DEF IsEmptied, IsBuilt
  <2> QED
      BY <1>2, <2>1, <2>5 DEF Found
<1> QED
    BY <1>3, <1>4

LEMMA BuildFound ==
    ASSUME TypeInv, TypeInv', ReferencesHold, ReferencesHold', KeptInv', FoundInv,
           NEW i \in Images, RetryCreateImage(i) \/ StorePart(i) \/ FailBuild(i)
    PROVE  FoundInv'
<1> SUFFICES ASSUME NEW j \in Images, j \notin raced'  PROVE Found(j)'
    BY FoundPrimed
<1>1. Races(i) /\ UNCHANGED <<task, stage>>
    BY DEF RetryCreateImage, StorePart, FailBuild, jobVars
<1>2. Found(j)
    BY <1>1 DEF FoundInv, Races
<1>3. CASE j # i
  <2>1. image'[j] = image[j] /\ stored'[j] = stored[j] /\ build'[j] = build[j]
      BY <1>3 DEF RetryCreateImage, StorePart, FailBuild, TypeInv, TypeOK
  <2>2. \E f : part' = [part EXCEPT ![i] = f]
      BY DEF RetryCreateImage, StorePart, FailBuild
  <2>3. part'[j] = part[j]
      BY <1>3, <2>2 DEF TypeInv, TypeOK
  <2> QED
      BY <1>1, <1>2, <2>1, <2>3, SameFound DEF AtWork
<1>4. CASE j = i
  <2>1. ~ AtWork(i) /\ image[i].row = "live"
      BY <1>1, <1>4 DEF Races
  <2>2. Kept(i)'
      BY <1>4 DEF KeptInv
  <2> QED
      BY <1>2, <1>4, <2>1, <2>2, RetryFound, StoreFound, FailFound
<1> QED
    BY <1>3, <1>4

\* A step that only deletes images, or that takes them from the job.
LEMMA OtherFound ==
    ASSUME FoundInv, UNCHANGED <<stored, raced, build>>,
           \A i \in Images :
               /\ image'[i] = image[i] \/ image'[i].row = "deleted"
               /\ part'[i] = part[i]
               /\ AtWork(i)' => AtWork(i) /\ stage' = stage /\ task'[i].todo = task[i].todo
    PROVE  FoundInv'
<1> SUFFICES ASSUME NEW j \in Images, j \notin raced'  PROVE Found(j)'
    BY FoundPrimed
<1>1. Found(j)
    BY DEF FoundInv
<1> QED
    BY <1>1, SameFound

LEMMA ServiceRestFound ==
    ASSUME TypeInv, FoundInv, ServiceRest
    PROVE  FoundInv'
<1>1. UNCHANGED <<stored, raced, build, task, stage>>
    BY DEF ServiceRest, DeleteImage, DeleteImageSet, BuildUpdateTransactions,
           BuildUpdateRepo, EndUpdate, DeleteDevice, jobVars, serviceVars
<1>2. \A i \in Images : image'[i] = image[i] \/ image'[i].row = "deleted"
  <2>1. ASSUME NEW j \in Images, DeleteImage(j)
        PROVE  \A i \in Images : image'[i] = image[i] \/ image'[i].row = "deleted"
      BY <2>1 DEF DeleteImage, TypeInv, TypeOK
  <2>2. ASSUME NEW s \in Sets, DeleteImageSet(s)
        PROVE  \A i \in Images : image'[i] = image[i] \/ image'[i].row = "deleted"
      BY <2>2 DEF DeleteImageSet, TypeInv, TypeOK
  <2> QED
      BY <2>1, <2>2
         DEF ServiceRest, BuildUpdateTransactions, BuildUpdateRepo, EndUpdate, DeleteDevice
<1>3. \A i \in Images : part'[i] = part[i]
  <2>1. ASSUME NEW u \in Updates, BuildUpdateTransactions(u) \/ BuildUpdateRepo(u)
        PROVE  \A i \in Images : part'[i] = part[i]
      BY <2>1, CleanupAssumption DEF BuildUpdateTransactions, BuildUpdateRepo, TypeInv, TypeOK
  <2> QED
      BY <2>1 DEF ServiceRest, DeleteImage, DeleteImageSet, EndUpdate, DeleteDevice
<1> QED
    BY <1>1, <1>2, <1>3, OtherFound DEF AtWork

\* A candidate among the images has its rows, is deleted or in ERROR, and all they promise is
\* copied; one among the commits promises nothing.
LEMMA NextPageFound ==
    ASSUME TypeInv, FoundInv, NextPage
    PROVE  FoundInv'
<1> SUFFICES ASSUME NEW j \in Images, j \notin raced'  PROVE Found(j)'
    BY FoundPrimed
<1>1. UNCHANGED <<image, part, stored, build, raced>> /\ j \in Candidates
    BY DEF NextPage, serviceVars, Candidates
<1>2. Found(j)
    BY <1>1 DEF FoundInv
<1>3. CASE ~ AtWork(j)'
    BY <1>1, <1>2, <1>3, SameFound
<1>4. CASE AtWork(j)'
  <2>1. j \in Page /\ stage' = stage /\ task'[j].todo = ToClean(j)
      BY <1>1, <1>4 DEF NextPage, AtWork, NoTask
  <2>2. CASE stage = "images"
    <3>1. CandidateImage(j) /\ ToClean(j) = IsBuilt(j)
        BY <2>1, <2>2 DEF Page, ToClean
    <3>2. IsBuilt(j)' = IsBuilt(j) /\ (IsEmptied(j)' <=> IsEmptied(j))
        BY <1>1, SameBuilt
    <3>3. Cleanable(j)'
        BY <1>1, <3>1 DEF CandidateImage, Cleanable, Exists
    <3> QED
        BY <1>1, <1>2, <2>1, <3>1, <3>2, <3>3 DEF Found
  <2>3. CASE stage # "images"
    <3>1. stage = "commits" \/ j \in Updates \cup Devices
        BY <2>1, <2>3 DEF NextPage, Page
    <3>2. CandidateCommit(j)
        BY <2>1, <3>1, CleanupAssumption DEF Page
    <3>3. IsBuilt(j) = {}
        BY <1>2, <3>2 DEF CandidateCommit, Found
    <3> QED
        BY <1>1, <3>3, SameBuilt, UnbuiltFound
  <2> QED
      BY <2>2, <2>3
<1> QED
    BY <1>3, <1>4

\* The job empties the storage of candidates only.
LEMMA EmptyStorageFound ==
    ASSUME TypeInv, FoundInv, NEW x \in Stored, EmptyStorage(x) \/ StorageFails(x)
    PROVE  FoundInv'
<1> SUFFICES ASSUME NEW j \in Images, j \notin raced'  PROVE Found(j)'
    BY FoundPrimed
<1>1. UNCHANGED <<image, part, build, stage, raced>> /\ j \in Candidates /\ x \in Candidates
    BY DEF EmptyStorage, StorageFails, serviceVars, Candidates, Stored
<1>2. Found(j)
    BY <1>1 DEF FoundInv
<1>3. \E at \in {"marking", "failed"} : task' = [task EXCEPT ![x].at = at]
    BY DEF EmptyStorage, StorageFails
<1>4. CASE j # x
  <2>1. stored'[j] = stored[j]
      BY <1>4 DEF EmptyStorage, StorageFails, TypeInv, TypeOK, Stored
  <2>2. task'[j] = task[j]
      BY <1>1, <1>3, <1>4 DEF TypeInv, TypeOK
  <2> QED
      BY <1>1, <1>2, <2>1, <2>2, SameFound DEF AtWork
<1>5. CASE j = x
  <2>1. AtWork(j)
      BY <1>5 DEF EmptyStorage, StorageFails, AtWork
  <2>2. task'[j].todo = task[j].todo
      BY <1>1, <1>3 DEF TypeInv, TypeOK, Tasks
  <2>3. IsBuilt(j)' = IsBuilt(j)
      BY <1>1 DEF IsBuilt
  <2>4. CASE IsBuilt(j) = {}
      BY <2>3, <2>4, UnbuiltFound
  <2>5. CASE IsBuilt(j) # {}
    <3>1. Cleanable(j) /\ Cleanable(j)'
        BY <1>1, <1>2, <2>1, <2>5 DEF Found, Cleanable, Exists
    <3>2. j \in Installing
        BY <3>1 DEF Cleanable, Exists, TypeInv, PartsInv, PartsOf, Parts
    <3> QED
        BY <1>1, <1>2, <2>1, <2>2, <2>3, <3>1, <3>2 DEF Found
  <2> QED
      BY <2>4, <2>5
<1> QED
    BY <1>4, <1>5

LEMMA MarkCleanedFound ==
    ASSUME TypeInv, FoundInv, NEW x \in Stored, MarkCleaned(x)
    PROVE  FoundInv'
<1> SUFFICES ASSUME NEW j \in Images, j \notin raced'  PROVE Found(j)'
    BY FoundPrimed
<1>1. /\ UNCHANGED <<image, stored, build, stage, raced>>
      /\ j \in Candidates /\ x \in Candidates /\ j \in Stored
    BY DEF MarkCleaned, serviceVars, Candidates, Stored
<1>2. Found(j)
    BY <1>1 DEF FoundInv
<1>3. CASE j # x
  <2>1. part'[j] = part[j]
      BY <1>3 DEF MarkCleaned, TypeInv, TypeOK
  <2>2. task'[j] = task[j]
      BY <1>1, <1>3 DEF MarkCleaned, TypeInv, TypeOK
  <2> QED
      BY <1>1, <1>2, <2>1, <2>2, SameFound DEF AtWork
<1>4. CASE j = x
  <2>1. task'[j].at = "cleaning" /\ task'[j].todo = task[j].todo \ {NextPart(j)}
    <3>1. task' = [task EXCEPT ![j].at = "cleaning", ![j].todo = task[j].todo \ {NextPart(j)}]
        BY <1>1, <1>4 DEF MarkCleaned
    <3> QED
        BY <1>1, <3>1 DEF TypeInv, TypeOK, Tasks
  <2>2. AtWork(j) /\ AtWork(j)'
      BY <1>4, <2>1 DEF MarkCleaned, AtWork
  <2>3. \A p \in Parts :
            part'[j][p] = IF p # NextPart(j) \/ part[j][p] = "erased" THEN part[j][p]
                          ELSE "STORAGE_CLEANED"
      BY <1>1, <1>4, NextPartType DEF MarkCleaned, TypeInv, TypeOK, Stored
  <2>4. IsBuilt(j)' = IsBuilt(j) \ {NextPart(j)}
      BY <2>3 DEF IsBuilt
  <2>5. IsEmptied(j)' => IsEmptied(j)
      BY <1>1, <2>4 DEF IsEmptied
  <2>6. Cleanable(j) => Cleanable(j)'
      BY <1>1, <2>3 DEF Cleanable, Exists
  <2> QED
      BY <1>1, <1>2, <2>1, <2>2, <2>4, <2>5, <2>6 DEF Found
<1> QED
    BY <1>3, <1>4

LEMMA ErasureFound ==
    ASSUME TypeInv, FoundInv, NEW x \in Candidates, Erase(x)
    PROVE  FoundInv'
<1>1. UNCHANGED <<stored, stage, build, raced>>
    BY DEF Erase, KeepImage, EraseImage, EraseCommit, EraseUpdate, EraseDevice, serviceVars
<1>2. \E at \in {"done", "failed"} : task' = [task EXCEPT ![x].at = at]
    BY DEF Erase, KeepImage, EraseImage, EraseCommit, EraseUpdate, EraseDevice, Done
<1> SUFFICES ASSUME NEW j \in Images, j \notin raced'  PROVE Found(j)'
    BY FoundPrimed
<1>3. Found(j) /\ j \in Candidates /\ j \in Stored
    BY <1>1 DEF FoundInv, Candidates, Stored
<1>4. AtWork(j)' => AtWork(j) /\ task'[j].todo = task[j].todo
    BY <1>2, <1>3 DEF TypeInv, TypeOK, Tasks, AtWork
<1>5. CASE j # x
  <2>1. image'[j] = image[j]
      BY <1>5, CleanupAssumption
         DEF Erase, KeepImage, EraseImage, EraseCommit, EraseUpdate, EraseDevice, serviceVars,
             TypeInv, TypeOK
  <2>2. part'[j] = part[j]
      BY <1>5, CleanupAssumption
         DEF Erase, KeepImage, EraseImage, EraseCommit, EraseUpdate, EraseDevice, serviceVars,
             TypeInv, TypeOK
  <2> QED
      BY <1>1, <1>3, <1>4, <2>1, <2>2, SameFound
<1>6. CASE j = x
  <2>1. j \notin Updates /\ j \notin Devices
      BY CleanupAssumption
  <2>2. \A p \in Parts : part'[j][p] \in {part[j][p], "erased", "none"}
      BY <1>3, <1>6, <2>1
         DEF Erase, KeepImage, EraseImage, EraseCommit, Erased, TypeInv, TypeOK, Stored
  <2>3. IsBuilt(j)' \subseteq IsBuilt(j)
      BY <2>2 DEF IsBuilt
  <2>4. CASE EraseImage(x)
    <3>1. IsBuilt(j) = {}
        BY <1>3, <1>6, <2>4 DEF Found, EraseImage, Erasing, AtWork
    <3> QED
        BY <2>3, <3>1, UnbuiltFound
  <2>5. CASE EraseCommit(x) /\ image[x].row = "erased"
    <3>1. IsBuilt(j) = {}
        BY <1>3, <1>6, <2>5 DEF Found
    <3> QED
        BY <2>3, <3>1, UnbuiltFound
  <2>6. CASE UNCHANGED <<image, part>>
      BY <1>1, <1>3, <1>4, <2>6, SameFound
  <2>7. EraseCommit(x) /\ image[x].row # "erased" => UNCHANGED <<image, part>>
      BY DEF EraseCommit
  <2> QED
      BY <1>6, <2>1, <2>4, <2>5, <2>6, <2>7 DEF Erase, KeepImage
<1> QED
    BY <1>5, <1>6

\* The job begins and deletes images while it holds none, and loses all it holds when it ends.
LEMMA JobFound ==
    ASSUME TypeInv, FoundInv, Start \/ DeleteOrphanImages \/ DeleteOldImages \/ Crash
    PROVE  FoundInv'
<1>1. UNCHANGED <<part, stored, build, raced>>
    BY DEF Start, DeleteOrphanImages, DeleteOldImages, Crash, serviceVars
<1>2. \A i \in Images : ~ AtWork(i)'
  <2> SUFFICES ASSUME NEW j \in Images  PROVE ~ AtWork(j)'
      OBVIOUS
  <2>0. j \in Candidates
      BY DEF Candidates
  <2>1. CASE Crash
      BY <2>0, <2>1 DEF Crash, NoTask, AtWork
  <2>2. CASE ~ Crash
    <3>1. stage \notin {"images", "commits"} /\ task' = task
        BY <2>2 DEF Start, DeleteOrphanImages, DeleteOldImages
    <3> QED
        BY <2>0, <3>1 DEF TypeInv, TodoInv, AtWork
  <2> QED
      BY <2>1, <2>2
<1>3. \A i \in Images : image'[i] = image[i] \/ image'[i].row = "deleted"
  <2>1. \A i \in Images : \/ image'[i] = image[i]
                          \/ image'[i] = [image[i] EXCEPT !.row = "deleted"]
      BY DEF Start, DeleteOrphanImages, DeleteOldImages, Crash
  <2>2. \A i \in Images : image[i] \in ImageRows
      BY DEF TypeInv, TypeOK, ImageRows
  <2> QED
      BY <2>1, <2>2 DEF ImageRows
<1> QED
    BY <1>1, <1>2, <1>3, OtherFound

LEMMA InitFound == Init => FoundInv
<1> SUFFICES ASSUME Init, NEW i \in Images  PROVE Found(i)
    BY DEF FoundInv
<1>1. stored[i] = {p \in Parts : part[i][p] = "SUCCESS"} /\ image[i].row = "live"
    BY DEF Init, FirstImage
<1>2. task[i] = NoTask
    BY DEF Init, Candidates
<1> QED
    BY <1>1, <1>2 DEF Found, IsEmptied, IsBuilt, AtWork, NoTask

\* What is known of the rows, before and after a step.
FoundContext == TypeInv /\ ReferencesHold /\ KeptInv

LEMMA NextFound == FoundContext /\ FoundContext' /\ FoundInv /\ [Next]_vars => FoundInv'
<1> SUFFICES ASSUME FoundContext, FoundContext', FoundInv, [Next]_vars  PROVE FoundInv'
    OBVIOUS
<1>0. /\ TypeInv /\ TypeInv' /\ ReferencesHold /\ ReferencesHold' /\ KeptInv'
    BY DEF FoundContext
<1>1. CASE Service
    BY <1>0, <1>1, BuildFound, ServiceRestFound DEF Service, ServiceRest
<1>2. CASE Job
  <2>1. ASSUME NEW x \in Candidates, Clean(x) \/ Erase(x)
        PROVE  FoundInv'
      BY <1>0, <2>1, EmptyStorageFound, MarkCleanedFound, ErasureFound DEF Clean, Stored
  <2> QED
      BY <1>0, <1>2, <2>1, JobFound, NextPageFound DEF Job
<1>3. CASE Crash \/ \E x \in Images \cup Updates : StorageFails(x)
    BY <1>0, <1>3, JobFound, EmptyStorageFound DEF Stored
<1>4. CASE UNCHANGED vars
    BY <1>4, OtherFound DEF vars, serviceVars, jobVars, AtWork
<1> QED
    BY <1>1, <1>2, <1>3, <1>4 DEF Next

\* Where a row promises content that was removed, the job is at the image, or finds it again,
\* or a build is to write it, wherever the job ended and whichever removal failed.
THEOREM EmptiedIsFoundCorrect == Spec => []EmptiedIsFound
<1>1. FoundInv => EmptiedIsFound
  <2> SUFFICES ASSUME FoundInv, NEW i \in Images \ raced, NEW p \in Parts,
                      part[i][p] = "SUCCESS", p \notin stored[i]
               PROVE  CandidateImage(i) \/ CandidateCommit(i) \/ AtWork(i) \/ build[i] # "none"
      BY DEF EmptiedIsFound
  <2>1. p \in IsBuilt(i) /\ IsEmptied(i)
      BY DEF IsBuilt, IsEmptied
  <2>2. Found(i)
      BY DEF FoundInv
  <2>3. Cleanable(i) => CandidateImage(i)
      BY <2>1 DEF Cleanable, CandidateImage
  <2> QED
      BY <2>1, <2>2, <2>3 DEF Found
<1>2. Init => FoundContext
    BY InitTypes, InitReferences, InitKept DEF FoundContext
<1>3. FoundContext /\ [Next]_vars => FoundContext'
    BY NextTypes, NextReferences, NextKept DEF FoundContext
<1> QED
    BY <1>1, <1>2, <1>3, InitFound, NextFound, PTL DEF Spec
===============================================================================
