------------------------------ MODULE ImageProofs ------------------------------
(***************************************************************************)
(* Theorems of ImageBuild, for all images and attempts, with overlapping   *)
(* requests, an interrupt and crashes: its types, that an attempt which    *)
(* ended has taken its image out of BUILDING, and what a SUCCESS means.    *)
(***************************************************************************)
EXTENDS ImageBuild, TLAPS

\* The steps of Next, one by one.  A proof that a formula is preserved has a step
\* for each.
AtomicStep ==
    \/ \E a \in Attempts : CreateImage(a)
    \/ \E a \in Attempts : RetryCreateImage(a)
    \/ \E a \in Attempts : ResumeInterrupted(a)
    \/ \E a \in Attempts : SetBuildingStatusOnImageToRetryBuild(a)
    \/ \E a \in Attempts : ResumeCreateImage(a)
    \/ \E a \in Attempts : ProcessImage(a)
    \/ \E a \in Attempts : Begin(a)
    \/ \E a \in Attempts : Reload(a)
    \/ \E a \in Attempts : GetCommitStatus(a)
    \/ \E a \in Attempts : SaveCommit(a)
    \/ \E a \in Attempts : GetInstallerStatus(a)
    \/ \E a \in Attempts : SaveInstaller(a)
    \/ \E a \in Attempts : UpdateImageStatus(a)
    \/ \E a \in Attempts : GetMetadata(a)
    \/ \E a \in Attempts : CreateRepoForImage(a)
    \/ \E a \in Attempts : StoreRepo(a)
    \/ \E a \in Attempts : SkipAWS(a)
    \/ \E a \in Attempts : ImportRepo(a)
    \/ \E a \in Attempts : RepoDone(a)
    \/ \E a \in Attempts : FailUnfinished(a)
    \/ \E a \in Attempts : SetFinalImageStatus(a)
    \/ \E a \in Attempts : SetErrorStatusOnImage(a)
    \/ \E a \in Attempts : CommitDone(a)
    \/ \E a \in Attempts : Resumed(a)
    \/ \E a \in Attempts : Return(a)
    \/ \E a \in Attempts : CreateInstallerForImage(a)
    \/ \E a \in Attempts : ComposeInstaller(a)
    \/ \E a \in Attempts : SaveComposed(a)
    \/ \E a \in Attempts : AddUserInfo(a)
    \/ \E a \in Attempts : FailHandler(a)
    \/ \E a \in Attempts : PanicEndsProcess(a)
    \/ \E a \in Attempts : Watch(a)
    \/ \E i \in Images : ComposeEnds(i)
    \/ \E i \in Images : FindImage(i)
    \/ \E i \in Images : HandleFound(i)
    \/ Interrupt
    \/ Exit
    \/ UNCHANGED vars

LEMMA AtomicSteps == [Next \/ Idle]_vars => AtomicStep
<1> SUFFICES ASSUME [Next \/ Idle]_vars
             PROVE  AtomicStep
    OBVIOUS
<1> USE DEF AtomicStep
<1>1. ASSUME NEW a \in Attempts, Request(a)
      PROVE  AtomicStep
    BY <1>1 DEF Request
<1>2. ASSUME NEW a \in Attempts, Step(a)
      PROVE  AtomicStep
    BY <1>2 DEF Step
<1>3. CASE Idle \/ UNCHANGED vars
    BY <1>3 DEF Idle
<1>4. QED
    BY <1>1, <1>2, <1>3 DEF Next

-------------------------------------------------------------------------------
(* Type correctness.                                                       *)

Phases == {"commit", "resume", "installer"}
Pcs == Ends \cup
          {"none", "retryCommit", "retryInstaller", "retryImage", "resume", "prepared",
           "queued", "reload", "poll", "saveCommit", "pollInstaller", "saveInstaller",
           "saveImage", "metadata", "repo", "pulp", "pulpStore", "skipAws", "aws",
           "awsStore", "repoDone", "final", "saveFinal", "error", "errorCommit",
           "errorInstaller", "commitDone", "resumed", "installer", "installerRow",
           "compose", "composeImage", "composeInstaller", "userInfo", "return", "panics"}

\* TypeOK as the proofs use it.
Types ==
    /\ row \in [Images -> Rows]
    /\ wants \in [Images -> BOOLEAN]
    /\ stores \in [Images -> SUBSET {"aws", "pulp"}]
    /\ pc \in [Attempts -> Pcs]
    /\ phase \in [Attempts -> Phases]
    /\ mode \in [Attempts -> {"none", "job", "goroutine"}]
    /\ resumes \subseteq Attempts
    /\ mem \in [Attempts -> Rows]
    /\ watch \in [Attempts -> {"off", "on", "signalled"}]
    /\ compose \in [Images -> {"none", "running", "success", "failure", "stopped"}]
    /\ iso \in [Images -> {"none", "running", "success", "failure"}]
    /\ found \in [Images -> {"no", "stale", "interrupted"}]
    /\ current \in [Images -> Attempts]
    /\ disturbed \subseteq Images
    /\ interrupted \in BOOLEAN
    /\ crashed \in BOOLEAN

LEMMA TypesAreTypeOK == Types <=> TypeOK
BY DEF Types, TypeOK, Pcs, Phases

LEMMA Literals ==
    /\ {"CREATED", "BUILDING", "ERROR", "SUCCESS", "INTERRUPTED", "none"}
           \subseteq Statuses \cup {"none"}
    /\ {"PENDING", "BUILDING", "SUCCESS", "ERROR", "SKIPPED"} \subseteq RepoStatuses
BY DEF Statuses, RepoStatuses

LEMMA StoreTypes ==
    ASSUME row \in [Images -> Rows], NEW a \in Attempts, NEW r \in Rows, Store(a, r)
    PROVE  row' \in [Images -> Rows]
BY ImageAssumption DEF Store

LEMMA HoldTypes ==
    ASSUME mem \in [Attempts -> Rows], NEW a \in Attempts, NEW m \in Rows, Hold(a, m)
    PROVE  mem' \in [Attempts -> Rows]
BY DEF Hold

LEMMA InitTypes == Init => Types
<1>1. NoRows \in Rows
    BY DEF NoRows, Rows, RepoStatuses
<1>2. Init => pc \in [Attempts -> Pcs] /\ phase \in [Attempts -> Phases]
    BY DEF Init, Pcs, Phases
<1>3. Init => /\ row \in [Images -> Rows] /\ mem \in [Attempts -> Rows]
              /\ current \in [Images -> Attempts]
    BY <1>1, ImageAssumption DEF Init
<1>4. Init => /\ wants \in [Images -> BOOLEAN]
              /\ stores \in [Images -> SUBSET {"aws", "pulp"}]
              /\ mode \in [Attempts -> {"none", "job", "goroutine"}]
              /\ watch \in [Attempts -> {"off", "on", "signalled"}]
    BY DEF Init
<1>5. Init => /\ compose \in [Images -> {"none", "running", "success", "failure", "stopped"}]
              /\ iso \in [Images -> {"none", "running", "success", "failure"}]
              /\ found \in [Images -> {"no", "stale", "interrupted"}]
              /\ resumes \subseteq Attempts /\ disturbed \subseteq Images
    BY DEF Init
<1>6. QED
    BY <1>2, <1>3, <1>4, <1>5 DEF Init, Types

LEMMA NextTypes ==
    ASSUME Types, AtomicStep
    PROVE  Types'
<1> USE DEF quietVars, requestVars, faultVars
<1>t. /\ ImageOf \in [Attempts -> Images]
      /\ Types
      /\ row \in [Images -> Rows] /\ mem \in [Attempts -> Rows]
      /\ pc \in [Attempts -> Pcs] /\ phase \in [Attempts -> Phases]
      /\ mode \in [Attempts -> {"none", "job", "goroutine"}]
      /\ watch \in [Attempts -> {"off", "on", "signalled"}]
      /\ wants \in [Images -> BOOLEAN]
      /\ stores \in [Images -> SUBSET {"aws", "pulp"}]
      /\ current \in [Images -> Attempts] /\ disturbed \subseteq Images
      /\ compose \in [Images -> {"none", "running", "success", "failure", "stopped"}]
      /\ iso \in [Images -> {"none", "running", "success", "failure"}]
      /\ found \in [Images -> {"no", "stale", "interrupted"}]
    BY ImageAssumption DEF Types
<1>m. row \in [Images -> Rows] /\ mem \in [Attempts -> Rows] /\ NoRows \in Rows
    BY <1>t DEF NoRows, Rows, RepoStatuses
<1>p. pc \in [Attempts -> Pcs] /\ phase \in [Attempts -> Phases]
    BY <1>t
<1>r. /\ \A a \in Attempts : Row(a) \in Rows /\ mem[a] \in Rows
      /\ \A i \in Images : row[i] \in Rows
      /\ NoRows \in Rows
    BY <1>t DEF Row, NoRows, Rows, RepoStatuses
<1>1. ASSUME NEW a \in Attempts, CreateImage(a)
      PROVE  Types'
    <2>1. \A installs \in BOOLEAN :
              [image |-> "BUILDING", commit |-> "BUILDING",
               installer |-> IF installs THEN "PENDING" ELSE "none",
               aws |-> "none", pulp |-> "none"] \in Rows
        BY DEF Rows, Statuses, RepoStatuses
    <2>2. row' \in [Images -> Rows] /\ pc' \in [Attempts -> Pcs]
        BY <1>1, <2>1, <1>t DEF CreateImage, Store, Goto, Pcs, Ends
    <2>3. wants' \in [Images -> BOOLEAN] /\ stores' \in [Images -> SUBSET {"aws", "pulp"}]
        BY <1>1, <1>t DEF CreateImage
    <2>4. current' \in [Images -> Attempts] /\ disturbed' \subseteq Images
        BY <1>1, <1>t DEF CreateImage, Starts
    <2>5. compose' \in [Images -> {"none", "running", "success", "failure", "stopped"}]
        BY <1>1, <1>t DEF CreateImage
    <2>6. QED
        BY <1>1, <2>2, <2>3, <2>4, <2>5, <1>t DEF CreateImage, Types
<1>2. ASSUME NEW a \in Attempts, RetryCreateImage(a)
      PROVE  Types'
    <2>1. pc' \in [Attempts -> Pcs]
        BY <1>2, <1>t DEF RetryCreateImage, Goto, Pcs, Ends
    <2>2. current' \in [Images -> Attempts] /\ disturbed' \subseteq Images
        BY <1>2, <1>t DEF RetryCreateImage, Starts
    <2>3. compose' \in [Images -> {"none", "running", "success", "failure", "stopped"}]
        BY <1>2, <1>t DEF RetryCreateImage
    <2>4. QED
        BY <1>2, <2>1, <2>2, <2>3, <1>t DEF RetryCreateImage, Types
<1>3. ASSUME NEW a \in Attempts, ResumeInterrupted(a)
      PROVE  Types'
    <2>1. [Row(a) EXCEPT !.image = "BUILDING"] \in Rows
        BY <1>r, Literals DEF Rows
    <2>2. mem' \in [Attempts -> Rows] /\ pc' \in [Attempts -> Pcs]
        BY <1>3, <2>1, <1>t DEF ResumeInterrupted, Hold, Goto, Pcs, Ends
    <2>3. current' \in [Images -> Attempts] /\ disturbed' \subseteq Images
        BY <1>3, <1>t DEF ResumeInterrupted, Starts
    <2>4. QED
        BY <1>3, <2>2, <2>3, <1>t DEF ResumeInterrupted, Types
<1>4. ASSUME NEW a \in Attempts, SetBuildingStatusOnImageToRetryBuild(a)
      PROVE  Types'
    <2>1. /\ [Row(a) EXCEPT !.commit = "BUILDING"] \in Rows
          /\ [Row(a) EXCEPT !.installer = "CREATED"] \in Rows
          /\ [Row(a) EXCEPT !.image = "BUILDING"] \in Rows
        BY <1>r, Literals DEF Rows
    <2>2. row' \in [Images -> Rows]
        BY <1>4, <2>1, <1>m, StoreTypes DEF SetBuildingStatusOnImageToRetryBuild
    <2>3. mem' = mem
        BY <1>4 DEF SetBuildingStatusOnImageToRetryBuild
    <2>4. pc' \in [Attempts -> Pcs] /\ phase' \in [Attempts -> Phases]
        BY <1>4, <1>p DEF SetBuildingStatusOnImageToRetryBuild, Goto, Pcs, Phases
    <2>5. QED
        BY <1>4, <2>2, <2>3, <2>4, <1>t DEF SetBuildingStatusOnImageToRetryBuild, Types
<1>5. ASSUME NEW a \in Attempts, ResumeCreateImage(a)
      PROVE  Types'
    <2>1. [Row(a) EXCEPT !.image = "BUILDING"] \in Rows
        BY <1>r, Literals DEF Rows
    <2>2. row' \in [Images -> Rows]
        BY <1>5, <2>1, <1>m, StoreTypes DEF ResumeCreateImage
    <2>3. mem' = mem
        BY <1>5 DEF ResumeCreateImage
    <2>4. pc' \in [Attempts -> Pcs] /\ phase' \in [Attempts -> Phases]
        BY <1>5, <1>p DEF ResumeCreateImage, Goto, Pcs, Phases
    <2>5. QED
        BY <1>5, <2>2, <2>3, <2>4, <1>t DEF ResumeCreateImage, Types
<1>6. ASSUME NEW a \in Attempts, ProcessImage(a)
      PROVE  Types'
    <2>1. row' = row
        BY <1>6 DEF ProcessImage
    <2>2. mem' = mem
        BY <1>6 DEF ProcessImage
    <2>3. pc' \in [Attempts -> Pcs] /\ phase' \in [Attempts -> Phases]
        BY <1>6, <1>p DEF ProcessImage, Goto, Pcs, Phases
    <2>4. QED
        BY <1>6, <2>1, <2>2, <2>3, <1>t DEF ProcessImage, Types
<1>7. ASSUME NEW a \in Attempts, Begin(a)
      PROVE  Types'
    <2>1. row' = row
        BY <1>7 DEF Begin
    <2>2. mem' = mem
        BY <1>7 DEF Begin
    <2>3. pc' \in [Attempts -> Pcs] /\ phase' \in [Attempts -> Phases]
        BY <1>7, <1>p DEF Begin, Goto, Pcs, Phases
    <2>4. QED
        BY <1>7, <2>1, <2>2, <2>3, <1>t DEF Begin, Types
<1>8. ASSUME NEW a \in Attempts, Reload(a)
      PROVE  Types'
    <2>1. /\ Row(a) \in Rows
          /\ [Row(a) EXCEPT !.aws = mem[a].aws, !.pulp = mem[a].pulp] \in Rows
        BY <1>r, Literals DEF Rows
    <2>2. row' = row
        BY <1>8 DEF Reload
    <2>3. mem' \in [Attempts -> Rows]
        BY <1>8, <2>1, <1>m, HoldTypes DEF Reload
    <2>4. pc' \in [Attempts -> Pcs] /\ phase' \in [Attempts -> Phases]
        BY <1>8, <1>p DEF Reload, Goto, Pcs, Phases
    <2>5. QED
        BY <1>8, <2>2, <2>3, <2>4, <1>t DEF Reload, Types
<1>9. ASSUME NEW a \in Attempts, GetCommitStatus(a)
      PROVE  Types'
    <2>1. /\ [mem[a] EXCEPT !.commit = "SUCCESS"] \in Rows
          /\ [mem[a] EXCEPT !.commit = "ERROR", !.image = "ERROR"] \in Rows
        BY <1>r, Literals DEF Rows
    <2>2. row' = row
        BY <1>9 DEF GetCommitStatus
    <2>3. mem' \in [Attempts -> Rows]
        BY <1>9, <2>1, <1>m, HoldTypes DEF GetCommitStatus
    <2>4. pc' \in [Attempts -> Pcs] /\ phase' \in [Attempts -> Phases]
        BY <1>9, <1>p DEF GetCommitStatus, Goto, Pcs, Phases
    <2>5. QED
        BY <1>9, <2>2, <2>3, <2>4, <1>t DEF GetCommitStatus, Types
<1>10. ASSUME NEW a \in Attempts, SaveCommit(a)
      PROVE  Types'
    <2>1. [Row(a) EXCEPT !.commit = mem[a].commit] \in Rows
        BY <1>r, Literals DEF Rows
    <2>2. row' \in [Images -> Rows]
        BY <1>10, <2>1, <1>m, StoreTypes DEF SaveCommit
    <2>3. mem' = mem
        BY <1>10 DEF SaveCommit
    <2>4. pc' \in [Attempts -> Pcs] /\ phase' \in [Attempts -> Phases]
        BY <1>10, <1>p DEF SaveCommit, Goto, Pcs, Phases
    <2>5. QED
        BY <1>10, <2>2, <2>3, <2>4, <1>t DEF SaveCommit, Types
<1>11. ASSUME NEW a \in Attempts, GetInstallerStatus(a)
      PROVE  Types'
    <2>1. /\ [mem[a] EXCEPT !.installer = "SUCCESS"] \in Rows
          /\ [mem[a] EXCEPT !.installer = "ERROR", !.image = "ERROR"] \in Rows
        BY <1>r, Literals DEF Rows
    <2>2. row' = row
        BY <1>11 DEF GetInstallerStatus
    <2>3. mem' \in [Attempts -> Rows]
        BY <1>11, <2>1, <1>m, HoldTypes DEF GetInstallerStatus
    <2>4. pc' \in [Attempts -> Pcs] /\ phase' \in [Attempts -> Phases]
        BY <1>11, <1>p DEF GetInstallerStatus, Goto, Pcs, Phases
    <2>5. QED
        BY <1>11, <2>2, <2>3, <2>4, <1>t DEF GetInstallerStatus, Types
<1>12. ASSUME NEW a \in Attempts, SaveInstaller(a)
      PROVE  Types'
    <2>1. [Row(a) EXCEPT !.installer = mem[a].installer] \in Rows
        BY <1>r, Literals DEF Rows
    <2>2. row' \in [Images -> Rows]
        BY <1>12, <2>1, <1>m, StoreTypes DEF SaveInstaller
    <2>3. mem' = mem
        BY <1>12 DEF SaveInstaller
    <2>4. pc' \in [Attempts -> Pcs] /\ phase' \in [Attempts -> Phases]
        BY <1>12, <1>p DEF SaveInstaller, Goto, Pcs, Phases
    <2>5. QED
        BY <1>12, <2>2, <2>3, <2>4, <1>t DEF SaveInstaller, Types
<1>13. ASSUME NEW a \in Attempts, UpdateImageStatus(a)
      PROVE  Types'
    <2>1. [Row(a) EXCEPT !.image = mem[a].image] \in Rows
        BY <1>r, Literals DEF Rows
    <2>2. row' \in [Images -> Rows]
        BY <1>13, <2>1, <1>m, StoreTypes DEF UpdateImageStatus
    <2>3. mem' = mem
        BY <1>13 DEF UpdateImageStatus
    <2>4. pc' \in [Attempts -> Pcs] /\ phase' \in [Attempts -> Phases]
        BY <1>13, <1>p DEF UpdateImageStatus, Goto, Pcs, Phases
    <2>5. QED
        BY <1>13, <2>2, <2>3, <2>4, <1>t DEF UpdateImageStatus, Types
<1>14. ASSUME NEW a \in Attempts, GetMetadata(a)
      PROVE  Types'
    <2>1. row' = row
        BY <1>14 DEF GetMetadata
    <2>2. mem' = mem
        BY <1>14 DEF GetMetadata
    <2>3. pc' \in [Attempts -> Pcs] /\ phase' \in [Attempts -> Phases]
        BY <1>14, <1>p DEF GetMetadata, Goto, Pcs, Phases
    <2>4. QED
        BY <1>14, <2>1, <2>2, <2>3, <1>t DEF GetMetadata, Types
<1>15. ASSUME NEW a \in Attempts, CreateRepoForImage(a)
      PROVE  Types'
    <2>1. [mem[a] EXCEPT !.aws = "PENDING",
                          !.pulp = IF StoresIn(a, "pulp") THEN "PENDING" ELSE "SKIPPED"] \in Rows
        BY <1>r, Literals DEF Rows
    <2>2. mem' \in [Attempts -> Rows]
        BY <1>15, <2>1, <1>m, HoldTypes DEF CreateRepoForImage
    <2>p. pc' \in [Attempts -> Pcs]
        BY <1>15, <1>p DEF CreateRepoForImage, Goto, Pcs
    <2>3. [Row(a) EXCEPT !.commit = mem[a].commit] \in Rows
        BY <1>r, Literals DEF Rows
    <2>4. row' \in [Images -> Rows]
        BY <1>15, <2>3, <1>m, StoreTypes DEF CreateRepoForImage
    <2>5. QED
        BY <1>15, <2>2, <2>p, <2>4, <1>t DEF CreateRepoForImage, Types
<1>16. ASSUME NEW a \in Attempts, StoreRepo(a)
      PROVE  Types'
    <2>1. /\ [mem[a] EXCEPT !.pulp = "BUILDING"] \in Rows
          /\ [mem[a] EXCEPT !.pulp = "SUCCESS"] \in Rows
          /\ [mem[a] EXCEPT !.pulp = "ERROR"] \in Rows
        BY <1>r, Literals DEF Rows
    <2>2. mem' \in [Attempts -> Rows]
        BY <1>16, <2>1, <1>m, HoldTypes DEF StoreRepo
    <2>p. pc' \in [Attempts -> Pcs]
        BY <1>16, <1>p DEF StoreRepo, Goto, Pcs
    <2>3. [Row(a) EXCEPT !.aws = mem'[a].aws, !.pulp = mem'[a].pulp] \in Rows
        BY <2>2, <1>r DEF Rows
    <2>4. row' \in [Images -> Rows]
        BY <1>16, <2>3, <1>m, StoreTypes DEF StoreRepo, SaveRepo
    <2>5. QED
        BY <1>16, <2>2, <2>p, <2>4, <1>t DEF StoreRepo, Types
<1>17. ASSUME NEW a \in Attempts, SkipAWS(a)
      PROVE  Types'
    <2>1. [mem[a] EXCEPT !.aws = "SKIPPED"] \in Rows
        BY <1>r, Literals DEF Rows
    <2>2. mem' \in [Attempts -> Rows]
        BY <1>17, <2>1, <1>m, HoldTypes DEF SkipAWS
    <2>p. pc' \in [Attempts -> Pcs]
        BY <1>17, <1>p DEF SkipAWS, Goto, Pcs
    <2>3. [Row(a) EXCEPT !.aws = mem'[a].aws, !.pulp = mem'[a].pulp] \in Rows
        BY <2>2, <1>r DEF Rows
    <2>4. row' \in [Images -> Rows]
        BY <1>17, <2>3, <1>m, StoreTypes DEF SkipAWS, SaveRepo
    <2>5. QED
        BY <1>17, <2>2, <2>p, <2>4, <1>t DEF SkipAWS, Types
<1>18. ASSUME NEW a \in Attempts, ImportRepo(a)
      PROVE  Types'
    <2>1. /\ [mem[a] EXCEPT !.aws = "BUILDING"] \in Rows
          /\ [mem[a] EXCEPT !.aws = "SUCCESS"] \in Rows
          /\ [mem[a] EXCEPT !.aws = "ERROR"] \in Rows
        BY <1>r, Literals DEF Rows
    <2>2. mem' \in [Attempts -> Rows]
        BY <1>18, <2>1, <1>m, HoldTypes DEF ImportRepo
    <2>p. pc' \in [Attempts -> Pcs]
        BY <1>18, <1>p DEF ImportRepo, Goto, Pcs
    <2>3. [Row(a) EXCEPT !.aws = mem'[a].aws, !.pulp = mem'[a].pulp] \in Rows
        BY <2>2, <1>r DEF Rows
    <2>4. row' \in [Images -> Rows]
        BY <1>18, <2>3, <1>m, StoreTypes DEF ImportRepo, SaveRepo
    <2>5. QED
        BY <1>18, <2>2, <2>p, <2>4, <1>t DEF ImportRepo, Types
<1>19. ASSUME NEW a \in Attempts, RepoDone(a)
      PROVE  Types'
    <2>1. row' = row
        BY <1>19 DEF RepoDone
    <2>2. mem' = mem
        BY <1>19 DEF RepoDone
    <2>3. pc' \in [Attempts -> Pcs] /\ phase' \in [Attempts -> Phases]
        BY <1>19, <1>p DEF RepoDone, Goto, Pcs, Phases
    <2>4. QED
        BY <1>19, <2>1, <2>2, <2>3, <1>t DEF RepoDone, Types
<1>20. ASSUME NEW a \in Attempts, FailUnfinished(a)
      PROVE  Types'
    <2>1. /\ [Row(a) EXCEPT !.commit = "ERROR"] \in Rows
          /\ [mem[a] EXCEPT !.commit = "ERROR"] \in Rows
        BY <1>r, Literals DEF Rows
    <2>2. row' \in [Images -> Rows]
        BY <1>20, <2>1, <1>m, StoreTypes DEF FailUnfinished
    <2>3. mem' \in [Attempts -> Rows]
        BY <1>20, <2>1, <1>m, HoldTypes DEF FailUnfinished
    <2>4. pc' \in [Attempts -> Pcs] /\ phase' \in [Attempts -> Phases]
        BY <1>20, <1>p DEF FailUnfinished, Goto, Pcs, Phases
    <2>5. QED
        BY <1>20, <2>2, <2>3, <2>4, <1>t DEF FailUnfinished, Types
<1>21. ASSUME NEW a \in Attempts, SetFinalImageStatus(a)
      PROVE  Types'
    <2>1. \A s \in {"SUCCESS", "ERROR"} :
              /\ [mem[a] EXCEPT !.image = s] \in Rows
              /\ [Row(a) EXCEPT !.image = s] \in Rows
        BY <1>r, Literals DEF Rows
    <2>2. mem' \in [Attempts -> Rows] /\ row' \in [Images -> Rows]
        BY <1>21, <2>1, <1>m, HoldTypes, StoreTypes DEF SetFinalImageStatus
    <2>3. pc' \in [Attempts -> Pcs]
        BY <1>21, <1>p DEF SetFinalImageStatus, Goto, Pcs
    <2>4. QED
        BY <1>21, <2>2, <2>3, <1>t DEF SetFinalImageStatus, Types
<1>22. ASSUME NEW a \in Attempts, SetErrorStatusOnImage(a)
      PROVE  Types'
    <2>1. /\ [Row(a) EXCEPT !.image = "ERROR"] \in Rows
          /\ [Row(a) EXCEPT !.commit = "ERROR"] \in Rows
          /\ [Row(a) EXCEPT !.installer = "ERROR"] \in Rows
          /\ [mem[a] EXCEPT !.image = "ERROR"] \in Rows
          /\ [mem[a] EXCEPT !.commit = "ERROR"] \in Rows
          /\ [mem[a] EXCEPT !.installer = "ERROR"] \in Rows
        BY <1>r, Literals DEF Rows
    <2>2. row' \in [Images -> Rows]
        BY <1>22, <2>1, <1>m, StoreTypes DEF SetErrorStatusOnImage
    <2>3. mem' \in [Attempts -> Rows]
        BY <1>22, <2>1, <1>m, HoldTypes DEF SetErrorStatusOnImage
    <2>4. pc' \in [Attempts -> Pcs] /\ phase' \in [Attempts -> Phases]
        BY <1>22, <1>p DEF SetErrorStatusOnImage, Goto, Pcs, Phases
    <2>5. QED
        BY <1>22, <2>2, <2>3, <2>4, <1>t DEF SetErrorStatusOnImage, Types
<1>23. ASSUME NEW a \in Attempts, CommitDone(a)
      PROVE  Types'
    <2>1. row' = row
        BY <1>23 DEF CommitDone
    <2>2. mem' = mem
        BY <1>23 DEF CommitDone
    <2>3. pc' \in [Attempts -> Pcs] /\ phase' \in [Attempts -> Phases]
        BY <1>23, <1>p DEF CommitDone, Goto, Pcs, Phases
    <2>4. QED
        BY <1>23, <2>1, <2>2, <2>3, <1>t DEF CommitDone, Types
<1>24. ASSUME NEW a \in Attempts, Resumed(a)
      PROVE  Types'
    <2>1. row' = row
        BY <1>24 DEF Resumed
    <2>2. mem' = mem
        BY <1>24 DEF Resumed
    <2>3. pc' \in [Attempts -> Pcs] /\ phase' \in [Attempts -> Phases]
        BY <1>24, <1>p DEF Resumed, Goto, Pcs, Phases
    <2>4. QED
        BY <1>24, <2>1, <2>2, <2>3, <1>t DEF Resumed, Types
<1>25. ASSUME NEW a \in Attempts, Return(a)
      PROVE  Types'
    <2>1. NoRows \in Rows
        BY <1>r, Literals DEF Rows
    <2>2. row' = row
        BY <1>25 DEF Return
    <2>3. mem' \in [Attempts -> Rows]
        BY <1>25, <2>1, <1>m, HoldTypes DEF Return, Forget
    <2>4. pc' \in [Attempts -> Pcs] /\ phase' \in [Attempts -> Phases]
        BY <1>25, <1>p DEF Return, Goto, Pcs, Phases, Ends, Forget
    <2>5. QED
        BY <1>25, <2>2, <2>3, <2>4, <1>t DEF Return, Types, Forget
<1>26. ASSUME NEW a \in Attempts, CreateInstallerForImage(a)
      PROVE  Types'
    <2>1. /\ [Row(a) EXCEPT !.image = mem[a].image] \in Rows
          /\ [Row(a) EXCEPT !.installer = mem[a].installer] \in Rows
          /\ [mem[a] EXCEPT !.installer = "BUILDING"] \in Rows
        BY <1>r, Literals DEF Rows
    <2>2. row' \in [Images -> Rows]
        BY <1>26, <2>1, <1>m, StoreTypes DEF CreateInstallerForImage
    <2>3. mem' \in [Attempts -> Rows]
        BY <1>26, <2>1, <1>m, HoldTypes DEF CreateInstallerForImage
    <2>4. pc' \in [Attempts -> Pcs] /\ phase' \in [Attempts -> Phases]
        BY <1>26, <1>p DEF CreateInstallerForImage, Goto, Pcs, Phases
    <2>5. QED
        BY <1>26, <2>2, <2>3, <2>4, <1>t DEF CreateInstallerForImage, Types
<1>27. ASSUME NEW a \in Attempts, ComposeInstaller(a)
      PROVE  Types'
    <2>1. /\ [mem[a] EXCEPT !.image = "BUILDING"] \in Rows
          /\ [mem[a] EXCEPT !.image = "ERROR", !.installer = "ERROR"] \in Rows
        BY <1>r, Literals DEF Rows
    <2>2. row' = row
        BY <1>27 DEF ComposeInstaller
    <2>3. mem' \in [Attempts -> Rows]
        BY <1>27, <2>1, <1>m, HoldTypes DEF ComposeInstaller
    <2>4. pc' \in [Attempts -> Pcs] /\ phase' \in [Attempts -> Phases]
        BY <1>27, <1>p DEF ComposeInstaller, Goto, Pcs, Phases
    <2>5. QED
        BY <1>27, <2>2, <2>3, <2>4, <1>t DEF ComposeInstaller, Types
<1>28. ASSUME NEW a \in Attempts, SaveComposed(a)
      PROVE  Types'
    <2>1. /\ [Row(a) EXCEPT !.image = mem[a].image] \in Rows
          /\ [Row(a) EXCEPT !.installer = mem[a].installer] \in Rows
        BY <1>r, Literals DEF Rows
    <2>2. row' \in [Images -> Rows]
        BY <1>28, <2>1, <1>m, StoreTypes DEF SaveComposed
    <2>3. mem' = mem
        BY <1>28 DEF SaveComposed
    <2>4. pc' \in [Attempts -> Pcs] /\ phase' \in [Attempts -> Phases]
        BY <1>28, <1>p DEF SaveComposed, Goto, Pcs, Phases
    <2>5. QED
        BY <1>28, <2>2, <2>3, <2>4, <1>t DEF SaveComposed, Types
<1>29. ASSUME NEW a \in Attempts, AddUserInfo(a)
      PROVE  Types'
    <2>1. [Row(a) EXCEPT !.installer = mem[a].installer] \in Rows
        BY <1>r, Literals DEF Rows
    <2>2. row' \in [Images -> Rows]
        BY <1>29, <2>1, <1>m, StoreTypes DEF AddUserInfo
    <2>3. mem' = mem
        BY <1>29 DEF AddUserInfo
    <2>4. pc' \in [Attempts -> Pcs] /\ phase' \in [Attempts -> Phases]
        BY <1>29, <1>p DEF AddUserInfo, Goto, Pcs, Phases
    <2>5. QED
        BY <1>29, <2>2, <2>3, <2>4, <1>t DEF AddUserInfo, Types
<1>30. ASSUME NEW a \in Attempts, FailHandler(a)
      PROVE  Types'
    <2>1. /\ [Row(a) EXCEPT !.image = IF a \in resumes THEN "ERROR" ELSE "INTERRUPTED"] \in Rows
          /\ NoRows \in Rows
        BY <1>r, Literals DEF Rows
    <2>2. row' \in [Images -> Rows]
        BY <1>30, <2>1, <1>m, StoreTypes DEF FailHandler
    <2>3. mem' \in [Attempts -> Rows]
        BY <1>30, <2>1, <1>m, HoldTypes DEF FailHandler, Forget
    <2>4. pc' \in [Attempts -> Pcs] /\ phase' \in [Attempts -> Phases]
        BY <1>30, <1>p DEF FailHandler, Goto, Pcs, Phases, Ends, Forget
    <2>5. QED
        BY <1>30, <2>2, <2>3, <2>4, <1>t DEF FailHandler, Types, Forget
<1>31. ASSUME NEW a \in Attempts, PanicEndsProcess(a)
      PROVE  Types'
    <2>1. /\ mem' \in [Attempts -> Rows] /\ pc' \in [Attempts -> Pcs]
          /\ phase' \in [Attempts -> Phases] /\ mode' \in [Attempts -> {"none", "job", "goroutine"}]
          /\ watch' \in [Attempts -> {"off", "on", "signalled"}] /\ disturbed' \subseteq Images
        BY <1>31, <1>t DEF PanicEndsProcess, Die, NoRows, Rows, RepoStatuses, Pcs, Ends, Phases
    <2>2. QED
        BY <1>31, <2>1, <1>t DEF PanicEndsProcess, Types
<1>32. ASSUME NEW a \in Attempts, Watch(a)
      PROVE  Types'
    <2>1. [Row(a) EXCEPT !.image = "INTERRUPTED"] \in Rows
        BY <1>r, Literals DEF Rows
    <2>2. row' \in [Images -> Rows]
        BY <1>32, <2>1, <1>m, StoreTypes DEF Watch
    <2>3. mem' = mem
        BY <1>32 DEF Watch
    <2>4. pc' \in [Attempts -> Pcs] /\ phase' \in [Attempts -> Phases]
        BY <1>32, <1>p DEF Watch, Goto, Pcs, Phases
    <2>5. QED
        BY <1>32, <2>2, <2>3, <2>4, <1>t DEF Watch, Types
<1>33. ASSUME NEW i \in Images, ComposeEnds(i)
      PROVE  Types'
    BY <1>33, <1>t DEF ComposeEnds, Types
<1>34. ASSUME NEW i \in Images, FindImage(i)
      PROVE  Types'
    BY <1>34, <1>t DEF FindImage, Types
<1>35. ASSUME NEW i \in Images, HandleFound(i)
      PROVE  Types'
    <2>1. [row[i] EXCEPT !.image = "ERROR"] \in Rows
        BY <1>r, Literals DEF Rows
    <2>2. row' \in [Images -> Rows]
        BY <1>35, <2>1, <1>t DEF HandleFound
    <2>3. QED
        BY <1>35, <2>2, <1>t DEF HandleFound, Types
<1>36. CASE Interrupt
    BY <1>36, <1>t DEF Interrupt, Types
<1>37. CASE Exit
    <2>1. /\ mem' \in [Attempts -> Rows] /\ pc' \in [Attempts -> Pcs]
          /\ phase' \in [Attempts -> Phases] /\ mode' \in [Attempts -> {"none", "job", "goroutine"}]
          /\ watch' \in [Attempts -> {"off", "on", "signalled"}] /\ disturbed' \subseteq Images
        BY <1>37, <1>t DEF Exit, Die, NoRows, Rows, RepoStatuses, Pcs, Ends, Phases
    <2>2. QED
        BY <1>37, <2>1, <1>t DEF Exit, Types
<1>38. CASE UNCHANGED vars
    BY <1>38, <1>t DEF vars, Types
<1>39. QED
    BY <1>1, <1>2, <1>3, <1>4, <1>5, <1>6, <1>7, <1>8, <1>9, <1>10, <1>11, <1>12,
       <1>13, <1>14, <1>15, <1>16, <1>17, <1>18, <1>19, <1>20, <1>21, <1>22, <1>23,
       <1>24, <1>25, <1>26, <1>27, <1>28, <1>29, <1>30, <1>31, <1>32, <1>33, <1>34,
       <1>35, <1>36, <1>37, <1>38 DEF AtomicStep

\* The variables keep their types through every interleaving, interrupt and crash.
THEOREM TypeCorrect == Spec => []TypeOK
<1>1. Types /\ [Next \/ Idle]_vars => Types'
    BY AtomicSteps, NextTypes
<1>2. QED
    BY <1>1, InitTypes, TypesAreTypeOK, PTL DEF Spec

-------------------------------------------------------------------------------
(* The attempts of an undisturbed image, one at a time.                    *)

\* Only the attempt that was started last can be under way.
One(i) ==
    /\ ImageOf[current[i]] = i
    /\ i \notin disturbed =>
          \A a \in Attempts : ImageOf[a] = i /\ Alive(a) => a = current[i]

LEMMA InitOne == Init => \A i \in Images : One(i)
<1> SUFFICES ASSUME Init, NEW i \in Images
             PROVE  One(i)
    OBVIOUS
<1>1. \A a \in Attempts : ~Alive(a)
    BY DEF Init, Alive
<1>2. QED
    BY <1>1, ImageAssumption DEF Init, One

\* What an attempt does not touch: the other attempts and the other images.
LEMMA Others ==
    ASSUME Types, NEW a \in Attempts,
           Request(a) \/ Step(a) \/ Watch(a), ~PanicEndsProcess(a)
    PROVE  /\ \A i \in Images \ {ImageOf[a]} :
                 /\ row'[i] = row[i] /\ current'[i] = current[i] /\ found'[i] = found[i]
                 /\ wants'[i] = wants[i] /\ stores'[i] = stores[i]
                 /\ i \in disturbed' <=> i \in disturbed
           /\ \A b \in Attempts \ {a} :
                 /\ pc'[b] = pc[b] /\ mem'[b] = mem[b] /\ phase'[b] = phase[b]
                 /\ watch'[b] = watch[b]
                 /\ b \in resumes' <=> b \in resumes
<1> USE DEF quietVars, requestVars, faultVars
<1>t. /\ ImageOf \in [Attempts -> Images]
      /\ row \in [Images -> Rows] /\ mem \in [Attempts -> Rows]
      /\ pc \in [Attempts -> Pcs] /\ phase \in [Attempts -> Phases]
      /\ wants \in [Images -> BOOLEAN] /\ stores \in [Images -> SUBSET {"aws", "pulp"}]
      /\ current \in [Images -> Attempts]
      /\ found \in [Images -> {"no", "stale", "interrupted"}]
      /\ watch \in [Attempts -> {"off", "on", "signalled"}]
    BY ImageAssumption DEF Types
<1>1. CASE CreateImage(a)
    BY <1>1, <1>t DEF CreateImage, Store, Hold, Goto, Starts
<1>2. CASE RetryCreateImage(a)
    BY <1>2, <1>t DEF RetryCreateImage, Store, Hold, Goto, Starts
<1>3. CASE ResumeInterrupted(a)
    BY <1>3, <1>t DEF ResumeInterrupted, Store, Hold, Goto, Starts
<1>4. CASE SetBuildingStatusOnImageToRetryBuild(a)
    BY <1>4, <1>t DEF SetBuildingStatusOnImageToRetryBuild, Store, Hold, Goto
<1>5. CASE ResumeCreateImage(a)
    BY <1>5, <1>t DEF ResumeCreateImage, Store, Hold, Goto
<1>6. CASE ProcessImage(a)
    BY <1>6, <1>t DEF ProcessImage, Store, Hold, Goto
<1>7. CASE Begin(a)
    BY <1>7, <1>t DEF Begin, Store, Hold, Goto
<1>8. CASE Reload(a)
    BY <1>8, <1>t DEF Reload, Store, Hold, Goto
<1>9. CASE GetCommitStatus(a)
    BY <1>9, <1>t DEF GetCommitStatus, Store, Hold, Goto
<1>10. CASE SaveCommit(a)
    BY <1>10, <1>t DEF SaveCommit, Store, Hold, Goto
<1>11. CASE GetInstallerStatus(a)
    BY <1>11, <1>t DEF GetInstallerStatus, Store, Hold, Goto
<1>12. CASE SaveInstaller(a)
    BY <1>12, <1>t DEF SaveInstaller, Store, Hold, Goto
<1>13. CASE UpdateImageStatus(a)
    BY <1>13, <1>t DEF UpdateImageStatus, Store, Hold, Goto
<1>14. CASE GetMetadata(a)
    BY <1>14, <1>t DEF GetMetadata, Store, Hold, Goto
<1>15. CASE CreateRepoForImage(a)
    BY <1>15, <1>t DEF CreateRepoForImage, Store, Hold, Goto
<1>16. CASE StoreRepo(a)
    BY <1>16, <1>t DEF StoreRepo, Store, Hold, Goto, SaveRepo
<1>17. CASE SkipAWS(a)
    BY <1>17, <1>t DEF SkipAWS, Store, Hold, Goto, SaveRepo
<1>18. CASE ImportRepo(a)
    BY <1>18, <1>t DEF ImportRepo, Store, Hold, Goto, SaveRepo
<1>19. CASE RepoDone(a)
    BY <1>19, <1>t DEF RepoDone, Store, Hold, Goto
<1>20. CASE FailUnfinished(a)
    BY <1>20, <1>t DEF FailUnfinished, Store, Hold, Goto
<1>21. CASE SetFinalImageStatus(a)
    BY <1>21, <1>t DEF SetFinalImageStatus, Store, Hold, Goto
<1>22. CASE SetErrorStatusOnImage(a)
    BY <1>22, <1>t DEF SetErrorStatusOnImage, Store, Hold, Goto
<1>23. CASE CommitDone(a)
    BY <1>23, <1>t DEF CommitDone, Store, Hold, Goto
<1>24. CASE Resumed(a)
    BY <1>24, <1>t DEF Resumed, Store, Hold, Goto
<1>25. CASE Return(a)
    BY <1>25, <1>t DEF Return, Store, Hold, Goto, Forget
<1>26. CASE CreateInstallerForImage(a)
    BY <1>26, <1>t DEF CreateInstallerForImage, Store, Hold, Goto
<1>27. CASE ComposeInstaller(a)
    BY <1>27, <1>t DEF ComposeInstaller, Store, Hold, Goto
<1>28. CASE SaveComposed(a)
    BY <1>28, <1>t DEF SaveComposed, Store, Hold, Goto
<1>29. CASE AddUserInfo(a)
    BY <1>29, <1>t DEF AddUserInfo, Store, Hold, Goto
<1>30. CASE FailHandler(a)
    BY <1>30, <1>t DEF FailHandler, Store, Hold, Goto, Forget
<1>31. CASE Watch(a)
    BY <1>31, <1>t DEF Watch, Store, Hold, Goto
<1>32. QED
    BY <1>1, <1>2, <1>3, <1>4, <1>5, <1>6, <1>7, <1>8, <1>9, <1>10, <1>11, <1>12,
       <1>13, <1>14, <1>15, <1>16, <1>17, <1>18, <1>19, <1>20, <1>21, <1>22, <1>23,
       <1>24, <1>25, <1>26, <1>27, <1>28, <1>29, <1>30, <1>31 DEF Request, Step

\* A step belongs to an attempt that is under way, and leaves alone what the requests
\* have settled.
LEMMA StepOfAlive ==
    ASSUME NEW a \in Attempts, Step(a)
    PROVE  /\ Alive(a)
           /\ ~PanicEndsProcess(a) =>
                 /\ current' = current /\ wants' = wants /\ stores' = stores
                 /\ resumes' = resumes /\ disturbed' = disturbed /\ found' = found
<1> USE DEF quietVars, requestVars, faultVars, Alive, Ends
<1>1. CASE SetBuildingStatusOnImageToRetryBuild(a)
    BY <1>1 DEF SetBuildingStatusOnImageToRetryBuild
<1>2. CASE ResumeCreateImage(a)
    BY <1>2 DEF ResumeCreateImage
<1>3. CASE ProcessImage(a)
    BY <1>3 DEF ProcessImage
<1>4. CASE Begin(a)
    BY <1>4 DEF Begin
<1>5. CASE Reload(a)
    BY <1>5 DEF Reload
<1>6. CASE GetCommitStatus(a)
    BY <1>6 DEF GetCommitStatus
<1>7. CASE SaveCommit(a)
    BY <1>7 DEF SaveCommit
<1>8. CASE GetInstallerStatus(a)
    BY <1>8 DEF GetInstallerStatus
<1>9. CASE SaveInstaller(a)
    BY <1>9 DEF SaveInstaller
<1>10. CASE UpdateImageStatus(a)
    BY <1>10 DEF UpdateImageStatus
<1>11. CASE GetMetadata(a)
    BY <1>11 DEF GetMetadata
<1>12. CASE CreateRepoForImage(a)
    BY <1>12 DEF CreateRepoForImage
<1>13. CASE StoreRepo(a)
    BY <1>13 DEF StoreRepo
<1>14. CASE SkipAWS(a)
    BY <1>14 DEF SkipAWS
<1>15. CASE ImportRepo(a)
    BY <1>15 DEF ImportRepo
<1>16. CASE RepoDone(a)
    BY <1>16 DEF RepoDone
<1>17. CASE FailUnfinished(a)
    BY <1>17 DEF FailUnfinished
<1>18. CASE SetFinalImageStatus(a)
    BY <1>18 DEF SetFinalImageStatus
<1>19. CASE SetErrorStatusOnImage(a)
    BY <1>19 DEF SetErrorStatusOnImage
<1>20. CASE CommitDone(a)
    BY <1>20 DEF CommitDone
<1>21. CASE Resumed(a)
    BY <1>21 DEF Resumed
<1>22. CASE Return(a)
    BY <1>22 DEF Return
<1>23. CASE CreateInstallerForImage(a)
    BY <1>23 DEF CreateInstallerForImage
<1>24. CASE ComposeInstaller(a)
    BY <1>24 DEF ComposeInstaller
<1>25. CASE SaveComposed(a)
    BY <1>25 DEF SaveComposed
<1>26. CASE AddUserInfo(a)
    BY <1>26 DEF AddUserInfo
<1>27. CASE FailHandler(a)
    BY <1>27 DEF FailHandler
<1>28. CASE PanicEndsProcess(a)
    BY <1>28 DEF PanicEndsProcess
<1>29. QED
    BY <1>1, <1>2, <1>3, <1>4, <1>5, <1>6, <1>7, <1>8, <1>9, <1>10, <1>11, <1>12,
       <1>13, <1>14, <1>15, <1>16, <1>17, <1>18, <1>19, <1>20, <1>21, <1>22, <1>23,
       <1>24, <1>25, <1>26, <1>27, <1>28 DEF Step

LEMMA NextOne ==
    ASSUME Types, AtomicStep, NEW i \in Images, One(i)
    PROVE  One(i)'
<1>t. /\ ImageOf \in [Attempts -> Images] /\ current \in [Images -> Attempts]
      /\ pc \in [Attempts -> Pcs] /\ disturbed \subseteq Images
    BY ImageAssumption DEF Types
<1>1. ASSUME NEW a \in Attempts, Request(a)
      PROVE  One(i)'
    <2>1. Starts(a)
        BY <1>1 DEF Request, CreateImage, RetryCreateImage, ResumeInterrupted
    <2>2. ~PanicEndsProcess(a)
        BY <2>1 DEF Starts, PanicEndsProcess
    <2>3. \A b \in Attempts \ {a} : pc'[b] = pc[b]
        BY <1>1, <2>2, Others
    <2>4. CASE ImageOf[a] = i
        <3>1. current'[i] = a
            BY <2>1, <2>4, <1>t DEF Starts
        <3>2. ASSUME i \notin disturbed', NEW b \in Attempts, ImageOf[b] = i, Alive(b)'
              PROVE  b = a
            BY <2>1, <2>3, <2>4, <3>2, <1>t DEF Starts, Alive
        <3>3. QED
            BY <2>4, <3>1, <3>2 DEF One
    <2>5. CASE ImageOf[a] # i
        <3>1. current'[i] = current[i] /\ (i \in disturbed' <=> i \in disturbed)
            BY <1>1, <2>2, <2>5, Others
        <3>2. QED
            BY <2>3, <2>5, <3>1 DEF One, Alive
    <2>6. QED
        BY <2>4, <2>5
<1>2. ASSUME \A b \in Attempts : Alive(b)' => Alive(b), current' = current,
             disturbed \subseteq disturbed'
      PROVE  One(i)'
    BY <1>2 DEF One
<1>3. ASSUME NEW a \in Attempts, Step(a), ~PanicEndsProcess(a)
      PROVE  One(i)'
    <2>1. \A b \in Attempts \ {a} : pc'[b] = pc[b]
        BY <1>3, Others
    <2>2. \A b \in Attempts : Alive(b)' => Alive(b)
        BY <1>3, <2>1, StepOfAlive DEF Alive
    <2>3. QED
        BY <1>2, <1>3, <2>2, StepOfAlive
<1>4. ASSUME Die, current' = current
      PROVE  One(i)'
    <2>1. \A b \in Attempts : Alive(b)' => Alive(b)
        BY <1>4, <1>t DEF Die, Alive, Ends
    <2>2. disturbed \subseteq disturbed'
        BY <1>4 DEF Die
    <2>3. QED
        BY <1>2, <1>4, <2>1, <2>2
<1>5. ASSUME NEW a \in Attempts, PanicEndsProcess(a)
      PROVE  One(i)'
    BY <1>4, <1>5 DEF PanicEndsProcess
<1>6. CASE Exit
    BY <1>4, <1>6 DEF Exit
<1>7. ASSUME pc' = pc, current' = current, disturbed' = disturbed
      PROVE  One(i)'
    BY <1>7 DEF One, Alive
<1>8. ASSUME NEW a \in Attempts, Watch(a)
      PROVE  One(i)'
    BY <1>7, <1>8 DEF Watch, requestVars
<1>9. ASSUME NEW j \in Images, ComposeEnds(j) \/ FindImage(j) \/ HandleFound(j)
      PROVE  One(i)'
    BY <1>7, <1>9 DEF ComposeEnds, FindImage, HandleFound, requestVars
<1>10. CASE Interrupt \/ UNCHANGED vars
    BY <1>7, <1>10 DEF Interrupt, vars, requestVars
<1>11. QED
    BY <1>1, <1>3, <1>5, <1>6, <1>8, <1>9, <1>10 DEF AtomicStep, Request, Step

-------------------------------------------------------------------------------
(* The attempt that was started last, of an image that is not disturbed.   *)

RepoPcs == {"repo", "pulp", "pulpStore", "skipAws", "aws", "awsStore", "repoDone"}
InstallerPcs == {"installer", "installerRow", "compose", "composeImage", "composeInstaller"}

\* The row has left BUILDING, or the attempt is a resume that returns with it.
IsOut(a) == Row(a).image # "BUILDING" \/ (a \in resumes /\ mem[a].image = "BUILDING")

\* What is not BUILDING in memory is not BUILDING in the row.
IsSaved(a) == mem[a].image = "BUILDING" \/ Row(a).image # "BUILDING"

\* Whoever ends has taken the row out of BUILDING; and who is on the way to an end that
\* writes nothing has a saved status in memory.
OutInv(a) ==
    /\ pc[a] \in {"done", "failed"} => Row(a).image # "BUILDING"
    /\ pc[a] = "return" => IsOut(a)
    /\ pc[a] = "commitDone" /\ (mem[a].commit # "SUCCESS" \/ (a \notin resumes /\ ~Installs(a)))
           => IsOut(a)
    /\ pc[a] \in {"poll", "metadata", "resumed", "userInfo", "error", "errorCommit",
                  "errorInstaller", "commitDone"} \cup RepoPcs => IsSaved(a)
    /\ pc[a] \in {"saveCommit", "pollInstaller"} =>
           IsSaved(a) \/ ~Installs(a) \/ mem[a].installer # "BUILDING"
    /\ pc[a] \in {"errorCommit", "errorInstaller"} => mem[a].image = "ERROR"
    /\ a \in resumes /\ pc[a] \in {"resume", "prepared", "queued"} => mem[a].image = "BUILDING"

\* The commit is built before the installer, never beside it.
CommitInv(a) ==
    /\ phase[a] = "resume" => a \in resumes
    /\ a \in resumes /\ pc[a] \in {"resume", "prepared", "queued"} =>
           mem[a].commit = Row(a).commit
    /\ a \notin resumes /\ phase[a] = "commit" =>
          /\ pc[a] \in {"retryInstaller", "retryImage", "prepared", "queued", "reload"}
                 => Row(a).commit = "BUILDING"
          /\ pc[a] = "poll" => mem[a].commit = "BUILDING"
          /\ pc[a] \in {"saveCommit", "pollInstaller", "saveInstaller", "saveImage"} =>
                 mem[a].commit \in {"BUILDING", "SUCCESS"} \/ mem[a].image # "BUILDING"
    /\ pc[a] \in {"poll", "pollInstaller", "saveInstaller", "saveImage", "metadata", "final",
                  "saveFinal", "error", "errorCommit", "errorInstaller", "commitDone",
                  "resumed", "userInfo", "return"} \cup RepoPcs \cup InstallerPcs =>
           Row(a).commit = mem[a].commit
    /\ pc[a] = "saveCommit" => mem[a].commit # "BUILDING"
    /\ pc[a] \in InstallerPcs \/ phase[a] # "commit" => Row(a).commit # "BUILDING"
    /\ Installs(a) /\ Row(a).commit = "BUILDING" /\ pc[a] # "retryInstaller" =>
           Row(a).installer # "BUILDING"
    /\ pc[a] = "poll" /\ Installs(a) /\ mem[a].commit = "BUILDING" =>
           mem[a].installer # "BUILDING"
    /\ pc[a] = "userInfo" => phase[a] # "commit"
    /\ pc[a] = "saveInstaller" => mem[a].installer # "BUILDING"

\* Where an attempt is, in which phase and by which request it was started.
PcInv(a) ==
    /\ pc[a] \in {"none", "retryCommit", "retryInstaller", "retryImage"} => a \notin resumes
    /\ pc[a] = "resume" => a \in resumes
    /\ pc[a] \in {"none", "retryCommit", "retryInstaller", "retryImage", "resume", "prepared",
                  "queued", "metadata", "commitDone"} => phase[a] = "commit"
    /\ pc[a] \in RepoPcs => phase[a] # "installer"
    /\ pc[a] = "resumed" => phase[a] = "resume"
    /\ pc[a] \in {"metadata", "resumed"} \cup RepoPcs => mem[a].commit = "SUCCESS"
    /\ pc[a] = "none" => mem[a] = NoRows /\ watch[a] = "off"

LEMMA StepPc ==
    ASSUME Types, NEW a \in Attempts, Step(a), ~PanicEndsProcess(a), PcInv(a)
    PROVE  PcInv(a)' /\ pc'[a] # "none"
<1> USE DEF RepoPcs, quietVars, requestVars, faultVars
<1>t. /\ mem \in [Attempts -> Rows] /\ pc \in [Attempts -> Pcs] /\ phase \in [Attempts -> Phases]
    BY DEF Types
<1>1. CASE SetBuildingStatusOnImageToRetryBuild(a)
    BY <1>1, <1>t DEF SetBuildingStatusOnImageToRetryBuild, Hold, Goto, Rows, PcInv
<1>2. CASE ResumeCreateImage(a)
    BY <1>2, <1>t DEF ResumeCreateImage, Hold, Goto, Rows, PcInv
<1>3. CASE ProcessImage(a)
    BY <1>3, <1>t DEF ProcessImage, Hold, Goto, Rows, PcInv
<1>4. CASE Begin(a)
    BY <1>4, <1>t DEF Begin, Hold, Goto, Rows, PcInv
<1>5. CASE Reload(a)
    BY <1>5, <1>t DEF Reload, Hold, Goto, Rows, PcInv
<1>6. CASE GetCommitStatus(a)
    BY <1>6, <1>t DEF GetCommitStatus, Hold, Goto, Rows, PcInv
<1>7. CASE SaveCommit(a)
    BY <1>7, <1>t DEF SaveCommit, Hold, Goto, Rows, PcInv
<1>8. CASE GetInstallerStatus(a)
    BY <1>8, <1>t DEF GetInstallerStatus, Hold, Goto, Rows, PcInv
<1>9. CASE SaveInstaller(a)
    BY <1>9, <1>t DEF SaveInstaller, Hold, Goto, Rows, PcInv
<1>10. CASE UpdateImageStatus(a)
    BY <1>10, <1>t DEF UpdateImageStatus, Hold, Goto, Rows, PcInv
<1>11. CASE GetMetadata(a)
    BY <1>11, <1>t DEF GetMetadata, Hold, Goto, Rows, PcInv
<1>12. CASE CreateRepoForImage(a)
    BY <1>12, <1>t DEF CreateRepoForImage, Hold, Goto, Rows, PcInv
<1>13. CASE StoreRepo(a)
    BY <1>13, <1>t DEF StoreRepo, Hold, Goto, Rows, PcInv
<1>14. CASE SkipAWS(a)
    BY <1>14, <1>t DEF SkipAWS, Hold, Goto, Rows, PcInv
<1>15. CASE ImportRepo(a)
    BY <1>15, <1>t DEF ImportRepo, Hold, Goto, Rows, PcInv
<1>16. CASE RepoDone(a)
    BY <1>16, <1>t DEF RepoDone, Hold, Goto, Rows, PcInv, Phases
<1>17. CASE FailUnfinished(a)
    BY <1>17, <1>t DEF FailUnfinished, Hold, Goto, Rows, PcInv
<1>18. CASE SetFinalImageStatus(a)
    BY <1>18, <1>t DEF SetFinalImageStatus, Hold, Goto, Rows, PcInv
<1>19. CASE SetErrorStatusOnImage(a)
    BY <1>19, <1>t DEF SetErrorStatusOnImage, Hold, Goto, Rows, PcInv
<1>20. CASE CommitDone(a)
    BY <1>20, <1>t DEF CommitDone, Hold, Goto, Rows, PcInv
<1>21. CASE Resumed(a)
    BY <1>21, <1>t DEF Resumed, Hold, Goto, Rows, PcInv
<1>22. CASE Return(a)
    BY <1>22, <1>t DEF Return, Hold, Goto, Rows, PcInv, Forget, NoRows
<1>23. CASE CreateInstallerForImage(a)
    BY <1>23, <1>t DEF CreateInstallerForImage, Hold, Goto, Rows, PcInv
<1>24. CASE ComposeInstaller(a)
    BY <1>24, <1>t DEF ComposeInstaller, Hold, Goto, Rows, PcInv
<1>25. CASE SaveComposed(a)
    BY <1>25, <1>t DEF SaveComposed, Hold, Goto, Rows, PcInv
<1>26. CASE AddUserInfo(a)
    BY <1>26, <1>t DEF AddUserInfo, Hold, Goto, Rows, PcInv
<1>27. CASE FailHandler(a)
    BY <1>27, <1>t DEF FailHandler, Hold, Goto, Rows, PcInv, Forget, NoRows
<1>28. QED
    BY <1>1, <1>2, <1>3, <1>4, <1>5, <1>6, <1>7, <1>8, <1>9, <1>10, <1>11, <1>12,
       <1>13, <1>14, <1>15, <1>16, <1>17, <1>18, <1>19, <1>20, <1>21, <1>22, <1>23,
       <1>24, <1>25, <1>26, <1>27 DEF Step
LEMMA StepAttempt ==
    ASSUME Types, NEW a \in Attempts, Step(a), ~PanicEndsProcess(a),
           PcInv(a), OutInv(a), CommitInv(a)
    PROVE  OutInv(a)' /\ CommitInv(a)'
<1> USE DEF RepoPcs, InstallerPcs, quietVars, requestVars, faultVars
<1>t. /\ ImageOf \in [Attempts -> Images]
      /\ row \in [Images -> Rows] /\ mem \in [Attempts -> Rows]
      /\ pc \in [Attempts -> Pcs] /\ phase \in [Attempts -> Phases]
    BY ImageAssumption DEF Types
<1>1. CASE SetBuildingStatusOnImageToRetryBuild(a)
    <2>1. OutInv(a)'
        BY <1>1, <1>t DEF SetBuildingStatusOnImageToRetryBuild, Store, Hold, Goto, Row, Installs, Rows, OutInv, CommitInv, PcInv, IsOut, IsSaved
    <2>2. CommitInv(a)'
        BY <1>1, <1>t DEF SetBuildingStatusOnImageToRetryBuild, Store, Hold, Goto, Row, Installs, Rows, CommitInv, PcInv
    <2>3. QED
        BY <2>1, <2>2
<1>2. CASE ResumeCreateImage(a)
    <2>1. OutInv(a)'
        BY <1>2, <1>t DEF ResumeCreateImage, Store, Hold, Goto, Row, Installs, Rows, OutInv, CommitInv, PcInv, IsOut, IsSaved
    <2>2. CommitInv(a)'
        BY <1>2, <1>t DEF ResumeCreateImage, Store, Hold, Goto, Row, Installs, Rows, CommitInv, PcInv
    <2>3. QED
        BY <2>1, <2>2
<1>3. CASE ProcessImage(a)
    <2>1. OutInv(a)'
        BY <1>3, <1>t DEF ProcessImage, Store, Hold, Goto, Row, Installs, Rows, OutInv, CommitInv, PcInv, IsOut, IsSaved
    <2>2. CommitInv(a)'
        BY <1>3, <1>t DEF ProcessImage, Store, Hold, Goto, Row, Installs, Rows, CommitInv, PcInv
    <2>3. QED
        BY <2>1, <2>2
<1>4. CASE Begin(a)
    <2>1. OutInv(a)'
        BY <1>4, <1>t DEF Begin, Store, Hold, Goto, Row, Installs, Rows, OutInv, CommitInv, PcInv, IsOut, IsSaved
    <2>2. CommitInv(a)'
        BY <1>4, <1>t DEF Begin, Store, Hold, Goto, Row, Installs, Rows, CommitInv, PcInv
    <2>3. QED
        BY <2>1, <2>2
<1>5. CASE Reload(a)
    <2>1. OutInv(a)'
        BY <1>5, <1>t DEF Reload, Store, Hold, Goto, Row, Installs, Rows, OutInv, CommitInv, PcInv, IsOut, IsSaved
    <2>2. CommitInv(a)'
        BY <1>5, <1>t DEF Reload, Store, Hold, Goto, Row, Installs, Rows, CommitInv, PcInv
    <2>3. QED
        BY <2>1, <2>2
<1>6. CASE GetCommitStatus(a)
    <2>0. /\ pc[a] = "poll"
          /\ Row(a)' = Row(a) /\ phase'[a] = phase[a] /\ Installs(a)' = Installs(a)
          /\ a \in resumes' <=> a \in resumes
          /\ Row(a) \in Rows /\ mem[a] \in Rows /\ phase[a] \in Phases
        BY <1>6, <1>t DEF GetCommitStatus, Row, Installs
    <2>1. CASE /\ TRUE
              /\ mem'[a] = mem[a]
              /\ pc'[a] = "panics"
        <3>1. OutInv(a)'
            BY <2>0, <2>1 DEF Rows, Phases, OutInv, CommitInv, PcInv, IsOut, IsSaved
        <3>2. CommitInv(a)'
            BY <2>0, <2>1 DEF Rows, Phases, CommitInv, PcInv
        <3>3. QED
            BY <3>1, <3>2
    <2>2. CASE /\ mem[a].commit # "BUILDING"
              /\ mem'[a] = mem[a]
              /\ pc'[a] = "pollInstaller"
        <3>1. OutInv(a)'
            BY <2>0, <2>2 DEF Rows, Phases, OutInv, CommitInv, PcInv, IsOut, IsSaved
        <3>2. CommitInv(a)'
            BY <2>0, <2>2 DEF Rows, Phases, CommitInv, PcInv
        <3>3. QED
            BY <3>1, <3>2
    <2>3. CASE /\ mem[a].commit = "BUILDING"
              /\ mem'[a] = mem[a]
              /\ pc'[a] = "pollInstaller"
        <3>1. OutInv(a)'
            BY <2>0, <2>3 DEF Rows, Phases, OutInv, CommitInv, PcInv, IsOut, IsSaved
        <3>2. CommitInv(a)'
            BY <2>0, <2>3 DEF Rows, Phases, CommitInv, PcInv
        <3>3. QED
            BY <3>1, <3>2
    <2>4. CASE /\ mem[a].commit = "BUILDING"
              /\ mem'[a] = [mem[a] EXCEPT !.commit = "SUCCESS"]
              /\ pc'[a] = "saveCommit"
        <3>1. OutInv(a)'
            BY <2>0, <2>4 DEF Rows, Phases, OutInv, CommitInv, PcInv, IsOut, IsSaved
        <3>2. CommitInv(a)'
            BY <2>0, <2>4 DEF Rows, Phases, CommitInv, PcInv
        <3>3. QED
            BY <3>1, <3>2
    <2>5. CASE /\ mem[a].commit = "BUILDING"
              /\ mem'[a] = [mem[a] EXCEPT !.commit = "ERROR", !.image = "ERROR"]
              /\ pc'[a] = "saveCommit"
        <3>1. OutInv(a)'
            BY <2>0, <2>5 DEF Rows, Phases, OutInv, CommitInv, PcInv, IsOut, IsSaved
        <3>2. CommitInv(a)'
            BY <2>0, <2>5 DEF Rows, Phases, CommitInv, PcInv
        <3>3. QED
            BY <3>1, <3>2
    <2>6. CASE /\ TRUE
              /\ mem'[a] = mem[a]
              /\ pc'[a] = "error"
        <3>1. OutInv(a)'
            BY <2>0, <2>6 DEF Rows, Phases, OutInv, CommitInv, PcInv, IsOut, IsSaved
        <3>2. CommitInv(a)'
            BY <2>0, <2>6 DEF Rows, Phases, CommitInv, PcInv
        <3>3. QED
            BY <3>1, <3>2
    <2>7. QED
        BY <1>6, <1>t, <2>1, <2>2, <2>3, <2>4, <2>5, <2>6 DEF GetCommitStatus, Hold, Goto, Installs
<1>7. CASE SaveCommit(a)
    <2>1. OutInv(a)'
        BY <1>7, <1>t DEF SaveCommit, Store, Hold, Goto, Row, Installs, Rows, OutInv, CommitInv, PcInv, IsOut, IsSaved
    <2>2. CommitInv(a)'
        BY <1>7, <1>t DEF SaveCommit, Store, Hold, Goto, Row, Installs, Rows, CommitInv, PcInv
    <2>3. QED
        BY <2>1, <2>2
<1>8. CASE GetInstallerStatus(a)
    <2>0. /\ pc[a] = "pollInstaller"
          /\ Row(a)' = Row(a) /\ phase'[a] = phase[a] /\ Installs(a)' = Installs(a)
          /\ a \in resumes' <=> a \in resumes
          /\ Row(a) \in Rows /\ mem[a] \in Rows /\ phase[a] \in Phases
        BY <1>8, <1>t DEF GetInstallerStatus, Row, Installs
    <2>1. CASE /\ ~Installs(a) \/ mem[a].installer # "BUILDING"
              /\ mem'[a] = mem[a]
              /\ pc'[a] = "saveImage"
        <3>1. OutInv(a)'
            BY <2>0, <2>1 DEF Rows, Phases, OutInv, CommitInv, PcInv, IsOut, IsSaved
        <3>2. CommitInv(a)'
            BY <2>0, <2>1 DEF Rows, Phases, CommitInv, PcInv
        <3>3. QED
            BY <3>1, <3>2
    <2>2. CASE /\ TRUE
              /\ mem'[a] = mem[a]
              /\ pc'[a] = "saveImage"
        <3>1. OutInv(a)'
            BY <2>0, <2>2 DEF Rows, Phases, OutInv, CommitInv, PcInv, IsOut, IsSaved
        <3>2. CommitInv(a)'
            BY <2>0, <2>2 DEF Rows, Phases, CommitInv, PcInv
        <3>3. QED
            BY <3>1, <3>2
    <2>3. CASE /\ Installs(a) /\ mem[a].installer = "BUILDING"
              /\ mem'[a] = [mem[a] EXCEPT !.installer = "SUCCESS"]
              /\ pc'[a] = "saveInstaller"
        <3>1. OutInv(a)'
            BY <2>0, <2>3 DEF Rows, Phases, OutInv, CommitInv, PcInv, IsOut, IsSaved
        <3>2. CommitInv(a)'
            BY <2>0, <2>3 DEF Rows, Phases, CommitInv, PcInv
        <3>3. QED
            BY <3>1, <3>2
    <2>4. CASE /\ Installs(a) /\ mem[a].installer = "BUILDING"
              /\ mem'[a] = [mem[a] EXCEPT !.installer = "ERROR", !.image = "ERROR"]
              /\ pc'[a] = "saveInstaller"
        <3>1. OutInv(a)'
            BY <2>0, <2>4 DEF Rows, Phases, OutInv, CommitInv, PcInv, IsOut, IsSaved
        <3>2. CommitInv(a)'
            BY <2>0, <2>4 DEF Rows, Phases, CommitInv, PcInv
        <3>3. QED
            BY <3>1, <3>2
    <2>5. CASE /\ Installs(a) /\ mem[a].installer = "BUILDING"
              /\ mem'[a] = mem[a]
              /\ pc'[a] = "error"
        <3>1. OutInv(a)'
            BY <2>0, <2>5 DEF Rows, Phases, OutInv, CommitInv, PcInv, IsOut, IsSaved
        <3>2. CommitInv(a)'
            BY <2>0, <2>5 DEF Rows, Phases, CommitInv, PcInv
        <3>3. QED
            BY <3>1, <3>2
    <2>6. QED
        BY <1>8, <1>t, <2>1, <2>2, <2>3, <2>4, <2>5 DEF GetInstallerStatus, Hold, Goto, Installs
<1>9. CASE SaveInstaller(a)
    <2>1. OutInv(a)'
        BY <1>9, <1>t DEF SaveInstaller, Store, Hold, Goto, Row, Installs, Rows, OutInv, CommitInv, PcInv, IsOut, IsSaved
    <2>2. CommitInv(a)'
        BY <1>9, <1>t DEF SaveInstaller, Store, Hold, Goto, Row, Installs, Rows, CommitInv, PcInv
    <2>3. QED
        BY <2>1, <2>2
<1>10. CASE UpdateImageStatus(a)
    <2>1. OutInv(a)'
        BY <1>10, <1>t DEF UpdateImageStatus, Store, Hold, Goto, Row, Installs, Rows, OutInv, CommitInv, PcInv, IsOut, IsSaved
    <2>2. CommitInv(a)'
        BY <1>10, <1>t DEF UpdateImageStatus, Store, Hold, Goto, Row, Installs, Rows, CommitInv, PcInv
    <2>3. QED
        BY <2>1, <2>2
<1>11. CASE GetMetadata(a)
    <2>1. OutInv(a)'
        BY <1>11, <1>t DEF GetMetadata, Store, Hold, Goto, Row, Installs, Rows, OutInv, CommitInv, PcInv, IsOut, IsSaved
    <2>2. CommitInv(a)'
        BY <1>11, <1>t DEF GetMetadata, Store, Hold, Goto, Row, Installs, Rows, CommitInv, PcInv
    <2>3. QED
        BY <2>1, <2>2
<1>12. CASE CreateRepoForImage(a)
    <2>1. OutInv(a)'
        BY <1>12, <1>t DEF CreateRepoForImage, Store, Hold, Goto, Row, Installs, Rows, OutInv, CommitInv, PcInv, IsOut, IsSaved
    <2>2. CommitInv(a)'
        BY <1>12, <1>t DEF CreateRepoForImage, Store, Hold, Goto, Row, Installs, Rows, CommitInv, PcInv
    <2>3. QED
        BY <2>1, <2>2
<1>13. CASE StoreRepo(a)
    <2>1. OutInv(a)'
        BY <1>13, <1>t DEF StoreRepo, Store, Hold, Goto, Row, Installs, Rows, OutInv, CommitInv, PcInv, IsOut, IsSaved, SaveRepo
    <2>2. CommitInv(a)'
        BY <1>13, <1>t DEF StoreRepo, Store, Hold, Goto, Row, Installs, Rows, CommitInv, PcInv, SaveRepo
    <2>3. QED
        BY <2>1, <2>2
<1>14. CASE SkipAWS(a)
    <2>1. OutInv(a)'
        BY <1>14, <1>t DEF SkipAWS, Store, Hold, Goto, Row, Installs, Rows, OutInv, CommitInv, PcInv, IsOut, IsSaved, SaveRepo
    <2>2. CommitInv(a)'
        BY <1>14, <1>t DEF SkipAWS, Store, Hold, Goto, Row, Installs, Rows, CommitInv, PcInv, SaveRepo
    <2>3. QED
        BY <2>1, <2>2
<1>15. CASE ImportRepo(a)
    <2>1. OutInv(a)'
        BY <1>15, <1>t DEF ImportRepo, Store, Hold, Goto, Row, Installs, Rows, OutInv, CommitInv, PcInv, IsOut, IsSaved, SaveRepo
    <2>2. CommitInv(a)'
        BY <1>15, <1>t DEF ImportRepo, Store, Hold, Goto, Row, Installs, Rows, CommitInv, PcInv, SaveRepo
    <2>3. QED
        BY <2>1, <2>2
<1>16. CASE RepoDone(a)
    <2>0. /\ pc[a] = "repoDone"
          /\ Row(a)' = Row(a) /\ phase'[a] = phase[a] /\ Installs(a)' = Installs(a)
          /\ a \in resumes' <=> a \in resumes
          /\ Row(a) \in Rows /\ mem[a] \in Rows /\ phase[a] \in Phases
        BY <1>16, <1>t DEF RepoDone, Row, Installs
    <2>1. CASE /\ phase[a] = "commit"
              /\ mem'[a] = mem[a]
              /\ pc'[a] = "error"
        <3>1. OutInv(a)'
            BY <2>0, <2>1 DEF Rows, Phases, OutInv, CommitInv, PcInv, IsOut, IsSaved
        <3>2. CommitInv(a)'
            BY <2>0, <2>1 DEF Rows, Phases, CommitInv, PcInv
        <3>3. QED
            BY <3>1, <3>2
    <2>2. CASE /\ phase[a] # "commit"
              /\ mem'[a] = mem[a]
              /\ pc'[a] = "return"
        <3>1. OutInv(a)'
            BY <2>0, <2>2 DEF Rows, Phases, OutInv, CommitInv, PcInv, IsOut, IsSaved
        <3>2. CommitInv(a)'
            BY <2>0, <2>2 DEF Rows, Phases, CommitInv, PcInv
        <3>3. QED
            BY <3>1, <3>2
    <2>3. CASE /\ TRUE
              /\ mem'[a] = mem[a]
              /\ pc'[a] = "final"
        <3>1. OutInv(a)'
            BY <2>0, <2>3 DEF Rows, Phases, OutInv, CommitInv, PcInv, IsOut, IsSaved
        <3>2. CommitInv(a)'
            BY <2>0, <2>3 DEF Rows, Phases, CommitInv, PcInv
        <3>3. QED
            BY <3>1, <3>2
    <2>4. CASE /\ phase[a] = "commit" /\ Installs(a)
              /\ mem'[a] = mem[a]
              /\ pc'[a] = "commitDone"
        <3>1. OutInv(a)'
            BY <2>0, <2>4 DEF Rows, Phases, OutInv, CommitInv, PcInv, IsOut, IsSaved
        <3>2. CommitInv(a)'
            BY <2>0, <2>4 DEF Rows, Phases, CommitInv, PcInv
        <3>3. QED
            BY <3>1, <3>2
    <2>5. CASE /\ phase[a] # "commit"
              /\ mem'[a] = mem[a]
              /\ pc'[a] = "resumed"
        <3>1. OutInv(a)'
            BY <2>0, <2>5 DEF Rows, Phases, OutInv, CommitInv, PcInv, IsOut, IsSaved
        <3>2. CommitInv(a)'
            BY <2>0, <2>5 DEF Rows, Phases, CommitInv, PcInv
        <3>3. QED
            BY <3>1, <3>2
    <2>6. QED
        BY <1>16, <1>t, <2>1, <2>2, <2>3, <2>4, <2>5 DEF RepoDone, Hold, Goto, Installs
<1>17. CASE FailUnfinished(a)
    <2>1. OutInv(a)'
        BY <1>17, <1>t DEF FailUnfinished, Store, Hold, Goto, Row, Installs, Rows, OutInv, CommitInv, PcInv, IsOut, IsSaved
    <2>2. CommitInv(a)'
        BY <1>17, <1>t DEF FailUnfinished, Store, Hold, Goto, Row, Installs, Rows, CommitInv, PcInv
    <2>3. QED
        BY <2>1, <2>2
<1>18. CASE SetFinalImageStatus(a)
    <2>1. OutInv(a)'
        BY <1>18, <1>t DEF SetFinalImageStatus, Store, Hold, Goto, Row, Installs, Rows, OutInv, CommitInv, PcInv, IsOut, IsSaved
    <2>2. CommitInv(a)'
        BY <1>18, <1>t DEF SetFinalImageStatus, Store, Hold, Goto, Row, Installs, Rows, CommitInv, PcInv
    <2>3. QED
        BY <2>1, <2>2
<1>19. CASE SetErrorStatusOnImage(a)
    <2>1. OutInv(a)'
        BY <1>19, <1>t DEF SetErrorStatusOnImage, Store, Hold, Goto, Row, Installs, Rows, OutInv, CommitInv, PcInv, IsOut, IsSaved
    <2>2. CommitInv(a)'
        BY <1>19, <1>t DEF SetErrorStatusOnImage, Store, Hold, Goto, Row, Installs, Rows, CommitInv, PcInv
    <2>3. QED
        BY <2>1, <2>2
<1>20. CASE CommitDone(a)
    <2>1. OutInv(a)'
        BY <1>20, <1>t DEF CommitDone, Store, Hold, Goto, Row, Installs, Rows, OutInv, CommitInv, PcInv, IsOut, IsSaved
    <2>2. CommitInv(a)'
        BY <1>20, <1>t DEF CommitDone, Store, Hold, Goto, Row, Installs, Rows, CommitInv, PcInv
    <2>3. QED
        BY <2>1, <2>2
<1>21. CASE Resumed(a)
    <2>1. OutInv(a)'
        BY <1>21, <1>t DEF Resumed, Store, Hold, Goto, Row, Installs, Rows, OutInv, CommitInv, PcInv, IsOut, IsSaved
    <2>2. CommitInv(a)'
        BY <1>21, <1>t DEF Resumed, Store, Hold, Goto, Row, Installs, Rows, CommitInv, PcInv
    <2>3. QED
        BY <2>1, <2>2
<1>22. CASE Return(a)
    <2>1. OutInv(a)'
        BY <1>22, <1>t DEF Return, Store, Hold, Goto, Row, Installs, Rows, OutInv, CommitInv, PcInv, IsOut, IsSaved, Forget, NoRows
    <2>2. CommitInv(a)'
        BY <1>22, <1>t DEF Return, Store, Hold, Goto, Row, Installs, Rows, CommitInv, PcInv, Forget, NoRows
    <2>3. QED
        BY <2>1, <2>2
<1>23. CASE CreateInstallerForImage(a)
    <2>1. OutInv(a)'
        BY <1>23, <1>t DEF CreateInstallerForImage, Store, Hold, Goto, Row, Installs, Rows, OutInv, CommitInv, PcInv, IsOut, IsSaved
    <2>2. CommitInv(a)'
        BY <1>23, <1>t DEF CreateInstallerForImage, Store, Hold, Goto, Row, Installs, Rows, CommitInv, PcInv
    <2>3. QED
        BY <2>1, <2>2
<1>24. CASE ComposeInstaller(a)
    <2>0. /\ pc[a] = "compose"
          /\ Row(a)' = Row(a) /\ phase'[a] = phase[a] /\ Installs(a)' = Installs(a)
          /\ a \in resumes' <=> a \in resumes
          /\ Row(a) \in Rows /\ mem[a] \in Rows /\ phase[a] \in Phases
        BY <1>24, <1>t DEF ComposeInstaller, Row, Installs
    <2>1. CASE /\ TRUE
              /\ mem'[a] = [mem[a] EXCEPT !.image = "BUILDING"]
              /\ pc'[a] = "composeImage"
        <3>1. OutInv(a)'
            BY <2>0, <2>1 DEF Rows, Phases, OutInv, CommitInv, PcInv, IsOut, IsSaved
        <3>2. CommitInv(a)'
            BY <2>0, <2>1 DEF Rows, Phases, CommitInv, PcInv
        <3>3. QED
            BY <3>1, <3>2
    <2>2. CASE /\ TRUE
              /\ mem'[a] = [mem[a] EXCEPT !.image = "ERROR", !.installer = "ERROR"]
              /\ pc'[a] = "composeImage"
        <3>1. OutInv(a)'
            BY <2>0, <2>2 DEF Rows, Phases, OutInv, CommitInv, PcInv, IsOut, IsSaved
        <3>2. CommitInv(a)'
            BY <2>0, <2>2 DEF Rows, Phases, CommitInv, PcInv
        <3>3. QED
            BY <3>1, <3>2
    <2>3. QED
        BY <1>24, <1>t, <2>1, <2>2 DEF ComposeInstaller, Hold, Goto, Installs
<1>25. CASE SaveComposed(a)
    <2>1. OutInv(a)'
        BY <1>25, <1>t DEF SaveComposed, Store, Hold, Goto, Row, Installs, Rows, OutInv, CommitInv, PcInv, IsOut, IsSaved
    <2>2. CommitInv(a)'
        BY <1>25, <1>t DEF SaveComposed, Store, Hold, Goto, Row, Installs, Rows, CommitInv, PcInv
    <2>3. QED
        BY <2>1, <2>2
<1>26. CASE AddUserInfo(a)
    <2>1. OutInv(a)'
        BY <1>26, <1>t DEF AddUserInfo, Store, Hold, Goto, Row, Installs, Rows, OutInv, CommitInv, PcInv, IsOut, IsSaved
    <2>2. CommitInv(a)'
        BY <1>26, <1>t DEF AddUserInfo, Store, Hold, Goto, Row, Installs, Rows, CommitInv, PcInv
    <2>3. QED
        BY <2>1, <2>2
<1>27. CASE FailHandler(a)
    <2>1. OutInv(a)'
        BY <1>27, <1>t DEF FailHandler, Store, Hold, Goto, Row, Installs, Rows, OutInv, CommitInv, PcInv, IsOut, IsSaved, Forget, NoRows
    <2>2. CommitInv(a)'
        BY <1>27, <1>t DEF FailHandler, Store, Hold, Goto, Row, Installs, Rows, CommitInv, PcInv, Forget, NoRows
    <2>3. QED
        BY <2>1, <2>2
<1>28. QED
    BY <1>1, <1>2, <1>3, <1>4, <1>5, <1>6, <1>7, <1>8, <1>9, <1>10, <1>11, <1>12,
       <1>13, <1>14, <1>15, <1>16, <1>17, <1>18, <1>19, <1>20, <1>21, <1>22, <1>23,
       <1>24, <1>25, <1>26, <1>27 DEF Step

\* Steps of others leave an attempt, and the rows of its image, as they are.
LEMMA Frame ==
    ASSUME NEW a \in Attempts,
           pc'[a] = pc[a], mem'[a] = mem[a], phase'[a] = phase[a],
           watch'[a] = watch[a], a \in resumes' <=> a \in resumes, Installs(a)' = Installs(a)
    PROVE  /\ PcInv(a) => PcInv(a)'
           /\ Row(a)' = Row(a) /\ OutInv(a) => OutInv(a)'
           /\ Row(a)' = Row(a) /\ CommitInv(a) => CommitInv(a)'
<1>1. PcInv(a) => PcInv(a)'
    BY DEF PcInv
<1>2. Row(a)' = Row(a) /\ OutInv(a) => OutInv(a)'
    BY DEF OutInv, IsOut, IsSaved
<1>3. Row(a)' = Row(a) /\ CommitInv(a) => CommitInv(a)'
    BY DEF CommitInv
<1>4. QED
    BY <1>1, <1>2, <1>3

\* What a dying process leaves of its attempts.
LEMMA AfterDeath ==
    ASSUME Types, Die, NEW a \in Attempts
    PROVE  /\ pc'[a] \in {"none"} \cup Ends
           /\ pc'[a] \in {"none", "done", "failed"} => pc[a] = pc'[a]
           /\ phase'[a] = "commit" /\ mem'[a] = NoRows /\ watch'[a] = "off"
<1>1. pc \in [Attempts -> Pcs] /\ phase \in [Attempts -> Phases]
    BY DEF Types
<1>2. QED
    BY <1>1 DEF Die, Alive, Ends

LEMMA InitPc == Init => \A a \in Attempts : PcInv(a)
BY DEF Init, PcInv, RepoPcs

LEMMA NextPc ==
    ASSUME Types, AtomicStep, NEW a \in Attempts, PcInv(a)
    PROVE  PcInv(a)'
<1>t. /\ mem \in [Attempts -> Rows] /\ pc \in [Attempts -> Pcs]
      /\ phase \in [Attempts -> Phases] /\ ImageOf \in [Attempts -> Images]
      /\ watch \in [Attempts -> {"off", "on", "signalled"}]
    BY ImageAssumption DEF Types
<1>1. ASSUME NEW b \in Attempts, Request(b) \/ Step(b), ~PanicEndsProcess(b), a # b
      PROVE  PcInv(a)'
    <2>1. /\ pc'[a] = pc[a] /\ mem'[a] = mem[a] /\ phase'[a] = phase[a]
          /\ watch'[a] = watch[a]
          /\ a \in resumes' <=> a \in resumes
        BY <1>1, Others
    <2>2. QED
        BY <2>1 DEF PcInv
<1>2. ASSUME Request(a)
      PROVE  PcInv(a)'
    <2>1. pc[a] = "none"
        BY <1>2 DEF Request, CreateImage, RetryCreateImage, ResumeInterrupted, Starts
    <2>2. CASE CreateImage(a) \/ RetryCreateImage(a)
        <3>1. pc'[a] \in {"prepared", "retryCommit", "done"} /\ resumes' = resumes /\ phase' = phase
            BY <2>2, <1>t DEF CreateImage, RetryCreateImage, Goto
        <3>2. QED
            BY <2>1, <3>1 DEF PcInv, RepoPcs
    <2>3. CASE ResumeInterrupted(a)
        <3>1. pc'[a] = "resume" /\ a \in resumes' /\ phase' = phase
            BY <2>3, <1>t DEF ResumeInterrupted, Goto
        <3>2. QED
            BY <2>1, <3>1 DEF PcInv, RepoPcs
    <2>4. QED
        BY <1>2, <2>2, <2>3 DEF Request
<1>3. ASSUME Die, resumes' = resumes
      PROVE  PcInv(a)'
    BY <1>3, AfterDeath DEF PcInv, RepoPcs, Ends
<1>4. ASSUME pc' = pc, mem' = mem, phase' = phase, resumes' = resumes,
             watch[a] = "off" => watch'[a] = "off"
      PROVE  PcInv(a)'
    BY <1>4 DEF PcInv
<1>5. ASSUME NEW b \in Attempts, Request(b)
      PROVE  PcInv(a)'
    <2>1. ~PanicEndsProcess(b)
        BY <1>5 DEF Request, CreateImage, RetryCreateImage, ResumeInterrupted, Starts,
                    PanicEndsProcess
    <2>2. QED
        BY <1>1, <1>2, <1>5, <2>1
<1>6. ASSUME NEW b \in Attempts, Step(b), ~PanicEndsProcess(b)
      PROVE  PcInv(a)'
    BY <1>1, <1>6, StepPc
<1>7. ASSUME NEW b \in Attempts, PanicEndsProcess(b)
      PROVE  PcInv(a)'
    BY <1>3, <1>7 DEF PanicEndsProcess
<1>8. CASE Exit
    BY <1>3, <1>8 DEF Exit
<1>9. ASSUME NEW b \in Attempts, Watch(b)
      PROVE  PcInv(a)'
    BY <1>4, <1>9, <1>t DEF Watch, requestVars
<1>10. ASSUME NEW j \in Images, ComposeEnds(j) \/ FindImage(j) \/ HandleFound(j)
       PROVE  PcInv(a)'
    BY <1>4, <1>10 DEF ComposeEnds, FindImage, HandleFound, requestVars
<1>11. CASE Interrupt \/ UNCHANGED vars
    BY <1>4, <1>11, <1>t DEF Interrupt, vars, requestVars
<1>12. QED
    BY <1>5, <1>6, <1>7, <1>8, <1>9, <1>10, <1>11 DEF AtomicStep, Request, Step

-------------------------------------------------------------------------------
(* Every step, seen from an image.                                         *)

\* What is known of the last attempt of image i.
LastInv(i) ==
    i \notin disturbed => OutInv(current[i]) /\ CommitInv(current[i])

LEMMA InitLast == Init => \A i \in Images : LastInv(i)
<1> SUFFICES ASSUME Init, NEW i \in Images
             PROVE  LastInv(i)
    OBVIOUS
<1>1. /\ ImageOf[current[i]] = i /\ current[i] \in Attempts
      /\ row[i] = NoRows /\ pc[current[i]] = "none" /\ phase[current[i]] = "commit"
      /\ wants[i] = FALSE
    BY ImageAssumption DEF Init
<1>2. QED
    BY <1>1 DEF LastInv, OutInv, CommitInv, IsSaved, Installs, Row, RepoPcs, InstallerPcs

\* Clients do not retry what is being built.
LEMMA RequestLast ==
    ASSUME Types, "BUILDING" \notin Retryable, NEW a \in Attempts, Request(a),
           One(ImageOf[a]), PcInv(a), LastInv(ImageOf[a])
    PROVE  LastInv(ImageOf[a])'
<1> DEFINE i == ImageOf[a]
           c == current[i]
<1>t. /\ ImageOf \in [Attempts -> Images] /\ i \in Images /\ c \in Attempts
      /\ row \in [Images -> Rows] /\ mem \in [Attempts -> Rows]
      /\ pc \in [Attempts -> Pcs] /\ phase \in [Attempts -> Phases]
      /\ wants \in [Images -> BOOLEAN] /\ current \in [Images -> Attempts]
      /\ ImageOf[c] = i
    BY ImageAssumption DEF Types, One
<1> SUFFICES ASSUME i \notin disturbed'
             PROVE  (OutInv(a) /\ CommitInv(a))'
    <2>1. current'[i] = a
        BY <1>t DEF Request, CreateImage, RetryCreateImage, ResumeInterrupted, Starts
    <2>2. QED
        BY <2>1 DEF LastInv
<1>1. /\ Starts(a) /\ pc[a] = "none" /\ a \notin resumes /\ phase[a] = "commit"
      /\ phase' = phase
    BY DEF Request, CreateImage, RetryCreateImage, ResumeInterrupted, Starts, PcInv
<1>2. ~Alive(c) /\ i \notin disturbed
    BY <1>1, <1>t DEF Starts
<1>3. /\ pc[c] # "retryInstaller"
      /\ wants[i] /\ row[i].commit = "BUILDING" => row[i].installer # "BUILDING"
    BY <1>2, <1>t DEF LastInv, CommitInv, Installs, Row, Alive, Ends
<1>4. CASE CreateImage(a)
    <2>1. /\ pc'[a] = "prepared" /\ row'[i].commit = "BUILDING"
          /\ row'[i].installer # "BUILDING" /\ a \notin resumes'
        BY <1>1, <1>4, <1>t DEF CreateImage, Store, Goto
    <2>2. QED
        BY <1>1, <2>1 DEF OutInv, CommitInv, Row, RepoPcs, InstallerPcs
<1>5. CASE RetryCreateImage(a)
    <2>1. /\ pc'[a] \in {"retryCommit", "done"} /\ row[i].image # "BUILDING"
          /\ row' = row /\ wants' = wants /\ a \notin resumes'
        BY <1>1, <1>5, <1>t DEF RetryCreateImage, Goto
    <2>2. QED
        BY <1>1, <1>3, <2>1 DEF OutInv, CommitInv, Row, Installs, RepoPcs, InstallerPcs
<1>6. CASE ResumeInterrupted(a)
    <2>1. /\ pc'[a] = "resume" /\ a \in resumes' /\ row' = row /\ wants' = wants
          /\ mem'[a] = [row[i] EXCEPT !.image = "BUILDING"]
        BY <1>6, <1>t DEF ResumeInterrupted, Goto, Hold, Row
    <2>2. mem'[a].image = "BUILDING" /\ mem'[a].commit = row'[i].commit
        BY <2>1, <1>t DEF Rows
    <2>3. QED
        BY <1>1, <1>3, <2>1, <2>2 DEF OutInv, CommitInv, Row, Installs, RepoPcs, InstallerPcs
<1>7. QED
    BY <1>4, <1>5, <1>6 DEF Request

LEMMA NextLast ==
    ASSUME Types, "BUILDING" \notin Retryable, AtomicStep, NEW i \in Images,
           One(i), \A a \in Attempts : PcInv(a), LastInv(i)
    PROVE  LastInv(i)'
<1> DEFINE c == current[i]
<1>t. /\ ImageOf \in [Attempts -> Images] /\ c \in Attempts /\ ImageOf[c] = i
      /\ row \in [Images -> Rows] /\ pc \in [Attempts -> Pcs]
      /\ disturbed \subseteq Images
    BY ImageAssumption DEF Types, One
<1>1. ASSUME NEW b \in Attempts, Request(b) \/ Step(b), ~PanicEndsProcess(b), ImageOf[b] # i
      PROVE  LastInv(i)'
    <2>1. /\ row'[i] = row[i] /\ current'[i] = c /\ wants'[i] = wants[i]
          /\ i \in disturbed' <=> i \in disturbed
        BY <1>1, Others
    <2>2. /\ pc'[c] = pc[c] /\ mem'[c] = mem[c] /\ phase'[c] = phase[c]
          /\ watch'[c] = watch[c]
          /\ c \in resumes' <=> c \in resumes
        BY <1>1, <1>t, Others
    <2>3. (OutInv(c) /\ CommitInv(c) => OutInv(c)' /\ CommitInv(c)')
        BY <2>1, <2>2, <1>t, Frame DEF Row, Installs
    <2>4. QED
        BY <2>1, <2>3 DEF LastInv, OutInv, CommitInv, IsOut, IsSaved, Row, Installs
<1>2. ASSUME NEW b \in Attempts, Step(b), ~PanicEndsProcess(b), ImageOf[b] = i
      PROVE  LastInv(i)'
    <2>1. /\ Alive(b) /\ current' = current /\ disturbed' = disturbed
        BY <1>2, StepOfAlive
    <2>2. ASSUME i \notin disturbed
          PROVE  b = c /\ OutInv(b) /\ CommitInv(b)
        BY <1>2, <2>1, <2>2 DEF One, LastInv
    <2>3. i \notin disturbed => OutInv(b)' /\ CommitInv(b)'
        BY <1>2, <2>2, StepAttempt
    <2>4. i \notin disturbed' => current'[i] = b
        BY <2>1, <2>2
    <2>5. QED
        BY <2>1, <2>3, <2>4 DEF LastInv, OutInv, CommitInv, IsOut, IsSaved, Row, Installs
<1>3. ASSUME NEW b \in Attempts, Request(b)
      PROVE  LastInv(i)'
    <2>1. ~PanicEndsProcess(b)
        BY <1>3 DEF Request, CreateImage, RetryCreateImage, ResumeInterrupted, Starts,
                    PanicEndsProcess
    <2>2. CASE ImageOf[b] = i
        BY <1>3, <2>2, RequestLast
    <2>3. QED
        BY <1>1, <1>3, <2>1, <2>2
<1>4. ASSUME Die, row' = row, wants' = wants, current' = current
      PROVE  LastInv(i)'
    <2>1. SUFFICES ASSUME i \notin disturbed'
                   PROVE  OutInv(c)' /\ CommitInv(c)'
        BY <1>4 DEF LastInv
    <2>2. pc[c] # "retryInstaller" /\ OutInv(c) /\ CommitInv(c)
        BY <1>4, <2>1, <1>t DEF Die, LastInv
    <2>3. /\ pc'[c] \in {"none"} \cup Ends /\ phase'[c] = "commit"
          /\ pc'[c] \in {"done", "failed"} => pc[c] = pc'[c]
        BY <1>4, <1>t, AfterDeath
    <2>4. QED
        BY <1>4, <2>2, <2>3 DEF OutInv, CommitInv, Ends, Row, Installs, RepoPcs, InstallerPcs
<1>5. ASSUME pc' = pc, mem' = mem, phase' = phase, wants' = wants, current' = current,
             resumes' = resumes, disturbed' = disturbed, row'[i].commit = row[i].commit,
             row'[i].installer = row[i].installer,
             row'[i].image = row[i].image \/ row'[i].image # "BUILDING"
      PROVE  LastInv(i)'
    <2>1. OutInv(c) => OutInv(c)'
        BY <1>5, <1>t DEF OutInv, IsOut, IsSaved, Row, Installs
    <2>2. CommitInv(c) => CommitInv(c)'
        BY <1>5, <1>t DEF CommitInv, Row, Installs
    <2>3. QED
        BY <1>5, <2>1, <2>2 DEF LastInv
<1>6. ASSUME NEW b \in Attempts, PanicEndsProcess(b)
      PROVE  LastInv(i)'
    BY <1>4, <1>6 DEF PanicEndsProcess
<1>7. CASE Exit
    BY <1>4, <1>7 DEF Exit
<1>8. ASSUME NEW b \in Attempts, Watch(b)
      PROVE  LastInv(i)'
    <2>1. /\ row'[i].commit = row[i].commit /\ row'[i].installer = row[i].installer
          /\ row'[i].image = row[i].image \/ row'[i].image # "BUILDING"
        BY <1>8, <1>t DEF Watch, Store, Row, Rows
    <2>2. QED
        BY <1>5, <1>8, <2>1 DEF Watch, requestVars
<1>9. ASSUME NEW j \in Images, ComposeEnds(j) \/ FindImage(j) \/ HandleFound(j)
      PROVE  LastInv(i)'
    <2>1. /\ row'[i].commit = row[i].commit /\ row'[i].installer = row[i].installer
          /\ row'[i].image = row[i].image \/ row'[i].image # "BUILDING"
        BY <1>9, <1>t DEF ComposeEnds, FindImage, HandleFound, Rows
    <2>2. QED
        BY <1>5, <1>9, <2>1 DEF ComposeEnds, FindImage, HandleFound, requestVars
<1>10. CASE Interrupt \/ UNCHANGED vars
    BY <1>5, <1>10 DEF Interrupt, vars, requestVars
<1>11. QED
    BY <1>1, <1>2, <1>3, <1>6, <1>7, <1>8, <1>9, <1>10 DEF AtomicStep, Request, Step

\* Every attempt that returned, or that its failure handler could report, has taken its
\* image out of BUILDING, if clients do not retry what is being built.
THEOREM EndedIsNotBuildingCorrect ==
    ASSUME "BUILDING" \notin Retryable
    PROVE  Spec => []EndedIsNotBuilding
<1> DEFINE IInv == /\ Types
                   /\ \A i \in Images : One(i) /\ LastInv(i)
                   /\ \A a \in Attempts : PcInv(a)
<1>1. Init => IInv
    BY InitTypes, InitOne, InitLast, InitPc
<1>2. IInv /\ [Next \/ Idle]_vars => IInv'
    <2> SUFFICES ASSUME IInv, [Next \/ Idle]_vars
                 PROVE  IInv'
        OBVIOUS
    <2>1. AtomicStep
        BY AtomicSteps
    <2>2. Types'
        BY <2>1, NextTypes
    <2>3. \A i \in Images : One(i)' /\ LastInv(i)'
        BY <2>1, NextOne, NextLast
    <2>4. \A a \in Attempts : PcInv(a)'
        BY <2>1, NextPc
    <2>5. QED
        BY <2>2, <2>3, <2>4
<1>3. IInv => EndedIsNotBuilding
    BY DEF EndedIsNotBuilding, LastInv, OutInv, One, Row
<1>4. QED
    BY <1>1, <1>2, <1>3, PTL DEF Spec

-------------------------------------------------------------------------------
(* What a SUCCESS means.  SuccessIsReal is not inductive: the last step    *)
(* sets the status by what the attempt holds in memory, so that this must  *)
(* agree with the rows, and the repository must be in AWS by then; and     *)
(* after it the attempt goes on, a resume to store the repository again.   *)

InAws(a) == StoresIn(a, "aws")

\* Before it loads the rows an attempt that does not resume holds none.
NotLoaded == {"retryCommit", "retryInstaller", "retryImage", "prepared", "queued", "reload"}

\* The rows are as the attempt holds them, but where it is about to save them.
Agree(a) ==
    (a \in resumes \/ phase[a] # "commit" \/ pc[a] \notin NotLoaded) =>
        /\ pc[a] # "saveCommit" => mem[a].commit = Row(a).commit
        /\ pc[a] \notin {"saveInstaller", "installerRow", "composeImage", "composeInstaller"}
               => mem[a].installer = Row(a).installer
        /\ pc[a] \notin {"pulp", "aws"} => mem[a].aws = Row(a).aws

\* Where an attempt may be after the image became a SUCCESS: on its way out, or in a resume
\* that makes sure of the repository of an image without an installer.
Finishing(a) ==
    /\ ~Installs(a) /\ mem[a].commit = "SUCCESS"
    /\ \/ pc[a] = "commitDone" /\ (InAws(a) => mem[a].aws = "SUCCESS")
       \/ phase[a] = "resume" /\ pc[a] \in {"final", "saveFinal"}
       \/ phase[a] = "resume" /\ pc[a] \in RepoPcs \ {"aws", "awsStore"} /\ ~InAws(a)

Finished(a) ==
    /\ Row(a).image = "SUCCESS" => pc[a] \in {"resume", "return"} \/ Finishing(a)
    /\ mem[a].image = "SUCCESS" => pc[a] = "return" \/ Finishing(a)

\* The installer is composed when the commit is done, and for an image that has one.
InstallerLast(a) ==
    /\ phase[a] = "installer" \/ pc[a] \in InstallerPcs \cup {"resumed", "userInfo"} => Installs(a)
    /\ phase[a] # "installer" =>
           pc[a] # "userInfo" /\ (pc[a] \in {"final", "saveFinal"} => ~Installs(a))
    /\ phase[a] = "resume" =>
           pc[a] \notin {"reload", "poll", "saveCommit", "pollInstaller", "saveInstaller",
                         "saveImage"}
    /\ a \notin resumes /\ phase[a] = "commit" /\ Installs(a)
       /\ pc[a] \notin InstallerPcs \ {"installer"} =>
           /\ pc[a] \notin {"retryCommit", "retryInstaller"} => Row(a).installer # "BUILDING"
           /\ mem[a].installer # "BUILDING"

\* The repository is in AWS, if it goes there, before the installer and the final status.
StoredInAws(a) ==
    /\ stores[ImageOf[a]] # {}
    /\ InAws(a) =>
        /\ pc[a] # "skipAws"
        /\ pc[a] \in {"repoDone", "resumed"} \cup InstallerPcs \/ phase[a] = "installer"
               => mem[a].aws = "SUCCESS"
        /\ pc[a] \in {"final", "saveFinal"} /\ mem[a].commit = "SUCCESS"
               => mem[a].aws = "SUCCESS"
        /\ pc[a] \in {"error", "errorInstaller", "commitDone"} /\ a \notin resumes /\ phase[a] = "commit"
           /\ mem[a].commit = "SUCCESS" => mem[a].aws = "SUCCESS"
    /\ ~InAws(a) => pc[a] \notin {"aws", "awsStore"}

Sound(a) == Agree(a) /\ Finished(a) /\ InstallerLast(a) /\ StoredInAws(a)

\* SuccessIsReal of the image of one attempt.
Real(a) ==
    Row(a).image = "SUCCESS" =>
        /\ Row(a).commit = "SUCCESS"
        /\ Installs(a) => Row(a).installer = "SUCCESS"
        /\ InAws(a) => Row(a).aws = "SUCCESS"

\* A step of an attempt, as what it makes of its own state and of the rows.
Move(a, p, m, r, h) == pc'[a] = p /\ mem'[a] = m /\ Row(a)' = r /\ phase'[a] = h

\* The row of the image as UpdateImageStatus leaves it.
Updated(a) ==
    IF mem[a].image # "BUILDING" THEN [Row(a) EXCEPT !.image = mem[a].image] ELSE Row(a)

\* The rows as SaveRepo leaves them.
Saved(a, m) == [Row(a) EXCEPT !.aws = m.aws, !.pulp = m.pulp]

LEMMA StepSound ==
    ASSUME Types, NEW a \in Attempts, Step(a), ~PanicEndsProcess(a),
           PcInv(a), Sound(a), Real(a)
    PROVE  /\ Alive(a)' => Sound(a)'
           /\ Real(a)'
           /\ Row(a).image = "SUCCESS" /\ pc[a] # "resume" => Row(a)'.image = "SUCCESS"
<1> USE DEF quietVars, requestVars, faultVars
<1>t. /\ ImageOf \in [Attempts -> Images]
      /\ row \in [Images -> Rows] /\ mem \in [Attempts -> Rows]
      /\ pc \in [Attempts -> Pcs] /\ phase \in [Attempts -> Phases]
      /\ stores \in [Images -> SUBSET {"aws", "pulp"}]
    BY ImageAssumption DEF Types
<1>f. /\ Row(a) \in Rows /\ mem[a] \in Rows /\ phase[a] \in Phases
      /\ a \in resumes' <=> a \in resumes
      /\ Installs(a)' = Installs(a) /\ stores[ImageOf[a]]' = stores[ImageOf[a]]
      /\ stores[ImageOf[a]] \subseteq {"aws", "pulp"}
    BY <1>t, StepOfAlive DEF Row, Installs
<1>1. CASE SetBuildingStatusOnImageToRetryBuild(a)
    <2> DEFINE M1 == /\ pc[a] = "retryCommit"
                     /\ Move(a, IF Installs(a) THEN "retryInstaller" ELSE "retryImage",
                             mem[a], [Row(a) EXCEPT !.commit = "BUILDING"], phase[a])
               M2 == /\ pc[a] = "retryInstaller"
                     /\ Move(a, "retryImage",
                             mem[a], [Row(a) EXCEPT !.installer = "CREATED"], phase[a])
               M3 == /\ pc[a] = "retryImage"
                     /\ Move(a, "prepared",
                             mem[a], [Row(a) EXCEPT !.image = "BUILDING"], phase[a])
    <2>0. M1 \/ M2 \/ M3
        BY <1>1, <1>t, <1>f DEF SetBuildingStatusOnImageToRetryBuild, Move, Hold, Goto, Store, Row
    <2> USE <1>f
        DEF Move, Updated, Saved, InAws, StoresIn, Rows, RepoStatuses, Statuses,
            Phases, RepoPcs, InstallerPcs, Ends, NoRows, NotLoaded, Alive, Sound,
            Agree, Finished, Finishing, InstallerLast, StoredInAws, Real, PcInv
    <2>1. CASE M1
        BY <2>1
    <2>2. CASE M2
        BY <2>2
    <2>3. CASE M3
        BY <2>3
    <2> HIDE DEF M1, M2, M3
    <2> QED
        BY <2>0, <2>1, <2>2, <2>3
<1>2. CASE ResumeCreateImage(a)
    <2>1. /\ pc[a] = "resume"
          /\ Move(a, "prepared",
                             mem[a], [Row(a) EXCEPT !.image = "BUILDING"], phase[a])
        BY <1>2, <1>t, <1>f DEF ResumeCreateImage, Move, Hold, Goto, Store, Row
    <2> QED
        BY <1>f, <2>1
        DEF Move, Updated, Saved, InAws, StoresIn, Rows, RepoStatuses, Statuses,
            Phases, RepoPcs, InstallerPcs, Ends, NoRows, NotLoaded, Alive, Sound,
            Agree, Finished, Finishing, InstallerLast, StoredInAws, Real, PcInv
<1>3. CASE ProcessImage(a)
    <2>1. /\ pc[a] = "prepared"
          /\ Move(a, "queued", mem[a], Row(a), phase[a])
        BY <1>3, <1>t, <1>f DEF ProcessImage, Move, Hold, Goto, Store, Row
    <2> QED
        BY <1>f, <2>1
        DEF Move, Updated, Saved, InAws, StoresIn, Rows, RepoStatuses, Statuses,
            Phases, RepoPcs, InstallerPcs, Ends, NoRows, NotLoaded, Alive, Sound,
            Agree, Finished, Finishing, InstallerLast, StoredInAws, Real, PcInv
<1>4. CASE Begin(a)
    <2>1. /\ pc[a] = "queued"
          /\ Move(a, IF a \in resumes /\ mem[a].commit = "SUCCESS" THEN "commitDone"
                             ELSE "reload",
                             mem[a], Row(a), phase[a])
        BY <1>4, <1>t, <1>f DEF Begin, Move, Hold, Goto, Store, Row
    <2> QED
        BY <1>f, <2>1
        DEF Move, Updated, Saved, InAws, StoresIn, Rows, RepoStatuses, Statuses,
            Phases, RepoPcs, InstallerPcs, Ends, NoRows, NotLoaded, Alive, Sound,
            Agree, Finished, Finishing, InstallerLast, StoredInAws, Real, PcInv
<1>5. CASE Reload(a)
    <2>1. /\ pc[a] = "reload"
          /\ Move(a, "poll",
                             IF phase[a] = "commit" THEN Row(a)
                             ELSE [Row(a) EXCEPT !.aws = mem[a].aws, !.pulp = mem[a].pulp],
                             Row(a), phase[a])
        BY <1>5, <1>t, <1>f DEF Reload, Move, Hold, Goto, Store, Row
    <2> QED
        BY <1>f, <2>1
        DEF Move, Updated, Saved, InAws, StoresIn, Rows, RepoStatuses, Statuses,
            Phases, RepoPcs, InstallerPcs, Ends, NoRows, NotLoaded, Alive, Sound,
            Agree, Finished, Finishing, InstallerLast, StoredInAws, Real, PcInv
<1>6. CASE GetCommitStatus(a)
    <2> DEFINE M1 == /\ pc[a] = "poll"
                     /\ Move(a, "pollInstaller", mem[a], Row(a), phase[a])
               M2 == /\ pc[a] = "poll" /\ mem[a].commit = "BUILDING"
                     /\ Move(a, "saveCommit",
                             [mem[a] EXCEPT !.commit = "SUCCESS"], Row(a), phase[a])
               M3 == /\ pc[a] = "poll" /\ mem[a].commit = "BUILDING"
                     /\ Move(a, "saveCommit",
                             [mem[a] EXCEPT !.commit = "ERROR", !.image = "ERROR"],
                             Row(a), phase[a])
               M4 == /\ pc[a] = "poll" /\ mem[a].commit = "BUILDING"
                     /\ Move(a, "panics", mem[a], Row(a), phase[a])
               M5 == /\ pc[a] = "poll" /\ mem[a].commit = "BUILDING"
                     /\ Move(a, "error", mem[a], Row(a), phase[a])
    <2>0. M1 \/ M2 \/ M3 \/ M4 \/ M5
        BY <1>6, <1>t, <1>f DEF GetCommitStatus, Move, Hold, Goto, Store, Row
    <2> USE <1>f
        DEF Move, Updated, Saved, InAws, StoresIn, Rows, RepoStatuses, Statuses,
            Phases, RepoPcs, InstallerPcs, Ends, NoRows, NotLoaded, Alive, Sound,
            Agree, Finished, Finishing, InstallerLast, StoredInAws, Real, PcInv
    <2>1. CASE M1
        BY <2>1
    <2>2. CASE M2
        BY <2>2
    <2>3. CASE M3
        BY <2>3
    <2>4. CASE M4
        BY <2>4
    <2>5. CASE M5
        BY <2>5
    <2> HIDE DEF M1, M2, M3, M4, M5
    <2> QED
        BY <2>0, <2>1, <2>2, <2>3, <2>4, <2>5
<1>7. CASE SaveCommit(a)
    <2>1. /\ pc[a] = "saveCommit"
          /\ Move(a, "pollInstaller",
                             mem[a], [Row(a) EXCEPT !.commit = mem[a].commit], phase[a])
        BY <1>7, <1>t, <1>f DEF SaveCommit, Move, Hold, Goto, Store, Row
    <2> QED
        BY <1>f, <2>1
        DEF Move, Updated, Saved, InAws, StoresIn, Rows, RepoStatuses, Statuses,
            Phases, RepoPcs, InstallerPcs, Ends, NoRows, NotLoaded, Alive, Sound,
            Agree, Finished, Finishing, InstallerLast, StoredInAws, Real, PcInv
<1>8. CASE GetInstallerStatus(a)
    <2> DEFINE M1 == /\ pc[a] = "pollInstaller"
                     /\ Move(a, "saveImage", mem[a], Row(a), phase[a])
               M2 == /\ pc[a] = "pollInstaller" /\ Installs(a) /\ mem[a].installer = "BUILDING"
                     /\ Move(a, "saveInstaller",
                             [mem[a] EXCEPT !.installer = "SUCCESS"], Row(a), phase[a])
               M3 == /\ pc[a] = "pollInstaller" /\ Installs(a) /\ mem[a].installer = "BUILDING"
                     /\ Move(a, "saveInstaller",
                             [mem[a] EXCEPT !.installer = "ERROR", !.image = "ERROR"],
                             Row(a), phase[a])
               M4 == /\ pc[a] = "pollInstaller" /\ Installs(a) /\ mem[a].installer = "BUILDING"
                     /\ Move(a, "error", mem[a], Row(a), phase[a])
    <2>0. M1 \/ M2 \/ M3 \/ M4
        BY <1>8, <1>t, <1>f DEF GetInstallerStatus, Move, Hold, Goto, Store, Row
    <2> USE <1>f
        DEF Move, Updated, Saved, InAws, StoresIn, Rows, RepoStatuses, Statuses,
            Phases, RepoPcs, InstallerPcs, Ends, NoRows, NotLoaded, Alive, Sound,
            Agree, Finished, Finishing, InstallerLast, StoredInAws, Real, PcInv
    <2>1. CASE M1
        BY <2>1
    <2>2. CASE M2
        BY <2>2
    <2>3. CASE M3
        BY <2>3
    <2>4. CASE M4
        BY <2>4
    <2> HIDE DEF M1, M2, M3, M4
    <2> QED
        BY <2>0, <2>1, <2>2, <2>3, <2>4
<1>9. CASE SaveInstaller(a)
    <2>1. /\ pc[a] = "saveInstaller"
          /\ Move(a, "saveImage",
                             mem[a],
                             [Row(a) EXCEPT !.installer = mem[a].installer], phase[a])
        BY <1>9, <1>t, <1>f DEF SaveInstaller, Move, Hold, Goto, Store, Row
    <2> QED
        BY <1>f, <2>1
        DEF Move, Updated, Saved, InAws, StoresIn, Rows, RepoStatuses, Statuses,
            Phases, RepoPcs, InstallerPcs, Ends, NoRows, NotLoaded, Alive, Sound,
            Agree, Finished, Finishing, InstallerLast, StoredInAws, Real, PcInv
<1>10. CASE UpdateImageStatus(a)
    <2> DEFINE M1 == /\ pc[a] = "saveImage"
                     /\ Move(a, "reload", mem[a], Updated(a), phase[a])
               M2 == /\ pc[a] = "saveImage" /\ phase[a] = "commit" /\ mem[a].commit = "SUCCESS"
                     /\ Move(a, "metadata", mem[a], Updated(a), phase[a])
               M3 == /\ pc[a] = "saveImage" /\ phase[a] # "commit" /\ mem[a].installer = "SUCCESS"
                     /\ Move(a, "userInfo", mem[a], Updated(a), phase[a])
               M4 == /\ pc[a] = "saveImage" /\ phase[a] = "commit"
                     /\ mem[a].commit # "SUCCESS" /\ Installs(a)
                     /\ Move(a, "commitDone", mem[a], Updated(a), phase[a])
               M5 == /\ pc[a] = "saveImage"
                     /\ (phase[a] = "commit" => mem[a].commit # "SUCCESS" /\ ~Installs(a))
                     /\ Move(a, "final", mem[a], Updated(a), phase[a])
    <2>0. M1 \/ M2 \/ M3 \/ M4 \/ M5
        BY <1>10, <1>t, <1>f DEF UpdateImageStatus, Move, Hold, Goto, Store, Row, Updated
    <2> USE <1>f
        DEF Move, Updated, Saved, InAws, StoresIn, Rows, RepoStatuses, Statuses,
            Phases, RepoPcs, InstallerPcs, Ends, NoRows, NotLoaded, Alive, Sound,
            Agree, Finished, Finishing, InstallerLast, StoredInAws, Real, PcInv
    <2>1. CASE M1
        BY <2>1
    <2>2. CASE M2
        BY <2>2
    <2>3. CASE M3
        BY <2>3
    <2>4. CASE M4
        BY <2>4
    <2>5. CASE M5
        BY <2>5
    <2> HIDE DEF M1, M2, M3, M4, M5
    <2> QED
        BY <2>0, <2>1, <2>2, <2>3, <2>4, <2>5
<1>11. CASE GetMetadata(a)
    <2> DEFINE M1 == /\ pc[a] = "metadata"
                     /\ Move(a, "repo", mem[a], Row(a), phase[a])
               M2 == /\ pc[a] = "metadata"
                     /\ Move(a, "panics", mem[a], Row(a), phase[a])
    <2>0. M1 \/ M2
        BY <1>11, <1>t, <1>f DEF GetMetadata, Move, Hold, Goto, Store, Row
    <2> USE <1>f
        DEF Move, Updated, Saved, InAws, StoresIn, Rows, RepoStatuses, Statuses,
            Phases, RepoPcs, InstallerPcs, Ends, NoRows, NotLoaded, Alive, Sound,
            Agree, Finished, Finishing, InstallerLast, StoredInAws, Real, PcInv
    <2>1. CASE M1
        BY <2>1
    <2>2. CASE M2
        BY <2>2
    <2> HIDE DEF M1, M2
    <2> QED
        BY <2>0, <2>1, <2>2
<1>12. CASE CreateRepoForImage(a)
    <2> DEFINE M1 == /\ pc[a] = "repo" /\ StoresIn(a, "pulp")
                     /\ Move(a, "pulp",
                             [mem[a] EXCEPT !.aws = "PENDING", !.pulp = "PENDING"],
                             [Row(a) EXCEPT !.commit = mem[a].commit], phase[a])
               M2 == /\ pc[a] = "repo" /\ ~StoresIn(a, "pulp")
                     /\ Move(a, "aws",
                             [mem[a] EXCEPT !.aws = "PENDING", !.pulp = "SKIPPED"],
                             [Row(a) EXCEPT !.commit = mem[a].commit], phase[a])
    <2>0. M1 \/ M2
        BY <1>12, <1>t, <1>f DEF CreateRepoForImage, Move, Hold, Goto, Store, Row, Rows
    <2> USE <1>f
        DEF Move, Updated, Saved, InAws, StoresIn, Rows, RepoStatuses, Statuses,
            Phases, RepoPcs, InstallerPcs, Ends, NoRows, NotLoaded, Alive, Sound,
            Agree, Finished, Finishing, InstallerLast, StoredInAws, Real, PcInv
    <2>1. CASE M1
        BY <2>1
    <2>2. CASE M2
        BY <2>2
    <2> HIDE DEF M1, M2
    <2> QED
        BY <2>0, <2>1, <2>2
<1>13. CASE StoreRepo(a)
    <2> DEFINE M1 == /\ pc[a] = "pulp"
                     /\ Move(a, "pulpStore",
                             [mem[a] EXCEPT !.pulp = "BUILDING"],
                             Saved(a, [mem[a] EXCEPT !.pulp = "BUILDING"]), phase[a])
               M2 == /\ pc[a] = "pulpStore"
                     /\ Move(a, IF StoresIn(a, "aws") THEN "aws" ELSE "skipAws",
                             [mem[a] EXCEPT !.pulp = "SUCCESS"],
                             Saved(a, [mem[a] EXCEPT !.pulp = "SUCCESS"]), phase[a])
               M3 == /\ pc[a] = "pulpStore"
                     /\ Move(a, IF StoresIn(a, "aws") THEN "aws" ELSE "skipAws",
                             [mem[a] EXCEPT !.pulp = "ERROR"],
                             Saved(a, [mem[a] EXCEPT !.pulp = "ERROR"]), phase[a])
    <2>0. M1 \/ M2 \/ M3
        BY <1>13, <1>t, <1>f DEF StoreRepo, Move, Hold, Goto, Store, Row, SaveRepo, Saved, Rows
    <2> USE <1>f
        DEF Move, Updated, Saved, InAws, StoresIn, Rows, RepoStatuses, Statuses,
            Phases, RepoPcs, InstallerPcs, Ends, NoRows, NotLoaded, Alive, Sound,
            Agree, Finished, Finishing, InstallerLast, StoredInAws, Real, PcInv
    <2>1. CASE M1
        BY <2>1
    <2>2. CASE M2
        BY <2>2
    <2>3. CASE M3
        BY <2>3
    <2> HIDE DEF M1, M2, M3
    <2> QED
        BY <2>0, <2>1, <2>2, <2>3
<1>14. CASE SkipAWS(a)
    <2>1. /\ pc[a] = "skipAws"
          /\ Move(a, "repoDone",
                             [mem[a] EXCEPT !.aws = "SKIPPED"],
                             Saved(a, [mem[a] EXCEPT !.aws = "SKIPPED"]), phase[a])
        BY <1>14, <1>t, <1>f DEF SkipAWS, Move, Hold, Goto, Store, Row, SaveRepo, Saved, Rows
    <2> QED
        BY <1>f, <2>1
        DEF Move, Updated, Saved, InAws, StoresIn, Rows, RepoStatuses, Statuses,
            Phases, RepoPcs, InstallerPcs, Ends, NoRows, NotLoaded, Alive, Sound,
            Agree, Finished, Finishing, InstallerLast, StoredInAws, Real, PcInv
<1>15. CASE ImportRepo(a)
    <2> DEFINE M1 == /\ pc[a] = "aws"
                     /\ Move(a, "awsStore",
                             [mem[a] EXCEPT !.aws = "BUILDING"],
                             Saved(a, [mem[a] EXCEPT !.aws = "BUILDING"]), phase[a])
               M2 == /\ pc[a] = "awsStore"
                     /\ Move(a, "repoDone",
                             [mem[a] EXCEPT !.aws = "SUCCESS"],
                             Saved(a, [mem[a] EXCEPT !.aws = "SUCCESS"]), phase[a])
               M3 == /\ pc[a] = "awsStore"
                     /\ Move(a, "panics",
                             [mem[a] EXCEPT !.aws = "BUILDING"],
                             Saved(a, [mem[a] EXCEPT !.aws = "BUILDING"]), phase[a])
               M4 == /\ pc[a] = "awsStore"
                     /\ Move(a, "panics",
                             [mem[a] EXCEPT !.aws = "ERROR"],
                             Saved(a, [mem[a] EXCEPT !.aws = "ERROR"]), phase[a])
    <2>0. M1 \/ M2 \/ M3 \/ M4
        <3>1. Row(a)' = Saved(a, mem'[a]) /\ phase'[a] = phase[a]
            BY <1>15, <1>t, <1>f DEF ImportRepo, SaveRepo, Saved, Store, Row
        <3>2. \/ /\ pc[a] = "aws" /\ pc'[a] = "awsStore"
                 /\ mem'[a] = [mem[a] EXCEPT !.aws = "BUILDING"]
              \/ /\ pc[a] = "awsStore" /\ pc'[a] = "repoDone"
                 /\ mem'[a] = [mem[a] EXCEPT !.aws = "SUCCESS"]
              \/ /\ pc[a] = "awsStore" /\ pc'[a] = "panics"
                 /\ mem'[a] = [mem[a] EXCEPT !.aws = "BUILDING"]
              \/ /\ pc[a] = "awsStore" /\ pc'[a] = "panics"
                 /\ mem'[a] = [mem[a] EXCEPT !.aws = "ERROR"]
            BY <1>15, <1>t, <1>f DEF ImportRepo, Hold, Goto
        <3>3. QED
            BY <3>1, <3>2 DEF Move, Row
    <2> USE <1>f
        DEF Move, Updated, Saved, InAws, StoresIn, Rows, RepoStatuses, Statuses,
            Phases, RepoPcs, InstallerPcs, Ends, NoRows, NotLoaded, Alive, Sound,
            Agree, Finished, Finishing, InstallerLast, StoredInAws, Real, PcInv
    <2>1. CASE M1
        BY <2>1
    <2>2. CASE M2
        BY <2>2
    <2>3. CASE M3
        BY <2>3
    <2>4. CASE M4
        BY <2>4
    <2> HIDE DEF M1, M2, M3, M4
    <2> QED
        BY <2>0, <2>1, <2>2, <2>3, <2>4
<1>16. CASE RepoDone(a)
    <2> DEFINE M1 == /\ pc[a] = "repoDone"
                     /\ Move(a, IF phase[a] = "commit" THEN "error" ELSE "return",
                             mem[a], Row(a), phase[a])
               M2 == /\ pc[a] = "repoDone" /\ ~Installs(a)
                     /\ Move(a, "final", mem[a], Row(a), phase[a])
               M3 == /\ pc[a] = "repoDone" /\ Installs(a)
                     /\ Move(a, IF phase[a] = "commit" THEN "commitDone" ELSE "resumed",
                             mem[a], Row(a), phase[a])
    <2>0. M1 \/ M2 \/ M3
        BY <1>16, <1>t, <1>f DEF RepoDone, Move, Hold, Goto, Store, Row
    <2> USE <1>f
        DEF Move, Updated, Saved, InAws, StoresIn, Rows, RepoStatuses, Statuses,
            Phases, RepoPcs, InstallerPcs, Ends, NoRows, NotLoaded, Alive, Sound,
            Agree, Finished, Finishing, InstallerLast, StoredInAws, Real, PcInv
    <2>1. CASE M1
        BY <2>1
    <2>2. CASE M2
        BY <2>2
    <2>3. CASE M3
        BY <2>3
    <2> HIDE DEF M1, M2, M3
    <2> QED
        BY <2>0, <2>1, <2>2, <2>3
<1>17. CASE FailUnfinished(a)
    <2> DEFINE M1 == /\ pc[a] = "final" /\ mem[a].commit = "BUILDING"
                     /\ Move(a, "saveFinal",
                             [mem[a] EXCEPT !.commit = "ERROR"],
                             [Row(a) EXCEPT !.commit = "ERROR"], phase[a])
               M2 == /\ pc[a] = "final"
                     /\ Move(a, "saveFinal", mem[a], Row(a), phase[a])
    <2>0. M1 \/ M2
        BY <1>17, <1>t, <1>f DEF FailUnfinished, Move, Hold, Goto, Store, Row
    <2> USE <1>f
        DEF Move, Updated, Saved, InAws, StoresIn, Rows, RepoStatuses, Statuses,
            Phases, RepoPcs, InstallerPcs, Ends, NoRows, NotLoaded, Alive, Sound,
            Agree, Finished, Finishing, InstallerLast, StoredInAws, Real, PcInv
    <2>1. CASE M1
        BY <2>1
    <2>2. CASE M2
        BY <2>2
    <2> HIDE DEF M1, M2
    <2> QED
        BY <2>0, <2>1, <2>2
<1>18. CASE SetFinalImageStatus(a)
    <2> DEFINE M1 == /\ pc[a] = "saveFinal" /\ mem[a].commit = "SUCCESS"
                     /\ (Installs(a) => mem[a].installer = "SUCCESS")
                     /\ Move(a, IF phase[a] = "commit" THEN "commitDone" ELSE "return",
                             [mem[a] EXCEPT !.image = "SUCCESS"],
                             [Row(a) EXCEPT !.image = "SUCCESS"], phase[a])
               M2 == /\ pc[a] = "saveFinal" /\ (mem[a].commit = "SUCCESS" => Installs(a))
                     /\ Move(a, IF phase[a] = "commit" THEN "commitDone" ELSE "return",
                             [mem[a] EXCEPT !.image = "ERROR"],
                             [Row(a) EXCEPT !.image = "ERROR"], phase[a])
    <2>0. M1 \/ M2
        BY <1>18, <1>t, <1>f DEF SetFinalImageStatus, Move, Hold, Goto, Store, Row
    <2> USE <1>f
        DEF Move, Updated, Saved, InAws, StoresIn, Rows, RepoStatuses, Statuses,
            Phases, RepoPcs, InstallerPcs, Ends, NoRows, NotLoaded, Alive, Sound,
            Agree, Finished, Finishing, InstallerLast, StoredInAws, Real, PcInv
    <2>1. CASE M1
        BY <2>1
    <2>2. CASE M2
        BY <2>2
    <2> HIDE DEF M1, M2
    <2> QED
        BY <2>0, <2>1, <2>2
<1>19. CASE SetErrorStatusOnImage(a)
    <2> DEFINE M1 == /\ pc[a] = "error"
                     /\ Move(a, "return", mem[a], Row(a), phase[a])
               M2 == /\ pc[a] = "error"
                     /\ Move(a, IF phase[a] = "commit" THEN "commitDone" ELSE "return",
                             mem[a], Row(a), phase[a])
               M3 == /\ pc[a] = "error"
                     /\ Move(a, "errorCommit",
                             [mem[a] EXCEPT !.image = "ERROR"],
                             [Row(a) EXCEPT !.image = "ERROR"], phase[a])
               M4 == /\ pc[a] = "errorCommit"
                     /\ Move(a, IF Installs(a) THEN "errorInstaller"
                             ELSE IF phase[a] = "commit" THEN "commitDone" ELSE "return",
                             [mem[a] EXCEPT !.commit = "ERROR"],
                             [Row(a) EXCEPT !.commit = "ERROR"], phase[a])
               M5 == /\ pc[a] = "errorInstaller"
                     /\ Move(a, IF phase[a] = "commit" THEN "commitDone" ELSE "return",
                             [mem[a] EXCEPT !.installer = "ERROR"],
                             [Row(a) EXCEPT !.installer = "ERROR"], phase[a])
    <2>0. M1 \/ M2 \/ M3 \/ M4 \/ M5
        BY <1>19, <1>t, <1>f DEF SetErrorStatusOnImage, Move, Hold, Goto, Store, Row
    <2> USE <1>f
        DEF Move, Updated, Saved, InAws, StoresIn, Rows, RepoStatuses, Statuses,
            Phases, RepoPcs, InstallerPcs, Ends, NoRows, NotLoaded, Alive, Sound,
            Agree, Finished, Finishing, InstallerLast, StoredInAws, Real, PcInv
    <2>1. CASE M1
        BY <2>1
    <2>2. CASE M2
        BY <2>2
    <2>3. CASE M3
        BY <2>3
    <2>4. CASE M4
        BY <2>4
    <2>5. CASE M5
        BY <2>5
    <2> HIDE DEF M1, M2, M3, M4, M5
    <2> QED
        BY <2>0, <2>1, <2>2, <2>3, <2>4, <2>5
<1>20. CASE CommitDone(a)
    <2> DEFINE M1 == /\ pc[a] = "commitDone"
                     /\ Move(a, "return", mem[a], Row(a), phase[a])
               M2 == /\ pc[a] = "commitDone" /\ mem[a].commit = "SUCCESS" /\ a \notin resumes
                     /\ Installs(a)
                     /\ Move(a, "installer", mem[a], Row(a), phase[a])
               M3 == /\ pc[a] = "commitDone" /\ mem[a].commit = "SUCCESS" /\ a \in resumes
                     /\ Move(a, IF mem[a].aws # "SUCCESS" THEN "repo"
                             ELSE IF Installs(a) THEN "resumed" ELSE "final",
                             mem[a], Row(a), "resume")
    <2>0. M1 \/ M2 \/ M3
        BY <1>20, <1>t, <1>f DEF CommitDone, Move, Hold, Goto, Store, Row
    <2> USE <1>f
        DEF Move, Updated, Saved, InAws, StoresIn, Rows, RepoStatuses, Statuses,
            Phases, RepoPcs, InstallerPcs, Ends, NoRows, NotLoaded, Alive, Sound,
            Agree, Finished, Finishing, InstallerLast, StoredInAws, Real, PcInv
    <2>1. CASE M1
        BY <2>1
    <2>2. CASE M2
        BY <2>2
    <2>3. CASE M3
        BY <2>3
    <2> HIDE DEF M1, M2, M3
    <2> QED
        BY <2>0, <2>1, <2>2, <2>3
<1>21. CASE Resumed(a)
    <2>1. /\ pc[a] = "resumed"
          /\ Move(a, IF mem[a].installer = "SUCCESS" THEN "return" ELSE "installer",
                             mem[a], Row(a), phase[a])
        BY <1>21, <1>t, <1>f DEF Resumed, Move, Hold, Goto, Store, Row
    <2> QED
        BY <1>f, <2>1
        DEF Move, Updated, Saved, InAws, StoresIn, Rows, RepoStatuses, Statuses,
            Phases, RepoPcs, InstallerPcs, Ends, NoRows, NotLoaded, Alive, Sound,
            Agree, Finished, Finishing, InstallerLast, StoredInAws, Real, PcInv
<1>22. CASE Return(a)
    <2>1. /\ pc[a] = "return"
          /\ Move(a, IF a \in resumes /\ mem[a].image = "BUILDING" THEN "left" ELSE "done",
                             NoRows, Row(a), "commit")
        BY <1>22, <1>t, <1>f DEF Return, Move, Hold, Goto, Store, Row, Forget
    <2> QED
        BY <1>f, <2>1
        DEF Move, Updated, Saved, InAws, StoresIn, Rows, RepoStatuses, Statuses,
            Phases, RepoPcs, InstallerPcs, Ends, NoRows, NotLoaded, Alive, Sound,
            Agree, Finished, Finishing, InstallerLast, StoredInAws, Real, PcInv
<1>23. CASE CreateInstallerForImage(a)
    <2> DEFINE M1 == /\ pc[a] = "installer"
                     /\ Move(a, "installerRow",
                             [mem[a] EXCEPT !.installer = "BUILDING"],
                             [Row(a) EXCEPT !.image = mem[a].image], phase[a])
               M2 == /\ pc[a] = "installerRow"
                     /\ Move(a, "compose",
                             mem[a],
                             [Row(a) EXCEPT !.installer = mem[a].installer], phase[a])
    <2>0. M1 \/ M2
        BY <1>23, <1>t, <1>f DEF CreateInstallerForImage, Move, Hold, Goto, Store, Row
    <2> USE <1>f
        DEF Move, Updated, Saved, InAws, StoresIn, Rows, RepoStatuses, Statuses,
            Phases, RepoPcs, InstallerPcs, Ends, NoRows, NotLoaded, Alive, Sound,
            Agree, Finished, Finishing, InstallerLast, StoredInAws, Real, PcInv
    <2>1. CASE M1
        BY <2>1
    <2>2. CASE M2
        BY <2>2
    <2> HIDE DEF M1, M2
    <2> QED
        BY <2>0, <2>1, <2>2
<1>24. CASE ComposeInstaller(a)
    <2> DEFINE M1 == /\ pc[a] = "compose"
                     /\ Move(a, "composeImage",
                             [mem[a] EXCEPT !.image = "BUILDING"], Row(a), phase[a])
               M2 == /\ pc[a] = "compose"
                     /\ Move(a, "composeImage",
                             [mem[a] EXCEPT !.image = "ERROR", !.installer = "ERROR"],
                             Row(a), phase[a])
    <2>0. M1 \/ M2
        BY <1>24, <1>t, <1>f DEF ComposeInstaller, Move, Hold, Goto, Store, Row
    <2> USE <1>f
        DEF Move, Updated, Saved, InAws, StoresIn, Rows, RepoStatuses, Statuses,
            Phases, RepoPcs, InstallerPcs, Ends, NoRows, NotLoaded, Alive, Sound,
            Agree, Finished, Finishing, InstallerLast, StoredInAws, Real, PcInv
    <2>1. CASE M1
        BY <2>1
    <2>2. CASE M2
        BY <2>2
    <2> HIDE DEF M1, M2
    <2> QED
        BY <2>0, <2>1, <2>2
<1>25. CASE SaveComposed(a)
    <2> DEFINE M1 == /\ pc[a] = "composeImage"
                     /\ Move(a, "composeInstaller",
                             mem[a], [Row(a) EXCEPT !.image = mem[a].image], phase[a])
               M2 == /\ pc[a] = "composeInstaller" /\ mem[a].installer = "ERROR"
                     /\ Move(a, "panics",
                             mem[a],
                             [Row(a) EXCEPT !.installer = mem[a].installer], phase[a])
               M3 == /\ pc[a] = "composeInstaller"
                     /\ Move(a, "reload",
                             mem[a],
                             [Row(a) EXCEPT !.installer = mem[a].installer], "installer")
    <2>0. M1 \/ M2 \/ M3
        BY <1>25, <1>t, <1>f DEF SaveComposed, Move, Hold, Goto, Store, Row
    <2> USE <1>f
        DEF Move, Updated, Saved, InAws, StoresIn, Rows, RepoStatuses, Statuses,
            Phases, RepoPcs, InstallerPcs, Ends, NoRows, NotLoaded, Alive, Sound,
            Agree, Finished, Finishing, InstallerLast, StoredInAws, Real, PcInv
    <2>1. CASE M1
        BY <2>1
    <2>2. CASE M2
        BY <2>2
    <2>3. CASE M3
        BY <2>3
    <2> HIDE DEF M1, M2, M3
    <2> QED
        BY <2>0, <2>1, <2>2, <2>3
<1>26. CASE AddUserInfo(a)
    <2> DEFINE M1 == /\ pc[a] = "userInfo"
                     /\ Move(a, "final",
                             mem[a],
                             [Row(a) EXCEPT !.installer = mem[a].installer], phase[a])
               M2 == /\ pc[a] = "userInfo"
                     /\ Move(a, "error", mem[a], Row(a), phase[a])
    <2>0. M1 \/ M2
        BY <1>26, <1>t, <1>f DEF AddUserInfo, Move, Hold, Goto, Store, Row
    <2> USE <1>f
        DEF Move, Updated, Saved, InAws, StoresIn, Rows, RepoStatuses, Statuses,
            Phases, RepoPcs, InstallerPcs, Ends, NoRows, NotLoaded, Alive, Sound,
            Agree, Finished, Finishing, InstallerLast, StoredInAws, Real, PcInv
    <2>1. CASE M1
        BY <2>1
    <2>2. CASE M2
        BY <2>2
    <2> HIDE DEF M1, M2
    <2> QED
        BY <2>0, <2>1, <2>2
<1>27. CASE FailHandler(a)
    <2> DEFINE M1 == /\ pc[a] = "panics"
                     /\ Move(a, "failed",
                             NoRows,
                             [Row(a) EXCEPT !.image =
                                  IF a \in resumes THEN "ERROR" ELSE "INTERRUPTED"], "commit")
               M2 == /\ pc[a] = "panics"
                     /\ Move(a, "unreported", NoRows, Row(a), "commit")
    <2>0. M1 \/ M2
        BY <1>27, <1>t, <1>f DEF FailHandler, Move, Hold, Goto, Store, Row, Forget
    <2> USE <1>f
        DEF Move, Updated, Saved, InAws, StoresIn, Rows, RepoStatuses, Statuses,
            Phases, RepoPcs, InstallerPcs, Ends, NoRows, NotLoaded, Alive, Sound,
            Agree, Finished, Finishing, InstallerLast, StoredInAws, Real, PcInv
    <2>1. CASE M1
        BY <2>1
    <2>2. CASE M2
        BY <2>2
    <2> HIDE DEF M1, M2
    <2> QED
        BY <2>0, <2>1, <2>2
<1> QED
    BY <1>1, <1>2, <1>3, <1>4, <1>5, <1>6, <1>7, <1>8, <1>9, <1>10, <1>11, <1>12,
       <1>13, <1>14, <1>15, <1>16, <1>17, <1>18, <1>19, <1>20, <1>21, <1>22, <1>23,
       <1>24, <1>25, <1>26, <1>27
    DEF Step

\* The steps of others, of the watch and of cmd/kafka leave what is known of an attempt.
LEMMA SameSound ==
    ASSUME NEW a \in Attempts,
           pc'[a] = pc[a], mem'[a] = mem[a], phase'[a] = phase[a],
           a \in resumes' <=> a \in resumes,
           Installs(a)' = Installs(a), stores[ImageOf[a]]' = stores[ImageOf[a]],
           Row(a)'.commit = Row(a).commit, Row(a)'.installer = Row(a).installer,
           Row(a)'.aws = Row(a).aws,
           Row(a)'.image = Row(a).image \/ Row(a)'.image # "SUCCESS"
    PROVE  /\ (Alive(a) => Sound(a)) => (Alive(a)' => Sound(a)')
           /\ Real(a) => Real(a)'
<1>1. /\ Alive(a)' <=> Alive(a)
      /\ InAws(a)' <=> InAws(a)
    BY DEF Alive, Ends, InAws, StoresIn
<1>2. Agree(a) => Agree(a)'
    BY DEF Agree, NotLoaded
<1>3. Finished(a) => Finished(a)'
    BY <1>1 DEF Finished, Finishing, RepoPcs
<1>4. InstallerLast(a) => InstallerLast(a)'
    BY DEF InstallerLast, InstallerPcs
<1>5. StoredInAws(a) => StoredInAws(a)'
    BY <1>1 DEF StoredInAws, InstallerPcs
<1>6. Real(a) => Real(a)'
    BY <1>1 DEF Real
<1>7. QED
    BY <1>1, <1>2, <1>3, <1>4, <1>5, <1>6 DEF Sound

\* Nothing comes before the request that creates an image.
Created(i) ==
    /\ pc[FirstAttempt[i]] = "none" => stores[i] = {}
    /\ stores[i] = {} =>
           /\ row[i].image = "none" /\ found[i] = "no"
           /\ \A a \in Attempts : ImageOf[a] = i => pc[a] = "none"

LEMMA InitCreated == Init => \A i \in Images : Created(i)
<1> SUFFICES ASSUME Init, NEW i \in Images
             PROVE  Created(i)
    OBVIOUS
<1>1. /\ stores[i] = {} /\ row[i].image = "none" /\ found[i] = "no"
      /\ \A a \in Attempts : pc[a] = "none"
    BY DEF Init, NoRows
<1>2. QED
    BY <1>1 DEF Created

LEMMA NextCreated ==
    ASSUME Types, AtomicStep, NEW i \in Images, Created(i), \A a \in Attempts : PcInv(a)
    PROVE  Created(i)'
<1> DEFINE f == FirstAttempt[i]
<1>t. /\ ImageOf \in [Attempts -> Images] /\ f \in Attempts /\ ImageOf[f] = i
      /\ row \in [Images -> Rows] /\ pc \in [Attempts -> Pcs]
      /\ found \in [Images -> {"no", "stale", "interrupted"}]
      /\ stores \in [Images -> SUBSET {"aws", "pulp"}]
      /\ "none" \notin Retryable
    BY ImageAssumption DEF Types, Statuses
<1>1. ASSUME NEW b \in Attempts, Request(b) \/ Step(b), ~PanicEndsProcess(b), ImageOf[b] # i
      PROVE  Created(i)'
    <2>1. row'[i] = row[i] /\ found'[i] = found[i] /\ stores'[i] = stores[i]
        BY <1>1, Others
    <2>2. \A a \in Attempts : ImageOf[a] = i => pc'[a] = pc[a]
        BY <1>1, Others
    <2>3. QED
        BY <2>1, <2>2, <1>t DEF Created
<1>2. ASSUME NEW b \in Attempts, Step(b), ~PanicEndsProcess(b), ImageOf[b] = i
      PROVE  Created(i)'
    <2>1. pc[b] # "none" /\ stores' = stores
        BY <1>2, StepOfAlive DEF Alive
    <2>2. stores'[i] # {} /\ pc[f] # "none"
        <3>1. stores[i] # {}
            BY <1>2, <2>1 DEF Created
        <3>2. QED
            BY <2>1, <3>1 DEF Created
    <2>3. pc'[f] # "none"
        <3>1. CASE f = b
            BY <1>2, <3>1, StepPc
        <3>2. CASE f # b
            <4>1. pc'[f] = pc[f]
                BY <1>2, <3>2, <1>t, Others
            <4>2. QED
                BY <2>2, <4>1
        <3>3. QED
            BY <3>1, <3>2
    <2>4. QED
        BY <2>2, <2>3 DEF Created
<1>3. ASSUME NEW b \in Attempts, Request(b), ImageOf[b] = i
      PROVE  Created(i)'
    <2>1. CASE CreateImage(b)
        <3>1. f = b /\ pc'[b] # "none"
            <4>1. b = FirstAttempt[ImageOf[b]] /\ Goto(b, "prepared")
                BY <2>1 DEF CreateImage
            <4>2. QED
                BY <1>3, <4>1, <1>t DEF Goto
        <3>2. stores'[i] # {}
            <4>1. PICK s \in (SUBSET {"aws", "pulp"}) \ {{}} :
                      stores' = [stores EXCEPT ![ImageOf[b]] = s]
                BY <2>1 DEF CreateImage
            <4>2. s # {}
                OBVIOUS
            <4>3. stores'[i] = s
                BY <1>3, <4>1, <1>t
            <4>4. QED
                BY <4>2, <4>3
        <3>3. QED
            BY <3>1, <3>2 DEF Created
    <2>2. CASE RetryCreateImage(b) \/ ResumeInterrupted(b)
        <3>1. row[i].image # "none" \/ found[i] # "no"
            BY <1>3, <2>2, <1>t DEF RetryCreateImage, ResumeInterrupted
        <3>2. stores[i] # {} /\ pc[f] # "none" /\ stores' = stores
            BY <2>2, <3>1 DEF Created, RetryCreateImage, ResumeInterrupted
        <3>3. f # b /\ pc'[f] = pc[f]
            BY <2>2, <3>2, <1>t
            DEF RetryCreateImage, ResumeInterrupted, Starts, Goto
        <3>4. QED
            BY <3>2, <3>3 DEF Created
    <2>3. QED
        BY <1>3, <2>1, <2>2 DEF Request
<1>4. ASSUME Die, row' = row, found' = found, stores' = stores
      PROVE  Created(i)'
    <2>1. \A a \in Attempts : pc'[a] = "none" <=> pc[a] = "none"
        BY <1>4, <1>t DEF Die, Alive, Ends
    <2>2. QED
        BY <1>4, <2>1, <1>t DEF Created
<1>5. ASSUME pc' = pc, stores' = stores,
             stores[i] = {} => row'[i].image = "none" /\ found'[i] = "no"
      PROVE  Created(i)'
    BY <1>5 DEF Created
<1>6. ASSUME NEW b \in Attempts, PanicEndsProcess(b)
      PROVE  Created(i)'
    BY <1>4, <1>6 DEF PanicEndsProcess
<1>7. CASE Exit
    BY <1>4, <1>7 DEF Exit
<1>8. ASSUME NEW b \in Attempts, Watch(b)
      PROVE  Created(i)'
    <2>1. pc' = pc /\ stores' = stores /\ found' = found
        BY <1>8 DEF Watch, requestVars
    <2>5. watch[b] = "signalled"
        BY <1>8 DEF Watch
    <2>2. pc[b] # "none"
        BY <2>5 DEF PcInv
    <2>3. row'[i] = row[i] \/ ImageOf[b] = i
        BY <1>8, <1>t DEF Watch, Store
    <2>4. QED
        BY <1>5, <2>1, <2>2, <2>3 DEF Created
<1>9. ASSUME NEW j \in Images, ComposeEnds(j) \/ FindImage(j) \/ HandleFound(j)
      PROVE  Created(i)'
    <2>1. pc' = pc /\ stores' = stores
        BY <1>9 DEF ComposeEnds, FindImage, HandleFound, requestVars
    <2>2. \/ row'[i] = row[i] /\ found'[i] = found[i]
          \/ row[i].image # "none" \/ found[i] # "no"
        BY <1>9, <1>t DEF ComposeEnds, FindImage, HandleFound
    <2>3. QED
        BY <1>5, <2>1, <2>2 DEF Created
<1>10. CASE Interrupt \/ UNCHANGED vars
    BY <1>5, <1>10 DEF Interrupt, vars, requestVars, Created
<1>11. QED
    <2>1. ASSUME NEW b \in Attempts, Request(b)
          PROVE  Created(i)'
        <3>1. ~PanicEndsProcess(b)
            BY <2>1 DEF Request, CreateImage, RetryCreateImage, ResumeInterrupted, Starts,
                        PanicEndsProcess
        <3>2. QED
            BY <1>1, <1>3, <2>1, <3>1
    <2>2. ASSUME NEW b \in Attempts, Step(b)
          PROVE  Created(i)'
        BY <1>1, <1>2, <1>6, <2>2
    <2>3. QED
        BY <1>7, <1>8, <1>9, <1>10, <2>1, <2>2 DEF AtomicStep, Request, Step

\* What is known of the last attempt of an image, and of its row.
LastSound(i) ==
    i \notin disturbed => (Alive(current[i]) => Sound(current[i])) /\ Real(current[i])

LEMMA InitSound == Init => \A i \in Images : LastSound(i)
<1> SUFFICES ASSUME Init, NEW i \in Images
             PROVE  LastSound(i)
    OBVIOUS
<1>1. /\ ImageOf[current[i]] = i /\ current[i] \in Attempts
      /\ row[i].image = "none" /\ pc[current[i]] = "none"
    BY ImageAssumption DEF Init, NoRows
<1>2. QED
    BY <1>1 DEF LastSound, Real, Row, Alive

\* Clients do not retry what is built: a retry that fails to compose would leave it so, but
\* one that composes runs beside a SUCCESS that is no longer real.
LEMMA RequestSound ==
    ASSUME Types, "SUCCESS" \notin Retryable, NEW a \in Attempts, Request(a),
           One(ImageOf[a]), PcInv(a), Created(ImageOf[a]), LastSound(ImageOf[a])
    PROVE  LastSound(ImageOf[a])'
<1> DEFINE i == ImageOf[a]
           c == current[i]
<1>t. /\ ImageOf \in [Attempts -> Images] /\ i \in Images /\ c \in Attempts
      /\ row \in [Images -> Rows] /\ mem \in [Attempts -> Rows]
      /\ pc \in [Attempts -> Pcs] /\ phase \in [Attempts -> Phases]
      /\ wants \in [Images -> BOOLEAN] /\ current \in [Images -> Attempts]
      /\ stores \in [Images -> SUBSET {"aws", "pulp"}]
      /\ ImageOf[c] = i /\ "none" \notin Retryable
    BY ImageAssumption DEF Types, One, Statuses
<1> SUFFICES ASSUME i \notin disturbed'
             PROVE  (Alive(a)' => Sound(a)') /\ Real(a)'
    <2>1. current'[i] = a
        BY <1>t DEF Request, CreateImage, RetryCreateImage, ResumeInterrupted, Starts
    <2>2. QED
        BY <2>1 DEF LastSound, Sound, Agree, Finished, Finishing, InstallerLast,
                    StoredInAws, Real, Alive, Row, Installs, InAws, StoresIn
<1>s. Starts(a) /\ pc[a] = "none" /\ phase' = phase
    BY DEF Request, CreateImage, RetryCreateImage, ResumeInterrupted, Starts
<1>1. /\ Starts(a) /\ pc[a] = "none" /\ a \notin resumes /\ phase[a] = "commit"
      /\ phase' = phase /\ mem[a] = NoRows
    BY <1>s DEF PcInv
<1>2. i \notin disturbed
    BY <1>1, <1>t DEF Starts
<1>3. Real(a)
    BY <1>2, <1>t DEF LastSound, Real, Row, Installs, InAws, StoresIn
<1>4. CASE CreateImage(a)
    <2>1. /\ pc'[a] = "prepared" /\ row'[i].image = "BUILDING" /\ row'[i].installer # "BUILDING"
          /\ mem'[a] = NoRows /\ a \notin resumes'
        <3>1. /\ pc' = [pc EXCEPT ![a] = "prepared"] /\ mem' = mem /\ resumes' = resumes
            BY <1>4 DEF CreateImage, Goto
        <3>2. PICK installs \in BOOLEAN :
                  row' = [row EXCEPT ![i] =
                             [image |-> "BUILDING", commit |-> "BUILDING",
                              installer |-> IF installs THEN "PENDING" ELSE "none",
                              aws |-> "none", pulp |-> "none"]]
            BY <1>4 DEF CreateImage, Store
        <3>3. QED
            BY <1>1, <3>1, <3>2, <1>t
    <2>2. stores'[i] # {}
        <3>1. PICK s \in (SUBSET {"aws", "pulp"}) \ {{}} : stores' = [stores EXCEPT ![i] = s]
            BY <1>4 DEF CreateImage
        <3>2. s # {}
            OBVIOUS
        <3>3. stores'[i] = s
            BY <3>1, <1>t
        <3>4. QED
            BY <3>2, <3>3
    <2>3. QED
        BY <1>1, <2>1, <2>2 DEF Sound, Agree, NotLoaded, Finished, InstallerLast, InstallerPcs,
                                StoredInAws, Real, Row, NoRows
<1>5. CASE RetryCreateImage(a)
    <2>1. /\ pc'[a] \in {"retryCommit", "done"} /\ row[i].image \in Retryable
          /\ row' = row /\ wants' = wants /\ stores' = stores /\ mem'[a] = NoRows
          /\ a \notin resumes'
        BY <1>1, <1>5, <1>t DEF RetryCreateImage, Goto
    <2>2. row[i].image # "SUCCESS" /\ stores[i] # {}
        BY <2>1, <1>t DEF Created
    <2>3. QED
        BY <1>1, <2>1, <2>2 DEF Sound, Agree, NotLoaded, Finished, InstallerLast, InstallerPcs,
                                StoredInAws, Real, Row, NoRows, Alive, Ends
<1>6. CASE ResumeInterrupted(a)
    <2>1. /\ pc'[a] = "resume" /\ a \in resumes' /\ row' = row /\ wants' = wants
          /\ stores' = stores /\ found[i] # "no"
          /\ mem'[a] = [row[i] EXCEPT !.image = "BUILDING"]
        BY <1>6, <1>t DEF ResumeInterrupted, Goto, Hold, Row
    <2>2. /\ mem'[a].image = "BUILDING" /\ mem'[a].commit = row'[i].commit
          /\ mem'[a].installer = row'[i].installer /\ mem'[a].aws = row'[i].aws
        BY <2>1, <1>t DEF Rows
    <2>3. stores[i] # {}
        BY <2>1 DEF Created
    <2>4. Sound(a)'
        BY <1>1, <2>1, <2>2, <2>3 DEF Sound, Agree, NotLoaded, Finished, InstallerLast,
                                      InstallerPcs, StoredInAws, Row
    <2>5. Real(a)'
        BY <1>3, <2>1 DEF Real, Row, Installs, InAws, StoresIn
    <2>6. QED
        BY <2>4, <2>5
<1>7. QED
    BY <1>4, <1>5, <1>6 DEF Request

LEMMA LastOf ==
    ASSUME NEW i \in Images, NEW k, current'[i] = k,
           i \notin disturbed' => (Alive(k)' => Sound(k)') /\ Real(k)'
    PROVE  LastSound(i)'
BY DEF LastSound, Sound, Agree, Finished, Finishing, InstallerLast, StoredInAws, Real, Alive,
       Row, Installs, InAws, StoresIn

LEMMA NextSound ==
    ASSUME Types, "SUCCESS" \notin Retryable, AtomicStep, NEW i \in Images,
           One(i), Created(i), \A a \in Attempts : PcInv(a), LastSound(i)
    PROVE  LastSound(i)'
<1>k. PICK k : k = current[i]
    OBVIOUS
<1>t. /\ ImageOf \in [Attempts -> Images] /\ k \in Attempts /\ ImageOf[k] = i
      /\ row \in [Images -> Rows] /\ pc \in [Attempts -> Pcs]
      /\ disturbed \subseteq Images
    BY <1>k, ImageAssumption DEF Types, One
<1>h. i \notin disturbed => (Alive(k) => Sound(k)) /\ Real(k)
    BY <1>k DEF LastSound
<1>1. ASSUME NEW b \in Attempts, Request(b) \/ Step(b), ~PanicEndsProcess(b), ImageOf[b] # i
      PROVE  LastSound(i)'
    <2>1. /\ row'[i] = row[i] /\ current'[i] = k /\ wants'[i] = wants[i]
          /\ stores'[i] = stores[i]
          /\ i \in disturbed' <=> i \in disturbed
        BY <1>1, <1>k, Others
    <2>2. /\ pc'[k] = pc[k] /\ mem'[k] = mem[k] /\ phase'[k] = phase[k]
          /\ k \in resumes' <=> k \in resumes
        BY <1>1, <1>t, Others
    <2>3. /\ (Alive(k) => Sound(k)) => (Alive(k)' => Sound(k)')
          /\ Real(k) => Real(k)'
        BY <2>1, <2>2, <1>t, SameSound DEF Row, Installs
    <2>4. QED
        BY <1>h, <2>1, <2>3, LastOf
<1>2. ASSUME NEW b \in Attempts, Step(b), ~PanicEndsProcess(b), ImageOf[b] = i
      PROVE  LastSound(i)'
    <2>1. /\ Alive(b) /\ current' = current /\ disturbed' = disturbed
        BY <1>2, StepOfAlive
    <2>2. ASSUME i \notin disturbed
          PROVE  b = k /\ Sound(b) /\ Real(b)
        BY <1>2, <1>k, <1>h, <2>1, <2>2 DEF One
    <2>3. i \notin disturbed => (Alive(b)' => Sound(b)') /\ Real(b)' /\ b = k
        BY <1>2, <2>2, StepSound
    <2>4. i \notin disturbed' => (Alive(k)' => Sound(k)') /\ Real(k)'
        BY <2>1, <2>3
    <2>5. QED
        BY <1>k, <2>1, <2>4, LastOf
<1>3. ASSUME NEW b \in Attempts, Request(b)
      PROVE  LastSound(i)'
    <2>1. ~PanicEndsProcess(b)
        BY <1>3 DEF Request, CreateImage, RetryCreateImage, ResumeInterrupted, Starts,
                    PanicEndsProcess
    <2>2. CASE ImageOf[b] = i
        BY <1>3, <2>2, RequestSound
    <2>3. QED
        BY <1>1, <1>3, <2>1, <2>2
<1>4. ASSUME Die, row' = row, wants' = wants, stores' = stores, current' = current
      PROVE  LastSound(i)'
    <2>1. ~Alive(k)'
        BY <1>4, <1>t, AfterDeath DEF Alive
    <2>2. Real(k) => Real(k)'
        BY <1>4 DEF Real, Row, Installs, InAws, StoresIn
    <2>3. i \in disturbed => i \in disturbed'
        BY <1>4 DEF Die
    <2>4. QED
        BY <1>4, <1>k, <1>h, <2>1, <2>2, <2>3, LastOf
<1>5. ASSUME pc' = pc, mem' = mem, phase' = phase, wants' = wants, stores' = stores,
             current' = current, resumes' = resumes, disturbed' = disturbed,
             row'[i].commit = row[i].commit, row'[i].installer = row[i].installer,
             row'[i].aws = row[i].aws,
             row'[i].image = row[i].image \/ row'[i].image # "SUCCESS"
      PROVE  LastSound(i)'
    <2>1. /\ (Alive(k) => Sound(k)) => (Alive(k)' => Sound(k)')
          /\ Real(k) => Real(k)'
        BY <1>5, <1>t, SameSound DEF Row, Installs
    <2>2. QED
        BY <1>5, <1>k, <1>h, <2>1, LastOf
<1>6. ASSUME NEW b \in Attempts, PanicEndsProcess(b)
      PROVE  LastSound(i)'
    BY <1>4, <1>6 DEF PanicEndsProcess
<1>7. CASE Exit
    BY <1>4, <1>7 DEF Exit
<1>8. ASSUME NEW b \in Attempts, Watch(b)
      PROVE  LastSound(i)'
    <2>1. /\ row'[i].commit = row[i].commit /\ row'[i].installer = row[i].installer
          /\ row'[i].aws = row[i].aws
          /\ row'[i].image = row[i].image \/ row'[i].image # "SUCCESS"
        BY <1>8, <1>t DEF Watch, Store, Row, Rows
    <2>2. QED
        BY <1>5, <1>8, <2>1 DEF Watch, requestVars
<1>9. ASSUME NEW j \in Images, ComposeEnds(j) \/ FindImage(j) \/ HandleFound(j)
      PROVE  LastSound(i)'
    <2>1. /\ row'[i].commit = row[i].commit /\ row'[i].installer = row[i].installer
          /\ row'[i].aws = row[i].aws
          /\ row'[i].image = row[i].image \/ row'[i].image # "SUCCESS"
        BY <1>9, <1>t DEF ComposeEnds, FindImage, HandleFound, Rows
    <2>2. QED
        BY <1>5, <1>9, <2>1 DEF ComposeEnds, FindImage, HandleFound, requestVars
<1>10. CASE Interrupt \/ UNCHANGED vars
    BY <1>5, <1>10 DEF Interrupt, vars, requestVars
<1>11. QED
    BY <1>1, <1>2, <1>3, <1>6, <1>7, <1>8, <1>9, <1>10 DEF AtomicStep, Request, Step

\* The inductive invariant that both properties of SUCCESS rest on.
SuccessInv ==
    /\ Types
    /\ \A i \in Images : One(i) /\ Created(i) /\ LastSound(i)
    /\ \A a \in Attempts : PcInv(a)

LEMMA SuccessInvCorrect ==
    ASSUME "SUCCESS" \notin Retryable
    PROVE  Spec => []SuccessInv
<1>1. Init => SuccessInv
    BY InitTypes, InitOne, InitCreated, InitSound, InitPc DEF SuccessInv
<1>2. SuccessInv /\ [Next \/ Idle]_vars => SuccessInv'
    <2> SUFFICES ASSUME SuccessInv, [Next \/ Idle]_vars
                 PROVE  SuccessInv'
        OBVIOUS
    <2>1. AtomicStep
        BY AtomicSteps
    <2>2. Types'
        BY <2>1, NextTypes DEF SuccessInv
    <2>3. \A i \in Images : One(i)'
        BY <2>1, NextOne DEF SuccessInv
    <2>4. \A i \in Images : Created(i)'
        BY <2>1, NextCreated DEF SuccessInv
    <2>5. \A i \in Images : LastSound(i)'
        BY <2>1, NextSound DEF SuccessInv
    <2>6. \A a \in Attempts : PcInv(a)'
        BY <2>1, NextPc DEF SuccessInv
    <2>7. QED
        BY <2>2, <2>3, <2>4, <2>5, <2>6 DEF SuccessInv
<1>3. QED
    BY <1>1, <1>2, PTL DEF Spec

\* An image that is SUCCESS has its commit, its installer if one was asked for and its
\* repository in AWS if it goes there, if clients do not retry a success: through
\* crashes, interrupts, retries and resumes that do not overlap.
THEOREM SuccessIsRealCorrect ==
    ASSUME "SUCCESS" \notin Retryable
    PROVE  Spec => []SuccessIsReal
<1>1. SuccessInv => SuccessIsReal
    BY DEF SuccessInv, SuccessIsReal, LastSound, One, Real, Row, Installs, InAws, StoresIn
<1>2. QED
    BY <1>1, SuccessInvCorrect, PTL

\* One step keeps a SUCCESS, but for an interrupt, for cmd/kafka with what it had found
\* stale and for the first statement of a resume.
LEMMA StepKeepsSuccess ==
    ASSUME SuccessInv, AtomicStep, NEW i \in Images \ disturbed', row[i].image = "SUCCESS"
    PROVE  \/ row'[i].image \in {"SUCCESS", "INTERRUPTED"}
           \/ found[i] = "stale"
           \/ pc[current[i]] = "resume"
<1>t. /\ ImageOf \in [Attempts -> Images] /\ ImageOf[current[i]] = i
      /\ row \in [Images -> Rows] /\ current[i] \in Attempts /\ Types
      /\ \A a \in Attempts : PcInv(a)
    BY ImageAssumption DEF SuccessInv, Types, One
<1>1. ASSUME NEW b \in Attempts, Request(b) \/ Step(b), ~PanicEndsProcess(b), ImageOf[b] # i
      PROVE  row'[i].image = "SUCCESS"
    <2>1. row'[i] = row[i]
        BY <1>1, <1>t, Others
    <2>2. QED
        BY <2>1
<1>2. ASSUME NEW b \in Attempts, Step(b), ~PanicEndsProcess(b), ImageOf[b] = i
      PROVE  row'[i].image = "SUCCESS" \/ pc[current[i]] = "resume"
    <2>1. Alive(b) /\ disturbed' = disturbed
        BY <1>2, StepOfAlive
    <2>2. b = current[i]
        BY <1>2, <2>1 DEF SuccessInv, One
    <2>3. Sound(b) /\ Real(b)
        BY <2>1, <2>2 DEF SuccessInv, LastSound
    <2>4. Row(b).image = "SUCCESS" /\ pc[b] # "resume" => Row(b)'.image = "SUCCESS"
        BY <1>2, <1>t, <2>3, StepSound
    <2>5. Row(b).image = "SUCCESS" /\ Row(b)'.image = row'[i].image
        BY <1>2 DEF Row
    <2>6. QED
        BY <2>2, <2>4, <2>5
<1>3. ASSUME NEW b \in Attempts, Request(b)
      PROVE  row'[i].image = "SUCCESS"
    <2>1. CASE CreateImage(b)
        <3>1. pc[FirstAttempt[ImageOf[b]]] = "none" /\ ~PanicEndsProcess(b)
            BY <2>1 DEF CreateImage, Starts, PanicEndsProcess
        <3>2. ImageOf[b] # i
            BY <3>1 DEF SuccessInv, Created
        <3>3. QED
            BY <1>1, <1>3, <3>1, <3>2
    <2>2. CASE RetryCreateImage(b) \/ ResumeInterrupted(b)
        BY <2>2 DEF RetryCreateImage, ResumeInterrupted
    <2>3. QED
        BY <1>3, <2>1, <2>2 DEF Request
<1>4. ASSUME NEW b \in Attempts, PanicEndsProcess(b)
      PROVE  row' = row
    BY <1>4 DEF PanicEndsProcess
<1>5. ASSUME NEW b \in Attempts, Watch(b)
      PROVE  row'[i].image \in {"SUCCESS", "INTERRUPTED"}
    BY <1>5, <1>t DEF Watch, Store, Row, Rows
<1>6. ASSUME NEW j \in Images, ComposeEnds(j) \/ FindImage(j) \/ HandleFound(j)
      PROVE  row'[i].image = "SUCCESS" \/ found[i] = "stale"
    BY <1>6, <1>t DEF ComposeEnds, FindImage, HandleFound
<1>7. CASE Exit \/ Interrupt \/ UNCHANGED vars
    BY <1>7 DEF Exit, Interrupt, vars
<1>8. QED
    BY <1>1, <1>2, <1>3, <1>4, <1>5, <1>6, <1>7 DEF AtomicStep, Request, Step

\* A finished image stays finished, under the same assumption.
THEOREM SuccessIsKeptCorrect ==
    ASSUME "SUCCESS" \notin Retryable
    PROVE  Spec => SuccessIsKept
<1> DEFINE Kept == \A i \in Images \ disturbed' :
                      row[i].image = "SUCCESS" =>
                          \/ row'[i].image \in {"SUCCESS", "INTERRUPTED"}
                          \/ found[i] = "stale"
                          \/ pc[current[i]] = "resume"
<1>1. SuccessInv /\ [Next \/ Idle]_vars => Kept
    BY AtomicSteps, StepKeepsSuccess
<1>2. QED
    BY <1>1, SuccessInvCorrect, PTL DEF Spec, SuccessIsKept
===============================================================================
