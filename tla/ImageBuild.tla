------------------------------ MODULE ImageBuild ------------------------------
(***************************************************************************)
(* The build of images (pkg/services/images.go): the handlers that create, *)
(* retry and resume one, processImage and resumeProcessImage with the      *)
(* polling of Image Builder, the storing of the repository, the installer, *)
(* the goroutine that waits for an interrupt, the failure handlers of the  *)
(* jobs, and cmd/kafka, which resumes interrupted builds and gives up on   *)
(* stale ones.                                                             *)
(*                                                                         *)
(* An attempt is one request with the goroutine or job it starts.  A step  *)
(* is one statement on the database or one call to another service.  The   *)
(* database does not fail, other services may.  Where the code dereferences*)
(* a nil image or repository the attempt panics: a job is recovered by the *)
(* worker, a goroutine takes the process down.                             *)
(***************************************************************************)

CONSTANTS
    Images,
    Attempts,
    ImageOf,       \* ImageOf[a]: the image that attempt a is for
    FirstAttempt,  \* FirstAttempt[i]: the attempt that creates image i
    Retryable,     \* the statuses in which clients retry an image
    MayOverlap,    \* whether a request may come while an attempt is under way
    MayInterrupt,  \* whether the process may receive SIGTERM
    MayCrash       \* whether it may be killed

Statuses == {"CREATED", "BUILDING", "ERROR", "SUCCESS", "INTERRUPTED", "PENDING"}
RepoStatuses == {"none", "PENDING", "BUILDING", "SUCCESS", "ERROR", "SKIPPED"}

ASSUME ImageAssumption ==
    /\ ImageOf \in [Attempts -> Images]
    /\ FirstAttempt \in [Images -> Attempts]
    /\ \A i \in Images : ImageOf[FirstAttempt[i]] = i
    /\ Retryable \subseteq Statuses
    /\ MayOverlap \in BOOLEAN
    /\ MayInterrupt \in BOOLEAN
    /\ MayCrash \in BOOLEAN

VARIABLES
    row,          \* row[i]: the statuses in the rows of the image, its commit,
                  \* its installer and its repository (in AWS and in Pulp)
    wants,        \* wants[i]: whether an installer is among the output types
    stores,       \* stores[i]: where the organization's flags store repositories
    pc,           \* pc[a]: the next step of attempt a
    phase,        \* phase[a]: processCommit, the rest of a resume, or processInstaller
    mode,         \* mode[a]: "job" or "goroutine"
    resumes,      \* the attempts that resume
    mem,          \* mem[a]: the rows as the attempt holds them
    watch,        \* watch[a]: where the goroutine that waits for an interrupt is
    compose,      \* compose[i]: the last commit composed by Image Builder
    iso,          \* iso[i]: the last installer composed
    found,        \* found[i]: as what cmd/kafka has image i in its list
    current,      \* current[i]: the attempt that was started last
    disturbed,    \* the images with two attempts at a time, or with a retry that was
                  \* cut between its statements (history)
    interrupted,  \* the process received SIGTERM
    crashed       \* the process was killed from outside

requestVars == <<wants, stores, resumes, current, disturbed>>
faultVars == <<interrupted, crashed>>
vars == <<row, pc, phase, mode, mem, watch, compose, iso, found, requestVars, faultVars>>

Rows == [image : Statuses \cup {"none"}, commit : Statuses \cup {"none"},
         installer : Statuses \cup {"none"}, aws : RepoStatuses, pulp : RepoStatuses]
NoRows == [image |-> "none", commit |-> "none", installer |-> "none",
           aws |-> "none", pulp |-> "none"]

\* How an attempt ends: it returns; its failure handler reports it; the failure
\* handler cannot, its context has ended; it returns from a resume without a final
\* status; its process is gone.
Ends == {"done", "failed", "unreported", "left", "gone"}
Alive(a) == pc[a] \notin Ends \cup {"none"}
Row(a) == row[ImageOf[a]]
Installs(a) == wants[ImageOf[a]]

Init ==
    /\ row = [i \in Images |-> NoRows]
    /\ wants = [i \in Images |-> FALSE]
    /\ stores = [i \in Images |-> {}]
    /\ pc = [a \in Attempts |-> "none"]
    /\ phase = [a \in Attempts |-> "commit"]
    /\ mode = [a \in Attempts |-> "none"]
    /\ resumes = {}
    /\ mem = [a \in Attempts |-> NoRows]
    /\ watch = [a \in Attempts |-> "off"]
    /\ compose = [i \in Images |-> "none"]
    /\ iso = [i \in Images |-> "none"]
    /\ found = [i \in Images |-> "no"]
    /\ current = FirstAttempt
    /\ disturbed = {}
    /\ interrupted = FALSE
    /\ crashed = FALSE

Goto(a, p) == pc' = [pc EXCEPT ![a] = p]
Hold(a, m) == mem' = [mem EXCEPT ![a] = m]
Store(a, r) == row' = [row EXCEPT ![ImageOf[a]] = r]

-------------------------------------------------------------------------------
(* The requests.                                                           *)

\* No handler looks whether the image is being built already.
Starts(a) ==
    LET busy == \E b \in Attempts : ImageOf[b] = ImageOf[a] /\ Alive(b) IN
    /\ pc[a] = "none"
    /\ busy => MayOverlap
    /\ current' = [current EXCEPT ![ImageOf[a]] = a]
    /\ disturbed' = IF busy THEN disturbed \cup {ImageOf[a]} ELSE disturbed

\* A commit is composed and the rows are created.
CreateImage(a) ==
    LET i == ImageOf[a] IN
    /\ Starts(a)
    /\ a = FirstAttempt[i]
    /\ \E installs \in BOOLEAN, s \in (SUBSET {"aws", "pulp"}) \ {{}} :
          /\ wants' = [wants EXCEPT ![i] = installs]
          /\ stores' = [stores EXCEPT ![i] = s]
          /\ Store(a, [image |-> "BUILDING", commit |-> "BUILDING",
                       installer |-> IF installs THEN "PENDING" ELSE "none",
                       aws |-> "none", pulp |-> "none"])
    /\ compose' = [compose EXCEPT ![i] = "running"]
    /\ Goto(a, "prepared")
    /\ UNCHANGED <<phase, mode, resumes, mem, watch, iso, found, faultVars>>

\* RetryCreateImage composes the commit again, if Image Builder takes the request.
RetryCreateImage(a) ==
    LET i == ImageOf[a] IN
    /\ Starts(a)
    /\ row[i].image \in Retryable
    /\ \/ /\ compose' = [compose EXCEPT ![i] = "running"]
          /\ Goto(a, "retryCommit")
       \/ /\ Goto(a, "done")
          /\ UNCHANGED compose
    /\ UNCHANGED <<row, wants, stores, phase, mode, resumes, mem, watch, iso, found,
                   faultVars>>

\* SetBuildingStatusOnImageToRetryBuild: the commit, the installer, the image.
SetBuildingStatusOnImageToRetryBuild(a) ==
    /\ \/ /\ pc[a] = "retryCommit"
          /\ Store(a, [Row(a) EXCEPT !.commit = "BUILDING"])
          /\ Goto(a, IF Installs(a) THEN "retryInstaller" ELSE "retryImage")
       \/ /\ pc[a] = "retryInstaller"
          /\ Store(a, [Row(a) EXCEPT !.installer = "CREATED"])
          /\ Goto(a, "retryImage")
       \/ /\ pc[a] = "retryImage"
          /\ Store(a, [Row(a) EXCEPT !.image = "BUILDING"])
          /\ Goto(a, "prepared")
    /\ UNCHANGED <<phase, mode, mem, watch, compose, iso, found, requestVars, faultVars>>

\* cmd/kafka asks for the resume of an image that it found interrupted; the handler
\* loads it and does not look at its status.
ResumeInterrupted(a) ==
    /\ Starts(a)
    /\ found[ImageOf[a]] = "interrupted"
    /\ found' = [found EXCEPT ![ImageOf[a]] = "no"]
    /\ resumes' = resumes \cup {a}
    /\ Hold(a, [Row(a) EXCEPT !.image = "BUILDING"])
    /\ Goto(a, "resume")
    /\ UNCHANGED <<row, wants, stores, phase, mode, watch, compose, iso, faultVars>>

\* The status goes back to BUILDING before anything is started.
ResumeCreateImage(a) ==
    /\ pc[a] = "resume"
    /\ Store(a, [Row(a) EXCEPT !.image = "BUILDING"])
    /\ Goto(a, "prepared")
    /\ UNCHANGED <<phase, mode, mem, watch, compose, iso, found, requestVars, faultVars>>

\* A flag decides between a job and a goroutine.
ProcessImage(a) ==
    /\ pc[a] = "prepared"
    /\ \E how \in {"job", "goroutine"} : mode' = [mode EXCEPT ![a] = how]
    /\ Goto(a, "queued")
    /\ UNCHANGED <<row, phase, mem, watch, compose, iso, found, requestVars, faultVars>>

-------------------------------------------------------------------------------
(* processImage and resumeProcessImage.                                    *)

quietVars == <<mode, watch, compose, iso, found, requestVars, faultVars>>

\* A goroutine sets up its watch for an interrupt.  A resume goes by the copy that
\* the handler loaded and skips a commit that was a success.
Begin(a) ==
    /\ pc[a] = "queued"
    /\ watch' = [watch EXCEPT ![a] = IF mode[a] = "goroutine" THEN "on" ELSE "off"]
    /\ Goto(a, IF a \in resumes /\ mem[a].commit = "SUCCESS" THEN "commitDone" ELSE "reload")
    /\ UNCHANGED <<row, phase, mode, mem, compose, iso, found, requestVars, faultVars>>

\* Both loops load the rows again in every round.
Reload(a) ==
    /\ pc[a] = "reload"
    /\ Hold(a, IF phase[a] = "commit" THEN Row(a)
               ELSE [Row(a) EXCEPT !.aws = mem[a].aws, !.pulp = mem[a].pulp])
    /\ Goto(a, "poll")
    /\ UNCHANGED <<row, phase, quietVars>>

\* UpdateImageStatus asks for the commit.  For the worker that stopped responding
\* the client returns no image, and the status of no image is set.
GetCommitStatus(a) ==
    /\ pc[a] = "poll"
    /\ \/ /\ mem[a].commit # "BUILDING"
          /\ Goto(a, "pollInstaller")
          /\ UNCHANGED mem
       \/ /\ mem[a].commit = "BUILDING"
          /\ \/ /\ compose[ImageOf[a]] = "running"
                /\ Goto(a, "pollInstaller")
                /\ UNCHANGED mem
             \/ /\ compose[ImageOf[a]] = "success"
                /\ Hold(a, [mem[a] EXCEPT !.commit = "SUCCESS"])
                /\ Goto(a, "saveCommit")
             \/ /\ compose[ImageOf[a]] = "failure"
                /\ Hold(a, [mem[a] EXCEPT !.commit = "ERROR", !.image = "ERROR"])
                /\ Goto(a, "saveCommit")
             \/ /\ compose[ImageOf[a]] = "stopped"
                /\ Goto(a, "panics")
                /\ UNCHANGED mem
             \/ /\ Goto(a, "error")
                /\ UNCHANGED mem
    /\ UNCHANGED <<row, phase, quietVars>>

\* Mutation of SaveCommit: the word of Image Builder is stored.
SaveCommitWord(a) ==
    /\ pc[a] = "saveCommit"
    /\ Store(a, [Row(a) EXCEPT !.commit = compose[ImageOf[a]]])
    /\ Goto(a, "pollInstaller")
    /\ UNCHANGED <<phase, mem, quietVars>>

SaveCommit(a) ==
    /\ pc[a] = "saveCommit"
    /\ Store(a, [Row(a) EXCEPT !.commit = mem[a].commit])
    /\ Goto(a, "pollInstaller")
    /\ UNCHANGED <<phase, mem, quietVars>>

\* Mutation of GetInstallerStatus: a failed installer is waited for.
GetInstallerSuccess(a) ==
    /\ pc[a] = "pollInstaller"
    /\ \/ /\ ~Installs(a) \/ mem[a].installer # "BUILDING" \/ iso[ImageOf[a]] # "success"
          /\ Goto(a, "saveImage")
          /\ UNCHANGED mem
       \/ /\ Installs(a) /\ mem[a].installer = "BUILDING"
          /\ iso[ImageOf[a]] = "success"
          /\ Hold(a, [mem[a] EXCEPT !.installer = "SUCCESS"])
          /\ Goto(a, "saveInstaller")
    /\ UNCHANGED <<row, phase, quietVars>>

\* Then for the installer, where every failure of the request is an error.
GetInstallerStatus(a) ==
    /\ pc[a] = "pollInstaller"
    /\ \/ /\ ~Installs(a) \/ mem[a].installer # "BUILDING"
          /\ Goto(a, "saveImage")
          /\ UNCHANGED mem
       \/ /\ Installs(a) /\ mem[a].installer = "BUILDING"
          /\ \/ /\ iso[ImageOf[a]] = "running"
                /\ Goto(a, "saveImage")
                /\ UNCHANGED mem
             \/ /\ iso[ImageOf[a]] = "success"
                /\ Hold(a, [mem[a] EXCEPT !.installer = "SUCCESS"])
                /\ Goto(a, "saveInstaller")
             \/ /\ iso[ImageOf[a]] = "failure"
                /\ Hold(a, [mem[a] EXCEPT !.installer = "ERROR", !.image = "ERROR"])
                /\ Goto(a, "saveInstaller")
             \/ /\ Goto(a, "error")
                /\ UNCHANGED mem
    /\ UNCHANGED <<row, phase, quietVars>>

SaveInstaller(a) ==
    /\ pc[a] = "saveInstaller"
    /\ Store(a, [Row(a) EXCEPT !.installer = mem[a].installer])
    /\ Goto(a, "saveImage")
    /\ UNCHANGED <<phase, mem, quietVars>>

\* The image row is saved when it is not BUILDING, and the loop is left when what it
\* waits for is not.
UpdateImageStatus(a) ==
    LET awaited == IF phase[a] = "commit" THEN mem[a].commit ELSE mem[a].installer IN
    /\ pc[a] = "saveImage"
    /\ IF mem[a].image # "BUILDING" THEN Store(a, [Row(a) EXCEPT !.image = mem[a].image])
       ELSE UNCHANGED row
    /\ \/ awaited = "BUILDING" /\ Goto(a, "reload")
       \/ awaited = "SUCCESS" /\ Goto(a, IF phase[a] = "commit" THEN "metadata" ELSE "userInfo")
       \/ /\ awaited \notin {"BUILDING", "SUCCESS"}
          /\ Goto(a, IF Installs(a) /\ phase[a] = "commit" THEN "commitDone" ELSE "final")
    /\ UNCHANGED <<phase, mem, quietVars>>

\* When the metadata cannot be had the client returns no image, and the error is set
\* on no image.
GetMetadata(a) ==
    /\ pc[a] = "metadata"
    /\ \E p \in {"repo", "panics"} : Goto(a, p)
    /\ UNCHANGED <<row, phase, mem, quietVars>>

-------------------------------------------------------------------------------
(* CreateRepoForImage: Pulp if the flags say so, then AWS unless they do   *)
(* not.  The repository row is saved whole.                                *)

StoresIn(a, s) == s \in stores[ImageOf[a]]
SaveRepo(a, m) == Store(a, [Row(a) EXCEPT !.aws = m.aws, !.pulp = m.pulp])

CreateRepoForImage(a) ==
    /\ pc[a] = "repo"
    /\ Store(a, [Row(a) EXCEPT !.commit = mem[a].commit])
    /\ Hold(a, [mem[a] EXCEPT !.aws = "PENDING",
                              !.pulp = IF StoresIn(a, "pulp") THEN "PENDING" ELSE "SKIPPED"])
    /\ Goto(a, IF StoresIn(a, "pulp") THEN "pulp" ELSE "aws")
    /\ UNCHANGED <<phase, quietVars>>

\* The error of StoreRepo ends up in the row only.
StoreRepo(a) ==
    /\ \/ /\ pc[a] = "pulp"
          /\ Hold(a, [mem[a] EXCEPT !.pulp = "BUILDING"])
          /\ Goto(a, "pulpStore")
       \/ /\ pc[a] = "pulpStore"
          /\ \E s \in {"SUCCESS", "ERROR"} : Hold(a, [mem[a] EXCEPT !.pulp = s])
          /\ Goto(a, IF StoresIn(a, "aws") THEN "aws" ELSE "skipAws")
    /\ SaveRepo(a, mem'[a])
    /\ UNCHANGED <<phase, quietVars>>

SkipAWS(a) ==
    /\ pc[a] = "skipAws"
    /\ Hold(a, [mem[a] EXCEPT !.aws = "SKIPPED"])
    /\ SaveRepo(a, mem'[a])
    /\ Goto(a, "repoDone")
    /\ UNCHANGED <<phase, quietVars>>

\* ImportRepo returns no repository with an error, and the status of no repository
\* is set; it saved the error before or did not.
ImportRepo(a) ==
    /\ \/ /\ pc[a] = "aws"
          /\ Hold(a, [mem[a] EXCEPT !.aws = "BUILDING"])
          /\ Goto(a, "awsStore")
       \/ /\ pc[a] = "awsStore"
          /\ Hold(a, [mem[a] EXCEPT !.aws = "SUCCESS"])
          /\ Goto(a, "repoDone")
       \/ /\ pc[a] = "awsStore"
          /\ \E s \in {"BUILDING", "ERROR"} : Hold(a, [mem[a] EXCEPT !.aws = s])
          /\ Goto(a, "panics")
    /\ SaveRepo(a, mem'[a])
    /\ UNCHANGED <<phase, quietVars>>

\* Without any repository processCommit fails, and a resume just returns.
RepoDone(a) ==
    LET stored == "SUCCESS" \in {mem[a].aws, mem[a].pulp} IN
    /\ pc[a] = "repoDone"
    /\ \/ ~stored /\ Goto(a, IF phase[a] = "commit" THEN "error" ELSE "return")
       \/ stored /\ ~Installs(a) /\ Goto(a, "final")
       \/ stored /\ Installs(a) /\ Goto(a, IF phase[a] = "commit" THEN "commitDone" ELSE "resumed")
    /\ UNCHANGED <<row, phase, mem, quietVars>>

-------------------------------------------------------------------------------
(* The ends of processCommit and processInstaller.                         *)

\* SetFinalImageStatus: a part that is still BUILDING goes to ERROR first.
FailUnfinished(a) ==
    /\ pc[a] = "final"
    /\ IF mem[a].commit = "BUILDING"
       THEN /\ Hold(a, [mem[a] EXCEPT !.commit = "ERROR"])
            /\ Store(a, [Row(a) EXCEPT !.commit = "ERROR"])
       ELSE UNCHANGED <<mem, row>>
    /\ Goto(a, "saveFinal")
    /\ UNCHANGED <<phase, quietVars>>

\* Mutation of SetFinalImageStatus: the installer is not looked at.
SetFinalImageStatusOfCommit(a) ==
    LET s == IF mem[a].commit = "SUCCESS" THEN "SUCCESS" ELSE "ERROR" IN
    /\ pc[a] = "saveFinal"
    /\ Hold(a, [mem[a] EXCEPT !.image = s])
    /\ Store(a, [Row(a) EXCEPT !.image = s])
    /\ Goto(a, IF phase[a] = "commit" THEN "commitDone" ELSE "return")
    /\ UNCHANGED <<phase, quietVars>>

SetFinalImageStatus(a) ==
    LET success == /\ mem[a].commit = "SUCCESS"
                   /\ Installs(a) => mem[a].installer = "SUCCESS"
        s == IF success THEN "SUCCESS" ELSE "ERROR"
    IN
    /\ pc[a] = "saveFinal"
    /\ Hold(a, [mem[a] EXCEPT !.image = s])
    /\ Store(a, [Row(a) EXCEPT !.image = s])
    /\ Goto(a, IF phase[a] = "commit" THEN "commitDone" ELSE "return")
    /\ UNCHANGED <<phase, quietVars>>

\* An error is set on the three rows, unless the attempt holds the image as ERROR; in
\* processCommit and in a resume the image may be interrupted instead.
SetErrorStatusOnImage(a) ==
    /\ \/ /\ pc[a] = "error"
          /\ mem[a].image = "INTERRUPTED" /\ (phase[a] = "commit" \/ a \in resumes)
          /\ Goto(a, "return")
          /\ UNCHANGED <<mem, row>>
       \/ /\ pc[a] = "error"
          /\ mem[a].image = "ERROR"
          /\ Goto(a, IF phase[a] = "commit" THEN "commitDone" ELSE "return")
          /\ UNCHANGED <<mem, row>>
       \/ /\ pc[a] = "error"
          /\ mem[a].image # "ERROR"
          /\ mem[a].image # "INTERRUPTED" \/ (phase[a] # "commit" /\ a \notin resumes)
          /\ Hold(a, [mem[a] EXCEPT !.image = "ERROR"])
          /\ Store(a, [Row(a) EXCEPT !.image = "ERROR"])
          /\ Goto(a, "errorCommit")
       \/ /\ pc[a] = "errorCommit"
          /\ Hold(a, [mem[a] EXCEPT !.commit = "ERROR"])
          /\ Store(a, [Row(a) EXCEPT !.commit = "ERROR"])
          /\ Goto(a, IF Installs(a) THEN "errorInstaller"
                     ELSE IF phase[a] = "commit" THEN "commitDone" ELSE "return")
       \/ /\ pc[a] = "errorInstaller"
          /\ Hold(a, [mem[a] EXCEPT !.installer = "ERROR"])
          /\ Store(a, [Row(a) EXCEPT !.installer = "ERROR"])
          /\ Goto(a, IF phase[a] = "commit" THEN "commitDone" ELSE "return")
    /\ UNCHANGED <<phase, quietVars>>

\* Mutation of CommitDone: a resume stores the repository in any case.
CommitDoneStoreAgain(a) ==
    /\ pc[a] = "commitDone"
    /\ \/ /\ mem[a].commit # "SUCCESS" \/ (a \notin resumes /\ ~Installs(a))
          /\ Goto(a, "return")
          /\ UNCHANGED phase
       \/ /\ mem[a].commit = "SUCCESS" /\ a \notin resumes /\ Installs(a)
          /\ Goto(a, "installer")
          /\ UNCHANGED phase
       \/ /\ mem[a].commit = "SUCCESS" /\ a \in resumes
          /\ phase' = [phase EXCEPT ![a] = "resume"]
          /\ Goto(a, "repo")
    /\ UNCHANGED <<row, mem, quietVars>>

\* After processCommit: nothing more without a commit, not even a final status if a
\* resume found the commit in ERROR; otherwise a resume makes sure of the repository,
\* in AWS.
CommitDone(a) ==
    /\ pc[a] = "commitDone"
    /\ \/ /\ mem[a].commit # "SUCCESS" \/ (a \notin resumes /\ ~Installs(a))
          /\ Goto(a, "return")
          /\ UNCHANGED phase
       \/ /\ mem[a].commit = "SUCCESS" /\ a \notin resumes /\ Installs(a)
          /\ Goto(a, "installer")
          /\ UNCHANGED phase
       \/ /\ mem[a].commit = "SUCCESS" /\ a \in resumes
          /\ phase' = [phase EXCEPT ![a] = "resume"]
          /\ Goto(a, IF mem[a].aws # "SUCCESS" THEN "repo"
                     ELSE IF Installs(a) THEN "resumed" ELSE "final")
    /\ UNCHANGED <<row, mem, quietVars>>

\* A resume skips an installer that was a success, and the final status with it.
Resumed(a) ==
    /\ pc[a] = "resumed"
    /\ Goto(a, IF mem[a].installer = "SUCCESS" THEN "return" ELSE "installer")
    /\ UNCHANGED <<row, phase, mem, quietVars>>

\* What an attempt held is gone with it.
Forget(a) ==
    /\ Hold(a, NoRows)
    /\ phase' = [phase EXCEPT ![a] = "commit"]
    /\ mode' = [mode EXCEPT ![a] = "none"]

\* The watch is called off, unless it has its signal.
Return(a) ==
    /\ pc[a] = "return"
    /\ Goto(a, IF a \in resumes /\ mem[a].image = "BUILDING" THEN "left" ELSE "done")
    /\ watch' = [watch EXCEPT ![a] = IF @ = "on" THEN "off" ELSE @]
    /\ Forget(a)
    /\ UNCHANGED <<row, compose, iso, found, requestVars, faultVars>>

-------------------------------------------------------------------------------
(* CreateInstallerForImage, ComposeInstaller and processInstaller.         *)

CreateInstallerForImage(a) ==
    /\ \/ /\ pc[a] = "installer"
          /\ Hold(a, [mem[a] EXCEPT !.installer = "BUILDING"])
          /\ Store(a, [Row(a) EXCEPT !.image = mem[a].image])
          /\ Goto(a, "installerRow")
       \/ /\ pc[a] = "installerRow"
          /\ Store(a, [Row(a) EXCEPT !.installer = mem[a].installer])
          /\ Goto(a, "compose")
          /\ UNCHANGED mem
    /\ UNCHANGED <<phase, quietVars>>

ComposeInstaller(a) ==
    /\ pc[a] = "compose"
    /\ \/ /\ iso' = [iso EXCEPT ![ImageOf[a]] = "running"]
          /\ Hold(a, [mem[a] EXCEPT !.image = "BUILDING"])
       \/ /\ Hold(a, [mem[a] EXCEPT !.image = "ERROR", !.installer = "ERROR"])
          /\ UNCHANGED iso
    /\ Goto(a, "composeImage")
    /\ UNCHANGED <<row, phase, mode, watch, compose, found, requestVars, faultVars>>

\* Both rows are saved; after a failure the error is set on no image.
SaveComposed(a) ==
    /\ \/ /\ pc[a] = "composeImage"
          /\ Store(a, [Row(a) EXCEPT !.image = mem[a].image])
          /\ Goto(a, "composeInstaller")
          /\ UNCHANGED phase
       \/ /\ pc[a] = "composeInstaller"
          /\ Store(a, [Row(a) EXCEPT !.installer = mem[a].installer])
          /\ \/ /\ mem[a].installer = "ERROR"
                /\ Goto(a, "panics")
                /\ UNCHANGED phase
             \/ /\ mem[a].installer # "ERROR"
                /\ Goto(a, "reload")
                /\ phase' = [phase EXCEPT ![a] = "installer"]
    /\ UNCHANGED <<mem, quietVars>>

\* The ISO is downloaded, summed and uploaded, and the installer row saved.
AddUserInfo(a) ==
    /\ pc[a] = "userInfo"
    /\ \/ /\ Store(a, [Row(a) EXCEPT !.installer = mem[a].installer])
          /\ Goto(a, "final")
       \/ /\ Goto(a, "error")
          /\ UNCHANGED row
    /\ UNCHANGED <<phase, mem, quietVars>>

-------------------------------------------------------------------------------
(* Panics, the interrupt and the end of the process.                       *)

\* All that the process was doing is gone.
Die ==
    /\ pc' = [a \in Attempts |-> IF Alive(a) THEN "gone" ELSE pc[a]]
    /\ watch' = [a \in Attempts |-> "off"]
    /\ mem' = [a \in Attempts |-> NoRows]
    /\ phase' = [a \in Attempts |-> "commit"]
    /\ mode' = [a \in Attempts |-> "none"]
    /\ disturbed' = disturbed \cup
          {ImageOf[a] : a \in {b \in Attempts : pc[b] \in {"retryInstaller", "retryImage"}}}

\* Mutation of FailHandler: the status is set on an attempt that resumes only.
FailHandlerOfResume(a) ==
    /\ pc[a] = "panics" /\ mode[a] = "job"
    /\ \/ /\ Store(a, IF a \in resumes THEN [Row(a) EXCEPT !.image = "ERROR"] ELSE Row(a))
          /\ Goto(a, "failed")
       \/ /\ Goto(a, "unreported")
          /\ UNCHANGED row
    /\ Forget(a)
    /\ UNCHANGED <<watch, compose, iso, found, requestVars, faultVars>>

\* The worker recovers the panic and calls the failure handler with the context of
\* the job: when it has expired or was cancelled, the statement is not executed.
\* (After a job that returned the handler is called with such a context only.)
FailHandler(a) ==
    /\ pc[a] = "panics" /\ mode[a] = "job"
    /\ \/ /\ Store(a, [Row(a) EXCEPT !.image = IF a \in resumes THEN "ERROR" ELSE "INTERRUPTED"])
          /\ Goto(a, "failed")
       \/ /\ Goto(a, "unreported")
          /\ UNCHANGED row
    /\ Forget(a)
    /\ UNCHANGED <<watch, compose, iso, found, requestVars, faultVars>>

PanicEndsProcess(a) ==
    /\ pc[a] = "panics" /\ mode[a] = "goroutine"
    /\ Die
    /\ UNCHANGED <<row, compose, iso, found, wants, stores, resumes, current, faultVars>>

Interrupt ==
    /\ MayInterrupt /\ ~interrupted
    /\ interrupted' = TRUE
    /\ watch' = [a \in Attempts |-> IF watch[a] = "on" /\ Alive(a) THEN "signalled" ELSE watch[a]]
    /\ UNCHANGED <<row, pc, phase, mode, mem, compose, iso, found, requestVars, crashed>>

\* The watch marks the image whatever its status is, or is told that the attempt is
\* over.
Watch(a) ==
    /\ \/ /\ watch[a] = "signalled"
          /\ Store(a, [Row(a) EXCEPT !.image = "INTERRUPTED"])
       \/ /\ watch[a] = "signalled" /\ pc[a] \in {"done", "left"}
          /\ UNCHANGED row
    /\ watch' = [watch EXCEPT ![a] = "off"]
    /\ UNCHANGED <<pc, phase, mode, mem, compose, iso, found, requestVars, faultVars>>

\* The process exits after an interrupt, or is killed.
Exit ==
    /\ interrupted \/ (MayCrash /\ ~crashed)
    /\ \E a \in Attempts : Alive(a)
    /\ Die
    /\ crashed' = TRUE
    /\ UNCHANGED <<row, compose, iso, found, wants, stores, resumes, current, interrupted>>

-------------------------------------------------------------------------------
(* Image Builder, and cmd/kafka with the builds that it takes for stale.   *)

ComposeEnds(i) ==
    /\ \/ /\ compose[i] = "running"
          /\ \E s \in {"success", "failure", "stopped"} : compose' = [compose EXCEPT ![i] = s]
          /\ UNCHANGED iso
       \/ /\ iso[i] = "running"
          /\ \E s \in {"success", "failure"} : iso' = [iso EXCEPT ![i] = s]
          /\ UNCHANGED compose
    /\ UNCHANGED <<row, pc, phase, mode, mem, watch, found, requestVars, faultVars>>

\* cmd/kafka reads which images it takes for stale, nobody wrote them for hours while
\* an attempt was polling or not; then which are interrupted.
FindImage(i) ==
    /\ found[i] = "no"
    /\ \/ /\ row[i].image \in {"BUILDING", "INTERRUPTED"}
          /\ found' = [found EXCEPT ![i] = "stale"]
       \/ /\ row[i].image = "INTERRUPTED"
          /\ found' = [found EXCEPT ![i] = "interrupted"]
    /\ UNCHANGED <<row, pc, phase, mode, mem, watch, compose, iso, requestVars, faultVars>>

\* A stale image goes to ERROR, whatever became of it; or the image is passed over, as
\* the request for its resume failed or cmd/kafka was started again.
HandleFound(i) ==
    /\ found[i] # "no"
    /\ found' = [found EXCEPT ![i] = "no"]
    /\ \/ found[i] = "stale" /\ row' = [row EXCEPT ![i].image = "ERROR"]
       \/ UNCHANGED row
    /\ UNCHANGED <<pc, phase, mode, mem, watch, compose, iso, requestVars, faultVars>>

Request(a) == CreateImage(a) \/ RetryCreateImage(a) \/ ResumeInterrupted(a)

Step(a) ==
    \/ SetBuildingStatusOnImageToRetryBuild(a) \/ ResumeCreateImage(a) \/ ProcessImage(a)
    \/ Begin(a) \/ Reload(a) \/ GetCommitStatus(a) \/ SaveCommit(a)
    \/ GetInstallerStatus(a) \/ SaveInstaller(a) \/ UpdateImageStatus(a) \/ GetMetadata(a)
    \/ CreateRepoForImage(a) \/ StoreRepo(a) \/ SkipAWS(a) \/ ImportRepo(a) \/ RepoDone(a)
    \/ FailUnfinished(a) \/ SetFinalImageStatus(a) \/ SetErrorStatusOnImage(a)
    \/ CommitDone(a) \/ Resumed(a) \/ Return(a) \/ CreateInstallerForImage(a) \/ ComposeInstaller(a)
    \/ SaveComposed(a) \/ AddUserInfo(a) \/ FailHandler(a) \/ PanicEndsProcess(a)

Next ==
    \/ \E a \in Attempts : Request(a) \/ Step(a) \/ Watch(a)
    \/ \E i \in Images : ComposeEnds(i) \/ FindImage(i) \/ HandleFound(i)
    \/ Interrupt
    \/ Exit

\* Every request was served and everything it started is over.
Idle ==
    /\ \A a \in Attempts : ~Alive(a)
    /\ UNCHANGED vars

Spec == Init /\ [][Next \/ Idle]_vars

(***************************************************************************)
(* Attempts and watches run on and Image Builder finishes what it          *)
(* composes.  A request for the status is not sure to fail nor to succeed. *)
(* No request has to come, and cmd/kafka is not relied on.                 *)
(***************************************************************************)
FairSpec ==
    /\ Spec
    /\ \A a \in Attempts : WF_vars(Step(a)) /\ WF_vars(Watch(a))
    /\ \A i \in Images : WF_vars(ComposeEnds(i))

-------------------------------------------------------------------------------
TypeOK ==
    /\ row \in [Images -> Rows]
    /\ wants \in [Images -> BOOLEAN]
    /\ stores \in [Images -> SUBSET {"aws", "pulp"}]
    /\ pc \in [Attempts -> Ends \cup
                {"none", "retryCommit", "retryInstaller", "retryImage", "resume", "prepared",
                 "queued", "reload", "poll", "saveCommit", "pollInstaller", "saveInstaller",
                 "saveImage", "metadata", "repo", "pulp", "pulpStore", "skipAws", "aws",
                 "awsStore", "repoDone", "final", "saveFinal", "error", "errorCommit",
                 "errorInstaller", "commitDone", "resumed", "installer", "installerRow",
                 "compose", "composeImage", "composeInstaller", "userInfo", "return", "panics"}]
    /\ phase \in [Attempts -> {"commit", "resume", "installer"}]
    /\ mode \in [Attempts -> {"none", "job", "goroutine"}]
    /\ resumes \subseteq Attempts
    /\ mem \in [Attempts -> Rows]
    /\ watch \in [Attempts -> {"off", "on", "signalled"}]
    /\ compose \in [Images -> {"none", "running", "success", "failure", "stopped"}]
    /\ iso \in [Images -> {"none", "running", "success", "failure"}]
    /\ found \in [Images -> {"no", "stale", "interrupted"}]
    /\ current \in [Images -> Attempts]
    /\ disturbed \subseteq Images
    /\ interrupted \in BOOLEAN
    /\ crashed \in BOOLEAN

\* An image is SUCCESS only with its commit, its installer if one was asked for, and
\* its repository in AWS if it goes there: through crashes, interrupts, retries and
\* resumes, as long as its attempts do not overlap and no retry is cut short.
SuccessIsReal ==
    \A i \in Images \ disturbed :
        row[i].image = "SUCCESS" =>
            /\ row[i].commit = "SUCCESS"
            /\ wants[i] => row[i].installer = "SUCCESS"
            /\ "aws" \in stores[i] => row[i].aws = "SUCCESS"

\* An attempt that returned, or whose failure handler could report it, has taken the
\* image out of BUILDING on every path: errors, panics, interrupts and resumes.
EndedIsNotBuilding ==
    \A i \in Images \ disturbed :
        pc[current[i]] \in {"done", "failed"} => row[i].image # "BUILDING"

\* A finished image stays finished: nothing takes it out of SUCCESS but an interrupt
\* that was pending and cmd/kafka with what it read before, and a resume that was
\* started by neither does not undo it.
SuccessIsKept ==
    [][\A i \in Images \ disturbed' :
          row[i].image = "SUCCESS" =>
              \/ row'[i].image \in {"SUCCESS", "INTERRUPTED"}
              \/ found[i] = "stale"
              \/ pc[current[i]] = "resume"]_vars

\* A build comes out of BUILDING, unless its process ended, its failure could not be
\* reported or a resume left it.
BuildingEnds ==
    \A i \in Images :
        row[i].image = "BUILDING" ~>
            \/ row[i].image # "BUILDING"
            \/ pc[current[i]] \in {"unreported", "left", "gone"}
            \/ i \in disturbed

===============================================================================
