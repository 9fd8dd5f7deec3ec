----------------------------- MODULE ImageCatalog -----------------------------
(***************************************************************************)
(* Images, the image sets they are versions of, and the custom             *)
(* repositories they are built with: the requests that create, upgrade,    *)
(* retry and delete them (pkg/services/images.go, imagesets.go,            *)
(* thirdpartyrepo.go and their routes), beside the end of image builds and *)
(* devices that report which image they run.                               *)
(*                                                                         *)
(* The tables have no unique index and no request takes a lock: each of    *)
(* them reads what it must know, asks Image Builder, and writes last.  A   *)
(* step is one statement or one request to another service.  Rows are      *)
(* never erased: a delete marks them, and a save of a copy of a marked row *)
(* clears the mark.  All rows belong to one organization.                  *)
(***************************************************************************)
EXTENDS Naturals, FiniteSets

CONSTANTS
    Requests,    \* the requests that may be under way at a time
    Names,       \* names of images
    Repos,       \* ids of custom repositories
    Urls,        \* addresses of custom repositories
    Devices,     \* the devices of the organization
    Nothing,     \* no repository, address or name
    MaxImage,    \* bound on the images ever created
    MaxSet,      \* bound on the image sets ever created
    MaxRequests  \* bound on the requests ever begun

ASSUME CatalogAssumption ==
    /\ {MaxImage, MaxSet, MaxRequests} \subseteq Nat
    /\ Nothing \notin Names \cup Repos \cup Urls

VARIABLES
    image,     \* image[i]: the rows of images, in the order of their ids
    imageSet,  \* imageSet[s]: the rows of image sets
    repo,      \* repo[p]: the rows of custom repositories
    device,    \* device[d]: the image of the row of device d, 0 for none
    found,     \* found[d]: the image that an event of device d was found to be about
    pc,        \* pc[r]: the next step of request r
    mem,       \* mem[r]: what request r was told or has read
    begun,     \* how many requests have begun
    contested  \* names and repositories that two actors were at at a time (history)

tables == <<image, imageSet, repo, device>>
vars == <<tables, found, pc, mem, begun, contested>>

Images == 1..MaxImage
Sets == 1..MaxSet
Statuses == {"none", "BUILDING", "SUCCESS", "ERROR"}

\* url is the address that the commit was composed with, parent the image whose commit it
\* extends.
ImageRows ==
    [live : BOOLEAN, name : Names \cup {Nothing}, set : 0..MaxSet, version : Nat,
     status : Statuses, repo : Repos \cup {Nothing}, url : Urls \cup {Nothing},
     parent : 0..MaxImage]
SetRows == [live : BOOLEAN, name : Names \cup {Nothing}]
RepoRows == [live : BOOLEAN, url : Urls \cup {Nothing}]

NoImage ==
    [live |-> FALSE, name |-> Nothing, set |-> 0, version |-> 0, status |-> "none",
     repo |-> Nothing, url |-> Nothing, parent |-> 0]
NoSet == [live |-> FALSE, name |-> Nothing]
NoUrl == [live |-> FALSE, url |-> Nothing]

\* What a request holds: its row, copied or to be, the id of the row when it has one, and
\* whether the row was the last of its image set.
Memories == [row : ImageRows, id : 0..MaxImage, last : BOOLEAN]
NoMemory == [row |-> NoImage, id |-> 0, last |-> FALSE]

LiveImages(s) == {i \in Images : image[i].live /\ image[i].set = s}
Unused == {i \in Images : image[i].status = "none"}
Lowest(S) == CHOOSE x \in S : \A y \in S : x <= y

(***************************************************************************)
(* Requests                                                                *)
(***************************************************************************)

Goto(r, label) == pc' = [pc EXCEPT ![r] = label]
End(r) == Goto(r, "idle") /\ mem' = [mem EXCEPT ![r] = NoMemory]
Active == {r \in Requests : pc[r] # "idle"}

\* A request begins: it is at its name and its repository together with every other
\* request that is under way.
Begin(r, label, row, i) ==
    /\ pc[r] = "idle"
    /\ begun < MaxRequests
    /\ begun' = begun + 1
    /\ Goto(r, label)
    /\ mem' = [mem EXCEPT ![r] = [row |-> row, id |-> i, last |-> FALSE]]
    /\ contested' = contested \cup
           {x \in {row.name, row.repo} \ {Nothing} :
               \E q \in Active : x \in {mem[q].row.name, mem[q].row.repo}}

\* The next statement of a request that reads only.
Read(r, label) == Goto(r, label) /\ UNCHANGED <<tables, mem>>
Learn(r, label, m) ==
    Goto(r, label) /\ mem' = [mem EXCEPT ![r] = m] /\ UNCHANGED tables
Refuse(r) == End(r) /\ UNCHANGED tables

-------------------------------------------------------------------------------
(* Creating and upgrading images.                                          *)

CheckImageName(n) == \E i \in Images : image[i].live /\ image[i].name = n

CreateImage(r) ==
    \E n \in Names, p \in Repos \cup {Nothing} :
        /\ ~ CheckImageName(n)
        /\ Begin(r, IF p = Nothing THEN "findSet" ELSE "findRepo",
                 [NoImage EXCEPT !.name = n, !.version = 1, !.repo = p], 0)
        /\ UNCHANGED <<tables, found>>

\* UpdateImage: only the image with the highest version of its set can be upgraded.  The
\* client asks for the version after it.
LatestVersion(s) ==
    LET highest == {i \in LiveImages(s) :
                        \A j \in LiveImages(s) : image[j].version <= image[i].version}
    IN  Lowest(highest)

GetImageByID(r) ==
    \E i \in Images, p \in Repos \cup {Nothing} :
        /\ image[i].live
        /\ Begin(r, "checkLatest",
                 [image[i] EXCEPT !.repo = p, !.url = Nothing, !.version = @ + 1], i)
        /\ UNCHANGED <<tables, found>>

\* Mutant: any version can be upgraded.
CheckIfSetHasImages(r) ==
    LET m == mem[r] IN
    /\ pc[r] = "checkLatest"
    /\ IF LiveImages(m.row.set) # {}
       THEN Read(r, IF m.row.repo = Nothing THEN "getSet" ELSE "findRepo")
       ELSE Refuse(r)

CheckIfIsLatestVersion(r) ==
    LET m == mem[r] IN
    /\ pc[r] = "checkLatest"
    /\ IF LiveImages(m.row.set) # {} /\ LatestVersion(m.row.set) = m.id
       THEN Read(r, IF m.row.repo = Nothing THEN "getSet" ELSE "findRepo")
       ELSE Refuse(r)

\* The repositories are read here and go to Image Builder; the rows that the images are
\* linked to are not looked at again.
GetImageReposFromDB(r) ==
    LET m == mem[r] IN
    /\ pc[r] = "findRepo"
    /\ IF repo[m.row.repo].live
       THEN Learn(r, IF m.id = 0 THEN "findSet" ELSE "getSet",
                  [m EXCEPT !.row.url = repo[m.row.repo].url])
       ELSE Refuse(r)

\* Mutant: every new image gets a new image set.
AlwaysCreateSet(r) == pc[r] = "findSet" /\ Read(r, "createSet")

\* An image set of that name without images is used again.
GetImageSetForNewImage(r) ==
    LET m == mem[r]
        named == {s \in Sets : imageSet[s].live /\ imageSet[s].name = m.row.name}
    IN  /\ pc[r] = "findSet"
        /\ \/ named = {} /\ Read(r, "createSet")
           \/ /\ named # {} /\ LiveImages(Lowest(named)) = {}
              /\ Learn(r, "compose", [m EXCEPT !.row.set = Lowest(named)])
           \/ named # {} /\ LiveImages(Lowest(named)) # {} /\ Refuse(r)

CreateSet(r) ==
    /\ pc[r] = "createSet"
    /\ \E s \in Sets :
          /\ \A t \in Sets : imageSet[t] = NoSet <=> t >= s
          /\ imageSet' = [imageSet EXCEPT ![s] = [live |-> TRUE, name |-> mem[r].row.name]]
          /\ mem' = [mem EXCEPT ![r].row.set = s]
    /\ Goto(r, "compose")
    /\ UNCHANGED <<image, repo, device>>

\* UpdateImage reads the image set and saves it with the new version.  If the row was
\* deleted in between, the save brings it back or fails.
GetImageSet(r) ==
    /\ pc[r] = "getSet"
    /\ IF imageSet[mem[r].row.set].live THEN Read(r, "saveSet") ELSE Refuse(r)

SaveImageSet(r) ==
    LET s == mem[r].row.set IN
    /\ pc[r] = "saveSet"
    /\ \/ /\ imageSet' = [imageSet EXCEPT ![s].live = TRUE]
          /\ Goto(r, "getParent")
          /\ UNCHANGED <<image, repo, device, mem>>
       \/ ~ imageSet[s].live /\ Refuse(r)

\* Mutant: the image upgraded, whether it was built or not.
GetPreviousImage(r) ==
    /\ pc[r] = "getParent"
    /\ Learn(r, "compose", [mem[r] EXCEPT !.row.parent = mem[r].id, !.id = 0])

\* The image whose commit the upgrade extends: the one upgraded if it was SUCCESS when it
\* was read, else the last one before it that is.
GetLatestPreviousSuccessfulImage(r) ==
    LET m == mem[r]
        built == {i \in LiveImages(m.row.set) : i < m.id /\ image[i].status = "SUCCESS"}
        parent == IF m.row.status = "SUCCESS" THEN m.id
                  ELSE IF built = {} THEN 0
                  ELSE CHOOSE i \in built : \A j \in built : j <= i
    IN  /\ pc[r] = "getParent"
        /\ Learn(r, "compose", [m EXCEPT !.row.parent = parent, !.id = 0])

\* Image Builder accepts the compose request.
ComposeCommit(r) ==
    /\ pc[r] = "compose"
    /\ Read(r, IF mem[r].id = 0 THEN "insert" ELSE "saveRetry")

InsertImage(r) ==
    /\ pc[r] = "insert"
    /\ Unused # {}
    /\ image' = [image EXCEPT
           ![Lowest(Unused)] = [mem[r].row EXCEPT !.live = TRUE, !.status = "BUILDING"]]
    /\ End(r)
    /\ UNCHANGED <<imageSet, repo, device>>

\* RetryCreateImage: clients retry images in ERROR.  The repositories are read with the
\* image.
LoadForRetry(r) ==
    \E i \in Images :
        LET p == image[i].repo
            used == p # Nothing /\ repo[p].live
        IN  /\ image[i].live /\ image[i].status = "ERROR"
            /\ Begin(r, "compose",
                     [image[i] EXCEPT !.url = IF used THEN repo[p].url ELSE Nothing], i)
            /\ UNCHANGED <<tables, found>>

\* Mutant: the image gets the status of the installer.
SetInstallerStatus(r) ==
    /\ pc[r] = "saveRetry"
    /\ image' = [image EXCEPT
           ![mem[r].id] = [mem[r].row EXCEPT !.live = TRUE, !.status = "CREATED"]]
    /\ End(r)
    /\ UNCHANGED <<imageSet, repo, device>>

SetBuildingStatusOnImageToRetryBuild(r) ==
    /\ pc[r] = "saveRetry"
    /\ image' = [image EXCEPT
           ![mem[r].id] = [mem[r].row EXCEPT !.live = TRUE, !.status = "BUILDING"]]
    /\ End(r)
    /\ UNCHANGED <<imageSet, repo, device>>

-------------------------------------------------------------------------------
(* Deleting images and image sets.                                         *)

\* DeleteImage refuses an image that is not in ERROR, by the copy it was given.
LoadForDelete(r) ==
    \E i \in Images :
        /\ image[i].live /\ image[i].status = "ERROR"
        /\ Begin(r, "countImages", image[i], i)
        /\ UNCHANGED <<tables, found>>

\* The image set is looked up by the name, with its images.
CountImages(r) ==
    LET m == mem[r]
        named == {s \in Sets : imageSet[s].live /\ imageSet[s].name = m.row.name}
    IN  /\ pc[r] = "countImages"
        /\ IF named = {} THEN Refuse(r)
           ELSE Learn(r, "deleteImage",
                      [m EXCEPT !.row.set = Lowest(named),
                                !.last = Cardinality(LiveImages(Lowest(named))) <= 1])

DeleteImage(r) ==
    /\ pc[r] = "deleteImage"
    /\ image' = [image EXCEPT ![mem[r].id].live = FALSE]
    /\ IF mem[r].last THEN Goto(r, "deleteSet") /\ UNCHANGED mem ELSE End(r)
    /\ UNCHANGED <<imageSet, repo, device>>

DeleteSet(r) ==
    /\ pc[r] = "deleteSet"
    /\ imageSet' = [imageSet EXCEPT ![mem[r].row.set].live = FALSE]
    /\ End(r)
    /\ UNCHANGED <<image, repo, device>>

\* Mutant: only devices that run the latest image count.
RunsLatestImageOf(s) ==
    {d \in Devices : device[d] # 0 /\ image[device[d]].live /\ image[device[d]].set = s
                     /\ device[d] = LatestVersion(s)}

\* An image set is in use when a device runs one of its images, deleted ones included.
\* A build or a device that is on its way is not seen.
RunsImageOf(s) == {d \in Devices : device[d] # 0 /\ image[device[d]].set = s}

OnTheWay(s) ==
    \/ \E i \in Images : image[i].set = s /\ image[i].status = "BUILDING"
    \/ \E d \in Devices : found[d] # 0 /\ image[found[d]].set = s

GetDeviceIdsByImageSetID(r) ==
    \E s \in Sets :
        LET n == imageSet[s].name
            rivals == {q \in Active : mem[q].row.name = n}
        IN  /\ imageSet[s].live /\ RunsImageOf(s) = {}
            /\ pc[r] = "idle" /\ begun < MaxRequests
            /\ begun' = begun + 1
            /\ Goto(r, "firstSet")
            /\ mem' = [mem EXCEPT ![r].row = [NoImage EXCEPT !.name = n, !.set = s]]
            /\ contested' = IF rivals # {} \/ OnTheWay(s) THEN contested \cup {n}
                            ELSE contested
            /\ UNCHANGED <<tables, found>>

FirstImageSet(r) ==
    /\ pc[r] = "firstSet"
    /\ IF imageSet[mem[r].row.set].live THEN Read(r, "deleteAll") ELSE Refuse(r)

\* One transaction.
DeleteImageSet(r) ==
    LET s == mem[r].row.set IN
    /\ pc[r] = "deleteAll"
    /\ image' = [i \in Images |->
           IF image[i].set = s THEN [image[i] EXCEPT !.live = FALSE] ELSE image[i]]
    /\ imageSet' = [imageSet EXCEPT ![s].live = FALSE]
    /\ End(r)
    /\ UNCHANGED <<repo, device>>

-------------------------------------------------------------------------------
(* Custom repositories.                                                    *)

UrlExists(u) == \E p \in Repos : repo[p].live /\ repo[p].url = u
ImagesOf(p, statuses) ==
    {i \in Images : image[i].live /\ image[i].repo = p /\ image[i].status \in statuses}

CreateThirdPartyRepo(r) ==
    \/ \E p \in Repos, u \in Urls :
          /\ repo[p] = NoUrl /\ ~ UrlExists(u)
          /\ \A q \in Requests : pc[q] = "insertRepo" => mem[q].row.repo # p
          /\ Begin(r, "insertRepo", [NoImage EXCEPT !.repo = p, !.url = u], 0)
          /\ UNCHANGED <<tables, found>>
    \/ /\ pc[r] = "insertRepo"
       /\ repo' = [repo EXCEPT ![mem[r].row.repo] = [live |-> TRUE, url |-> mem[r].row.url]]
       /\ End(r)
       /\ UNCHANGED <<image, imageSet, device, found, begun, contested>>

\* Mutant: an image that is being built does not forbid another address.
Built == {"SUCCESS"}

\* The statuses of images that forbid another address.
Settled == {"SUCCESS", "BUILDING"}

UpdateThirdPartyRepo(r) ==
    LET m == mem[r].row IN
    \/ \E p \in Repos, u \in Urls :
          /\ repo[p].live
          /\ Begin(r, IF repo[p].url = u THEN "saveRepo" ELSE "findUrl",
                   [NoImage EXCEPT !.repo = p, !.url = u], 0)
          /\ UNCHANGED <<tables, found>>
    \/ /\ \/ /\ pc[r] = "findUrl"
             /\ IF UrlExists(m.url) THEN Refuse(r) ELSE Read(r, "findImages")
          \/ /\ pc[r] = "findImages"
             /\ IF ~ repo[m.repo].live \/ ImagesOf(m.repo, Settled) # {}
                THEN Refuse(r) ELSE Read(r, "saveRepo")
          \/ /\ pc[r] = "saveRepo"
             /\ repo' = [repo EXCEPT ![m.repo] = [live |-> TRUE, url |-> m.url]]
             /\ End(r)
             /\ UNCHANGED <<image, imageSet, device>>
       /\ UNCHANGED <<found, begun, contested>>

DeleteThirdPartyRepo(r) ==
    LET p == mem[r].row.repo IN
    \/ \E q \in Repos :
          /\ repo[q].live
          /\ Begin(r, "anyImages", [NoImage EXCEPT !.repo = q], 0)
          /\ UNCHANGED <<tables, found>>
    \/ /\ \/ /\ pc[r] = "anyImages"
             /\ IF ~ repo[p].live \/ ImagesOf(p, Statuses) # {}
                THEN Refuse(r) ELSE Read(r, "deleteRepo")
          \/ /\ pc[r] = "deleteRepo"
             /\ repo' = [repo EXCEPT ![p].live = FALSE]
             /\ End(r)
             /\ UNCHANGED <<image, imageSet, device>>
       /\ UNCHANGED <<found, begun, contested>>

-------------------------------------------------------------------------------
(* Builds and devices.                                                     *)

\* A build ends and saves its copy of the row.
SetFinalImageStatus(i) ==
    /\ image[i].status = "BUILDING"
    /\ \E status \in {"SUCCESS", "ERROR"} :
          image' = [image EXCEPT ![i].status = status, ![i].live = TRUE]
    /\ UNCHANGED <<imageSet, repo, device, found, pc, mem, begun, contested>>

\* A device reports a commit: its image is looked up, and then saved in the device's row.
ReportImage(d) ==
    /\ \/ \E i \in Images :
             /\ found[d] = 0
             /\ image[i].live /\ image[i].status = "SUCCESS"
             /\ found' = [found EXCEPT ![d] = i]
             /\ contested' = contested \cup
                    ({image[i].name} \cap {mem[r].row.name : r \in Active})
             /\ UNCHANGED device
       \/ /\ found[d] # 0
          /\ device' = [device EXCEPT ![d] = found[d]]
          /\ found' = [found EXCEPT ![d] = 0]
          /\ UNCHANGED contested
    /\ UNCHANGED <<image, imageSet, repo, pc, mem, begun>>

\* Another service or the database fails, or the process ends: the request goes no
\* further.
Fail(r) ==
    /\ pc[r] # "idle"
    /\ Refuse(r)

-------------------------------------------------------------------------------
Init ==
    /\ image = [i \in Images |-> NoImage]
    /\ imageSet = [s \in Sets |-> NoSet]
    /\ repo = [p \in Repos |-> NoUrl]
    /\ device = [d \in Devices |-> 0]
    /\ found = [d \in Devices |-> 0]
    /\ pc = [r \in Requests |-> "idle"]
    /\ mem = [r \in Requests |-> NoMemory]
    /\ begun = 0
    /\ contested = {}

Start(r) ==
    \/ CreateImage(r) \/ GetImageByID(r) \/ LoadForRetry(r)
    \/ LoadForDelete(r) \/ GetDeviceIdsByImageSetID(r)

Continue(r) ==
    /\ \/ CheckIfIsLatestVersion(r) \/ GetImageReposFromDB(r) \/ GetImageSetForNewImage(r)
       \/ CreateSet(r) \/ GetImageSet(r) \/ SaveImageSet(r)
       \/ GetLatestPreviousSuccessfulImage(r) \/ ComposeCommit(r) \/ InsertImage(r)
       \/ SetBuildingStatusOnImageToRetryBuild(r)
       \/ CountImages(r) \/ DeleteImage(r) \/ DeleteSet(r)
       \/ FirstImageSet(r) \/ DeleteImageSet(r) \/ Fail(r)
    /\ UNCHANGED <<found, begun, contested>>

Next ==
    \/ \E r \in Requests :
          \/ Start(r) \/ Continue(r)
          \/ CreateThirdPartyRepo(r) \/ UpdateThirdPartyRepo(r) \/ DeleteThirdPartyRepo(r)
    \/ \E i \in Images : SetFinalImageStatus(i)
    \/ \E d \in Devices : ReportImage(d)

Spec == Init /\ [][Next]_vars

-------------------------------------------------------------------------------
(* Properties.                                                             *)

\* The steps of creating, upgrading and retrying, of deleting, and of the repositories.
Labels ==
    {"idle", "findRepo", "findSet", "createSet", "checkLatest", "getSet", "saveSet",
     "getParent", "compose", "insert", "saveRetry"}
    \cup {"countImages", "deleteImage", "deleteSet", "firstSet", "deleteAll"}
    \cup {"insertRepo", "findUrl", "findImages", "saveRepo", "anyImages", "deleteRepo"}

\* Every variable has its type.
TypeOK ==
    /\ image \in [Images -> ImageRows]
    /\ imageSet \in [Sets -> SetRows]
    /\ repo \in [Repos -> RepoRows]
    /\ device \in [Devices -> 0..MaxImage]
    /\ found \in [Devices -> 0..MaxImage]
    /\ pc \in [Requests -> Labels]
    /\ mem \in [Requests -> Memories]
    /\ begun \in 0..MaxRequests
    /\ contested \subseteq Names \cup Repos

Calm(i) == {image[i].name, image[i].repo} \cap contested = {}

\* An image set is known by its name: the device groups, the views and DeleteImage look it
\* up by it.  Two sets that are there never have one name, whatever requests failed in
\* between, unless two requests were at the name at a time.
NameIsUnique ==
    \A s, t \in Sets :
        imageSet[s].live /\ imageSet[t].live /\ imageSet[s].name = imageSet[t].name
            => s = t \/ imageSet[s].name \in contested

\* Two images of a set have different versions: which image is the latest, and what a
\* device must be updated to, is decided by them.
VersionIsUnique ==
    \A s \in Sets : \A i, j \in LiveImages(s) :
        image[i].version = image[j].version => i = j \/ image[i].name \in contested

\* The comment of CheckIfIsLatestVersion: "make sure that there is no same image version
\* present".  It reads, and the new version is written after Image Builder has answered.
NoSameVersion ==
    \A s \in Sets : \A i, j \in LiveImages(s) :
        image[i].version = image[j].version /\ image[i].version > 1 => i = j

\* What a device runs is not deleted: neither the image nor its set (DeleteImageSet refuses
\* a set in use, DeleteImage an image that devices can have).
InUseIsKept ==
    \A d \in Devices :
        LET i == device[d] IN
        i # 0 /\ image[i].name \notin contested
            => image[i].live /\ imageSet[image[i].set].live

\* The repository of an image that was built or is being built is there and has the address
\* the image was composed with (thirdPartyRepoImagesExists).
RepoOfImage ==
    \A i \in Images :
        LET p == image[i].repo IN
        image[i].live /\ image[i].status \in {"BUILDING", "SUCCESS"} /\ p # Nothing /\ Calm(i)
            => repo[p].live /\ repo[p].url = image[i].url

\* The commit of an upgrade extends one that exists: that of an earlier image of the set
\* whose build ended in success and is not repeated.
ParentIsReal ==
    \A i \in Images :
        LET j == image[i].parent IN
        j # 0 => /\ j < i /\ image[j].set = image[i].set
                 /\ image[j].status = "SUCCESS" \/ image[j].name \in contested
===============================================================================
