----------------------------- MODULE CatalogProofs -----------------------------
(***************************************************************************)
(* Proofs about ImageCatalog: names and versions are unique, what devices  *)
(* run is kept, images agree with their repositories and parents, for any  *)
(* number of requests, names, repositories, devices, images and sets.      *)
(***************************************************************************)
EXTENDS ImageCatalog, FiniteSetTheorems, WellFoundedInduction, TLAPS

\* A row that was inserted.
Used(i) == image[i].status # "none"

Name(r) == mem[r].row.name
Quiet(n) == n \in Names /\ n \notin contested

\* What the requests are doing.
Creating(r) == pc[r] \in {"findSet", "createSet"} \/ (pc[r] = "findRepo" /\ mem[r].id = 0)
Upgrading(r) ==
    \/ pc[r] \in {"checkLatest", "getSet", "saveSet", "getParent"}
    \/ pc[r] = "findRepo" /\ mem[r].id # 0
Inserting(r) == pc[r] = "insert" \/ (pc[r] = "compose" /\ mem[r].id = 0)
Retrying(r) == pc[r] = "saveRetry" \/ (pc[r] = "compose" /\ mem[r].id # 0)
Deleting(r) == pc[r] \in {"countImages", "deleteImage", "deleteSet"}
Clearing(r) == pc[r] \in {"firstSet", "deleteAll"}
RepoLabels == {"insertRepo", "findUrl", "findImages", "saveRepo", "anyImages", "deleteRepo"}

\* The references between the rows, whatever the requests do.
ImageLink(i) ==
    /\ image[i].name \in Names
    /\ image[i].set \in Sets /\ imageSet[image[i].set].name = image[i].name
    /\ \A j \in Images : j < i => Used(j)
    /\ image[i].parent # 0 =>
           /\ image[i].parent < i
           /\ image[image[i].parent].set = image[i].set

TablesInv ==
    /\ \A i \in Images : Used(i) => ImageLink(i)
    /\ \A i \in Images :
          ~ Used(i) => ~ image[i].live /\ image[i].name = Nothing /\ image[i].parent = 0
    /\ \A s \in Sets : imageSet[s].name = Nothing => imageSet[s] = NoSet
    /\ \A d \in Devices : \A i \in {device[d], found[d]} : i # 0 => Used(i)

SameRow(row, i) ==
    /\ row.name = image[i].name /\ row.set = image[i].set /\ row.version = image[i].version
    /\ row.repo = image[i].repo /\ row.parent = image[i].parent

\* The references of a request's memory to the rows.
MemoryLink(r) ==
    LET row == mem[r].row
        i == mem[r].id
        s == mem[r].row.set
    IN
    /\ Creating(r) => row.name \in Names /\ s = 0 /\ i = 0 /\ row.parent = 0
    /\ Upgrading(r) =>
           /\ i \in Images /\ Used(i) /\ row.name = image[i].name
           /\ s = image[i].set /\ row.version = image[i].version + 1
    /\ Inserting(r) =>
           /\ i = 0 /\ row.name \in Names /\ s \in Sets /\ imageSet[s].name = row.name
           /\ row.parent # 0 => Used(row.parent) /\ image[row.parent].set = s
    /\ Retrying(r) => i \in Images /\ Used(i) /\ SameRow(row, i)
    /\ Deleting(r) =>
           /\ i \in Images /\ Used(i) /\ row.name = image[i].name
           /\ pc[r] # "countImages" => s \in Sets /\ imageSet[s].name = row.name
    /\ pc[r] = "findRepo" => row.repo \in Repos
    /\ Clearing(r) => row.name \in Names /\ s \in Sets /\ imageSet[s].name = row.name
    /\ pc[r] \in RepoLabels => row.name = Nothing /\ row.repo \in Repos

\* Two requests under way have no name and no repository in common that is not contested.
At(r) == {mem[r].row.name, mem[r].row.repo} \ {Nothing}
ApartInv ==
    \A r, q \in Active : r # q => At(r) \cap At(q) \subseteq contested

\* The rows of a name at which requests never met.
ImageInv(i) ==
    /\ image[i].status = "BUILDING" => image[i].live
    /\ image[i].live => imageSet[image[i].set].live
    /\ image[i].parent # 0 => image[image[i].parent].status = "SUCCESS"
    /\ \A d \in Devices : i \in {device[d], found[d]} => image[i].live /\ image[i].status = "SUCCESS"

SetInv(s) ==
    /\ \A t \in Sets : imageSet[s].live /\ imageSet[t].live /\ imageSet[s].name = imageSet[t].name
                           => s = t
    /\ \A i, j \in LiveImages(s) : image[i].version = image[j].version => i = j

RowsInv ==
    /\ \A i \in Images : Used(i) /\ Quiet(image[i].name) => ImageInv(i)
    /\ \A s \in Sets : Quiet(imageSet[s].name) => SetInv(s)

\* What a request at such a name knows.
RequestKnows(r) ==
    LET row == mem[r].row
        i == mem[r].id
        s == mem[r].row.set
    IN
    /\ pc[r] = "createSet" => \A t \in Sets : imageSet[t].name = row.name => ~ imageSet[t].live
    /\ Upgrading(r) /\ row.status = "SUCCESS" => image[i].status = "SUCCESS"
    /\ pc[r] \in {"saveSet", "getParent"} \/ Inserting(r) => imageSet[s].live
    /\ Creating(r) \/ (Upgrading(r) /\ pc[r] # "checkLatest") \/ Inserting(r) =>
           \A j \in LiveImages(s) : image[j].version < row.version
    /\ Inserting(r) /\ row.parent # 0 => image[row.parent].status = "SUCCESS"
    /\ Retrying(r) \/ pc[r] \in {"countImages", "deleteImage"} =>
           image[i].live /\ image[i].status = "ERROR"
    /\ pc[r] = "deleteImage" /\ mem[r].last => LiveImages(s) \subseteq {i}
    /\ pc[r] = "deleteSet" => LiveImages(s) = {}
    /\ Clearing(r) =>
           /\ \A j \in Images : image[j].set = s => image[j].status # "BUILDING"
           /\ \A d \in Devices : \A j \in {device[d], found[d]} : j # 0 => image[j].set # s

\* Images, requests and repositories.
Uses(i, p) == Used(i) /\ image[i].live /\ image[i].repo = p /\ Calm(i)

UseInv ==
    \A i \in Images : \A p \in Repos :
        Uses(i, p) =>
            /\ repo[p].live
            /\ image[i].status \in Settled => repo[p].url = image[i].url

HasUrl == {"findSet", "createSet", "getSet", "saveSet", "getParent", "compose", "insert",
           "saveRetry"}

RepoKnows(r) ==
    LET p == mem[r].row.repo IN
    /\ pc[r] \in HasUrl /\ p # Nothing /\ Name(r) \notin contested =>
           repo[p].live /\ repo[p].url = mem[r].row.url
    /\ pc[r] = "saveRepo" /\ repo[p].url # mem[r].row.url =>
           \A i \in Images : Uses(i, p) => image[i].status \notin Settled
    /\ pc[r] \in {"insertRepo", "deleteRepo"} => \A i \in Images : ~ Uses(i, p)

Knows(r) ==
    /\ MemoryLink(r)
    /\ pc[r] # "idle" /\ Quiet(Name(r)) => RequestKnows(r)
    /\ pc[r] # "idle" /\ mem[r].row.repo \notin contested => RepoKnows(r)

Inv ==
    /\ TypeOK /\ TablesInv /\ RowsInv /\ UseInv /\ ApartInv
    /\ \A r \in Requests : Knows(r)

-------------------------------------------------------------------------------
(* What the operators return.                                              *)

LEMMA LessThanIsWellFounded ==
    \E R : IsWellFoundedOn(R, Nat) /\ \A j, k \in Nat : <<j, k>> \in R <=> j < k
<1>1. \A j, k \in Nat : <<j, k>> \in OpToRel(<, Nat) <=> j < k
    BY DEF OpToRel
<1> QED
    BY <1>1, NatLessThanWellFounded, Zenon

LEMMA LeastExists ==
    ASSUME NEW S \in SUBSET Nat, S # {}
    PROVE  \E k \in S : \A j \in S : k <= j
<1>1. PICK R : IsWellFoundedOn(R, Nat) /\ \A j, k \in Nat : <<j, k>> \in R <=> j < k
    BY LessThanIsWellFounded
<1>2. \E k \in S : \A j \in S : ~ (<<j, k>> \in R)
  <2>1. IsWellFoundedOn(R, Nat) /\ S \subseteq Nat
      BY <1>1
  <2> QED
      BY ONLY <2>1, S # {}, WFMin, Zenon
<1>3. PICK k \in S : \A j \in S : ~ (<<j, k>> \in R)
    BY <1>2
<1>4. \A j \in S : ~ (j < k)
    BY <1>1, <1>3
<1>5. \A j \in S : k <= j
    BY <1>4
<1> QED
    BY <1>5

LEMMA LowestIsLeast ==
    ASSUME NEW S \in SUBSET Nat, S # {}
    PROVE  Lowest(S) \in S /\ \A y \in S : Lowest(S) <= y
BY LeastExists DEF Lowest

\* A finite set has an element with the greatest number.  Above it there are the fewest.
LEMMA GreatestExists ==
    ASSUME NEW S, IsFiniteSet(S), S # {}, NEW f, \A x \in S : f[x] \in Nat
    PROVE  \E x \in S : \A y \in S : f[y] <= f[x]
<1> DEFINE Above(x) == {y \in S : f[y] > f[x]}
           Counts == {Cardinality(Above(x)) : x \in S}
<1>1. \A x \in S : IsFiniteSet(Above(x)) /\ Cardinality(Above(x)) \in Nat
  <2>1. \A x \in S : Above(x) \in SUBSET S
      OBVIOUS
  <2> QED
      BY <2>1, FS_Subset, FS_CardinalityType
<1>2. PICK x \in S : \A y \in S : Cardinality(Above(x)) <= Cardinality(Above(y))
  <2>1. Counts \in SUBSET Nat /\ Counts # {}
      BY <1>1
  <2>2. PICK c \in Counts : \A e \in Counts : c <= e
      BY <2>1, LeastExists
  <2> QED
      BY <2>2
<1>3. ASSUME NEW y \in S, f[y] > f[x]  PROVE FALSE
  <2>1. Above(y) \in SUBSET Above(x) /\ y \in Above(x) /\ y \notin Above(y)
      BY <1>3
  <2>2. Cardinality(Above(y)) <= Cardinality(Above(x))
      BY <1>1, <2>1, FS_Subset
  <2>3. Cardinality(Above(y)) = Cardinality(Above(x))
    <3>1. Cardinality(Above(x)) <= Cardinality(Above(y))
        BY <1>2
    <3>2. Cardinality(Above(x)) \in Nat /\ Cardinality(Above(y)) \in Nat
        BY <1>1, <1>3
    <3> QED
        BY <3>1, <3>2, <2>2
  <2>4. Above(y) = Above(x)
      BY <1>1, <2>1, <2>3, FS_Subset
  <2> QED
      BY <2>1, <2>4
<1>4. \A y \in S : f[y] <= f[x]
    BY <1>3
<1> QED
    BY <1>4

LEMMA IdsAreNumbers ==
    /\ Images \subseteq Nat \ {0} /\ Sets \subseteq Nat \ {0} /\ IsFiniteSet(Images)
    /\ Images \subseteq 0..MaxImage /\ Sets \subseteq 0..MaxSet
    /\ \A s : LiveImages(s) \subseteq Images /\ IsFiniteSet(LiveImages(s))
<1>1. IsFiniteSet(Images) /\ \A s : LiveImages(s) \in SUBSET Images
    BY CatalogAssumption, FS_Interval DEF Images, LiveImages
<1>2. \A s : IsFiniteSet(LiveImages(s))
    BY <1>1, FS_Subset
<1> QED
    BY <1>1, <1>2, CatalogAssumption DEF Images, Sets

\* The latest version is one of the set, and none is later.
LEMMA LatestIsGreatest ==
    ASSUME TypeOK, NEW s, LiveImages(s) # {}
    PROVE  /\ LatestVersion(s) \in LiveImages(s)
           /\ \A j \in LiveImages(s) : image[j].version <= image[LatestVersion(s)].version
<1> DEFINE L == LiveImages(s)
           f == [i \in L |-> image[i].version]
           highest == {i \in L : \A j \in L : image[j].version <= image[i].version}
<1>1. \A i \in L : f[i] = image[i].version /\ f[i] \in Nat
    BY IdsAreNumbers DEF TypeOK, ImageRows
<1>2. PICK x \in L : \A y \in L : f[y] <= f[x]
  <2> HIDE DEF f
  <2> QED
      BY <1>1, IdsAreNumbers, GreatestExists
<1>3. highest \in SUBSET Nat /\ highest # {}
    BY <1>1, <1>2, IdsAreNumbers
<1>4. Lowest(highest) \in highest
    BY <1>3, LowestIsLeast
<1>5. LatestVersion(s) = Lowest(highest)
    BY DEF LatestVersion
<1> QED
    BY <1>4, <1>5

\* The last of some images.
LEMMA LastExists ==
    ASSUME NEW S \in SUBSET Images, S # {}
    PROVE  \E i \in S : \A j \in S : j <= i
<1> DEFINE f == [i \in S |-> i]
<1>1. IsFiniteSet(S) /\ \A i \in S : f[i] = i /\ f[i] \in Nat
    BY IdsAreNumbers, FS_Subset
<1> HIDE DEF f
<1>2. \E i \in S : \A j \in S : f[j] <= f[i]
    BY <1>1, GreatestExists
<1> QED
    BY <1>1, <1>2

-------------------------------------------------------------------------------
(* Steps that only read.                                                   *)

LEMMA IdleKnows == ASSUME NEW r \in Requests, pc[r] = "idle"  PROVE Knows(r)
BY DEF Knows, MemoryLink, Creating, Upgrading, Inserting, Retrying, Deleting, Clearing, RepoLabels

\* What another request knows stays true.
LEMMA OthersKnow ==
    ASSUME NEW q \in Requests, Knows(q), UNCHANGED <<tables, found>>,
           pc'[q] = pc[q], mem'[q] = mem[q], contested \subseteq contested'
    PROVE  Knows(q)'
<1>1. MemoryLink(q)'
    BY DEF Knows, MemoryLink, tables, Used, SameRow, Creating, Upgrading, Inserting, Retrying,
           Deleting, Clearing
<1>2. RequestKnows(q) => RequestKnows(q)'
    BY DEF RequestKnows, tables, LiveImages, Creating, Upgrading, Inserting, Retrying, Clearing
<1>3. RepoKnows(q) => RepoKnows(q)'
    BY DEF RepoKnows, tables, Name, Uses, Used, Calm
<1> QED
    BY <1>1, <1>2, <1>3 DEF Knows, Name, Quiet

LEMMA SameRows ==
    ASSUME TablesInv, RowsInv, UseInv, UNCHANGED <<tables, found>>, contested \subseteq contested'
    PROVE  TablesInv' /\ RowsInv' /\ UseInv'
<1>1. TablesInv'
    BY DEF TablesInv, ImageLink, Used, tables
<1>2. RowsInv'
    BY DEF RowsInv, ImageInv, SetInv, LiveImages, Used, Quiet, tables
<1>3. UseInv'
    BY DEF UseInv, Uses, Calm, Used, tables
<1> QED
    BY <1>1, <1>2, <1>3

\* What a request memorizes, m, goes with the rows.
LEMMA ReadStep ==
    ASSUME Inv, NEW r \in Requests, NEW label \in Labels, NEW m \in Memories,
           pc' = [pc EXCEPT ![r] = label], mem' = [mem EXCEPT ![r] = m],
           UNCHANGED <<tables, found>>, begun' \in 0..MaxRequests,
           contested \subseteq contested', contested' \subseteq Names \cup Repos,
           Knows(r)',
           label # "idle" =>
               \A q \in Requests \ {r} :
                   pc[q] # "idle" =>
                       {m.row.name, m.row.repo} \cap {mem[q].row.name, mem[q].row.repo}
                           \subseteq contested' \cup {Nothing}
    PROVE  Inv'
<1>1. /\ pc \in [Requests -> Labels] /\ mem \in [Requests -> Memories]
      /\ pc'[r] = label /\ mem'[r] = m
      /\ \A q \in Requests \ {r} : pc'[q] = pc[q] /\ mem'[q] = mem[q]
    BY DEF Inv, TypeOK
<1>2. TypeOK'
    BY <1>1 DEF Inv, TypeOK, tables
<1>3. TablesInv' /\ RowsInv' /\ UseInv'
    BY SameRows DEF Inv
<1>4. ApartInv'
  <2> SUFFICES ASSUME NEW p \in Requests, NEW q \in Requests, p # q,
                      pc'[p] # "idle", pc'[q] # "idle"
               PROVE  (At(p) \cap At(q))' \subseteq contested'
      BY DEF ApartInv, Active
  <2>1. CASE p # r /\ q # r
      BY <1>1, <2>1 DEF Inv, ApartInv, Active, At
  <2>2. CASE p = r
      BY <1>1, <2>2 DEF At
  <2>3. CASE q = r
      BY <1>1, <2>3 DEF At
  <2> QED
      BY <2>1, <2>2, <2>3
<1>5. \A q \in Requests : Knows(q)'
    BY <1>1, OthersKnow DEF Inv
<1> QED
    BY <1>2, <1>3, <1>4, <1>5 DEF Inv

\* A request that goes on keeps its name and its repository.
LEMMA LearnStep ==
    ASSUME Inv, NEW r \in Requests, NEW label \in Labels, NEW m \in Memories, pc[r] # "idle",
           pc' = [pc EXCEPT ![r] = label], mem' = [mem EXCEPT ![r] = m],
           UNCHANGED <<tables, found, begun, contested>>,
           m.row.name = mem[r].row.name, m.row.repo = mem[r].row.repo,
           Knows(r)'
    PROVE  Inv'
<1>1. begun' \in 0..MaxRequests /\ contested' \subseteq Names \cup Repos
    BY DEF Inv, TypeOK
<1>2. \A q \in Requests \ {r} :
          pc[q] # "idle" => {m.row.name, m.row.repo} \cap {mem[q].row.name, mem[q].row.repo}
                                \subseteq contested' \cup {Nothing}
    BY DEF Inv, ApartInv, Active, At
<1> QED
    BY <1>1, <1>2, ReadStep, Zenon

LEMMA NoMemoryType == NoMemory \in Memories
BY CatalogAssumption DEF NoMemory, Memories, NoImage, ImageRows, Statuses

LEMMA RefuseStep ==
    ASSUME Inv, NEW r \in Requests, Refuse(r), UNCHANGED <<found, begun, contested>>
    PROVE  Inv'
<1>1. pc' = [pc EXCEPT ![r] = "idle"] /\ mem' = [mem EXCEPT ![r] = NoMemory] /\ UNCHANGED tables
    BY DEF Refuse, End, Goto
<1>2. pc'[r] = "idle"
    BY <1>1 DEF Inv, TypeOK
<1>3. Knows(r)'
    BY <1>2 DEF Knows, MemoryLink, Creating, Upgrading, Inserting, Retrying, Deleting, Clearing,
                RepoLabels
<1>4. begun' \in 0..MaxRequests /\ contested' \subseteq Names \cup Repos
    BY DEF Inv, TypeOK
<1>5. "idle" \in Labels /\ contested \subseteq contested'
    BY DEF Labels
<1>6. "idle" # "idle" => \A q \in Requests \ {r} :
          pc[q] # "idle" =>
              {NoMemory.row.name, NoMemory.row.repo} \cap {mem[q].row.name, mem[q].row.repo}
                  \subseteq contested' \cup {Nothing}
    BY Zenon
<1> QED
    BY <1>1, <1>3, <1>4, <1>5, <1>6, NoMemoryType, ReadStep, Zenon

\* A request that begins meets those that are under way.
LEMMA BeginStep ==
    ASSUME Inv, NEW r \in Requests, NEW label \in Labels, NEW row \in ImageRows,
           NEW i \in 0..MaxImage, Begin(r, label, row, i), UNCHANGED <<tables, found>>,
           Knows(r)'
    PROVE  Inv'
<1> DEFINE m == [row |-> row, id |-> i, last |-> FALSE]
<1>1. m \in Memories /\ m.row = row
    BY DEF Memories
<1>2. pc' = [pc EXCEPT ![r] = label] /\ mem' = [mem EXCEPT ![r] = m]
    BY DEF Begin, Goto
<1>3. begun' \in 0..MaxRequests
    BY CatalogAssumption DEF Begin, Inv, TypeOK
<1>4. contested' = contested \cup
          {x \in {row.name, row.repo} \ {Nothing} :
              \E q \in Active : x \in {mem[q].row.name, mem[q].row.repo}}
    BY DEF Begin
<1>5. contested \subseteq contested' /\ contested' \subseteq Names \cup Repos
    BY <1>4 DEF Inv, TypeOK, ImageRows
<1>6. \A q \in Requests \ {r} :
          pc[q] # "idle" => {m.row.name, m.row.repo} \cap {mem[q].row.name, mem[q].row.repo}
                                \subseteq contested' \cup {Nothing}
    BY <1>1, <1>4 DEF Active
<1> HIDE DEF m
<1> QED
    BY <1>1, <1>2, <1>3, <1>5, <1>6, ReadStep, Zenon

-------------------------------------------------------------------------------
(* Requests begin.                                                         *)

\* The memory of a request that does not know anything yet but what it was asked.
LEMMA BeginFacts ==
    ASSUME Inv, NEW r \in Requests, NEW label \in Labels, NEW row, NEW i,
           Begin(r, label, row, i)
    PROVE  /\ pc'[r] = label /\ mem'[r].row = row /\ mem'[r].id = i
           /\ contested \subseteq contested'
BY DEF Inv, TypeOK, Begin, Goto

LEMMA NoSetIsEmpty == TablesInv => LiveImages(0) = {}
BY IdsAreNumbers DEF TablesInv, ImageLink, LiveImages

LEMMA LiveIsUsed ==
    ASSUME TypeOK, TablesInv, NEW i \in Images, image[i].live \/ image[i].status = "ERROR"
    PROVE  Used(i) /\ image[i].name \in Names /\ image[i] \in ImageRows
BY DEF TablesInv, ImageLink, Used, TypeOK

LEMMA NoImageType == NoImage \in ImageRows /\ 0 \in 0..MaxImage
<1>1. MaxImage \in Nat /\ MaxSet \in Nat
    BY CatalogAssumption
<1>2. 0 \in 0..MaxImage /\ 0 \in 0..MaxSet
    BY <1>1
<1> QED
    BY <1>2 DEF NoImage, ImageRows, Statuses

LEMMA CreateImageStep ==
    ASSUME Inv, NEW r \in Requests, CreateImage(r)
    PROVE  Inv'
<1>1. PICK n \in Names, p \in Repos \cup {Nothing} :
          /\ Begin(r, IF p = Nothing THEN "findSet" ELSE "findRepo",
                   [NoImage EXCEPT !.name = n, !.version = 1, !.repo = p], 0)
          /\ UNCHANGED <<tables, found>>
    BY DEF CreateImage
<1> DEFINE row == [NoImage EXCEPT !.name = n, !.version = 1, !.repo = p]
           label == IF p = Nothing THEN "findSet" ELSE "findRepo"
<1>2. /\ row \in ImageRows /\ row.name = n /\ row.set = 0 /\ row.parent = 0 /\ row.repo = p
      /\ label \in Labels /\ label \in {"findSet", "findRepo"} /\ 0 \in 0..MaxImage
      /\ label = "findSet" <=> p = Nothing
  <2>1. NoImage \in ImageRows /\ 0 \in 0..MaxImage
      BY NoImageType
  <2>2. /\ row \in ImageRows /\ row.name = n /\ row.set = 0 /\ row.parent = 0 /\ row.repo = p
      BY <2>1 DEF NoImage, ImageRows
  <2> QED
      BY <2>1, <2>2 DEF Labels
<1>3. Begin(r, label, row, 0) /\ UNCHANGED <<tables, found>>
    BY <1>1
<1> HIDE DEF row, label
<1>4. pc'[r] = label /\ mem'[r].row = row /\ mem'[r].id = 0
    BY <1>2, <1>3, BeginFacts
<1>5. MemoryLink(r)'
    BY <1>2, <1>4 DEF MemoryLink, Creating, Upgrading, Inserting, Retrying, Deleting, Clearing,
                      RepoLabels
<1>6. RequestKnows(r)'
  <2>1. LiveImages(0)' = {}
      BY <1>3, NoSetIsEmpty DEF Inv, LiveImages, tables
  <2> QED
      BY <1>2, <1>4, <2>1
         DEF RequestKnows, Creating, Upgrading, Inserting, Retrying, Clearing
<1>7. RepoKnows(r)'
    BY <1>2, <1>4 DEF RepoKnows, HasUrl
<1> QED
    BY <1>2, <1>3, <1>5, <1>6, <1>7, BeginStep DEF Knows

LEMMA UpgradedRow ==
    ASSUME NEW row \in ImageRows, NEW p \in Repos \cup {Nothing}, NEW v \in Nat
    PROVE  [row EXCEPT !.repo = p, !.url = Nothing, !.version = v] \in ImageRows
BY DEF ImageRows

LEMMA UpgradeStep ==
    ASSUME Inv, NEW r \in Requests, GetImageByID(r)
    PROVE  Inv'
<1>1. PICK i \in Images, p \in Repos \cup {Nothing} :
          /\ image[i].live
          /\ Begin(r, "checkLatest",
                   [image[i] EXCEPT !.repo = p, !.url = Nothing, !.version = @ + 1], i)
          /\ UNCHANGED <<tables, found>>
    BY DEF GetImageByID
<1> DEFINE row == [image[i] EXCEPT !.repo = p, !.url = Nothing, !.version = @ + 1]
<1>2. Used(i) /\ image[i] \in ImageRows
    BY <1>1, LiveIsUsed DEF Inv
<1>3. /\ row \in ImageRows /\ row.name = image[i].name /\ row.set = image[i].set
      /\ row.version = image[i].version + 1 /\ row.status = image[i].status
      /\ i \in 0..MaxImage /\ i # 0 /\ "checkLatest" \in Labels
  <2>1. image[i].version + 1 \in Nat
      BY <1>2 DEF ImageRows
  <2>2. row \in ImageRows
      BY <1>2, <2>1, UpgradedRow
  <2>3. /\ row.name = image[i].name /\ row.set = image[i].set
        /\ row.version = image[i].version + 1 /\ row.status = image[i].status
      BY <1>2 DEF ImageRows
  <2> QED
      BY <2>2, <2>3, IdsAreNumbers DEF Labels
<1>4. Begin(r, "checkLatest", row, i) /\ UNCHANGED <<tables, found>>
    BY <1>1
<1> HIDE DEF row
<1>5. pc'[r] = "checkLatest" /\ mem'[r].row = row /\ mem'[r].id = i
    BY <1>3, <1>4, BeginFacts
<1>6. MemoryLink(r)'
    BY <1>2, <1>3, <1>4, <1>5
       DEF MemoryLink, Creating, Upgrading, Inserting, Retrying, Deleting, Clearing, RepoLabels,
           Used, tables
<1>7. RequestKnows(r)'
    BY <1>3, <1>4, <1>5
       DEF RequestKnows, Creating, Upgrading, Inserting, Retrying, Clearing, tables
<1>8. RepoKnows(r)'
    BY <1>5 DEF RepoKnows, HasUrl
<1> QED
    BY <1>3, <1>4, <1>6, <1>7, <1>8, BeginStep DEF Knows

\* A row in ERROR that is loaded, to be built again or to be deleted, stays so.
LEMMA LoadStep ==
    ASSUME Inv, NEW r \in Requests, NEW label \in {"compose", "countImages"}, NEW i \in Images,
           NEW row \in ImageRows, image[i].live, image[i].status = "ERROR", SameRow(row, i),
           label = "compose" => row.url = IF row.repo # Nothing /\ repo[row.repo].live
                                          THEN repo[row.repo].url ELSE Nothing,
           Begin(r, label, row, i), UNCHANGED <<tables, found>>
    PROVE  Inv'
<1>1. Used(i) /\ image[i].name \in Names
    BY LiveIsUsed DEF Inv
<1>2. label \in Labels /\ i \in 0..MaxImage /\ i # 0
    BY IdsAreNumbers DEF Labels
<1>3. pc'[r] = label /\ mem'[r].row = row /\ mem'[r].id = i /\ contested \subseteq contested'
    BY <1>2, BeginFacts
<1>4. MemoryLink(r)'
    BY <1>1, <1>2, <1>3
       DEF MemoryLink, Creating, Upgrading, Inserting, Retrying, Deleting, Clearing, RepoLabels,
           Used, SameRow, tables
<1>5. RequestKnows(r)'
    BY <1>2, <1>3 DEF RequestKnows, Creating, Upgrading, Inserting, Retrying, Clearing, tables
<1>6. ASSUME row.repo \notin contested'
      PROVE  RepoKnows(r)'
  <2>1. SUFFICES ASSUME label = "compose", row.repo # Nothing, row.name \notin contested'
                 PROVE  repo[row.repo].live /\ repo[row.repo].url = row.url
      BY <1>3 DEF RepoKnows, HasUrl, Name, tables
  <2>2. Uses(i, row.repo) /\ row.repo \in Repos
      BY <1>1, <1>3, <1>6, <2>1 DEF Uses, Calm, SameRow, ImageRows
  <2>3. repo[row.repo].live
      BY <2>2 DEF Inv, UseInv
  <2> QED
      BY <2>1, <2>3
<1> QED
    BY <1>2, <1>3, <1>4, <1>5, <1>6, BeginStep DEF Knows

LEMMA RetryStep ==
    ASSUME Inv, NEW r \in Requests, LoadForRetry(r)
    PROVE  Inv'
<1>1. PICK i \in Images :
          LET p == image[i].repo
              used == p # Nothing /\ repo[p].live
              row == [image[i] EXCEPT !.url = IF used THEN repo[p].url ELSE Nothing]
          IN  /\ image[i].live /\ image[i].status = "ERROR"
              /\ Begin(r, "compose", row, i)
              /\ UNCHANGED <<tables, found>>
    BY DEF LoadForRetry
<1> DEFINE p == image[i].repo
           used == p # Nothing /\ repo[p].live
           row == [image[i] EXCEPT !.url = IF used THEN repo[p].url ELSE Nothing]
<1>2. image[i] \in ImageRows /\ (p # Nothing => p \in Repos)
    BY DEF Inv, TypeOK, ImageRows
<1>3. (IF used THEN repo[p].url ELSE Nothing) \in Urls \cup {Nothing}
    BY <1>2 DEF Inv, TypeOK, RepoRows
<1>4. /\ row \in ImageRows /\ SameRow(row, i)
      /\ row.url = IF row.repo # Nothing /\ repo[row.repo].live
                   THEN repo[row.repo].url ELSE Nothing
    BY <1>2, <1>3 DEF ImageRows, SameRow
<1>5. /\ Begin(r, "compose", row, i) /\ UNCHANGED <<tables, found>>
      /\ image[i].live /\ image[i].status = "ERROR"
    BY <1>1
<1> HIDE DEF row
<1> QED
    BY <1>4, <1>5, LoadStep

LEMMA LoadForDeleteStep ==
    ASSUME Inv, NEW r \in Requests, LoadForDelete(r)
    PROVE  Inv'
<1>1. PICK i \in Images :
          /\ image[i].live /\ image[i].status = "ERROR"
          /\ Begin(r, "countImages", image[i], i)
          /\ UNCHANGED <<tables, found>>
    BY DEF LoadForDelete
<1>2. image[i] \in ImageRows /\ SameRow(image[i], i)
    BY DEF Inv, TypeOK, SameRow
<1> QED
    BY <1>1, <1>2, LoadStep

\* A request about a repository begins.
LEMMA RepoBegins ==
    ASSUME Inv, NEW r \in Requests, NEW label \in RepoLabels \ {"deleteRepo"}, NEW p \in Repos,
           NEW u \in Urls \cup {Nothing}, Begin(r, label, [NoImage EXCEPT !.repo = p, !.url = u], 0),
           UNCHANGED <<tables, found>>,
           label = "insertRepo" => ~ repo[p].live, label = "saveRepo" => repo[p].url = u
    PROVE  Inv'
<1> DEFINE row == [NoImage EXCEPT !.repo = p, !.url = u]
<1>1. /\ row \in ImageRows /\ row.name = Nothing /\ row.repo = p /\ row.url = u
      /\ label \in Labels /\ 0 \in 0..MaxImage
  <2>1. row \in ImageRows /\ row.name = Nothing /\ row.repo = p /\ row.url = u
      BY NoImageType DEF NoImage, ImageRows
  <2> QED
      BY <2>1, NoImageType DEF Labels, RepoLabels
<1> HIDE DEF row
<1>2. pc'[r] = label /\ mem'[r].row = row /\ contested \subseteq contested'
    BY <1>1, BeginFacts DEF row
<1>3. MemoryLink(r)'
    BY <1>1, <1>2 DEF MemoryLink, Creating, Upgrading, Inserting, Retrying, Deleting, Clearing,
                      RepoLabels
<1>4. RepoKnows(r)'
  <2>1. label = "insertRepo" => \A i \in Images : ~ Uses(i, p)
      BY DEF Inv, UseInv
  <2>2. label = "insertRepo" => \A i \in Images : ~ Uses(i, p)'
      BY <1>2, <2>1 DEF Uses, Used, Calm, tables
  <2> QED
      BY <1>1, <1>2, <2>2 DEF RepoKnows, HasUrl, RepoLabels, tables
<1>5. ~ Quiet(Name(r))'
    BY <1>1, <1>2, CatalogAssumption DEF Quiet, Name
<1> QED
    BY <1>1, <1>3, <1>4, <1>5, BeginStep DEF Knows, row

LEMMA ClearingBegins ==
    ASSUME Inv, NEW r \in Requests, GetDeviceIdsByImageSetID(r)
    PROVE  Inv'
<1>1. PICK s \in Sets :
          LET n == imageSet[s].name
              rivals == {q \in Active : mem[q].row.name = n}
          IN  /\ imageSet[s].live /\ RunsImageOf(s) = {}
              /\ pc[r] = "idle" /\ begun < MaxRequests
              /\ begun' = begun + 1
              /\ Goto(r, "firstSet")
              /\ mem' = [mem EXCEPT ![r].row = [NoImage EXCEPT !.name = n, !.set = s]]
              /\ contested' = IF rivals # {} \/ OnTheWay(s) THEN contested \cup {n}
                              ELSE contested
              /\ UNCHANGED <<tables, found>>
    BY DEF GetDeviceIdsByImageSetID
<1> DEFINE n == imageSet[s].name
           row == [NoImage EXCEPT !.name = n, !.set = s]
           m == [mem[r] EXCEPT !.row = row]
<1>2. n \in Names
    BY <1>1, CatalogAssumption DEF Inv, TypeOK, TablesInv, SetRows, NoSet
<1>3. row \in ImageRows /\ row.name = n /\ row.set = s /\ row.repo = Nothing
    BY <1>2, NoImageType, IdsAreNumbers DEF NoImage, ImageRows
<1>4. mem \in [Requests -> Memories]
    BY DEF Inv, TypeOK
<1>5. m \in Memories /\ m.row = row
  <2> HIDE DEF row
  <2> QED
      BY <1>3, <1>4 DEF Memories
<1>6. mem' = [mem EXCEPT ![r] = m] /\ pc' = [pc EXCEPT ![r] = "firstSet"]
    BY <1>1 DEF Goto
<1>7. pc'[r] = "firstSet" /\ mem'[r] = m
    BY <1>4, <1>6 DEF Inv, TypeOK
<1>8. /\ begun' \in 0..MaxRequests /\ contested \subseteq contested'
      /\ contested' \subseteq Names \cup Repos
    BY <1>1, <1>2, CatalogAssumption DEF Inv, TypeOK
<1>9. \A q \in Requests \ {r} :
          pc[q] # "idle" => {m.row.name, m.row.repo} \cap {mem[q].row.name, mem[q].row.repo}
                                \subseteq contested' \cup {Nothing}
    BY <1>1, <1>3, <1>5 DEF Active
<1> HIDE DEF row, m
<1>10. MemoryLink(r)'
    BY <1>1, <1>2, <1>3, <1>5, <1>7
       DEF MemoryLink, Creating, Upgrading, Inserting, Retrying, Deleting, Clearing, RepoLabels,
           tables
<1>11. ASSUME Quiet(Name(r))'
       PROVE  RequestKnows(r)'
  <2>1. ~ OnTheWay(s)
      BY <1>1, <1>3, <1>5, <1>7, <1>11 DEF Quiet, Name
  <2>2. \A j \in Images : image[j].set = s => image[j].status # "BUILDING"
      BY <2>1 DEF OnTheWay
  <2>3. \A d \in Devices : \A j \in {device[d], found[d]} : j # 0 => image[j].set # s
      BY <1>1, <2>1 DEF OnTheWay, RunsImageOf
  <2> QED
      BY <1>1, <1>3, <1>5, <1>7, <2>2, <2>3
         DEF RequestKnows, Creating, Upgrading, Inserting, Retrying, Clearing, tables
<1>12. RepoKnows(r)'
    BY <1>7 DEF RepoKnows, HasUrl
<1>13. Knows(r)'
    BY <1>10, <1>11, <1>12 DEF Knows
<1>14. "firstSet" \in Labels /\ UNCHANGED <<tables, found>>
    BY <1>1 DEF Labels
<1> QED
    BY <1>5, <1>6, <1>8, <1>9, <1>13, <1>14, ReadStep, Zenon

-------------------------------------------------------------------------------
(* Requests read.                                                          *)

LEMMA ReadOnStep ==
    ASSUME Inv, NEW r \in Requests, NEW label \in Labels, pc[r] # "idle", Read(r, label),
           UNCHANGED <<found, begun, contested>>, Knows(r)'
    PROVE  Inv'
<1>1. mem[r] \in Memories /\ mem' = [mem EXCEPT ![r] = mem[r]]
    BY DEF Inv, TypeOK, Read
<1>2. pc' = [pc EXCEPT ![r] = label] /\ UNCHANGED <<tables, found, begun, contested>>
    BY DEF Read, Goto
<1> QED
    BY <1>1, <1>2, LearnStep, Zenon

LEMMA ReadFacts ==
    ASSUME Inv, NEW r \in Requests, NEW label, Read(r, label)
    PROVE  pc'[r] = label /\ mem'[r] = mem[r] /\ UNCHANGED <<tables, mem>>
BY DEF Inv, TypeOK, Read, Goto

LEMMA LearnFacts ==
    ASSUME Inv, NEW r \in Requests, NEW label, NEW m, Learn(r, label, m)
    PROVE  /\ pc'[r] = label /\ mem'[r] = m /\ UNCHANGED tables
           /\ pc' = [pc EXCEPT ![r] = label] /\ mem' = [mem EXCEPT ![r] = m]
BY DEF Inv, TypeOK, Learn, Goto

LEMMA CheckLatestStep ==
    ASSUME Inv, NEW r \in Requests, CheckIfIsLatestVersion(r),
           UNCHANGED <<found, begun, contested>>
    PROVE  Inv'
<1> DEFINE m == mem[r]
           label == IF m.row.repo = Nothing THEN "getSet" ELSE "findRepo"
<1>1. CASE Refuse(r)
    BY <1>1, RefuseStep
<1>2. CASE /\ LiveImages(m.row.set) # {} /\ LatestVersion(m.row.set) = m.id
           /\ Read(r, label)
  <2>1. /\ label \in Labels /\ label \in {"getSet", "findRepo"}
        /\ label = "getSet" <=> m.row.repo = Nothing
      BY DEF Labels
  <2>2. pc[r] = "checkLatest" /\ Knows(r) /\ m \in Memories
      BY DEF CheckIfIsLatestVersion, Inv, TypeOK
  <2>3. pc'[r] = label /\ mem'[r] = m /\ UNCHANGED tables
      BY <1>2, ReadFacts
  <2>4. m.id \in Images /\ m.id # 0 /\ m.row.version = image[m.id].version + 1
      BY <2>2, IdsAreNumbers DEF Knows, MemoryLink, Upgrading
  <2> HIDE DEF label
  <2>5. MemoryLink(r)'
    <3>1. m.row.repo # Nothing => m.row.repo \in Repos
        BY <2>2 DEF Memories, ImageRows
    <3> QED
        BY <2>1, <2>2, <2>3, <2>4, <3>1
           DEF Knows, MemoryLink, Creating, Upgrading, Inserting, Retrying, Deleting, Clearing,
               RepoLabels, Used, tables
  <2>6. ASSUME Quiet(Name(r))'
        PROVE  RequestKnows(r)'
    <3>1. RequestKnows(r)
        BY <2>2, <2>3, <2>6 DEF Knows, Quiet, Name
    <3>2. \A j \in LiveImages(m.row.set) : image[j].version < m.row.version
      <4>1. \A j \in Images : image[j].version \in Nat
          BY DEF Inv, TypeOK, ImageRows
      <4>2. \A j \in LiveImages(m.row.set) : j \in Images /\ image[j].version <= image[m.id].version
          BY <1>2, LatestIsGreatest, IdsAreNumbers DEF Inv
      <4> QED
          BY <2>4, <4>1, <4>2
    <3> QED
        BY <2>1, <2>2, <2>3, <2>4, <3>1, <3>2
           DEF RequestKnows, Creating, Upgrading, Inserting, Retrying, Clearing, LiveImages, tables
  <2>7. RepoKnows(r)'
      BY <2>1, <2>3 DEF RepoKnows, HasUrl
  <2> QED
      BY <1>2, <2>1, <2>2, <2>5, <2>6, <2>7, ReadOnStep DEF Knows, label
<1> QED
    BY <1>1, <1>2 DEF CheckIfIsLatestVersion

LEMMA FindRepoStep ==
    ASSUME Inv, NEW r \in Requests, GetImageReposFromDB(r), UNCHANGED <<found, begun, contested>>
    PROVE  Inv'
<1> DEFINE m == mem[r]
           label == IF m.id = 0 THEN "findSet" ELSE "getSet"
           p == m.row.repo
           new == [m EXCEPT !.row.url = repo[p].url]
<1>1. CASE Refuse(r)
    BY <1>1, RefuseStep
<1>2. CASE repo[p].live /\ Learn(r, label, new)
  <2>1. pc[r] = "findRepo" /\ Knows(r) /\ m \in Memories
      BY DEF GetImageReposFromDB, Inv, TypeOK
  <2>2. p \in Repos /\ repo[p].url \in Urls \cup {Nothing}
      BY <2>1 DEF Knows, MemoryLink, Inv, TypeOK, RepoRows
  <2>3. /\ label \in Labels /\ label = (IF m.id = 0 THEN "findSet" ELSE "getSet")
        /\ label \in {"findSet", "getSet"}
      BY DEF Labels
  <2>4. /\ new \in Memories /\ new.id = m.id /\ new.row.url = repo[p].url
        /\ new.row.name = m.row.name /\ new.row.repo = p /\ new.row.set = m.row.set
        /\ new.row.version = m.row.version /\ new.row.parent = m.row.parent
        /\ new.row.status = m.row.status
    <3>1. [m.row EXCEPT !.url = repo[p].url] \in ImageRows
        BY <2>1, <2>2 DEF Memories, ImageRows
    <3>2. new = [m EXCEPT !.row = [m.row EXCEPT !.url = repo[p].url]]
        BY <2>1 DEF Memories, ImageRows
    <3> QED
        BY <2>1, <3>1, <3>2 DEF Memories, ImageRows
  <2> HIDE DEF label, new
  <2>5. /\ pc'[r] = label /\ mem'[r] = new /\ UNCHANGED tables
        /\ pc' = [pc EXCEPT ![r] = label] /\ mem' = [mem EXCEPT ![r] = new]
      BY <1>2, LearnFacts
  <2>6. MemoryLink(r)'
      BY <2>1, <2>3, <2>4, <2>5
         DEF Knows, MemoryLink, Creating, Upgrading, Inserting, Retrying, Deleting, Clearing,
             RepoLabels, Used, tables
  <2>7. ASSUME Quiet(Name(r))'
        PROVE  RequestKnows(r)'
    <3>1. RequestKnows(r)
        BY <2>1, <2>4, <2>5, <2>7 DEF Knows, Quiet, Name
    <3> QED
        BY <2>1, <2>3, <2>4, <2>5, <3>1
           DEF RequestKnows, Creating, Upgrading, Inserting, Retrying, Clearing, LiveImages, tables
  <2>8. RepoKnows(r)'
      BY <1>2, <2>3, <2>4, <2>5 DEF RepoKnows, tables
  <2>9. UNCHANGED <<tables, found, begun, contested>> /\ pc[r] # "idle" /\ Knows(r)'
      BY <2>1, <2>5, <2>6, <2>7, <2>8 DEF Knows
  <2> QED
      BY <2>3, <2>4, <2>5, <2>9, LearnStep, Zenon
<1> QED
    BY <1>1, <1>2 DEF GetImageReposFromDB

\* A memory with another image set.
LEMMA SetLearned ==
    ASSUME NEW m \in Memories, NEW s \in 0..MaxSet
    PROVE  LET new == [m EXCEPT !.row.set = s] IN
           /\ new \in Memories /\ new.id = m.id /\ new.row = [m.row EXCEPT !.set = s]
           /\ new.row.set = s /\ new.row.name = m.row.name /\ new.row.repo = m.row.repo
           /\ new.row.url = m.row.url /\ new.row.parent = m.row.parent
           /\ new.row.version = m.row.version /\ new.row.status = m.row.status
<1>1. [m.row EXCEPT !.set = s] \in ImageRows
    BY DEF Memories, ImageRows
<1>2. [m EXCEPT !.row.set = s] = [m EXCEPT !.row = [m.row EXCEPT !.set = s]]
    BY DEF Memories, ImageRows
<1> QED
    BY <1>1, <1>2 DEF Memories, ImageRows

LEMMA FindSetStep ==
    ASSUME Inv, NEW r \in Requests, GetImageSetForNewImage(r),
           UNCHANGED <<found, begun, contested>>
    PROVE  Inv'
<1> DEFINE m == mem[r]
           named == {s \in Sets : imageSet[s].live /\ imageSet[s].name = m.row.name}
           new == [m EXCEPT !.row.set = Lowest(named)]
<1>1. pc[r] = "findSet" /\ Knows(r) /\ m \in Memories
    BY DEF GetImageSetForNewImage, Inv, TypeOK
<1>2. m.row.name \in Names /\ m.row.set = 0 /\ m.id = 0 /\ m.row.parent = 0
    BY <1>1 DEF Knows, MemoryLink, Creating
<1>3. CASE Refuse(r)
    BY <1>3, RefuseStep
<1>4. CASE named = {} /\ Read(r, "createSet")
  <2>1. pc'[r] = "createSet" /\ mem'[r] = m /\ UNCHANGED tables
      BY <1>4, ReadFacts
  <2>2. MemoryLink(r)'
      BY <1>2, <2>1
         DEF MemoryLink, Creating, Upgrading, Inserting, Retrying, Deleting, Clearing, RepoLabels
  <2>3. RequestKnows(r)'
    <3>1. LiveImages(0)' = {}
        BY <2>1, NoSetIsEmpty DEF Inv, LiveImages, tables
    <3> QED
        BY <1>2, <1>4, <2>1, <3>1
           DEF RequestKnows, Creating, Upgrading, Inserting, Retrying, Clearing, tables
  <2>4. RepoKnows(r) => RepoKnows(r)'
      BY <1>1, <2>1 DEF RepoKnows, HasUrl, Name, tables
  <2>5. "createSet" \in Labels
      BY DEF Labels
  <2> QED
      BY <1>1, <1>4, <2>1, <2>2, <2>3, <2>4, <2>5, ReadOnStep DEF Knows
<1>5. CASE /\ named # {} /\ LiveImages(Lowest(named)) = {}
           /\ Learn(r, "compose", new)
  <2>1. Lowest(named) \in named
      BY <1>5, IdsAreNumbers, LowestIsLeast
  <2>2. /\ new \in Memories /\ new.id = 0 /\ new.row.set \in named /\ new.row.name = m.row.name
        /\ new.row.repo = m.row.repo /\ new.row.url = m.row.url /\ new.row.parent = 0
        /\ LiveImages(new.row.set) = {}
    <3>1. Lowest(named) \in 0..MaxSet
        BY <2>1, IdsAreNumbers
    <3>2. /\ new \in Memories /\ new.id = m.id /\ new.row.set = Lowest(named)
          /\ new.row.name = m.row.name /\ new.row.repo = m.row.repo
          /\ new.row.url = m.row.url /\ new.row.parent = m.row.parent
        BY <1>1, <3>1, SetLearned
    <3> QED
        BY <1>2, <1>5, <2>1, <3>2
  <2> HIDE DEF new
  <2>3. /\ pc'[r] = "compose" /\ mem'[r] = new /\ UNCHANGED tables
        /\ pc' = [pc EXCEPT ![r] = "compose"] /\ mem' = [mem EXCEPT ![r] = new]
      BY <1>5, LearnFacts
  <2>4. MemoryLink(r)'
      BY <1>2, <2>2, <2>3
         DEF MemoryLink, Creating, Upgrading, Inserting, Retrying, Deleting, Clearing, RepoLabels,
             tables
  <2>5. RequestKnows(r)'
      BY <2>2, <2>3
         DEF RequestKnows, Creating, Upgrading, Inserting, Retrying, Clearing, LiveImages, tables
  <2>6. RepoKnows(r) => RepoKnows(r)'
      BY <1>1, <2>2, <2>3 DEF RepoKnows, HasUrl, Name, tables
  <2>7. "compose" \in Labels /\ UNCHANGED <<tables, found, begun, contested>> /\ pc[r] # "idle"
      BY <1>1, <2>3 DEF Labels
  <2>8. Knows(r)'
      BY <1>1, <2>2, <2>3, <2>4, <2>5, <2>6, <2>7 DEF Knows
  <2> QED
      BY <2>2, <2>3, <2>7, <2>8, LearnStep, Zenon
<1> QED
    BY <1>3, <1>4, <1>5 DEF GetImageSetForNewImage

LEMMA GetSetStep ==
    ASSUME Inv, NEW r \in Requests, GetImageSet(r), UNCHANGED <<found, begun, contested>>
    PROVE  Inv'
<1>1. CASE Refuse(r)
    BY <1>1, RefuseStep
<1>2. CASE imageSet[mem[r].row.set].live /\ Read(r, "saveSet")
  <2>1. pc[r] = "getSet" /\ Knows(r) /\ "saveSet" \in Labels
      BY DEF GetImageSet, Inv, Labels
  <2>2. pc'[r] = "saveSet" /\ mem'[r] = mem[r] /\ UNCHANGED tables
      BY <1>2, ReadFacts
  <2>3. MemoryLink(r)'
      BY <2>1, <2>2
         DEF Knows, MemoryLink, Creating, Upgrading, Inserting, Retrying, Deleting, Clearing,
             RepoLabels, Used, tables
  <2>4. RequestKnows(r) => RequestKnows(r)'
      BY <1>2, <2>1, <2>2
         DEF RequestKnows, Creating, Upgrading, Inserting, Retrying, Clearing, LiveImages, tables
  <2>5. RepoKnows(r) => RepoKnows(r)'
      BY <2>1, <2>2 DEF RepoKnows, HasUrl, Name, tables
  <2>6. Knows(r)'
      BY <2>1, <2>2, <2>3, <2>4, <2>5 DEF Knows, Quiet, Name
  <2> QED
      BY <1>2, <2>1, <2>6, ReadOnStep
<1> QED
    BY <1>1, <1>2 DEF GetImageSet

\* The commit to extend is that of an image of the set that is a success.
LEMMA ParentStep ==
    ASSUME Inv, NEW r \in Requests, GetLatestPreviousSuccessfulImage(r),
           UNCHANGED <<found, begun, contested>>
    PROVE  Inv'
<1> DEFINE m == mem[r]
           built == {i \in LiveImages(m.row.set) : i < m.id /\ image[i].status = "SUCCESS"}
           parent == IF m.row.status = "SUCCESS" THEN m.id
                     ELSE IF built = {} THEN 0
                     ELSE CHOOSE i \in built : \A j \in built : j <= i
           new == [m EXCEPT !.row.parent = parent, !.id = 0]
<1>1. pc[r] = "getParent" /\ Knows(r) /\ m \in Memories /\ Learn(r, "compose", new)
    BY DEF GetLatestPreviousSuccessfulImage, Inv, TypeOK
<1>2. /\ m.id \in Images /\ Used(m.id) /\ m.id # 0 /\ m.row.name = image[m.id].name
      /\ m.row.set = image[m.id].set
    BY <1>1, IdsAreNumbers DEF Knows, MemoryLink, Upgrading
<1>3. \/ parent = 0
      \/ parent = m.id /\ m.row.status = "SUCCESS"
      \/ parent \in built
  <2>1. built \subseteq Images
      BY IdsAreNumbers
  <2>2. built # {} => (CHOOSE i \in built : \A j \in built : j <= i) \in built
      BY <2>1, LastExists
  <2> QED
      BY <2>2
<1> HIDE DEF parent
<1>4. /\ parent \in 0..MaxImage
      /\ parent # 0 => parent \in Images /\ Used(parent) /\ image[parent].set = m.row.set
    BY <1>2, <1>3, IdsAreNumbers, NoImageType DEF LiveImages, Used
<1>5. /\ new \in Memories /\ new.id = 0 /\ new.row.parent = parent
      /\ new.row.name = m.row.name /\ new.row.repo = m.row.repo /\ new.row.url = m.row.url
      /\ new.row.set = m.row.set /\ new.row.version = m.row.version
  <2>1. [m.row EXCEPT !.parent = parent] \in ImageRows
      BY <1>1, <1>4 DEF Memories, ImageRows
  <2>2. new = [m EXCEPT !.row = [m.row EXCEPT !.parent = parent], !.id = 0]
      BY <1>1 DEF Memories, ImageRows
  <2> QED
      BY <1>1, <2>1, <2>2, NoImageType DEF Memories, ImageRows
<1> HIDE DEF new
<1>6. /\ pc'[r] = "compose" /\ mem'[r] = new /\ UNCHANGED tables
      /\ pc' = [pc EXCEPT ![r] = "compose"] /\ mem' = [mem EXCEPT ![r] = new]
    BY <1>1, LearnFacts
<1>7. MemoryLink(r)'
  <2>1. m.row.name \in Names /\ m.row.set \in Sets /\ imageSet[m.row.set].name = m.row.name
      BY <1>2 DEF Inv, TablesInv, ImageLink
  <2> QED
      BY <1>4, <1>5, <1>6, <2>1
         DEF MemoryLink, Creating, Upgrading, Inserting, Retrying, Deleting, Clearing,
             RepoLabels, Used, tables
<1>8. ASSUME Quiet(Name(r))'
      PROVE  RequestKnows(r)'
  <2>1. RequestKnows(r)
      BY <1>1, <1>5, <1>6, <1>8 DEF Knows, Quiet, Name
  <2>2. parent # 0 => image[parent].status = "SUCCESS"
      BY <1>1, <1>3, <2>1 DEF RequestKnows, Upgrading
  <2> QED
      BY <1>1, <1>2, <1>5, <1>6, <2>1, <2>2
         DEF RequestKnows, Creating, Upgrading, Inserting, Retrying, Clearing, LiveImages, tables
<1>9. RepoKnows(r) => RepoKnows(r)'
    BY <1>1, <1>5, <1>6 DEF RepoKnows, HasUrl, Name, tables
<1>10. "compose" \in Labels /\ UNCHANGED <<tables, found, begun, contested>> /\ pc[r] # "idle"
    BY <1>1, <1>6 DEF Labels
<1>11. Knows(r)'
    BY <1>1, <1>5, <1>6, <1>7, <1>8, <1>9, <1>10 DEF Knows
<1> QED
    BY <1>5, <1>6, <1>10, <1>11, LearnStep, Zenon

LEMMA ComposeStep ==
    ASSUME Inv, NEW r \in Requests, ComposeCommit(r), UNCHANGED <<found, begun, contested>>
    PROVE  Inv'
<1> DEFINE label == IF mem[r].id = 0 THEN "insert" ELSE "saveRetry"
<1>1. /\ label \in Labels /\ label = (IF mem[r].id = 0 THEN "insert" ELSE "saveRetry")
      /\ label \in {"insert", "saveRetry"}
    BY DEF Labels
<1>2. pc[r] = "compose" /\ Knows(r) /\ Read(r, label)
    BY DEF ComposeCommit, Inv
<1> HIDE DEF label
<1>3. pc'[r] = label /\ mem'[r] = mem[r] /\ UNCHANGED tables
    BY <1>2, ReadFacts
<1>4. MemoryLink(r)'
    BY <1>1, <1>2, <1>3
       DEF Knows, MemoryLink, Creating, Upgrading, Inserting, Retrying, Deleting, Clearing,
           RepoLabels, Used, SameRow, tables
<1>5. RequestKnows(r) => RequestKnows(r)'
    BY <1>1, <1>2, <1>3
       DEF RequestKnows, Creating, Upgrading, Inserting, Retrying, Clearing, LiveImages, tables
<1>6. RepoKnows(r) => RepoKnows(r)'
    BY <1>1, <1>2, <1>3 DEF RepoKnows, HasUrl, Name, tables
<1>7. Knows(r)'
    BY <1>2, <1>3, <1>4, <1>5, <1>6 DEF Knows, Quiet, Name
<1> QED
    BY <1>1, <1>2, <1>7, ReadOnStep

\* A set of at most one element.
LEMMA OnlyElement ==
    ASSUME NEW S, IsFiniteSet(S), NEW x \in S, Cardinality(S) <= 1
    PROVE  S = {x}
<1>1. {x} \in SUBSET S /\ Cardinality({x}) = 1
    BY FS_Singleton
<1>2. Cardinality(S) \in Nat
    BY FS_CardinalityType
<1>3. Cardinality({x}) <= Cardinality(S)
    BY <1>1, FS_Subset
<1>4. Cardinality(S) = Cardinality({x})
    BY <1>1, <1>2, <1>3
<1> QED
    BY <1>1, <1>4, FS_Subset

LEMMA CountImagesStep ==
    ASSUME Inv, NEW r \in Requests, CountImages(r), UNCHANGED <<found, begun, contested>>
    PROVE  Inv'
<1> DEFINE m == mem[r]
           named == {s \in Sets : imageSet[s].live /\ imageSet[s].name = m.row.name}
           s == Lowest(named)
           last == Cardinality(LiveImages(s)) <= 1
           new == [m EXCEPT !.row.set = s, !.last = last]
<1>1. pc[r] = "countImages" /\ Knows(r) /\ m \in Memories
    BY DEF CountImages, Inv, TypeOK
<1>2. CASE Refuse(r)
    BY <1>2, RefuseStep
<1>3. CASE named # {} /\ Learn(r, "deleteImage", new)
  <2>1. s \in named /\ s \in Sets /\ s \in 0..MaxSet
      BY <1>3, IdsAreNumbers, LowestIsLeast
  <2>2. m.id \in Images /\ Used(m.id) /\ m.row.name = image[m.id].name
      BY <1>1 DEF Knows, MemoryLink, Deleting
  <2> HIDE DEF s
  <2>3. /\ new \in Memories /\ new.id = m.id /\ new.row.set = s
        /\ new.row.name = m.row.name /\ new.row.repo = m.row.repo /\ new.last = last
    <3>1. last \in BOOLEAN
        OBVIOUS
    <3> HIDE DEF last
    <3>2. [m.row EXCEPT !.set = s] \in ImageRows
        BY <1>1, <2>1 DEF Memories, ImageRows
    <3>3. new = [m EXCEPT !.row = [m.row EXCEPT !.set = s], !.last = last]
        BY <1>1 DEF Memories, ImageRows
    <3> QED
        BY <1>1, <3>1, <3>2, <3>3 DEF Memories, ImageRows
  <2> HIDE DEF new
  <2>4. /\ pc'[r] = "deleteImage" /\ mem'[r] = new /\ UNCHANGED tables
        /\ pc' = [pc EXCEPT ![r] = "deleteImage"] /\ mem' = [mem EXCEPT ![r] = new]
      BY <1>3, LearnFacts
  <2>5. MemoryLink(r)'
      BY <2>1, <2>2, <2>3, <2>4
         DEF MemoryLink, Creating, Upgrading, Inserting, Retrying, Deleting, Clearing, RepoLabels,
             Used, tables
  <2>6. ASSUME Quiet(Name(r))'
        PROVE  RequestKnows(r)'
    <3>1. Quiet(image[m.id].name)
        BY <2>2, <2>3, <2>4, <2>6 DEF Quiet, Name
    <3>2. image[m.id].live /\ image[m.id].status = "ERROR"
        BY <1>1, <2>2, <3>1 DEF Knows, RequestKnows, Name
    <3>3. ImageInv(m.id) /\ ImageLink(m.id)
        BY <2>2, <3>1 DEF Inv, RowsInv, TablesInv
    <3>4. image[m.id].set = s
      <4>1. SetInv(s)
          BY <2>1, <2>2, <3>1 DEF Inv, RowsInv
      <4> QED
          BY <2>1, <2>2, <3>2, <3>3, <4>1 DEF SetInv, ImageInv, ImageLink
    <3>5. last => LiveImages(s) \subseteq {m.id}
      <4>1. m.id \in LiveImages(s) /\ IsFiniteSet(LiveImages(s))
          BY <2>2, <3>2, <3>4, IdsAreNumbers DEF LiveImages
      <4> QED
          BY <4>1, OnlyElement
    <3> QED
        BY <2>3, <2>4, <3>2, <3>5
           DEF RequestKnows, Creating, Upgrading, Inserting, Retrying, Clearing, LiveImages, tables
  <2>7. RepoKnows(r)'
      BY <2>4 DEF RepoKnows, HasUrl
  <2>8. "deleteImage" \in Labels /\ UNCHANGED <<tables, found, begun, contested>> /\ pc[r] # "idle"
      BY <1>1, <2>4 DEF Labels
  <2>9. Knows(r)'
      BY <2>5, <2>6, <2>7 DEF Knows
  <2> QED
      BY <2>3, <2>4, <2>8, <2>9, LearnStep, Zenon
<1> QED
    BY <1>2, <1>3 DEF CountImages

LEMMA FirstSetStep ==
    ASSUME Inv, NEW r \in Requests, FirstImageSet(r), UNCHANGED <<found, begun, contested>>
    PROVE  Inv'
<1>1. CASE Refuse(r)
    BY <1>1, RefuseStep
<1>2. CASE Read(r, "deleteAll")
  <2>1. pc[r] = "firstSet" /\ Knows(r) /\ "deleteAll" \in Labels
      BY DEF FirstImageSet, Inv, Labels
  <2>2. pc'[r] = "deleteAll" /\ mem'[r] = mem[r] /\ UNCHANGED tables
      BY <1>2, ReadFacts
  <2>3. MemoryLink(r)'
      BY <2>1, <2>2
         DEF Knows, MemoryLink, Creating, Upgrading, Inserting, Retrying, Deleting, Clearing,
             RepoLabels, Used, tables
  <2>4. RequestKnows(r) => RequestKnows(r)'
      BY <2>1, <2>2 DEF RequestKnows, Creating, Upgrading, Inserting, Retrying, Clearing, tables
  <2>5. RepoKnows(r)'
      BY <2>2 DEF RepoKnows, HasUrl
  <2>6. Knows(r)'
      BY <2>1, <2>2, <2>3, <2>4, <2>5 DEF Knows, Quiet, Name
  <2> QED
      BY <1>2, <2>1, <2>6, ReadOnStep
<1> QED
    BY <1>1, <1>2 DEF FirstImageSet

\* The steps of the requests about repositories that read.
LEMMA RepoReads ==
    ASSUME Inv, NEW r \in Requests, NEW label \in RepoLabels, pc[r] \in RepoLabels,
           Read(r, label), UNCHANGED <<found, begun, contested>>,
           label \in {"saveRepo", "deleteRepo"} =>
               ~ repo[mem[r].row.repo].live \/ ImagesOf(mem[r].row.repo, Settled) = {},
           label = "deleteRepo" => ImagesOf(mem[r].row.repo, Statuses) = {},
           label # "insertRepo"
    PROVE  Inv'
<1>1. label \in Labels /\ pc[r] # "idle" /\ Knows(r)
    BY DEF Labels, RepoLabels, Inv
<1>2. pc'[r] = label /\ mem'[r] = mem[r] /\ UNCHANGED <<tables, mem>>
    BY ReadFacts
<1>3. mem[r].row.name = Nothing /\ mem[r].row.repo \in Repos
    BY <1>1 DEF Knows, MemoryLink
<1>4. MemoryLink(r)'
    BY <1>2, <1>3 DEF MemoryLink, Creating, Upgrading, Inserting, Retrying, Deleting, Clearing,
                      RepoLabels
<1>5. ~ Quiet(Name(r))'
    BY <1>2, <1>3, CatalogAssumption DEF Quiet, Name
<1>6. RepoKnows(r)'
  <2> DEFINE p == mem[r].row.repo
  <2>1. \A i \in Images : Uses(i, p) => repo[p].live
      BY <1>3 DEF Inv, UseInv
  <2>2. \A i \in Images : image[i].status \in Statuses
      BY DEF Inv, TypeOK, ImageRows
  <2>3. label = "saveRepo" => \A i \in Images : Uses(i, p) => image[i].status \notin Settled
      BY <2>1 DEF ImagesOf, Uses
  <2>4. label = "deleteRepo" => \A i \in Images : ~ Uses(i, p)
      BY <2>2 DEF ImagesOf, Uses
  <2> QED
      BY <1>2, <2>3, <2>4 DEF RepoKnows, HasUrl, RepoLabels, Uses, Used, Calm, tables
<1> QED
    BY <1>1, <1>4, <1>5, <1>6, ReadOnStep DEF Knows

-------------------------------------------------------------------------------
(* Steps that write.                                                       *)

\* What no step changes: the references of rows that were inserted, the names of sets.
Static ==
    /\ \A i \in Images :
          /\ Used(i) => Used(i)' /\ SameRow(image'[i], i)
          /\ ~ Used(i)' => image'[i] = image[i]
    /\ \A s \in Sets :
          /\ imageSet[s].name # Nothing => imageSet'[s].name = imageSet[s].name
          /\ imageSet'[s].name = Nothing => imageSet'[s] = imageSet[s]

\* Only rows of the name n change.
Local(n) ==
    /\ \A i \in Images : image'[i] = image[i] \/ image'[i].name = n
    /\ \A s \in Sets : imageSet'[s] = imageSet[s] \/ imageSet'[s].name = n

LEMMA TablesStep ==
    ASSUME TypeOK, TablesInv, Static,
           \A i \in Images : Used(i)' /\ ~ Used(i) => ImageLink(i)',
           \A d \in Devices : \A i \in {device'[d], found'[d]} : i # 0 => Used(i)'
    PROVE  TablesInv'
<1>1. ASSUME NEW i \in Images, Used(i), ImageLink(i)  PROVE ImageLink(i)'
  <2>1. SameRow(image'[i], i)
      BY <1>1 DEF Static
  <2>2. image[i].parent # 0 => image[i].parent \in Images /\ Used(image[i].parent)
    <3>1. image[i].parent \in 0..MaxImage /\ i \in Nat /\ MaxImage \in Nat
        BY IdsAreNumbers, CatalogAssumption DEF TypeOK, ImageRows
    <3>2. image[i].parent # 0 => image[i].parent \in Images /\ image[i].parent < i
        BY <1>1, <3>1 DEF ImageLink, Images
    <3> QED
        BY <1>1, <3>2 DEF ImageLink
  <2>3. image[i].parent # 0 => image'[image[i].parent].set = image[image[i].parent].set
      BY <2>2 DEF Static, SameRow
  <2>4. imageSet'[image[i].set].name = imageSet[image[i].set].name
      BY <1>1, CatalogAssumption DEF ImageLink, Static
  <2>5. \A j \in Images : j < i => Used(j)'
      BY <1>1 DEF ImageLink, Static
  <2> QED
      BY <1>1, <2>1, <2>3, <2>4, <2>5 DEF ImageLink, SameRow
<1>2. \A i \in Images : Used(i)' => ImageLink(i)'
    BY <1>1 DEF TablesInv
<1>3. \A i \in Images :
          ~ Used(i)' => ~ image'[i].live /\ image'[i].name = Nothing /\ image'[i].parent = 0
    BY DEF TablesInv, Static
<1>4. \A s \in Sets : imageSet'[s].name = Nothing => imageSet'[s] = NoSet
    BY DEF TablesInv, Static
<1> QED
    BY <1>2, <1>3, <1>4 DEF TablesInv

\* The rows of a request stay where they are.
LEMMA LinkStep ==
    ASSUME TypeOK, TablesInv, Static, NEW q \in Requests, MemoryLink(q),
           pc'[q] = pc[q], mem'[q] = mem[q]
    PROVE  MemoryLink(q)'
<1> DEFINE row == mem[q].row
           i == mem[q].id
<1>1. i \in Images /\ Used(i) => Used(i)' /\ SameRow(image'[i], i)
    BY DEF Static
<1>2. row.set \in Sets /\ row.name \in Names /\ imageSet[row.set].name = row.name
          => imageSet'[row.set].name = row.name
    BY CatalogAssumption DEF Static
<1>3. row.parent \in Images /\ Used(row.parent)
          => Used(row.parent)' /\ image'[row.parent].set = image[row.parent].set
    BY DEF Static, SameRow
<1>4. Inserting(q) /\ row.parent # 0 => row.parent \in Images
  <2>1. row.parent \in 0..MaxImage
      BY DEF TypeOK, Memories, ImageRows
  <2> QED
      BY <2>1, CatalogAssumption DEF Images
<1>5. Deleting(q) => row.name \in Names
    BY DEF MemoryLink, TablesInv, ImageLink
<1> QED
    BY <1>1, <1>2, <1>3, <1>4, <1>5
       DEF MemoryLink, SameRow, Creating, Upgrading, Inserting, Retrying, Deleting, Clearing

\* The image set that a request is at.
AtSet(q) ==
    mem[q].row.name \in Names /\ mem[q].row.set \in Sets
        /\ imageSet[mem[q].row.set].name = mem[q].row.name

LEMMA RequestAtSet ==
    ASSUME TypeOK, TablesInv, NEW q \in Requests, MemoryLink(q), Name(q) \in Names
    PROVE  /\ Upgrading(q) \/ Inserting(q) \/ Clearing(q) => AtSet(q)
           /\ pc[q] \in {"deleteImage", "deleteSet"} => AtSet(q)
BY DEF MemoryLink, AtSet, Name, TablesInv, ImageLink, Deleting

LEMMA OtherSetStep ==
    ASSUME TypeOK, TablesInv, TablesInv', Static, NEW n \in Names, Local(n),
           NEW s \in Sets, imageSet[s].name \in Names, imageSet[s].name # n
    PROVE  /\ imageSet'[s] = imageSet[s] /\ LiveImages(s)' = LiveImages(s)
           /\ \A j \in Images : Used(j) /\ image[j].set = s => image'[j] = image[j]
           /\ \A j \in Images : Used(j)' /\ image'[j].set = s => image'[j] = image[j]
           /\ \A j \in LiveImages(s) : image'[j] = image[j]
<1>1. imageSet'[s].name = imageSet[s].name
    BY CatalogAssumption DEF Static
<1>2. imageSet'[s] = imageSet[s]
    BY <1>1 DEF Local
<1>3. \A j \in Images : Used(j)' /\ image'[j].set = s => image'[j] = image[j]
  <2>1. \A j \in Images : Used(j)' /\ image'[j].set = s => image'[j].name = imageSet'[s].name
      BY DEF TablesInv, ImageLink
  <2> QED
      BY <1>1, <2>1 DEF Local
<1>4. \A j \in Images : Used(j) /\ image[j].set = s => image'[j] = image[j]
    BY <1>3 DEF Static, SameRow
<1>5. \A j \in LiveImages(s) : Used(j) /\ image[j].set = s /\ j \in Images
    BY DEF TablesInv, LiveImages
<1>6. \A j \in LiveImages(s)' : Used(j)' /\ image'[j].set = s /\ j \in Images
    BY DEF TablesInv, LiveImages
<1>7. LiveImages(s)' = LiveImages(s)
    BY <1>3, <1>4, <1>5, <1>6 DEF LiveImages
<1> QED
    BY <1>2, <1>3, <1>4, <1>5, <1>7

\* What a request at another name knows stays true.
LEMMA OtherNameKnows ==
    ASSUME TypeOK, TablesInv, TablesInv', Static, NEW n \in Names, Local(n),
           NEW q \in Requests, MemoryLink(q), RequestKnows(q), Name(q) \in Names, Name(q) # n,
           pc'[q] = pc[q], mem'[q] = mem[q], UNCHANGED <<device, found>>
    PROVE  RequestKnows(q)'
<1> DEFINE row == mem[q].row
           i == mem[q].id
           s == mem[q].row.set
<1>1. AtSet(q) =>
          /\ imageSet'[s] = imageSet[s] /\ LiveImages(s)' = LiveImages(s)
          /\ \A j \in Images : Used(j) /\ image[j].set = s => image'[j] = image[j]
          /\ \A j \in Images : Used(j)' /\ image'[j].set = s => image'[j] = image[j]
          /\ \A j \in LiveImages(s) : image'[j] = image[j]
    BY OtherSetStep DEF AtSet, Name
<1>2. LiveImages(0)' = {}
    BY IdsAreNumbers DEF TablesInv, ImageLink, LiveImages
<1>3. i \in Images /\ Used(i) /\ image[i].name = row.name => image'[i] = image[i]
    BY DEF Static, SameRow, Local, Name
<1>4. pc[q] = "createSet" =>
          \A t \in Sets : imageSet'[t].name = row.name => ~ imageSet'[t].live
    BY DEF RequestKnows, Local, Name
<1>5. Upgrading(q) /\ row.status = "SUCCESS" => image'[i].status = "SUCCESS"
    BY <1>3 DEF RequestKnows, MemoryLink
<1>6. pc[q] \in {"saveSet", "getParent"} \/ Inserting(q) => imageSet'[s].live
    BY <1>1, RequestAtSet DEF RequestKnows, Upgrading
<1>7. Creating(q) \/ (Upgrading(q) /\ pc[q] # "checkLatest") \/ Inserting(q) =>
          \A j \in LiveImages(s)' : image'[j].version < row.version
    BY <1>1, <1>2, RequestAtSet DEF RequestKnows, MemoryLink
<1>8. Inserting(q) /\ row.parent # 0 => image'[row.parent].status = "SUCCESS"
  <2>1. row.parent \in 0..MaxImage
      BY DEF TypeOK, Memories, ImageRows
  <2>2. row.parent # 0 => row.parent \in Images
      BY <2>1, CatalogAssumption DEF Images
  <2> QED
      BY <1>1, <2>2, RequestAtSet DEF RequestKnows, MemoryLink
<1>9. Retrying(q) \/ pc[q] \in {"countImages", "deleteImage"} =>
          image'[i].live /\ image'[i].status = "ERROR"
    BY <1>3 DEF RequestKnows, MemoryLink, SameRow, Deleting
<1>10. /\ pc[q] = "deleteImage" /\ mem[q].last => LiveImages(s)' \subseteq {i}
       /\ pc[q] = "deleteSet" => LiveImages(s)' = {}
    BY <1>1, RequestAtSet DEF RequestKnows
<1>11. Clearing(q) => \A j \in Images : image'[j].set = s => image'[j].status # "BUILDING"
    BY <1>1, RequestAtSet DEF RequestKnows, Used
<1>12. Clearing(q) =>
           \A d \in Devices : \A j \in {device'[d], found'[d]} : j # 0 => image'[j].set # s
  <2>1. \A d \in Devices : \A j \in {device[d], found[d]} :
            j # 0 => j \in Images /\ Used(j) /\ image'[j].set = image[j].set
    <3>1. \A d \in Devices : \A j \in {device[d], found[d]} : j \in 0..MaxImage
        BY DEF TypeOK
    <3>2. \A d \in Devices : \A j \in {device[d], found[d]} : j # 0 => j \in Images
        BY <3>1, CatalogAssumption DEF Images
    <3> QED
        BY <3>2 DEF TablesInv, Static, SameRow
  <2> QED
      BY <2>1 DEF RequestKnows
<1> QED
    BY <1>4, <1>5, <1>6, <1>7, <1>8, <1>9, <1>10, <1>11, <1>12
       DEF RequestKnows, Creating, Upgrading, Inserting, Retrying, Clearing

\* The rows of other names stay as they must be.
LEMMA OtherRows ==
    ASSUME TypeOK, TablesInv, TablesInv', Static, NEW n \in Names, Local(n), RowsInv,
           UNCHANGED <<device, found, contested>>
    PROVE  /\ \A i \in Images :
                  Used(i)' /\ Quiet(image[i].name)' /\ image'[i].name # n => ImageInv(i)'
           /\ \A s \in Sets : Quiet(imageSet[s].name)' /\ imageSet'[s].name # n => SetInv(s)'
<1>1. ASSUME NEW i \in Images, Used(i)', Quiet(image[i].name)', image'[i].name # n
      PROVE  ImageInv(i)'
  <2>1. image'[i] = image[i]
      BY <1>1 DEF Local
  <2>2. Used(i) /\ Quiet(image[i].name)
      BY <1>1, <2>1 DEF Used, Quiet
  <2>3. ImageInv(i) /\ ImageLink(i)
      BY <2>2 DEF RowsInv, TablesInv
  <2> DEFINE s == image[i].set
  <2>4. s \in Sets /\ imageSet[s].name = image[i].name /\ image[i].name \in Names
      BY <2>3 DEF ImageLink
  <2>5. imageSet'[s] = imageSet[s] /\ \A j \in Images : Used(j) /\ image[j].set = s => image'[j] = image[j]
      BY <1>1, <2>1, <2>4, OtherSetStep
  <2>6. image[i].parent # 0 => image[i].parent \in Images /\ Used(image[i].parent)
    <3>1. image[i].parent \in 0..MaxImage /\ i \in Nat /\ MaxImage \in Nat
        BY IdsAreNumbers, CatalogAssumption DEF TypeOK, ImageRows
    <3>2. image[i].parent # 0 => image[i].parent \in Images /\ image[i].parent < i
        BY <2>3, <3>1 DEF ImageLink, Images
    <3> QED
        BY <2>3, <3>2 DEF ImageLink
  <2>7. image[i].parent # 0 => image'[image[i].parent] = image[image[i].parent]
      BY <2>3, <2>5, <2>6 DEF ImageLink
  <2> QED
      BY <2>1, <2>3, <2>5, <2>7 DEF ImageInv
<1>2. ASSUME NEW s \in Sets, Quiet(imageSet[s].name)', imageSet'[s].name # n
      PROVE  SetInv(s)'
  <2>1. imageSet'[s] = imageSet[s]
      BY <1>2 DEF Local
  <2>2. Quiet(imageSet[s].name) /\ SetInv(s)
      BY <1>2, <2>1 DEF Quiet, RowsInv
  <2>3. LiveImages(s)' = LiveImages(s) /\ \A j \in LiveImages(s) : image'[j] = image[j]
      BY <1>2, <2>1, <2>2, OtherSetStep DEF Quiet
  <2>4. \A t \in Sets : imageSet'[t].name = imageSet[s].name => imageSet'[t] = imageSet[t]
      BY <1>2, <2>1 DEF Local
  <2> QED
      BY <2>1, <2>2, <2>3, <2>4 DEF SetInv
<1> QED
    BY <1>1, <1>2

\* An image that uses a repository did so before, or it is p that it now uses.
UsesKept(p) ==
    \A i \in Images : \A q \in Repos :
        Uses(i, q)' =>
            \/ /\ Uses(i, q) /\ image'[i].url = image[i].url
               /\ image'[i].status \in Settled => image[i].status \in Settled
            \/ q = p /\ repo[q].live /\ repo[q].url = image'[i].url

LEMMA UseStep == ASSUME UseInv, NEW p, UsesKept(p), UNCHANGED repo  PROVE UseInv'
<1> SUFFICES ASSUME NEW i \in Images, NEW q \in Repos, Uses(i, q)'
             PROVE  repo[q].live /\ (image'[i].status \in Settled => repo[q].url = image'[i].url)
    BY DEF UseInv
<1>1. CASE /\ Uses(i, q) /\ image'[i].url = image[i].url
           /\ image'[i].status \in Settled => image[i].status \in Settled
    BY <1>1 DEF UseInv
<1>2. CASE q = p /\ repo[q].live /\ repo[q].url = image'[i].url
    BY <1>2
<1> QED
    BY <1>1, <1>2 DEF UsesKept

LEMMA RepoKnowsStep ==
    ASSUME NEW q \in Requests, MemoryLink(q), RepoKnows(q), NEW p, UsesKept(p),
           mem[q].row.repo # p \/ mem[q].row.repo = Nothing, Nothing \notin Repos,
           pc'[q] = pc[q], mem'[q] = mem[q], UNCHANGED <<repo, contested>>
    PROVE  RepoKnows(q)'
<1>1. pc[q] \in RepoLabels =>
          /\ mem[q].row.repo \in Repos /\ mem[q].row.repo # p
    BY DEF MemoryLink
<1>2. pc[q] \in RepoLabels =>
          \A i \in Images :
              Uses(i, mem[q].row.repo)' =>
                  /\ Uses(i, mem[q].row.repo)
                  /\ image'[i].status \in Settled => image[i].status \in Settled
    BY <1>1 DEF UsesKept
<1> QED
    BY <1>2 DEF RepoKnows, RepoLabels, Name

\* The requests that meet are at a contested name or repository.
LEMMA ApartStep ==
    ASSUME Inv, NEW r \in Requests, NEW label \in Labels, NEW m \in Memories, pc[r] # "idle",
           pc' = [pc EXCEPT ![r] = label], mem' = [mem EXCEPT ![r] = m], UNCHANGED contested,
           label # "idle" => m.row.name = mem[r].row.name /\ m.row.repo = mem[r].row.repo
    PROVE  /\ ApartInv' /\ pc' \in [Requests -> Labels] /\ mem' \in [Requests -> Memories]
           /\ \A q \in Requests \ {r} : pc'[q] = pc[q] /\ mem'[q] = mem[q]
           /\ pc'[r] = label /\ mem'[r] = m
<1>1. /\ pc' \in [Requests -> Labels] /\ mem' \in [Requests -> Memories]
      /\ pc'[r] = label /\ mem'[r] = m
      /\ \A q \in Requests \ {r} : pc'[q] = pc[q] /\ mem'[q] = mem[q]
    BY DEF Inv, TypeOK
<1>2. \A q \in Requests : pc'[q] # "idle" => pc[q] # "idle" /\ At(q)' = At(q)
    BY <1>1 DEF At
<1>3. ApartInv'
    BY <1>2 DEF Inv, ApartInv, Active
<1> QED
    BY <1>1, <1>3

LEMMA RequestsApart ==
    ASSUME Inv, NEW r \in Requests, NEW q \in Requests, r # q, pc[r] # "idle", pc[q] # "idle"
    PROVE  /\ Name(r) = Name(q) => ~ Quiet(Name(q))
           /\ mem[r].row.repo = mem[q].row.repo /\ mem[q].row.repo # Nothing
                  => mem[q].row.repo \in contested
BY CatalogAssumption DEF Inv, ApartInv, At, Active, Name, Quiet

\* A request writes rows of its name.
LEMMA WriteStep ==
    ASSUME Inv, NEW r \in Requests, NEW label \in Labels, NEW m \in Memories, pc[r] # "idle",
           pc' = [pc EXCEPT ![r] = label], mem' = [mem EXCEPT ![r] = m],
           UNCHANGED <<repo, device, found, begun, contested>>,
           label # "idle" => m.row.name = mem[r].row.name /\ m.row.repo = mem[r].row.repo,
           image' \in [Images -> ImageRows], imageSet' \in [Sets -> SetRows],
           NEW n \in Names, Name(r) = n, Static, Local(n),
           \A i \in Images : Used(i)' /\ ~ Used(i) => ImageLink(i)',
           Quiet(n) => \A i \in Images : Used(i)' /\ image'[i].name = n => ImageInv(i)',
           Quiet(n) => \A s \in Sets : imageSet'[s].name = n => SetInv(s)',
           UsesKept(mem[r].row.repo),
           label # "idle" => Knows(r)'
    PROVE  Inv'
<1>1. /\ ApartInv' /\ pc' \in [Requests -> Labels] /\ mem' \in [Requests -> Memories]
      /\ \A q \in Requests \ {r} : pc'[q] = pc[q] /\ mem'[q] = mem[q]
      /\ pc'[r] = label /\ mem'[r] = m
    BY ApartStep, Zenon
<1>2. TypeOK'
    BY <1>1 DEF Inv, TypeOK
<1>3. TypeOK /\ TablesInv /\ RowsInv /\ UseInv
    BY DEF Inv
<1>4. TablesInv'
  <2>1. \A d \in Devices : \A i \in {device'[d], found'[d]} : i # 0 => Used(i)'
    <3>1. \A d \in Devices : \A i \in {device[d], found[d]} : i \in 0..MaxImage
        BY <1>3 DEF TypeOK
    <3>2. \A d \in Devices : \A i \in {device[d], found[d]} : i # 0 => i \in Images
        BY <3>1, CatalogAssumption DEF Images
    <3> QED
        BY <1>3, <3>2 DEF TablesInv, Static
  <2> QED
      BY <1>3, <2>1, TablesStep
<1>5. RowsInv'
  <2>1. /\ \A i \in Images :
               Used(i)' /\ Quiet(image[i].name)' /\ image'[i].name # n => ImageInv(i)'
        /\ \A s \in Sets : Quiet(imageSet[s].name)' /\ imageSet'[s].name # n => SetInv(s)'
      BY <1>3, <1>4, OtherRows
  <2>2. \A i \in Images : Used(i)' /\ Quiet(image[i].name)' /\ image'[i].name = n => ImageInv(i)'
      BY DEF Quiet
  <2>3. \A s \in Sets : Quiet(imageSet[s].name)' /\ imageSet'[s].name = n => SetInv(s)'
      BY DEF Quiet
  <2> QED
      BY <2>1, <2>2, <2>3 DEF RowsInv
<1>6. UseInv'
    BY <1>3, UseStep
<1>7. ASSUME NEW q \in Requests \ {r}
      PROVE  Knows(q)'
  <2>1. Knows(q) /\ pc'[q] = pc[q] /\ mem'[q] = mem[q]
      BY <1>1 DEF Inv
  <2>2. MemoryLink(q)'
      BY <1>3, <2>1, LinkStep DEF Knows
  <2>3. ASSUME pc[q] # "idle", Quiet(Name(q))
        PROVE  RequestKnows(q)'
    <3>1. Name(q) # n /\ Name(q) \in Names
        BY <2>3, RequestsApart DEF Quiet
    <3> QED
        BY <1>3, <1>4, <2>1, <2>3, <3>1, OtherNameKnows DEF Knows
  <2>4. ASSUME pc[q] # "idle", mem[q].row.repo \notin contested
        PROVE  RepoKnows(q)'
    <3>1. mem[q].row.repo # mem[r].row.repo \/ mem[q].row.repo = Nothing
        BY <2>4, RequestsApart
    <3> QED
        BY <2>1, <2>4, <3>1, CatalogAssumption, RepoKnowsStep DEF Knows
  <2> QED
      BY <2>1, <2>2, <2>3, <2>4 DEF Knows, Quiet, Name
<1>8. label = "idle" => Knows(r)'
    BY <1>1 DEF Knows, MemoryLink, Creating, Upgrading, Inserting, Retrying, Deleting, Clearing,
                RepoLabels
<1> QED
    BY <1>2, <1>1, <1>3, <1>4, <1>5, <1>6, <1>7, <1>8 DEF Inv

LEMMA CreateSetStep ==
    ASSUME Inv, NEW r \in Requests, CreateSet(r), UNCHANGED <<found, begun, contested>>
    PROVE  Inv'
<1> DEFINE m == mem[r]
           n == m.row.name
<1>1. PICK s \in Sets :
          /\ \A t \in Sets : imageSet[t] = NoSet <=> t >= s
          /\ imageSet' = [imageSet EXCEPT ![s] = [live |-> TRUE, name |-> n]]
          /\ mem' = [mem EXCEPT ![r].row.set = s]
    BY DEF CreateSet
<1> DEFINE new == [m EXCEPT !.row.set = s]
<1>2. /\ pc[r] = "createSet" /\ Knows(r) /\ m \in Memories
      /\ pc' = [pc EXCEPT ![r] = "compose"] /\ UNCHANGED <<image, repo, device>>
    BY DEF CreateSet, Goto, Inv, TypeOK
<1>3. n \in Names /\ m.row.set = 0 /\ m.id = 0 /\ m.row.parent = 0
    BY <1>2 DEF Knows, MemoryLink, Creating
<1>4. /\ new \in Memories /\ new.id = 0 /\ new.row.set = s /\ new.row.name = n
      /\ new.row.repo = m.row.repo /\ new.row.url = m.row.url /\ new.row.parent = 0
  <2>1. s \in 0..MaxSet
      BY IdsAreNumbers
  <2> QED
      BY <1>2, <1>3, <2>1, SetLearned
<1>5. mem' = [mem EXCEPT ![r] = new]
    BY <1>1 DEF Inv, TypeOK
<1> HIDE DEF new
<1>6. /\ imageSet[s] = NoSet /\ imageSet'[s] = [live |-> TRUE, name |-> n]
      /\ imageSet' \in [Sets -> SetRows] /\ image' \in [Images -> ImageRows]
      /\ \A t \in Sets \ {s} : imageSet'[t] = imageSet[t]
  <2>1. s >= s
      BY IdsAreNumbers
  <2> QED
      BY <1>1, <1>2, <1>3, <2>1 DEF Inv, TypeOK, SetRows
<1>7. /\ \A i \in Images : Used(i) => image[i].set # s
      /\ LiveImages(s) = {}
    BY <1>6, CatalogAssumption DEF Inv, TablesInv, ImageLink, LiveImages, NoSet
<1>8. Static /\ Local(n) /\ \A i \in Images : ~ (Used(i)' /\ ~ Used(i))
    BY <1>2, <1>3, <1>6, CatalogAssumption DEF Static, Local, Used, SameRow, NoSet
<1>9. /\ pc'[r] = "compose" /\ mem'[r] = new /\ \A t : LiveImages(t)' = LiveImages(t)
    BY <1>2, <1>5 DEF Inv, TypeOK, LiveImages
<1>10. ASSUME Quiet(n)
       PROVE  /\ \A i \in Images : Used(i)' /\ image'[i].name = n => ImageInv(i)'
              /\ \A t \in Sets : imageSet'[t].name = n => SetInv(t)'
  <2>1. \A t \in Sets : imageSet[t].name = n => ~ imageSet[t].live
      BY <1>2, <1>10 DEF Knows, RequestKnows, Name
  <2>2. ASSUME NEW i \in Images, Used(i), image[i].name = n
        PROVE  ImageInv(i)'
    <3>1. ImageInv(i) /\ image[i].set \in Sets /\ image[i].set # s
        BY <1>7, <1>10, <2>2 DEF Inv, RowsInv, TablesInv, ImageLink
    <3>2. imageSet'[image[i].set] = imageSet[image[i].set]
        BY <1>6, <3>1
    <3> QED
        BY <1>2, <3>1, <3>2 DEF ImageInv
  <2>3. ASSUME NEW t \in Sets, imageSet'[t].name = n
        PROVE  SetInv(t)'
    <3>1. \A x \in Sets : imageSet'[x].live /\ imageSet'[x].name = n => x = s
        BY <1>6, <2>1
    <3>2. \A i, j \in LiveImages(t) : image[i].version = image[j].version => i = j
        BY <1>6, <1>7, <1>10, <2>3 DEF Inv, RowsInv, SetInv
    <3> QED
        BY <1>2, <1>9, <2>3, <3>1, <3>2 DEF SetInv
  <2> QED
      BY <1>2, <2>2, <2>3 DEF Used
<1>11. UsesKept(m.row.repo)
    BY <1>2 DEF UsesKept, Uses, Used, Calm
<1>12. Knows(r)'
  <2>1. MemoryLink(r)'
      BY <1>3, <1>4, <1>6, <1>9
         DEF MemoryLink, Creating, Upgrading, Inserting, Retrying, Deleting, Clearing, RepoLabels
  <2>2. RequestKnows(r)'
      BY <1>4, <1>6, <1>7, <1>9
         DEF RequestKnows, Creating, Upgrading, Inserting, Retrying, Clearing
  <2>3. RepoKnows(r) => RepoKnows(r)'
      BY <1>2, <1>4, <1>9 DEF RepoKnows, HasUrl, Name
  <2> QED
      BY <1>2, <1>4, <1>9, <2>1, <2>2, <2>3 DEF Knows
<1>13. "compose" \in Labels /\ Name(r) = n
    BY DEF Labels, Name
<1>14. UNCHANGED <<repo, device, found, begun, contested>> /\ pc[r] # "idle"
    BY <1>2
<1> HIDE DEF n
<1> QED
    BY <1>2, <1>3, <1>4, <1>5, <1>6, <1>8, <1>10, <1>11, <1>12, <1>13, <1>14, WriteStep DEF n

LEMMA SaveSetStep ==
    ASSUME Inv, NEW r \in Requests, SaveImageSet(r), UNCHANGED <<found, begun, contested>>
    PROVE  Inv'
<1> DEFINE m == mem[r]
           n == m.row.name
           s == m.row.set
<1>1. CASE Refuse(r)
    BY <1>1, RefuseStep
<1>2. CASE /\ imageSet' = [imageSet EXCEPT ![s].live = TRUE]
           /\ Goto(r, "getParent")
           /\ UNCHANGED <<image, repo, device, mem>>
  <2>1. /\ pc[r] = "saveSet" /\ Knows(r) /\ m \in Memories
        /\ pc' = [pc EXCEPT ![r] = "getParent"] /\ mem' = [mem EXCEPT ![r] = m]
      BY <1>2 DEF SaveImageSet, Goto, Inv, TypeOK
  <2>2. s \in Sets /\ imageSet[s].name = n /\ n \in Names
      BY <2>1 DEF Knows, MemoryLink, Upgrading, Inv, TablesInv, ImageLink
  <2>3. /\ imageSet'[s] = [imageSet[s] EXCEPT !.live = TRUE]
        /\ imageSet'[s].live /\ imageSet'[s].name = n
        /\ imageSet' \in [Sets -> SetRows] /\ image' \in [Images -> ImageRows]
        /\ \A t \in Sets \ {s} : imageSet'[t] = imageSet[t]
      BY <1>2, <2>2 DEF Inv, TypeOK, SetRows
  <2>4. Static /\ Local(n) /\ \A i \in Images : ~ (Used(i)' /\ ~ Used(i))
      BY <1>2, <2>2, <2>3, CatalogAssumption DEF Static, Local, Used, SameRow
  <2>5. ASSUME Quiet(n)
        PROVE  /\ \A i \in Images : Used(i)' /\ image'[i].name = n => ImageInv(i)'
               /\ \A t \in Sets : imageSet'[t].name = n => SetInv(t)'
    <3>1. imageSet[s].live
        BY <2>1, <2>5 DEF Knows, RequestKnows, Name
    <3>2. imageSet' = imageSet
        BY <1>2, <2>2, <3>1 DEF Inv, TypeOK, SetRows
    <3>3. \A i \in Images : ImageInv(i) => ImageInv(i)'
        BY <1>2, <3>2 DEF ImageInv
    <3>4. \A t \in Sets : SetInv(t) => SetInv(t)'
        BY <1>2, <3>2 DEF SetInv, LiveImages
    <3> QED
        BY <1>2, <2>5, <3>2, <3>3, <3>4 DEF Inv, RowsInv, Used
  <2>6. UsesKept(m.row.repo)
      BY <1>2 DEF UsesKept, Uses, Used, Calm
  <2>7. /\ pc'[r] = "getParent" /\ mem'[r] = m /\ \A t : LiveImages(t)' = LiveImages(t)
      BY <1>2, <2>1 DEF Inv, TypeOK, LiveImages
  <2>8. Knows(r)'
    <3>1. MemoryLink(r)'
        BY <1>2, <2>1, <2>3, <2>7
           DEF Knows, MemoryLink, Creating, Upgrading, Inserting, Retrying, Deleting, Clearing,
               RepoLabels, Used
    <3>2. RequestKnows(r) => RequestKnows(r)'
        BY <1>2, <2>1, <2>3, <2>7
           DEF RequestKnows, Creating, Upgrading, Inserting, Retrying, Clearing
    <3>3. RepoKnows(r) => RepoKnows(r)'
        BY <1>2, <2>1, <2>7 DEF RepoKnows, HasUrl, Name
    <3> QED
        BY <2>1, <2>7, <3>1, <3>2, <3>3 DEF Knows, Quiet, Name
  <2>9. /\ "getParent" \in Labels /\ Name(r) = n /\ pc[r] # "idle"
        /\ UNCHANGED <<repo, device, found, begun, contested>>
      BY <1>2, <2>1 DEF Labels, Name
  <2> QED
      BY <2>1, <2>2, <2>3, <2>4, <2>5, <2>6, <2>8, <2>9, WriteStep
<1> QED
    BY <1>1, <1>2 DEF SaveImageSet

LEMMA UsedLinks ==
    ASSUME TypeOK, TablesInv, NEW i \in Images, Used(i)
    PROVE  /\ ImageLink(i)
           /\ image[i].parent # 0 =>
                  /\ image[i].parent \in Images /\ image[i].parent < i /\ Used(image[i].parent)
                  /\ image[image[i].parent].name = image[i].name
<1>1. ImageLink(i)
    BY DEF TablesInv
<1>2. image[i].parent \in 0..MaxImage /\ i \in Nat /\ MaxImage \in Nat
    BY IdsAreNumbers, CatalogAssumption DEF TypeOK, ImageRows
<1>3. image[i].parent # 0 => image[i].parent \in Images /\ image[i].parent < i
    BY <1>1, <1>2 DEF ImageLink, Images
<1>4. image[i].parent # 0 => Used(image[i].parent) /\ image[image[i].parent].set = image[i].set
    BY <1>1, <1>3 DEF ImageLink
<1>5. image[i].parent # 0 => image[image[i].parent].name = image[i].name
    BY <1>1, <1>3, <1>4 DEF TablesInv, ImageLink
<1> QED
    BY <1>1, <1>3, <1>4, <1>5

LEMMA DeviceImages ==
    ASSUME TypeOK, TablesInv, NEW d \in Devices, NEW i \in {device[d], found[d]}, i # 0
    PROVE  i \in Images /\ Used(i)
<1>1. i \in 0..MaxImage
    BY DEF TypeOK
<1>2. i \in Images
    BY <1>1, CatalogAssumption DEF Images
<1> QED
    BY <1>2 DEF TablesInv

\* The row that is saved: it is there and is being built.
LEMMA BuildingRow ==
    ASSUME NEW row \in ImageRows
    PROVE  LET w == [row EXCEPT !.live = TRUE, !.status = "BUILDING"] IN
           /\ w \in ImageRows /\ w.live /\ w.status = "BUILDING" /\ w.name = row.name
           /\ w.set = row.set /\ w.version = row.version /\ w.repo = row.repo
           /\ w.url = row.url /\ w.parent = row.parent
BY DEF ImageRows, Statuses

LEMMA InsertStep ==
    ASSUME Inv, NEW r \in Requests, InsertImage(r), UNCHANGED <<found, begun, contested>>
    PROVE  Inv'
<1> DEFINE m == mem[r]
           n == m.row.name
           s == m.row.set
           w == [m.row EXCEPT !.live = TRUE, !.status = "BUILDING"]
<1>1. /\ pc[r] = "insert" /\ Knows(r) /\ m \in Memories /\ TypeOK /\ TablesInv
      /\ Unused # {} /\ image' = [image EXCEPT ![Lowest(Unused)] = w]
      /\ pc' = [pc EXCEPT ![r] = "idle"] /\ mem' = [mem EXCEPT ![r] = NoMemory]
      /\ UNCHANGED <<imageSet, repo, device>>
    BY DEF InsertImage, End, Goto, Inv, TypeOK
<1> PICK k : k = Lowest(Unused)
    OBVIOUS
<1>2. k \in Images /\ ~ Used(k) /\ \A j \in Images : j < k => Used(j)
  <2>1. Unused \in SUBSET Nat /\ Unused \subseteq Images
      BY IdsAreNumbers DEF Unused
  <2>2. k \in Unused /\ \A j \in Unused : k <= j
      BY <1>1, <2>1, LowestIsLeast
  <2>3. \A j \in Images : j \in Nat
      BY IdsAreNumbers
  <2>4. ASSUME NEW j \in Images, j < k, ~ Used(j)
        PROVE  FALSE
    <3>1. j \in Unused
        BY <2>4 DEF Unused, Used
    <3>2. k <= j /\ k \in Nat /\ j \in Nat
        BY <2>1, <2>2, <2>3, <3>1
    <3> QED
        BY <2>4, <3>2
  <2> QED
      BY <2>1, <2>2, <2>4 DEF Unused, Used
<1>3. /\ w \in ImageRows /\ w.live /\ w.status = "BUILDING" /\ w.name = n /\ w.set = s
      /\ w.version = m.row.version /\ w.repo = m.row.repo /\ w.url = m.row.url
      /\ w.parent = m.row.parent
  <2>1. m.row \in ImageRows
      BY <1>1 DEF Memories
  <2> QED
      BY <2>1, BuildingRow
<1> HIDE DEF w
<1>4. /\ image'[k] = w /\ \A i \in Images \ {k} : image'[i] = image[i]
      /\ image' \in [Images -> ImageRows] /\ imageSet' \in [Sets -> SetRows]
    BY <1>1, <1>2, <1>3 DEF TypeOK
<1>5. /\ n \in Names /\ s \in Sets /\ imageSet[s].name = n
      /\ w.parent # 0 => w.parent \in Images /\ Used(w.parent) /\ image[w.parent].set = s
  <2>1. w.parent \in 0..MaxImage
      BY <1>3 DEF ImageRows
  <2>2. w.parent # 0 => w.parent \in Images
      BY <2>1, CatalogAssumption DEF Images
  <2> QED
      BY <1>1, <1>3, <2>2 DEF Knows, MemoryLink, Inserting
<1>6. Static /\ Local(n)
    BY <1>1, <1>2, <1>3, <1>4 DEF Static, Local, Used, SameRow
<1>7. \A i \in Images : Used(i)' /\ ~ Used(i) => ImageLink(i)'
  <2>1. w.parent # 0 => w.parent < k
    <3>1. w.parent # 0 => ~ (k < w.parent) /\ w.parent # k
        BY <1>1, <1>2, <1>5 DEF TablesInv, ImageLink
    <3>2. k \in Nat /\ (w.parent # 0 => w.parent \in Nat)
        BY <1>2, <1>5, IdsAreNumbers
    <3> QED
        BY <3>1, <3>2
  <2>2. \A j \in Images : j < k => Used(j)'
      BY <1>2, <1>6 DEF Static
  <2>3. w.parent # 0 => image'[w.parent].set = s
      BY <1>2, <1>4, <1>5
  <2>4. ImageLink(k)'
      BY <1>1, <1>3, <1>4, <1>5, <2>1, <2>2, <2>3 DEF ImageLink
  <2>5. \A i \in Images \ {k} : Used(i)' => Used(i)
      BY <1>4 DEF Used
  <2> QED
      BY <2>4, <2>5
<1>8. ASSUME Quiet(n)
      PROVE  /\ \A i \in Images : Used(i)' /\ image'[i].name = n => ImageInv(i)'
             /\ \A t \in Sets : imageSet'[t].name = n => SetInv(t)'
  <2>1. RequestKnows(r)
      BY <1>1, <1>8 DEF Knows, Name
  <2>2. ImageInv(k)'
    <3>1. imageSet[s].live
        BY <1>1, <2>1 DEF RequestKnows, Inserting
    <3>2. w.parent # 0 => image'[w.parent].status = "SUCCESS"
        BY <1>1, <1>2, <1>3, <1>4, <1>5, <2>1 DEF RequestKnows, Inserting
    <3>3. \A d \in Devices : k \notin {device[d], found[d]}
      <4>1. k # 0
          BY <1>2, IdsAreNumbers
      <4> QED
          BY <1>1, <1>2, <4>1, DeviceImages
    <3> QED
        BY <1>1, <1>3, <1>4, <3>1, <3>2, <3>3 DEF ImageInv
  <2>3. ASSUME NEW i \in Images \ {k}, Used(i), image[i].name = n
        PROVE  ImageInv(i)'
    <3>1. ImageInv(i)
        BY <1>8, <2>3 DEF Inv, RowsInv
    <3>2. image[i].parent # 0 => image'[image[i].parent] = image[image[i].parent]
        BY <1>1, <1>2, <1>4, <2>3, UsedLinks
    <3> QED
        BY <1>1, <1>4, <2>3, <3>1, <3>2 DEF ImageInv
  <2>4. ASSUME NEW t \in Sets, imageSet[t].name = n
        PROVE  SetInv(t)'
    <3>1. SetInv(t)
        BY <1>8, <2>4 DEF Inv, RowsInv
    <3>2. \A j \in LiveImages(s) : image[j].version < m.row.version
        BY <1>1, <2>1 DEF RequestKnows, Inserting
    <3>3. \A j \in LiveImages(t)' :
              \/ j \in LiveImages(t) /\ j # k /\ image'[j] = image[j]
              \/ j = k /\ t = s
        BY <1>3, <1>4 DEF LiveImages
    <3>4. \A j \in Images : image[j].version \in Nat
        BY <1>1 DEF TypeOK, ImageRows
    <3>5. \A j \in LiveImages(s) : image[j].version # m.row.version
      <4>1. m.row.version \in Nat
          BY <1>3 DEF ImageRows
      <4>2. \A j \in LiveImages(s) : j \in Images
          BY DEF LiveImages
      <4> QED
          BY <3>2, <3>4, <4>1, <4>2
    <3>6. \A i, j \in LiveImages(t)' : image'[i].version = image'[j].version => i = j
        BY <1>3, <1>4, <3>1, <3>3, <3>5 DEF SetInv
    <3> QED
        BY <1>1, <3>1, <3>6 DEF SetInv
  <2> QED
      BY <1>1, <1>4, <2>2, <2>3, <2>4 DEF Used
<1>9. UsesKept(m.row.repo)
  <2>1. ASSUME NEW q \in Repos, Uses(k, q)'
        PROVE  q = m.row.repo /\ repo[q].live /\ repo[q].url = w.url
    <3>1. q = m.row.repo /\ n \notin contested /\ q \notin contested /\ q # Nothing
        BY <1>1, <1>3, <1>4, <2>1, CatalogAssumption DEF Uses, Calm
    <3> QED
        BY <1>1, <1>3, <3>1 DEF Knows, RepoKnows, HasUrl, Name
  <2>2. \A i \in Images \ {k} : \A q \in Repos : Uses(i, q)' => Uses(i, q)
      BY <1>4 DEF Uses, Used, Calm
  <2> QED
      BY <1>4, <2>1, <2>2 DEF UsesKept
<1>10. /\ "idle" \in Labels /\ Name(r) = n /\ pc[r] # "idle" /\ NoMemory \in Memories
       /\ UNCHANGED <<repo, device, found, begun, contested>>
    BY <1>1, NoMemoryType DEF Labels, Name
<1> HIDE DEF n
<1> QED
    BY <1>1, <1>4, <1>5, <1>6, <1>7, <1>8, <1>9, <1>10, WriteStep

\* What is built again was in ERROR: no device has it, no image extends its commit.
LEMMA SaveRetryStep ==
    ASSUME Inv, NEW r \in Requests, SetBuildingStatusOnImageToRetryBuild(r),
           UNCHANGED <<found, begun, contested>>
    PROVE  Inv'
<1> DEFINE m == mem[r]
           n == m.row.name
           w == [m.row EXCEPT !.live = TRUE, !.status = "BUILDING"]
<1>1. /\ pc[r] = "saveRetry" /\ Knows(r) /\ m \in Memories /\ TypeOK /\ TablesInv
      /\ image' = [image EXCEPT ![m.id] = w]
      /\ pc' = [pc EXCEPT ![r] = "idle"] /\ mem' = [mem EXCEPT ![r] = NoMemory]
      /\ UNCHANGED <<imageSet, repo, device>>
    BY DEF SetBuildingStatusOnImageToRetryBuild, End, Goto, Inv, TypeOK
<1> PICK k : k = m.id
    OBVIOUS
<1>2. k \in Images /\ Used(k) /\ SameRow(m.row, k)
    BY <1>1 DEF Knows, MemoryLink, Retrying
<1>3. /\ w \in ImageRows /\ w.live /\ w.status = "BUILDING" /\ w.name = n
      /\ SameRow(w, k) /\ w.repo = m.row.repo /\ w.url = m.row.url
  <2>1. m.row \in ImageRows
      BY <1>1 DEF Memories
  <2> QED
      BY <1>2, <2>1, BuildingRow DEF SameRow
<1> HIDE DEF w
<1>4. /\ image'[k] = w /\ \A i \in Images \ {k} : image'[i] = image[i]
      /\ image' \in [Images -> ImageRows] /\ imageSet' \in [Sets -> SetRows]
    BY <1>1, <1>2, <1>3 DEF TypeOK
<1>5. n \in Names /\ image[k].name = n
    BY <1>1, <1>2 DEF TablesInv, ImageLink, SameRow
<1>6. Static /\ Local(n)
    BY <1>1, <1>2, <1>3, <1>4 DEF Static, Local, Used, SameRow
<1>7. \A i \in Images : Used(i)' => Used(i)
    BY <1>2, <1>4 DEF Used
<1>8. ASSUME Quiet(n)
      PROVE  /\ \A i \in Images : Used(i)' /\ image'[i].name = n => ImageInv(i)'
             /\ \A t \in Sets : imageSet'[t].name = n => SetInv(t)'
  <2>1. image[k].live /\ image[k].status = "ERROR"
      BY <1>1, <1>8 DEF Knows, Name, RequestKnows, Retrying
  <2>2. ImageInv(k)
      BY <1>2, <1>5, <1>8 DEF Inv, RowsInv
  <2>3. \A i \in Images : Used(i) /\ image[i].name = n /\ image[i].parent # 0 =>
            image[i].parent # k /\ image'[image[i].parent] = image[image[i].parent]
    <3>1. \A i \in Images : Used(i) /\ image[i].name = n => ImageInv(i)
        BY <1>8 DEF Inv, RowsInv
    <3>2. \A i \in Images : Used(i) /\ image[i].parent # 0 => image[i].parent \in Images
        BY <1>1, UsedLinks
    <3> QED
        BY <1>4, <2>1, <3>1, <3>2 DEF ImageInv
  <2>4. ImageInv(k)'
    <3>1. \A d \in Devices : k \notin {device[d], found[d]}
        BY <2>1, <2>2 DEF ImageInv
    <3>2. imageSet[w.set].live
        BY <1>3, <2>1, <2>2 DEF ImageInv, SameRow
    <3>3. w.parent # 0 => image'[w.parent].status = "SUCCESS"
        BY <1>2, <1>3, <1>5, <2>2, <2>3 DEF ImageInv, SameRow
    <3> QED
        BY <1>1, <1>3, <1>4, <3>1, <3>2, <3>3 DEF ImageInv
  <2>5. ASSUME NEW i \in Images \ {k}, Used(i), image[i].name = n
        PROVE  ImageInv(i)'
    <3>1. ImageInv(i)
        BY <1>8, <2>5 DEF Inv, RowsInv
    <3> QED
        BY <1>1, <1>4, <2>3, <2>5, <3>1 DEF ImageInv
  <2>6. ASSUME NEW t \in Sets, imageSet[t].name = n
        PROVE  SetInv(t)'
    <3>1. SetInv(t)
        BY <1>8, <2>6 DEF Inv, RowsInv
    <3>2. \A j \in LiveImages(t)' : j \in LiveImages(t) /\ image'[j].version = image[j].version
        BY <1>3, <1>4, <2>1 DEF LiveImages, SameRow
    <3> QED
        BY <1>1, <3>1, <3>2 DEF SetInv
  <2> QED
      BY <1>1, <1>4, <1>7, <2>4, <2>5, <2>6
<1>9. UsesKept(m.row.repo)
  <2>1. ASSUME NEW q \in Repos, Uses(k, q)'
        PROVE  q = m.row.repo /\ repo[q].live /\ repo[q].url = w.url
    <3>1. q = m.row.repo /\ n \notin contested /\ q \notin contested /\ q # Nothing
        BY <1>1, <1>3, <1>4, <2>1, CatalogAssumption DEF Uses, Calm
    <3> QED
        BY <1>1, <1>3, <3>1 DEF Knows, RepoKnows, HasUrl, Name
  <2>2. \A i \in Images \ {k} : \A q \in Repos : Uses(i, q)' => Uses(i, q)
      BY <1>4 DEF Uses, Used, Calm
  <2> QED
      BY <1>4, <2>1, <2>2 DEF UsesKept
<1>10. /\ "idle" \in Labels /\ Name(r) = n /\ pc[r] # "idle" /\ NoMemory \in Memories
       /\ UNCHANGED <<repo, device, found, begun, contested>>
    BY <1>1, NoMemoryType DEF Labels, Name
<1> HIDE DEF n
<1> QED
    BY <1>1, <1>4, <1>5, <1>6, <1>7, <1>8, <1>9, <1>10, WriteStep

\* Images and image sets named n are deleted; none of them is being built or on a device.
Deletes(gone, ended, n) ==
    /\ gone \in SUBSET Images /\ ended \in SUBSET Sets /\ n \in Names
    /\ \A i \in gone : Used(i) /\ image[i].name = n
    /\ \A s \in ended : imageSet[s].name = n
    /\ \A i \in gone : image'[i] = [image[i] EXCEPT !.live = FALSE]
    /\ \A i \in Images \ gone : image'[i] = image[i]
    /\ \A s \in ended : imageSet'[s] = [imageSet[s] EXCEPT !.live = FALSE]
    /\ \A s \in Sets \ ended : imageSet'[s] = imageSet[s]
    /\ Quiet(n) =>
           /\ \A i \in gone : /\ image[i].status # "BUILDING"
                              /\ \A d \in Devices : i \notin {device[d], found[d]}
           /\ \A s \in ended : LiveImages(s) \subseteq gone

LEMMA DeletedRows ==
    ASSUME Inv, UNCHANGED <<repo, device, found, begun, contested>>, NEW p, NEW gone, NEW ended,
           NEW n, Deletes(gone, ended, n)
    PROVE  /\ Static /\ Local(n) /\ UsesKept(p) /\ \A i \in Images : Used(i)' => Used(i)
           /\ Quiet(n) => \A i \in Images : Used(i)' /\ image'[i].name = n => ImageInv(i)'
           /\ Quiet(n) => \A s \in Sets : imageSet'[s].name = n => SetInv(s)'
           /\ image \in [Images -> ImageRows] /\ imageSet \in [Sets -> SetRows]
<1> USE DEF Deletes
<1>1. TypeOK /\ TablesInv
    BY DEF Inv
<1>2. \A i \in Images :
          /\ SameRow(image'[i], i) /\ image'[i].url = image[i].url
          /\ image'[i].status = image[i].status
          /\ image'[i].live <=> image[i].live /\ i \notin gone
          /\ image'[i] = image[i] \/ i \in gone
  <2>1. ASSUME NEW row \in ImageRows
        PROVE  LET w == [row EXCEPT !.live = FALSE] IN
               /\ ~ w.live /\ w.name = row.name /\ w.set = row.set /\ w.version = row.version
               /\ w.status = row.status /\ w.repo = row.repo /\ w.url = row.url
               /\ w.parent = row.parent
      BY DEF ImageRows
  <2>2. \A i \in Images : image[i] \in ImageRows
      BY <1>1 DEF TypeOK
  <2>3. ASSUME NEW i \in gone
        PROVE  /\ SameRow(image'[i], i) /\ image'[i].url = image[i].url
               /\ image'[i].status = image[i].status /\ ~ image'[i].live
    <3>1. image'[i] = [image[i] EXCEPT !.live = FALSE] /\ image[i] \in ImageRows
        BY <2>2
    <3> QED
        BY <2>1, <3>1 DEF SameRow
  <2>4. \A i \in Images \ gone : image'[i] = image[i]
      OBVIOUS
  <2> QED
      BY <2>3, <2>4 DEF SameRow
<1>3. \A s \in Sets :
          /\ imageSet'[s].name = imageSet[s].name
          /\ imageSet'[s].live <=> imageSet[s].live /\ s \notin ended
          /\ imageSet'[s] = imageSet[s] \/ s \in ended
  <2>1. \A s \in Sets : imageSet[s] \in SetRows
      BY <1>1 DEF TypeOK
  <2>2. \A s \in ended : imageSet'[s].name = imageSet[s].name /\ ~ imageSet'[s].live
    <3>1. ASSUME NEW row \in SetRows
          PROVE  [row EXCEPT !.live = FALSE].name = row.name /\ ~ [row EXCEPT !.live = FALSE].live
        BY DEF SetRows
    <3> SUFFICES ASSUME NEW s \in ended
                 PROVE  imageSet'[s].name = imageSet[s].name /\ ~ imageSet'[s].live
        OBVIOUS
    <3>2. imageSet[s] \in SetRows /\ imageSet'[s] = [imageSet[s] EXCEPT !.live = FALSE]
        BY <2>1
    <3> QED
        BY <3>1, <3>2
  <2>3. \A s \in Sets \ ended : imageSet'[s] = imageSet[s]
      OBVIOUS
  <2> QED
      BY <2>2, <2>3
<1>4. Static /\ Local(n) /\ \A i \in Images : Used(i)' <=> Used(i)
  <2>1. \A i \in Images : Used(i)' <=> Used(i)
      BY <1>2 DEF Used
  <2>2. Local(n)
      BY <1>2, <1>3 DEF Local, SameRow
  <2> QED
      BY <1>2, <1>3, <2>1, <2>2, CatalogAssumption DEF Static
<1>5. UsesKept(p)
    BY <1>2, <1>4 DEF UsesKept, Uses, Calm, SameRow
<1>6. ASSUME Quiet(n), NEW i \in Images, Used(i), image[i].name = n
      PROVE  ImageInv(i)'
  <2>1. ImageInv(i) /\ ImageLink(i)
      BY <1>6 DEF Inv, RowsInv, TablesInv
  <2>2. image[i].parent # 0 => image[i].parent \in Images
      BY <1>1, <1>6, UsedLinks
  <2>3. image'[i].live => imageSet'[image[i].set].live
    <3>1. SUFFICES ASSUME image'[i].live  PROVE image[i].set \notin ended
        BY <1>2, <1>3, <2>1 DEF ImageInv, ImageLink
    <3>2. i \notin gone /\ i \in LiveImages(image[i].set)
        BY <1>2, <3>1 DEF LiveImages
    <3> QED
        BY <1>6, <3>2
  <2>4. image'[i].status = "BUILDING" => image'[i].live
      BY <1>2, <1>6, <2>1 DEF ImageInv
  <2>5. image'[i].parent # 0 => image'[image'[i].parent].status = "SUCCESS"
      BY <1>2, <2>1, <2>2 DEF ImageInv, SameRow
  <2>6. \A d \in Devices : i \in {device[d], found[d]} => image'[i].live /\ image'[i].status = "SUCCESS"
      BY <1>2, <1>6, <2>1 DEF ImageInv
  <2>7. image'[i].set = image[i].set
      BY <1>2 DEF SameRow
  <2> QED
      BY <2>3, <2>4, <2>5, <2>6, <2>7 DEF ImageInv
<1>7. ASSUME Quiet(n), NEW s \in Sets, imageSet[s].name = n
      PROVE  SetInv(s)'
  <2>1. SetInv(s)
      BY <1>7 DEF Inv, RowsInv
  <2>2. \A j \in LiveImages(s)' : j \in LiveImages(s) /\ image'[j].version = image[j].version
      BY <1>2 DEF LiveImages, SameRow
  <2> QED
      BY <1>3, <2>1, <2>2 DEF SetInv
<1> QED
    BY <1>1, <1>2, <1>3, <1>4, <1>5, <1>6, <1>7 DEF SameRow, TypeOK

LEMMA DeleteImageStep ==
    ASSUME Inv, NEW r \in Requests, DeleteImage(r), UNCHANGED <<found, begun, contested>>
    PROVE  Inv'
<1> DEFINE m == mem[r]
           n == m.row.name
           s == m.row.set
<1>1. /\ pc[r] = "deleteImage" /\ Knows(r) /\ m \in Memories /\ TypeOK /\ TablesInv
      /\ image' = [image EXCEPT ![m.id].live = FALSE]
      /\ UNCHANGED imageSet /\ UNCHANGED <<repo, device, found, begun, contested>>
    BY DEF DeleteImage, Inv, TypeOK
<1> PICK k : k = m.id
    OBVIOUS
<1>2. k \in Images /\ Used(k) /\ image[k].name = n /\ s \in Sets /\ imageSet[s].name = n
      /\ n \in Names
    BY <1>1 DEF Knows, MemoryLink, Deleting, TablesInv, ImageLink
<1>3. /\ image' \in [Images -> ImageRows] /\ imageSet' \in [Sets -> SetRows]
      /\ \A i \in {k} : image'[i] = [image[i] EXCEPT !.live = FALSE]
      /\ \A i \in Images \ {k} : image'[i] = image[i]
      /\ \A t \in {} : imageSet'[t] = [imageSet[t] EXCEPT !.live = FALSE]
      /\ \A t \in Sets \ {} : imageSet'[t] = imageSet[t]
    BY <1>1, <1>2 DEF TypeOK, ImageRows
<1>4. ASSUME Quiet(n)
      PROVE  /\ image[k].status # "BUILDING"
             /\ \A d \in Devices : k \notin {device[d], found[d]}
  <2>1. image[k].status = "ERROR"
      BY <1>1, <1>4 DEF Knows, RequestKnows, Name
  <2>2. ImageInv(k)
      BY <1>2, <1>4 DEF Inv, RowsInv
  <2> QED
      BY <2>1, <2>2 DEF ImageInv
<1>5. /\ Static /\ Local(n) /\ UsesKept(m.row.repo) /\ \A i \in Images : Used(i)' => Used(i)
      /\ Quiet(n) => \A i \in Images : Used(i)' /\ image'[i].name = n => ImageInv(i)'
      /\ Quiet(n) => \A t \in Sets : imageSet'[t].name = n => SetInv(t)'
  <2>1. Deletes({k}, {}, n)
      BY <1>1, <1>2, <1>3, <1>4 DEF Deletes
  <2> HIDE DEF n
  <2> QED
      BY <1>1, <2>1, DeletedRows
<1>6. CASE m.last /\ Goto(r, "deleteSet") /\ UNCHANGED mem
  <2>1. /\ pc' = [pc EXCEPT ![r] = "deleteSet"] /\ mem' = [mem EXCEPT ![r] = m]
        /\ pc'[r] = "deleteSet" /\ mem'[r] = m
      BY <1>1, <1>6 DEF Goto, TypeOK
  <2>2. MemoryLink(r)'
      BY <1>1, <1>2, <1>5, <2>1
         DEF Static, SameRow, MemoryLink, Creating, Upgrading, Inserting, Retrying, Deleting,
             Clearing, RepoLabels
  <2>3. ASSUME Quiet(n)
        PROVE  RequestKnows(r)'
    <3>1. LiveImages(s) \subseteq {k}
        BY <1>1, <1>6, <2>3 DEF Knows, RequestKnows, Name
    <3>2. \A i \in Images : image'[i].live /\ image'[i].set = s => i \in LiveImages(s) /\ i # k
      <4>1. ~ image'[k].live
          BY <1>1, <1>2 DEF TypeOK, ImageRows
      <4> QED
          BY <1>3, <4>1 DEF LiveImages
    <3>3. \A i \in Images : ~ (image'[i].live /\ image'[i].set = s)
        BY <3>1, <3>2
    <3>4. LiveImages(m.row.set)' = {}
        BY <2>1, <3>3 DEF LiveImages
    <3> QED
        BY <2>1, <3>3
           DEF RequestKnows, Creating, Upgrading, Inserting, Retrying, Clearing, LiveImages
  <2>4. RepoKnows(r)'
      BY <2>1 DEF RepoKnows, HasUrl
  <2>5. Knows(r)'
      BY <1>1, <2>1, <2>2, <2>3, <2>4 DEF Knows, Quiet, Name
  <2>6. "deleteSet" \in Labels /\ Name(r) = n /\ pc[r] # "idle"
      BY <1>1 DEF Labels, Name
  <2> HIDE DEF n
  <2>7. m.row.name = m.row.name /\ m.row.repo = m.row.repo
      OBVIOUS
  <2> QED
      BY <1>1, <1>2, <1>3, <1>5, <2>1, <2>5, <2>6, WriteStep
<1>7. CASE End(r)
  <2>1. pc' = [pc EXCEPT ![r] = "idle"] /\ mem' = [mem EXCEPT ![r] = NoMemory]
      BY <1>7 DEF End, Goto
  <2>2. "idle" \in Labels /\ Name(r) = n /\ pc[r] # "idle" /\ NoMemory \in Memories
      BY <1>1, NoMemoryType DEF Labels, Name
  <2> HIDE DEF n
  <2> QED
      BY <1>1, <1>2, <1>3, <1>5, <2>1, <2>2, WriteStep
<1> QED
    BY <1>6, <1>7 DEF DeleteImage

LEMMA DeleteSetStep ==
    ASSUME Inv, NEW r \in Requests, DeleteSet(r), UNCHANGED <<found, begun, contested>>
    PROVE  Inv'
<1> DEFINE m == mem[r]
           n == m.row.name
<1>1. /\ pc[r] = "deleteSet" /\ Knows(r) /\ m \in Memories /\ TypeOK /\ TablesInv
      /\ imageSet' = [imageSet EXCEPT ![m.row.set].live = FALSE]
      /\ pc' = [pc EXCEPT ![r] = "idle"] /\ mem' = [mem EXCEPT ![r] = NoMemory]
      /\ UNCHANGED image /\ UNCHANGED <<repo, device, found, begun, contested>>
    BY DEF DeleteSet, End, Goto, Inv, TypeOK
<1> PICK s : s = m.row.set
    OBVIOUS
<1>2. s \in Sets /\ imageSet[s].name = n /\ n \in Names
    BY <1>1 DEF Knows, MemoryLink, Deleting, TablesInv, ImageLink
<1>3. /\ image' \in [Images -> ImageRows] /\ imageSet' \in [Sets -> SetRows]
      /\ \A i \in {} : image'[i] = [image[i] EXCEPT !.live = FALSE]
      /\ \A i \in Images \ {} : image'[i] = image[i]
      /\ \A t \in {s} : imageSet'[t] = [imageSet[t] EXCEPT !.live = FALSE]
      /\ \A t \in Sets \ {s} : imageSet'[t] = imageSet[t]
    BY <1>1, <1>2 DEF TypeOK, SetRows
<1>4. Quiet(n) => \A t \in {s} : LiveImages(t) \subseteq {}
    BY <1>1 DEF Knows, RequestKnows, Name
<1>5. /\ Static /\ Local(n) /\ UsesKept(m.row.repo) /\ \A i \in Images : Used(i)' => Used(i)
      /\ Quiet(n) => \A i \in Images : Used(i)' /\ image'[i].name = n => ImageInv(i)'
      /\ Quiet(n) => \A t \in Sets : imageSet'[t].name = n => SetInv(t)'
  <2>1. Deletes({}, {s}, n)
      BY <1>1, <1>2, <1>3, <1>4 DEF Deletes
  <2> HIDE DEF n
  <2> QED
      BY <1>1, <2>1, DeletedRows
<1>6. "idle" \in Labels /\ Name(r) = n /\ pc[r] # "idle" /\ NoMemory \in Memories
    BY <1>1, NoMemoryType DEF Labels, Name
<1> HIDE DEF n
<1> QED
    BY <1>1, <1>2, <1>3, <1>5, <1>6, WriteStep

LEMMA DeleteImageSetStep ==
    ASSUME Inv, NEW r \in Requests, DeleteImageSet(r), UNCHANGED <<found, begun, contested>>
    PROVE  Inv'
<1> DEFINE m == mem[r]
           n == m.row.name
<1> PICK s : s = m.row.set
    OBVIOUS
<1>1. /\ pc[r] = "deleteAll" /\ Knows(r) /\ m \in Memories /\ TypeOK /\ TablesInv
      /\ image' = [i \in Images |->
             IF image[i].set = s THEN [image[i] EXCEPT !.live = FALSE] ELSE image[i]]
      /\ imageSet' = [imageSet EXCEPT ![s].live = FALSE]
      /\ pc' = [pc EXCEPT ![r] = "idle"] /\ mem' = [mem EXCEPT ![r] = NoMemory]
      /\ UNCHANGED <<repo, device, found, begun, contested>>
    BY DEF DeleteImageSet, End, Goto, Inv, TypeOK
<1> PICK gone : gone = {i \in Images : Used(i) /\ image[i].set = s}
    OBVIOUS
<1>2. s \in Sets /\ imageSet[s].name = n /\ n \in Names
    BY <1>1 DEF Knows, MemoryLink, Clearing
<1>3. /\ image' \in [Images -> ImageRows] /\ imageSet' \in [Sets -> SetRows]
      /\ \A i \in gone : image'[i] = [image[i] EXCEPT !.live = FALSE]
      /\ \A i \in Images \ gone : image'[i] = image[i]
      /\ \A t \in {s} : imageSet'[t] = [imageSet[t] EXCEPT !.live = FALSE]
      /\ \A t \in Sets \ {s} : imageSet'[t] = imageSet[t]
  <2>1. \A row \in ImageRows : /\ [row EXCEPT !.live = FALSE] \in ImageRows
                               /\ row.live = FALSE => [row EXCEPT !.live = FALSE] = row
      BY DEF ImageRows
  <2>2. \A i \in Images : image[i] \in ImageRows
      BY <1>1 DEF TypeOK
  <2>3. \A i \in Images : ~ Used(i) => image[i].live = FALSE
      BY <1>1, <2>2 DEF TablesInv, ImageRows
  <2>4. image' \in [Images -> ImageRows]
      BY <1>1, <2>1, <2>2
  <2>5. \A i \in Images \ gone : image'[i] = image[i]
      BY <1>1, <2>1, <2>2, <2>3
  <2>6. \A i \in gone : i \in Images /\ image'[i] = [image[i] EXCEPT !.live = FALSE]
      BY <1>1
  <2>7. /\ imageSet' \in [Sets -> SetRows]
        /\ \A t \in {s} : imageSet'[t] = [imageSet[t] EXCEPT !.live = FALSE]
        /\ \A t \in Sets \ {s} : imageSet'[t] = imageSet[t]
      BY <1>1, <1>2 DEF TypeOK, SetRows
  <2> QED
      BY <2>4, <2>5, <2>6, <2>7
<1>4. ASSUME Quiet(n)
      PROVE  /\ \A i \in gone : /\ image[i].status # "BUILDING"
                                /\ \A d \in Devices : i \notin {device[d], found[d]}
             /\ \A t \in {s} : LiveImages(t) \subseteq gone
  <2>1. /\ \A i \in gone : image[i].status # "BUILDING"
        /\ \A d \in Devices : \A j \in {device[d], found[d]} : j # 0 => j \notin gone
      BY <1>1, <1>4 DEF Knows, RequestKnows, Name, Clearing
  <2>2. LiveImages(s) \subseteq gone
      BY <1>1 DEF LiveImages, TablesInv
  <2> QED
      BY <2>1, <2>2, IdsAreNumbers
<1>5. /\ Static /\ Local(n) /\ UsesKept(m.row.repo) /\ \A i \in Images : Used(i)' => Used(i)
      /\ Quiet(n) => \A i \in Images : Used(i)' /\ image'[i].name = n => ImageInv(i)'
      /\ Quiet(n) => \A t \in Sets : imageSet'[t].name = n => SetInv(t)'
  <2>1. \A i \in gone : Used(i) /\ image[i].name = n
      BY <1>1, <1>2 DEF TablesInv, ImageLink
  <2>2. Deletes(gone, {s}, n)
      BY <1>1, <1>2, <1>3, <1>4, <2>1 DEF Deletes
  <2> HIDE DEF n
  <2> QED
      BY <1>1, <2>2, DeletedRows
<1>6. "idle" \in Labels /\ Name(r) = n /\ pc[r] # "idle" /\ NoMemory \in Memories
    BY <1>1, NoMemoryType DEF Labels, Name
<1> HIDE DEF n
<1> QED
    BY <1>1, <1>2, <1>3, <1>5, <1>6, WriteStep

-------------------------------------------------------------------------------
(* Repositories are written; builds end; devices report.                   *)

LEMMA RepoWriteStep ==
    ASSUME Inv, NEW r \in Requests, pc[r] \in RepoLabels, NEW row \in RepoRows,
           NEW p, p = mem[r].row.repo, repo' = [repo EXCEPT ![p] = row],
           End(r), UNCHANGED <<image, imageSet, device, found, begun, contested>>,
           p \notin contested =>
               \A i \in Images : Uses(i, p) =>
                   row.live /\ (image[i].status \in Settled => row.url = image[i].url)
    PROVE  Inv'
<1>1. /\ TypeOK /\ TablesInv /\ RowsInv /\ UseInv /\ Knows(r) /\ pc[r] # "idle"
      /\ pc' = [pc EXCEPT ![r] = "idle"] /\ mem' = [mem EXCEPT ![r] = NoMemory]
      /\ "idle" \in Labels /\ NoMemory \in Memories
    BY NoMemoryType DEF Inv, End, Goto, RepoLabels, Labels
<1>2. p \in Repos /\ p # Nothing
    BY <1>1, CatalogAssumption DEF Knows, MemoryLink
<1>3. /\ repo' \in [Repos -> RepoRows] /\ repo'[p] = row
      /\ \A q \in Repos \ {p} : repo'[q] = repo[q]
    BY <1>1, <1>2 DEF TypeOK
<1>4. /\ ApartInv' /\ pc' \in [Requests -> Labels] /\ mem' \in [Requests -> Memories]
      /\ \A q \in Requests \ {r} : pc'[q] = pc[q] /\ mem'[q] = mem[q]
      /\ pc'[r] = "idle" /\ mem'[r] = NoMemory
    BY <1>1, ApartStep
<1>5. TypeOK'
    BY <1>1, <1>3, <1>4 DEF TypeOK
<1>6. TablesInv'
    BY <1>1 DEF TablesInv, ImageLink, Used
<1>7. RowsInv'
    BY <1>1 DEF RowsInv, ImageInv, SetInv, LiveImages, Used, Quiet
<1>8. \A i \in Images : \A q \in Repos : Uses(i, q)' <=> Uses(i, q)
    BY DEF Uses, Used, Calm
<1>9. UseInv'
  <2>1. \A i \in Images : Uses(i, p) => p \notin contested
      BY DEF Uses, Calm
  <2>2. \A i \in Images : Uses(i, p) =>
            repo'[p].live /\ (image[i].status \in Settled => repo'[p].url = image[i].url)
      BY <1>3, <2>1
  <2>3. \A i \in Images : \A q \in Repos \ {p} : Uses(i, q) =>
            repo'[q].live /\ (image[i].status \in Settled => repo'[q].url = image[i].url)
      BY <1>1, <1>3 DEF UseInv
  <2> QED
      BY <1>8, <2>2, <2>3 DEF UseInv
<1>10. ASSUME NEW q \in Requests \ {r}
       PROVE  Knows(q)'
  <2>1. Knows(q) /\ pc'[q] = pc[q] /\ mem'[q] = mem[q]
      BY <1>4 DEF Inv
  <2>2. MemoryLink(q)'
      BY <2>1 DEF Knows, MemoryLink, Used, SameRow, Creating, Upgrading, Inserting, Retrying,
                  Deleting, Clearing
  <2>3. RequestKnows(q) => RequestKnows(q)'
      BY <2>1 DEF RequestKnows, LiveImages, Creating, Upgrading, Inserting, Retrying, Clearing
  <2>4. ASSUME pc[q] # "idle", mem[q].row.repo \notin contested, RepoKnows(q)
        PROVE  RepoKnows(q)'
    <3>1. mem[q].row.repo # p
        BY <1>1, <1>2, <2>4, RequestsApart
    <3>2. mem[q].row.repo # Nothing => mem[q].row.repo \in Repos
        BY <1>1 DEF TypeOK, Memories, ImageRows
    <3>3. pc[q] \in RepoLabels => mem[q].row.repo \in Repos
        BY <2>1 DEF Knows, MemoryLink
    <3>4. mem[q].row.repo \in Repos => repo'[mem[q].row.repo] = repo[mem[q].row.repo]
        BY <1>3, <3>1
    <3> QED
        BY <1>8, <2>1, <2>4, <3>2, <3>3, <3>4 DEF RepoKnows, RepoLabels, Name
  <2> QED
      BY <2>1, <2>2, <2>3, <2>4 DEF Knows, Quiet, Name
<1>11. Knows(r)'
    BY <1>4 DEF Knows, MemoryLink, Creating, Upgrading, Inserting, Retrying, Deleting, Clearing,
                RepoLabels
<1> QED
    BY <1>4, <1>5, <1>6, <1>7, <1>9, <1>10, <1>11 DEF Inv

LEMMA CreateRepoStep ==
    ASSUME Inv, NEW r \in Requests, CreateThirdPartyRepo(r)
    PROVE  Inv'
<1>1. ASSUME NEW p \in Repos, NEW u \in Urls, repo[p] = NoUrl,
             Begin(r, "insertRepo", [NoImage EXCEPT !.repo = p, !.url = u], 0),
             UNCHANGED <<tables, found>>
      PROVE  Inv'
  <2>1. "insertRepo" \in RepoLabels \ {"deleteRepo"} /\ "insertRepo" # "saveRepo" /\ ~ repo[p].live
      BY <1>1 DEF RepoLabels, NoUrl
  <2> QED
      BY <1>1, <2>1, RepoBegins
<1>2. ASSUME pc[r] = "insertRepo",
             repo' = [repo EXCEPT ![mem[r].row.repo] = [live |-> TRUE, url |-> mem[r].row.url]],
             End(r), UNCHANGED <<image, imageSet, device, found, begun, contested>>
      PROVE  Inv'
  <2> DEFINE row == [live |-> TRUE, url |-> mem[r].row.url]
  <2>1. row \in RepoRows
    <3>1. mem[r].row.url \in Urls \cup {Nothing}
        BY DEF Inv, TypeOK, Memories, ImageRows
    <3> QED
        BY <3>1 DEF RepoRows
  <2>2. mem[r].row.repo \notin contested => \A i \in Images : ~ Uses(i, mem[r].row.repo)
      BY <1>2 DEF Inv, Knows, RepoKnows
  <2>3. pc[r] \in RepoLabels
      BY <1>2 DEF RepoLabels
  <2> QED
      BY <1>2, <2>1, <2>2, <2>3, RepoWriteStep
<1> QED
    BY <1>1, <1>2 DEF CreateThirdPartyRepo

LEMMA UpdateRepoStep ==
    ASSUME Inv, NEW r \in Requests, UpdateThirdPartyRepo(r)
    PROVE  Inv'
<1> DEFINE m == mem[r].row
<1>1. ASSUME NEW p \in Repos, NEW u \in Urls,
             Begin(r, IF repo[p].url = u THEN "saveRepo" ELSE "findUrl",
                   [NoImage EXCEPT !.repo = p, !.url = u], 0),
             UNCHANGED <<tables, found>>
      PROVE  Inv'
  <2> DEFINE label == IF repo[p].url = u THEN "saveRepo" ELSE "findUrl"
  <2>1. /\ label \in RepoLabels \ {"deleteRepo"} /\ label # "insertRepo"
        /\ label = "saveRepo" => repo[p].url = u
      BY DEF RepoLabels
  <2>2. Begin(r, label, [NoImage EXCEPT !.repo = p, !.url = u], 0)
      BY <1>1
  <2> HIDE DEF label
  <2> QED
      BY <1>1, <2>1, <2>2, RepoBegins
<1>2. ASSUME pc[r] = "findUrl", Read(r, "findImages"), UNCHANGED <<found, begun, contested>>
      PROVE  Inv'
  <2>1. pc[r] \in RepoLabels /\ "findImages" \in RepoLabels
      BY <1>2 DEF RepoLabels
  <2> QED
      BY <1>2, <2>1, RepoReads
<1>3. ASSUME pc[r] = "findImages", Read(r, "saveRepo"), ImagesOf(m.repo, Settled) = {},
             UNCHANGED <<found, begun, contested>>
      PROVE  Inv'
  <2>1. pc[r] \in RepoLabels /\ "saveRepo" \in RepoLabels
      BY <1>3 DEF RepoLabels
  <2> QED
      BY <1>3, <2>1, RepoReads
<1>4. ASSUME Refuse(r), UNCHANGED <<found, begun, contested>>  PROVE Inv'
    BY <1>4, RefuseStep
<1>5. ASSUME pc[r] = "saveRepo", End(r),
             repo' = [repo EXCEPT ![m.repo] = [live |-> TRUE, url |-> m.url]],
             UNCHANGED <<image, imageSet, device, found, begun, contested>>
      PROVE  Inv'
  <2> DEFINE row == [live |-> TRUE, url |-> m.url]
  <2>1. row \in RepoRows
    <3>1. m.url \in Urls \cup {Nothing}
        BY DEF Inv, TypeOK, Memories, ImageRows
    <3> QED
        BY <3>1 DEF RepoRows
  <2>2. Knows(r) /\ UseInv /\ m.repo \in Repos /\ pc[r] \in RepoLabels
      BY <1>5 DEF Inv, Knows, MemoryLink, RepoLabels
  <2>3. m.repo \notin contested =>
            \A i \in Images : Uses(i, m.repo) =>
                row.live /\ (image[i].status \in Settled => row.url = image[i].url)
    <3>1. CASE repo[m.repo].url = m.url
        BY <2>2, <3>1 DEF UseInv
    <3>2. CASE repo[m.repo].url # m.url
        BY <1>5, <2>2, <3>2 DEF Knows, RepoKnows
    <3> QED
        BY <3>1, <3>2
  <2> QED
      BY <1>5, <2>1, <2>2, <2>3, RepoWriteStep
<1> QED
    BY <1>1, <1>2, <1>3, <1>4, <1>5 DEF UpdateThirdPartyRepo

LEMMA DeleteRepoStep ==
    ASSUME Inv, NEW r \in Requests, DeleteThirdPartyRepo(r)
    PROVE  Inv'
<1> DEFINE p == mem[r].row.repo
<1>1. ASSUME NEW q \in Repos, Begin(r, "anyImages", [NoImage EXCEPT !.repo = q], 0),
             UNCHANGED <<tables, found>>
      PROVE  Inv'
  <2>1. /\ "anyImages" \in RepoLabels \ {"deleteRepo"} /\ "anyImages" # "insertRepo"
        /\ "anyImages" # "saveRepo"
      BY DEF RepoLabels
  <2>2. [NoImage EXCEPT !.repo = q] = [NoImage EXCEPT !.repo = q, !.url = Nothing]
    <3>1. ASSUME NEW row \in ImageRows, row.url = Nothing
          PROVE  [row EXCEPT !.repo = q] = [row EXCEPT !.repo = q, !.url = Nothing]
        BY <3>1 DEF ImageRows
    <3>2. NoImage.url = Nothing
        BY DEF NoImage
    <3> QED
        BY <3>1, <3>2, NoImageType
  <2>3. Begin(r, "anyImages", [NoImage EXCEPT !.repo = q, !.url = Nothing], 0)
      BY <1>1, <2>2
  <2> QED
      BY <1>1, <2>1, <2>3, RepoBegins
<1>2. ASSUME pc[r] = "anyImages", Read(r, "deleteRepo"), ImagesOf(p, Statuses) = {},
             UNCHANGED <<found, begun, contested>>
      PROVE  Inv'
  <2>1. pc[r] \in RepoLabels /\ "deleteRepo" \in RepoLabels
      BY <1>2 DEF RepoLabels
  <2>2. ImagesOf(p, Settled) = {}
      BY <1>2 DEF ImagesOf, Settled, Statuses
  <2> QED
      BY <1>2, <2>1, <2>2, RepoReads
<1>3. ASSUME Refuse(r), UNCHANGED <<found, begun, contested>>  PROVE Inv'
    BY <1>3, RefuseStep
<1>4. ASSUME pc[r] = "deleteRepo", End(r), repo' = [repo EXCEPT ![p].live = FALSE],
             UNCHANGED <<image, imageSet, device, found, begun, contested>>
      PROVE  Inv'
  <2> DEFINE row == [repo[p] EXCEPT !.live = FALSE]
  <2>1. Knows(r) /\ p \in Repos /\ pc[r] \in RepoLabels
      BY <1>4 DEF Inv, Knows, MemoryLink, RepoLabels
  <2>2. row \in RepoRows
      BY <2>1 DEF Inv, TypeOK, RepoRows
  <2>3. p \notin contested => \A i \in Images : ~ Uses(i, p)
      BY <1>4, <2>1 DEF Knows, RepoKnows
  <2>4. repo' = [repo EXCEPT ![p] = row]
      BY <1>4
  <2> HIDE DEF row
  <2> QED
      BY <1>4, <2>1, <2>2, <2>3, <2>4, RepoWriteStep
<1> QED
    BY <1>1, <1>2, <1>3, <1>4 DEF DeleteThirdPartyRepo

\* A build that ends changes the status of a row that nobody relies on.
LEMMA FinalStatusStep ==
    ASSUME Inv, NEW k \in Images, SetFinalImageStatus(k)
    PROVE  Inv'
<1>1. /\ TypeOK /\ TablesInv /\ RowsInv /\ UseInv /\ image[k].status = "BUILDING" /\ Used(k)
      /\ UNCHANGED <<imageSet, repo, device, found, pc, mem, begun, contested>>
    BY DEF SetFinalImageStatus, Inv, Used
<1>2. PICK status \in {"SUCCESS", "ERROR"} :
          image' = [image EXCEPT ![k].status = status, ![k].live = TRUE]
    BY DEF SetFinalImageStatus
<1> PICK n : n = image[k].name
    OBVIOUS
<1>3. n \in Names /\ image[k] \in ImageRows
    BY <1>1 DEF TablesInv, ImageLink, TypeOK
<1>4. /\ image'[k].status = status /\ image'[k].live /\ SameRow(image'[k], k)
      /\ image'[k].url = image[k].url /\ image'[k] \in ImageRows
  <2>1. image'[k] = [image[k] EXCEPT !.status = status, !.live = TRUE]
      BY <1>1, <1>2 DEF TypeOK
  <2> QED
      BY <1>3, <2>1 DEF ImageRows, Statuses, SameRow
<1>5. /\ \A i \in Images \ {k} : image'[i] = image[i]
      /\ image' \in [Images -> ImageRows]
  <2>1. \A i \in Images \ {k} : image'[i] = image[i]
      BY <1>1, <1>2 DEF TypeOK
  <2>2. \A i \in Images : image'[i] \in ImageRows
      BY <1>1, <1>4, <2>1 DEF TypeOK
  <2>3. image' = [i \in Images |-> image'[i]]
      BY <1>1, <1>2 DEF TypeOK
  <2> QED
      BY <2>1, <2>2, <2>3
<1>6. Static /\ Local(n) /\ \A i \in Images : Used(i)' <=> Used(i)
    BY <1>1, <1>4, <1>5 DEF Static, Local, Used, SameRow
<1>7. TypeOK' /\ ApartInv'
    BY <1>1, <1>5 DEF TypeOK, Inv, ApartInv, At, Active
<1>8. TablesInv'
  <2>1. \A d \in Devices : \A i \in {device'[d], found'[d]} : i # 0 => Used(i)'
      BY <1>1, <1>6, DeviceImages
  <2> QED
      BY <1>1, <1>6, <2>1, TablesStep
<1>9. Quiet(n) => ImageInv(k) /\ image[k].live
    BY <1>1 DEF RowsInv, ImageInv
<1>10. \A t : Quiet(n) => LiveImages(t)' = LiveImages(t)
    BY <1>4, <1>5, <1>9 DEF LiveImages, SameRow
<1>11. RowsInv'
  <2>1. /\ \A i \in Images :
               Used(i)' /\ Quiet(image[i].name)' /\ image'[i].name # n => ImageInv(i)'
        /\ \A s \in Sets : Quiet(imageSet[s].name)' /\ imageSet'[s].name # n => SetInv(s)'
      BY <1>1, <1>3, <1>6, <1>8, OtherRows
  <2>2. ASSUME NEW i \in Images, Used(i), Quiet(n), image[i].name = n
        PROVE  ImageInv(i)'
    <3>1. ImageInv(i) /\ (image[i].parent # 0 => image[i].parent \in Images)
        BY <1>1, <2>2, UsedLinks DEF RowsInv
    <3>2. image[i].parent # 0 => image'[image[i].parent].status = "SUCCESS"
        BY <1>1, <1>5, <3>1 DEF ImageInv
    <3>3. /\ image'[i].live <=> image[i].live
          /\ image'[i].set = image[i].set /\ image'[i].parent = image[i].parent
          /\ image'[i].status # image[i].status => i = k
        BY <1>4, <1>5, <1>9, <2>2 DEF SameRow
    <3>4. \A d \in Devices : i \in {device[d], found[d]} =>
              image'[i].live /\ image'[i].status = "SUCCESS"
        BY <1>1, <3>1, <3>3 DEF ImageInv
    <3>5. image'[i].status = "BUILDING" => image'[i].live
        BY <1>2, <1>4, <3>1, <3>3 DEF ImageInv
    <3>6. image'[i].live => imageSet[image[i].set].live
        BY <3>1, <3>3 DEF ImageInv
    <3> QED
        BY <1>1, <3>2, <3>3, <3>4, <3>5, <3>6 DEF ImageInv
  <2>3. ASSUME NEW t \in Sets, Quiet(n), imageSet[t].name = n
        PROVE  SetInv(t)'
    <3>1. SetInv(t) /\ LiveImages(t)' = LiveImages(t)
        BY <1>1, <1>10, <2>3 DEF RowsInv
    <3>2. \A j \in LiveImages(t) : image'[j].version = image[j].version
        BY <1>4, <1>5 DEF LiveImages, SameRow
    <3> QED
        BY <1>1, <3>1, <3>2 DEF SetInv
  <2>4. /\ \A x : Quiet(x)' <=> Quiet(x)
        /\ \A i \in Images : Used(i)' => Used(i) /\ image'[i].name = image[i].name
      BY <1>1, <1>6 DEF Quiet, Static, SameRow
  <2>5. \A i \in Images : Used(i)' /\ Quiet(image[i].name)' /\ image'[i].name = n => ImageInv(i)'
      BY <1>1, <2>2, <2>4 DEF Quiet
  <2>6. \A t \in Sets : Quiet(imageSet[t].name)' /\ imageSet'[t].name = n => SetInv(t)'
      BY <1>1, <2>3 DEF Quiet
  <2> QED
      BY <2>1, <2>5, <2>6 DEF RowsInv
<1>12. UsesKept(Nothing)
  <2>1. ASSUME NEW q \in Repos, Uses(k, q)'
        PROVE  Uses(k, q) /\ image'[k].url = image[k].url /\ image[k].status \in Settled
    <3>1. Quiet(n)
        BY <1>1, <1>3, <1>4, <2>1 DEF Uses, Calm, Quiet, SameRow
    <3> QED
        BY <1>1, <1>4, <1>9, <2>1, <3>1 DEF Uses, Calm, SameRow, Settled
  <2>2. \A i \in Images \ {k} : \A q \in Repos : Uses(i, q)' => Uses(i, q)
      BY <1>1, <1>5 DEF Uses, Used, Calm
  <2> QED
      BY <1>5, <2>1, <2>2 DEF UsesKept
<1>13. UseInv'
    BY <1>1, <1>12, UseStep
<1>14. ASSUME NEW q \in Requests
       PROVE  Knows(q)'
  <2>1. Knows(q) /\ pc'[q] = pc[q] /\ mem'[q] = mem[q]
      BY <1>1 DEF Inv
  <2>2. MemoryLink(q)'
      BY <1>1, <1>6, <2>1, LinkStep DEF Knows
  <2>3. ASSUME pc[q] # "idle", Quiet(Name(q)), Name(q) # n
        PROVE  RequestKnows(q)'
      BY <1>1, <1>3, <1>6, <1>8, <2>1, <2>3, OtherNameKnows DEF Knows, Quiet
  <2>4. ASSUME pc[q] # "idle", Quiet(n), Name(q) = n
        PROVE  RequestKnows(q)'
    <3>1. RequestKnows(q) /\ MemoryLink(q)
        BY <2>1, <2>4 DEF Knows
    <3>2. \A t : LiveImages(t)' = LiveImages(t)
        BY <1>10, <2>4
    <3>3. \A j \in Images : /\ image'[j].version = image[j].version /\ image'[j].set = image[j].set
                            /\ image[j].status # "BUILDING" => image'[j] = image[j]
                            /\ image'[j].status = "BUILDING" => image[j].status = "BUILDING"
        BY <1>1, <1>4, <1>5 DEF SameRow
    <3>4. mem[q].row.parent # 0 => mem[q].row.parent \in Images
      <4>1. mem[q].row.parent \in 0..MaxImage
          BY <1>1 DEF TypeOK, Memories, ImageRows
      <4> QED
          BY <4>1, CatalogAssumption DEF Images
    <3>5. \A d \in Devices : \A j \in {device[d], found[d]} : j # 0 => j \in Images
        BY <1>1, DeviceImages
    <3>6. Upgrading(q) \/ Retrying(q) \/ Deleting(q) => mem[q].id \in Images
        BY <3>1 DEF MemoryLink
    <3>7. \A t : LiveImages(t) \subseteq Images
        BY DEF LiveImages
    <3>8. /\ pc[q] = "createSet" =>
                 \A t \in Sets : imageSet'[t].name = mem[q].row.name => ~ imageSet'[t].live
          /\ Upgrading(q) /\ mem[q].row.status = "SUCCESS" => image'[mem[q].id].status = "SUCCESS"
          /\ pc[q] \in {"saveSet", "getParent"} \/ Inserting(q) => imageSet'[mem[q].row.set].live
        BY <1>1, <3>1, <3>3, <3>6 DEF RequestKnows
    <3>9. /\ Creating(q) \/ (Upgrading(q) /\ pc[q] # "checkLatest") \/ Inserting(q) =>
                 \A j \in LiveImages(mem[q].row.set) : image'[j].version < mem[q].row.version
          /\ Inserting(q) /\ mem[q].row.parent # 0 => image'[mem[q].row.parent].status = "SUCCESS"
        BY <3>1, <3>3, <3>4, <3>7 DEF RequestKnows
    <3>10. Retrying(q) \/ pc[q] \in {"countImages", "deleteImage"} =>
               image'[mem[q].id].live /\ image'[mem[q].id].status = "ERROR"
        BY <3>1, <3>3, <3>6 DEF RequestKnows, Deleting
    <3>11. Clearing(q) =>
               /\ \A j \in Images : image'[j].set = mem[q].row.set => image'[j].status # "BUILDING"
               /\ \A d \in Devices : \A j \in {device[d], found[d]} :
                      j # 0 => image'[j].set # mem[q].row.set
        BY <3>1, <3>3, <3>5 DEF RequestKnows
    <3>12. /\ pc[q] = "deleteImage" /\ mem[q].last => LiveImages(mem[q].row.set) \subseteq {mem[q].id}
           /\ pc[q] = "deleteSet" => LiveImages(mem[q].row.set) = {}
        BY <3>1 DEF RequestKnows
    <3> QED
        BY <1>1, <2>1, <3>2, <3>8, <3>9, <3>10, <3>11, <3>12
           DEF RequestKnows, Creating, Upgrading, Inserting, Retrying, Clearing
  <2>5. RepoKnows(q) => RepoKnows(q)'
      BY <1>1, <1>12, <2>1, CatalogAssumption, RepoKnowsStep DEF Knows
  <2> QED
      BY <1>1, <2>1, <2>2, <2>3, <2>4, <2>5 DEF Knows, Quiet, Name
<1> QED
    BY <1>7, <1>8, <1>11, <1>13, <1>14 DEF Inv

\* A device reports an image that is there and is a success, or saves the one it reported.
LEMMA ReportStep ==
    ASSUME Inv, NEW d \in Devices, ReportImage(d)
    PROVE  Inv'
<1>1. /\ TypeOK /\ TablesInv /\ RowsInv /\ UseInv
      /\ UNCHANGED <<image, imageSet, repo, pc, mem, begun>>
    BY DEF ReportImage, Inv
<1> DEFINE Reported(j) ==
               /\ j \in Images /\ image[j].live /\ image[j].status = "SUCCESS"
               /\ \A r \in Active : Name(r) = image[j].name => Name(r) \in contested'
<1>2. /\ device' \in [Devices -> 0..MaxImage] /\ found' \in [Devices -> 0..MaxImage]
      /\ contested \subseteq contested' /\ contested' \subseteq Names \cup Repos
      /\ \A x \in Devices : \A j \in {device'[x], found'[x]} :
             j = 0 \/ j \in {device[x], found[x]} \/ Reported(j)
  <2>1. ASSUME NEW i \in Images, image[i].live, image[i].status = "SUCCESS",
               found' = [found EXCEPT ![d] = i], UNCHANGED device,
               contested' = contested \cup
                   ({image[i].name} \cap {mem[r].row.name : r \in Active})
        PROVE  /\ device' \in [Devices -> 0..MaxImage] /\ found' \in [Devices -> 0..MaxImage]
               /\ contested \subseteq contested' /\ contested' \subseteq Names \cup Repos
               /\ \A x \in Devices : \A j \in {device'[x], found'[x]} :
                      j = 0 \/ j \in {device[x], found[x]} \/ Reported(j)
    <3>1. Used(i) /\ image[i].name \in Names /\ i \in 0..MaxImage
        BY <1>1, <2>1, LiveIsUsed, IdsAreNumbers
    <3>2. /\ device' \in [Devices -> 0..MaxImage] /\ found' \in [Devices -> 0..MaxImage]
          /\ found'[d] = i /\ \A x \in Devices \ {d} : found'[x] = found[x]
        BY <1>1, <2>1, <3>1 DEF TypeOK
    <3>3. contested \subseteq contested' /\ contested' \subseteq Names \cup Repos
        BY <1>1, <2>1, <3>1 DEF TypeOK
    <3>4. \A r \in Active : Name(r) = image[i].name => Name(r) \in contested'
        BY <2>1 DEF Name
    <3> QED
        BY <2>1, <3>2, <3>3, <3>4
  <2>2. ASSUME found[d] # 0, device' = [device EXCEPT ![d] = found[d]],
               found' = [found EXCEPT ![d] = 0], UNCHANGED contested
        PROVE  /\ device' \in [Devices -> 0..MaxImage] /\ found' \in [Devices -> 0..MaxImage]
               /\ contested \subseteq contested' /\ contested' \subseteq Names \cup Repos
               /\ \A x \in Devices : \A j \in {device'[x], found'[x]} :
                      j = 0 \/ j \in {device[x], found[x]} \/ Reported(j)
    <3>1. /\ device' \in [Devices -> 0..MaxImage] /\ found' \in [Devices -> 0..MaxImage]
          /\ found'[d] = 0 /\ \A x \in Devices \ {d} : found'[x] = found[x]
          /\ device'[d] = found[d] /\ \A x \in Devices \ {d} : device'[x] = device[x]
        BY <1>1, <2>2, NoImageType DEF TypeOK
    <3> QED
        BY <1>1, <2>2, <3>1 DEF TypeOK
  <2> QED
      BY <2>1, <2>2 DEF ReportImage
<1>3. TypeOK' /\ ApartInv'
    BY <1>1, <1>2 DEF TypeOK, Inv, ApartInv, At, Active
<1>4. TablesInv'
  <2>1. \A x \in Devices : \A j \in {device'[x], found'[x]} : j # 0 => Used(j)
      BY <1>1, <1>2, LiveIsUsed DEF TablesInv
  <2> QED
      BY <1>1, <2>1 DEF TablesInv, ImageLink, Used
<1>5. RowsInv'
  <2>1. ASSUME NEW i \in Images, Used(i), Quiet(image[i].name), ImageInv(i)
        PROVE  ImageInv(i)'
    <3>1. \A x \in Devices : i \in {device'[x], found'[x]} => image[i].live /\ image[i].status = "SUCCESS"
        BY <1>2, <2>1, IdsAreNumbers DEF ImageInv
    <3> QED
        BY <1>1, <2>1, <3>1 DEF ImageInv
  <2>2. \A s \in Sets : SetInv(s) => SetInv(s)'
      BY <1>1 DEF SetInv, LiveImages
  <2>3. \A x : Quiet(x)' => Quiet(x)
      BY <1>2 DEF Quiet
  <2> QED
      BY <1>1, <1>2, <2>1, <2>2 DEF RowsInv, Used, Quiet
<1>6. UseInv'
    BY <1>1, <1>2 DEF UseInv, Uses, Calm, Used
<1>7. ASSUME NEW q \in Requests
      PROVE  Knows(q)'
  <2>1. Knows(q) /\ pc'[q] = pc[q] /\ mem'[q] = mem[q]
      BY <1>1 DEF Inv
  <2>2. MemoryLink(q)'
      BY <1>1, <2>1 DEF Knows, MemoryLink, Used, SameRow, Creating, Upgrading, Inserting,
                        Retrying, Deleting, Clearing
  <2>3. ASSUME pc[q] # "idle", Quiet(Name(q))'
        PROVE  RequestKnows(q)'
    <3>1. RequestKnows(q) /\ Name(q) \notin contested' /\ q \in Active
        BY <1>1, <1>2, <2>1, <2>3 DEF Knows, Quiet, Name, Active
    <3>2. Clearing(q) =>
              \A x \in Devices : \A j \in {device'[x], found'[x]} :
                  j # 0 => image[j].set # mem[q].row.set
      <4>1. SUFFICES ASSUME Clearing(q), NEW x \in Devices,
                            NEW j \in {device'[x], found'[x]}, j # 0,
                            image[j].set = mem[q].row.set
                     PROVE  FALSE
          OBVIOUS
      <4>2. j \notin {device[x], found[x]}
          BY <3>1, <4>1 DEF RequestKnows
      <4>3. j \in Images /\ image[j].live /\ (Name(q) = image[j].name => Name(q) \in contested')
          BY <1>2, <3>1, <4>1, <4>2
      <4>4. image[j].name = imageSet[image[j].set].name
          BY <1>1, <4>3, LiveIsUsed DEF TablesInv, ImageLink
      <4> QED
          BY <2>1, <3>1, <4>1, <4>3, <4>4 DEF Knows, MemoryLink, Name
    <3> QED
        BY <1>1, <2>1, <3>1, <3>2
           DEF RequestKnows, LiveImages, Creating, Upgrading, Inserting, Retrying, Clearing
  <2>4. ASSUME mem[q].row.repo \notin contested', RepoKnows(q)
        PROVE  RepoKnows(q)'
      BY <1>1, <1>2, <2>1, <2>4 DEF RepoKnows, Uses, Used, Calm, Name
  <2> QED
      BY <1>1, <1>2, <2>1, <2>2, <2>3, <2>4 DEF Knows
<1> QED
    BY <1>3, <1>4, <1>5, <1>6, <1>7 DEF Inv

-------------------------------------------------------------------------------
(* The invariant.                                                          *)

LEMMA InitInv == Init => Inv
<1> SUFFICES ASSUME Init  PROVE Inv
    OBVIOUS
<1>1. /\ \A i \in Images : image[i] = NoImage
      /\ \A s \in Sets : imageSet[s] = NoSet
      /\ \A d \in Devices : device[d] = 0 /\ found[d] = 0
      /\ \A r \in Requests : pc[r] = "idle"
    BY DEF Init
<1>2. TypeOK
  <2>1. NoSet \in SetRows /\ NoUrl \in RepoRows /\ "idle" \in Labels /\ 0 \in 0..MaxRequests
      BY CatalogAssumption DEF NoSet, SetRows, NoUrl, RepoRows, Labels
  <2> QED
      BY <2>1, NoImageType, NoMemoryType DEF Init, TypeOK
<1>3. \A i \in Images :
          ~ Used(i) /\ ~ image[i].live /\ image[i].name = Nothing /\ image[i].parent = 0
    BY <1>1 DEF Used, NoImage
<1>4. TablesInv
    BY <1>1, <1>3 DEF TablesInv
<1>5. RowsInv
  <2>1. \A s \in Sets : ~ Quiet(imageSet[s].name)
      BY <1>1, CatalogAssumption DEF Quiet, NoSet
  <2> QED
      BY <1>3, <2>1 DEF RowsInv
<1>6. UseInv
    BY <1>3 DEF UseInv, Uses
<1>7. ApartInv
    BY <1>1 DEF ApartInv, Active
<1>8. \A r \in Requests : Knows(r)
    BY <1>1, IdleKnows
<1> QED
    BY <1>2, <1>4, <1>5, <1>6, <1>7, <1>8 DEF Inv

LEMMA NextInv == Inv /\ [Next]_vars => Inv'
<1> SUFFICES ASSUME Inv, [Next]_vars  PROVE Inv'
    OBVIOUS
<1>1. ASSUME NEW r \in Requests, Start(r)  PROVE Inv'
    BY <1>1, CreateImageStep, UpgradeStep, RetryStep, LoadForDeleteStep, ClearingBegins DEF Start
<1>2. ASSUME NEW r \in Requests, Continue(r)  PROVE Inv'
  <2>1. UNCHANGED <<found, begun, contested>>
      BY <1>2 DEF Continue
  <2>2. CASE \/ CheckIfIsLatestVersion(r) \/ GetImageReposFromDB(r)
             \/ GetImageSetForNewImage(r) \/ CreateSet(r) \/ GetImageSet(r) \/ SaveImageSet(r)
      BY <2>1, <2>2, CheckLatestStep, FindRepoStep, FindSetStep, CreateSetStep, GetSetStep,
         SaveSetStep
  <2>3. CASE \/ GetLatestPreviousSuccessfulImage(r) \/ ComposeCommit(r) \/ InsertImage(r)
             \/ SetBuildingStatusOnImageToRetryBuild(r)
      BY <2>1, <2>3, ParentStep, ComposeStep, InsertStep, SaveRetryStep
  <2>4. CASE \/ CountImages(r) \/ DeleteImage(r) \/ DeleteSet(r)
             \/ FirstImageSet(r) \/ DeleteImageSet(r)
      BY <2>1, <2>4, CountImagesStep, DeleteImageStep, DeleteSetStep, FirstSetStep,
         DeleteImageSetStep
  <2>5. CASE Fail(r)
      BY <2>1, <2>5, RefuseStep DEF Fail
  <2> QED
      BY <1>2, <2>2, <2>3, <2>4, <2>5 DEF Continue
<1>3. ASSUME NEW r \in Requests,
             CreateThirdPartyRepo(r) \/ UpdateThirdPartyRepo(r) \/ DeleteThirdPartyRepo(r)
      PROVE  Inv'
    BY <1>3, CreateRepoStep, UpdateRepoStep, DeleteRepoStep
<1>4. ASSUME NEW i \in Images, SetFinalImageStatus(i)  PROVE Inv'
    BY <1>4, FinalStatusStep
<1>5. ASSUME NEW d \in Devices, ReportImage(d)  PROVE Inv'
    BY <1>5, ReportStep
<1>6. CASE UNCHANGED vars
  <2>1. UNCHANGED <<tables, found, pc, mem, begun, contested>>
      BY <1>6 DEF vars
  <2>2. TypeOK' /\ ApartInv'
      BY <2>1 DEF Inv, TypeOK, ApartInv, At, Active, tables
  <2>3. TablesInv' /\ RowsInv' /\ UseInv'
      BY <2>1, SameRows DEF Inv
  <2>4. \A q \in Requests : Knows(q)'
      BY <2>1, OthersKnow DEF Inv
  <2> QED
      BY <2>2, <2>3, <2>4 DEF Inv
<1> QED
    BY <1>1, <1>2, <1>3, <1>4, <1>5, <1>6 DEF Next

LEMMA InvCorrect == Spec => []Inv
BY InitInv, NextInv, PTL DEF Spec

\* Every variable keeps its type: an id is that of a row, a step that of a request.
THEOREM TypeCorrect == Spec => []TypeOK
<1>1. Inv => TypeOK
    BY DEF Inv
<1> QED
    BY <1>1, InvCorrect, PTL

\* Image sets that are there have different names, unless two requests were at the name.
THEOREM NameIsUniqueCorrect == Spec => []NameIsUnique
<1>1. Inv => NameIsUnique
  <2> SUFFICES ASSUME Inv, NEW s \in Sets, NEW t \in Sets, imageSet[s].live, imageSet[t].live,
                      imageSet[s].name = imageSet[t].name, imageSet[s].name \notin contested
               PROVE  s = t
      BY DEF NameIsUnique
  <2>1. imageSet[s].name \in Names
    <3>1. imageSet[s] \in SetRows /\ imageSet[s].name # Nothing
        BY DEF Inv, TypeOK, TablesInv, NoSet
    <3> QED
        BY <3>1 DEF SetRows
  <2> QED
      BY <2>1 DEF Inv, RowsInv, Quiet, SetInv
<1> QED
    BY <1>1, InvCorrect, PTL

\* The images of a set have different versions, unless two requests were at its name.
THEOREM VersionIsUniqueCorrect == Spec => []VersionIsUnique
<1>1. Inv => VersionIsUnique
  <2> SUFFICES ASSUME Inv, NEW s \in Sets, NEW i \in LiveImages(s), NEW j \in LiveImages(s),
                      image[i].version = image[j].version, image[i].name \notin contested
               PROVE  i = j
      BY DEF VersionIsUnique
  <2>1. i \in Images /\ image[i].live /\ image[i].set = s
      BY DEF LiveImages
  <2>2. ImageLink(i)
      BY <2>1 DEF Inv, TablesInv
  <2> QED
      BY <2>1, <2>2 DEF Inv, RowsInv, Quiet, SetInv, ImageLink
<1> QED
    BY <1>1, InvCorrect, PTL

\* What a device runs is there with its set, unless two actors were at its name.
THEOREM InUseIsKeptCorrect == Spec => []InUseIsKept
<1>1. Inv => InUseIsKept
  <2> SUFFICES ASSUME Inv, NEW d \in Devices, device[d] # 0, image[device[d]].name \notin contested
               PROVE  image[device[d]].live /\ imageSet[image[device[d]].set].live
      BY DEF InUseIsKept
  <2>1. device[d] \in Images /\ Used(device[d])
      BY DeviceImages DEF Inv
  <2>2. ImageLink(device[d])
      BY <2>1 DEF Inv, TablesInv
  <2>3. ImageInv(device[d])
      BY <2>1, <2>2 DEF Inv, RowsInv, Quiet, ImageLink
  <2> QED
      BY <2>3 DEF ImageInv
<1> QED
    BY <1>1, InvCorrect, PTL

\* The repository of an image is there with the address the image was composed with, unless
\* two actors were at the image or at the repository.
THEOREM RepoOfImageCorrect == Spec => []RepoOfImage
<1>1. Inv => RepoOfImage
  <2> SUFFICES ASSUME Inv, NEW i \in Images, image[i].live,
                      image[i].status \in {"BUILDING", "SUCCESS"}, image[i].repo # Nothing, Calm(i)
               PROVE  repo[image[i].repo].live /\ repo[image[i].repo].url = image[i].url
      BY DEF RepoOfImage
  <2>1. image[i].repo \in Repos
      BY DEF Inv, TypeOK, ImageRows
  <2>2. Uses(i, image[i].repo)
      BY DEF Uses, Used
  <2> QED
      BY <2>1, <2>2 DEF Inv, UseInv, Settled
<1> QED
    BY <1>1, InvCorrect, PTL

\* An upgrade extends the commit of an earlier image of its set that is a success.
THEOREM ParentIsRealCorrect == Spec => []ParentIsReal
<1>1. Inv => ParentIsReal
  <2> SUFFICES ASSUME Inv, NEW i \in Images, image[i].parent # 0
               PROVE  /\ image[i].parent < i /\ image[image[i].parent].set = image[i].set
                      /\ \/ image[image[i].parent].status = "SUCCESS"
                         \/ image[image[i].parent].name \in contested
      BY DEF ParentIsReal
  <2>1. Used(i)
      BY DEF Inv, TablesInv
  <2>2. ImageLink(i) /\ image[image[i].parent].name = image[i].name
      BY <2>1, UsedLinks DEF Inv
  <2>3. image[i].name \notin contested => ImageInv(i)
      BY <2>1, <2>2 DEF Inv, RowsInv, Quiet, ImageLink
  <2> QED
      BY <2>2, <2>3 DEF ImageLink, ImageInv
<1> QED
    BY <1>1, InvCorrect, PTL
===============================================================================
