-------------------------- MODULE SelfUpdateProofs --------------------------
(***************************************************************************)
(* Proofs about SelfUpdate, for every set of builds and releases, every    *)
(* platform and any number of releases.                                    *)
(***************************************************************************)
EXTENDS SelfUpdate, FiniteSetTheorems, TLAPS

-----------------------------------------------------------------------------
(* Types *)

(* A file of the first m releases is one of the first n, if m <= n. *)
LEMMA FileGrows ==
    ASSUME NEW m \in Nat, NEW n \in Nat, m <= n
    PROVE  File(m) \subseteq File(n)
BY DEF File

(* A file that is there is a binary. *)
LEMMA FileFields ==
    ASSUME NEW n \in Nat, NEW f \in File(n), f # Absent
    PROVE  /\ f = [rel |-> f.rel, whole |-> f.whole]
           /\ f.rel \in 1..n /\ f.whole \in BOOLEAN
BY DEF File

(* A binary is not the absence of one. *)
LEMMA WholeThere ==
    ASSUME NEW r \in Nat \ {0}
    PROVE  Whole(r) # Absent
<1>1. Whole(r) \in Binary
    BY DEF Whole, Binary
<1> QED
    BY <1>1, ReleaseAssumption

(* Binaries of known releases are files. *)
LEMMA FileMade ==
    ASSUME NEW n \in Nat
    PROVE  /\ Absent \in File(n)
           /\ \A r \in 1..n : Whole(r) \in File(n) /\ Partial(r) \in File(n)
BY DEF File, Whole, Partial

LEMMA InitTypeOK == Init => TypeOK
<1> SUFFICES ASSUME Init PROVE TypeOK
    OBVIOUS
<1>1. PICK b \in Build, r \in Release : releases = <<b, r>>
    BY DEF Init
<1>2. releases \in Seq(Build \cup Release) /\ Len(releases) = 2
    BY <1>1
<1>3. Whole(1) \in File(Len(releases)) /\ Absent \in File(Len(releases))
    BY <1>2, FileMade
<1>4. disk \in [Path -> File(Len(releases))]
    BY <1>3 DEF Init
<1>5. 1 \in 1..Len(releases) /\ Len(releases) > 1
    BY <1>2
<1>6. dirs \in BOOLEAN /\ cancelled \in BOOLEAN
    BY DEF Init
<1>7. pc \in PC /\ result \in Result
    BY DEF Init, PC, Result
<1>8. current \in 1..Len(releases) /\ checked \in 1..Len(releases) /\ fetched \in 1..Len(releases)
    BY <1>5 DEF Init
<1> QED
    BY <1>2, <1>4, <1>5, <1>6, <1>7, <1>8 DEF TypeOK

(* What Update does to its files keeps their type. *)
LEMMA DiskType ==
    ASSUME TypeOK, FileStep \/ downloadAsset
    PROVE  disk' \in [Path -> File(Len(releases))]
<1> DEFINE n == Len(releases)
<1>1. n \in Nat /\ disk \in [Path -> File(n)] /\ fetched \in 1..n
    BY DEF TypeOK
<1>2. Absent \in File(n) /\ \A r \in 1..n : Whole(r) \in File(n) /\ Partial(r) \in File(n)
    BY <1>1, FileMade
<1>3. \A p \in Path : disk[p] # Absent => disk[p].rel \in 1..n
    BY <1>1, FileFields
<1>4. \A p \in Path, f \in File(n) : [disk EXCEPT ![p] = f] \in [Path -> File(n)]
    BY <1>1
<1>p. {"target", "new", "old", "tar", "exec"} \subseteq Path
    BY DEF Path
<1> SUFFICES disk' \in [Path -> File(n)]
    OBVIOUS
<1> HIDE DEF n
<1>5. CASE CreateTar \/ downloadAsset \/ extractTarGz \/ Unpack
    BY <1>1, <1>2, <1>4, <1>5, <1>p DEF CreateTar, downloadAsset, extractTarGz, Unpack
<1>6. CASE OpenNew
    BY <1>1, <1>2, <1>3, <1>4, <1>6, <1>p DEF OpenNew
<1>7. CASE Copy \/ RemoveOld
    BY <1>1, <1>2, <1>4, <1>7, <1>p DEF Copy, RemoveOld
<1>8. CASE MoveAway \/ MoveIn \/ Rollback
    BY <1>1, <1>2, <1>4, <1>8, <1>p DEF MoveAway, MoveIn, Rollback, Rename
<1>9. CASE Cleanup
    BY <1>1, <1>2, <1>9 DEF Cleanup
<1> QED
    BY <1>5, <1>6, <1>7, <1>8, <1>9 DEF FileStep

(* Every step keeps the types. *)
LEMMA NextTypeOK == TypeOK /\ [Next]_vars => TypeOK'
<1> SUFFICES ASSUME TypeOK, [Next]_vars PROVE TypeOK'
    OBVIOUS
<1> DEFINE n == Len(releases)
<1>1. n \in Nat /\ n > 1 /\ n \in 1..n
    BY DEF TypeOK
<1>2. pc' \in PC /\ result' \in Result
    BY DEF TypeOK, Next, vars, FileStep, Goto, End, PC, Network, Local, Result,
        Start, LatestVersion, Answer, getLastRelease, CreateTar, downloadAsset,
        extractTarGz, Unpack, OpenNew, Copy, RemoveOld, MoveAway, MoveIn, Rollback, Cleanup,
        Cancelled, CallFails, Interrupt, Kill, Publish
<1>3. cancelled' \in BOOLEAN
    BY Zenon DEF TypeOK, Next, vars, FileStep,
        Start, LatestVersion, Answer, getLastRelease, CreateTar, downloadAsset,
        extractTarGz, Unpack, OpenNew, Copy, RemoveOld, MoveAway, MoveIn, Rollback, Cleanup,
        Cancelled, CallFails, Interrupt, Kill, Publish
<1>4. CASE Publish
  <2>1. PICK r \in Release : releases' = Append(releases, r)
      BY <1>4 DEF Publish
  <2>2. releases' \in Seq(Build \cup Release) /\ Len(releases') = n + 1
      BY <2>1 DEF TypeOK
  <2>3. File(n) \subseteq File(n + 1)
      BY <1>1, FileGrows
  <2>4. disk' \in [Path -> File(Len(releases'))]
      BY <1>4, <2>2, <2>3 DEF Publish, TypeOK
  <2>5. /\ current' \in 1..Len(releases')
        /\ checked' \in 1..Len(releases')
        /\ fetched' \in 1..Len(releases')
      BY <1>1, <1>4, <2>2 DEF Publish, TypeOK
  <2>6. dirs' \in BOOLEAN /\ Len(releases') > 1
      BY <1>1, <1>4, <2>2 DEF Publish, TypeOK
  <2> QED
      BY <1>2, <1>3, <2>2, <2>4, <2>5, <2>6 DEF TypeOK
<1>5. CASE ~Publish
  <2>1. releases' = releases
      BY <1>5 DEF Next, vars, FileStep,
        Start, LatestVersion, Answer, getLastRelease, CreateTar, downloadAsset,
        extractTarGz, Unpack, OpenNew, Copy, RemoveOld, MoveAway, MoveIn, Rollback, Cleanup,
        Cancelled, CallFails, Interrupt, Kill
  <2>2. disk' \in [Path -> File(n)]
    <3>1. CASE FileStep \/ downloadAsset
        BY <3>1, DiskType
    <3>2. CASE ~FileStep /\ ~downloadAsset
        BY <1>5, <3>2 DEF TypeOK, Next, vars, Start, LatestVersion, Answer, getLastRelease,
            Cancelled, CallFails, Interrupt, Kill
    <3> QED
        BY <3>1, <3>2
  <2>3. disk["target"] \in File(n)
      BY DEF TypeOK, Path
  <2>4. current' \in 1..n
    <3>1. CASE Start
        BY <1>1, <2>3, <3>1, FileFields DEF Start
    <3>2. CASE ~Start
        BY <1>5, <3>2 DEF TypeOK, Next, vars, FileStep,
            LatestVersion, Answer, getLastRelease, CreateTar, downloadAsset,
            extractTarGz, Unpack, OpenNew, Copy, RemoveOld, MoveAway, MoveIn, Rollback, Cleanup,
            Cancelled, CallFails, Interrupt, Kill
    <3> QED
        BY <3>1, <3>2
  <2>5. checked' \in 1..n /\ fetched' \in 1..n
      BY <1>1, <1>5 DEF TypeOK, Next, vars, FileStep, latest,
        Start, LatestVersion, Answer, getLastRelease, CreateTar, downloadAsset,
        extractTarGz, Unpack, OpenNew, Copy, RemoveOld, MoveAway, MoveIn, Rollback, Cleanup,
        Cancelled, CallFails, Interrupt, Kill
  <2>6. dirs' \in BOOLEAN
    <3>1. CASE extractTarGz
        BY <3>1, Zenon DEF extractTarGz, TypeOK
    <3>2. CASE Cleanup
        BY <3>2, Zenon DEF Cleanup, TypeOK
    <3>3. CASE ~extractTarGz /\ ~Cleanup
        BY <1>5, <3>3 DEF TypeOK, Next, vars, FileStep,
            Start, LatestVersion, Answer, getLastRelease, CreateTar, downloadAsset,
            Unpack, OpenNew, Copy, RemoveOld, MoveAway, MoveIn, Rollback,
            Cancelled, CallFails, Interrupt, Kill
    <3> QED
        BY <3>1, <3>2, <3>3
  <2> QED
      BY <1>1, <1>2, <1>3, <2>1, <2>2, <2>4, <2>5, <2>6 DEF TypeOK
<1> QED
    BY <1>4, <1>5

(* Every state of SelfUpdate is well typed: whatever is on the disk comes  *)
(* from a release that was published, or from the build installed first.   *)
THEOREM TypeCorrect == Spec => []TypeOK
BY InitTypeOK, NextTypeOK, PTL DEF Spec

-----------------------------------------------------------------------------
(* The inductive invariant *)

Working == {"download", "body"} \cup Local

(* What is downloaded is at least as recent as what was proposed, and a    *)
(* run has no result before it ends.                                       *)
RunInv ==
    /\ pc \in {"prompt", "fetch"} \cup Working => checked \in 2..latest
    /\ pc \in Working => fetched \in checked..latest
    /\ pc # "idle" => result = "none"
    /\ result = "ok" => fetched \in checked..latest

(* What is on the disk at each step, if every archive has the executable.  *)
DiskInv ==
    /\ pc = "unpack" => disk["exec"] = Partial(fetched)
    /\ pc \in {"open", "copy"} => disk["exec"] = Whole(fetched)
    /\ pc \in {"remove", "away", "in"} => disk["new"] = Whole(fetched)
    /\ pc \notin {"idle", "in", "rollback", "cleanup"} => disk["target"] = Whole(current)
    /\ pc \in {"in", "rollback"} => disk["target"] = Absent /\ disk["old"] = Whole(current)
    /\ pc = "cleanup" \/ result = "ok" =>
            disk["target"] = Whole(fetched) /\ disk["old"] = Whole(current)
    /\ pc = "idle" =>
        \/ disk["target"] \in {Whole(current), Whole(fetched)}
        \/ /\ disk["target"] = Absent /\ disk["old"] = Whole(current)
           /\ result \in {"killed", "broken"}

Inv == TypeOK /\ RunInv /\ (Delivered => DiskInv)

LEMMA InitInv == Init => Inv
<1> SUFFICES ASSUME Init PROVE Inv
    OBVIOUS
<1>1. TypeOK
    BY InitTypeOK
<1>2. RunInv
    BY DEF Init, RunInv, Working, Local
<1>3. DiskInv
    BY DEF Init, DiskInv, Path
<1> QED
    BY <1>1, <1>2, <1>3 DEF Inv

(* A release is only ever added after the others. *)
LEMMA ReleasesGrow ==
    ASSUME TypeOK, [Next]_vars
    PROVE  /\ Len(releases') >= Len(releases)
           /\ \A i \in 1..Len(releases) : releases'[i] = releases[i]
           /\ ~Publish => releases' = releases
<1>1. CASE Publish
  <2>1. PICK r \in Release : releases' = Append(releases, r)
      BY <1>1 DEF Publish
  <2> QED
      BY <1>1, <2>1 DEF TypeOK
<1>2. CASE ~Publish
  <2>1. releases' = releases
      BY <1>2 DEF Next, vars, FileStep,
        Start, LatestVersion, Answer, getLastRelease, CreateTar, downloadAsset,
        extractTarGz, Unpack, OpenNew, Copy, RemoveOld, MoveAway, MoveIn, Rollback, Cleanup,
        Cancelled, CallFails, Interrupt, Kill
  <2> QED
      BY <2>1 DEF TypeOK
<1> QED
    BY <1>1, <1>2

LEMMA NextRunInv ==
    ASSUME TypeOK, RunInv, [Next]_vars
    PROVE  RunInv'
<1>1. /\ latest \in Nat /\ latest > 1 /\ latest' \in Nat /\ latest' >= latest
      /\ ~Publish => latest' = latest
      /\ checked \in Nat /\ fetched \in Nat
    BY ReleasesGrow, NextTypeOK DEF TypeOK, latest
<1>2. CASE Start
    BY <1>1, <1>2 DEF Start, Goto, End, RunInv, Working, Local, Network, latest
<1>3. CASE LatestVersion
    BY <1>1, <1>3 DEF LatestVersion, Goto, End, RunInv, Working, Local, Network, latest
<1>4. CASE Answer \/ getLastRelease
    BY <1>1, <1>4 DEF Answer, getLastRelease, Goto, End, RunInv, Working, Local, Network, latest
<1>5. CASE CreateTar \/ downloadAsset \/ extractTarGz
    BY <1>1, <1>5 DEF CreateTar, downloadAsset, extractTarGz, Goto, End, RunInv, Working, Local, Network, latest
<1>6. CASE Unpack \/ OpenNew \/ Copy
    BY <1>1, <1>6 DEF Unpack, OpenNew, Copy, Goto, End, RunInv, Working, Local, Network, latest
<1>7. CASE RemoveOld \/ MoveAway \/ MoveIn
    BY <1>1, <1>7 DEF RemoveOld, MoveAway, MoveIn, Goto, End, RunInv, Working, Local, Network, latest
<1>8. CASE Rollback \/ Cleanup
    BY <1>1, <1>8 DEF Rollback, Cleanup, Goto, End, RunInv, Working, Local, Network, latest
<1>9. CASE Cancelled \/ CallFails \/ Interrupt \/ Kill
    BY <1>1, <1>9 DEF Cancelled, CallFails, Interrupt, Kill, Goto, End, RunInv, Working, Local, Network, latest
<1>a. CASE Publish
    BY <1>1, <1>a DEF Publish, Goto, End, RunInv, Working, Local, Network, latest
<1>b. CASE UNCHANGED vars
    BY <1>1, <1>b DEF vars, Goto, End, RunInv, Working, Local, Network, latest
<1> QED
    BY <1>2, <1>3, <1>4, <1>5, <1>6, <1>7, <1>8, <1>9, <1>a, <1>b DEF Next, FileStep

(* The files of each step are there for the next one. *)
LEMMA NextDiskInv ==
    ASSUME Inv, [Next]_vars, Delivered'
    PROVE  DiskInv'
<1>1. TypeOK /\ RunInv
    BY DEF Inv
<1>2. /\ latest \in Nat /\ latest > 1 /\ latest' \in Nat /\ latest' >= latest
      /\ \A i \in 1..latest : releases'[i] = releases[i]
    BY <1>1, ReleasesGrow, NextTypeOK DEF TypeOK, latest
<1>3. Delivered
    BY <1>2 DEF Delivered
<1>4. DiskInv
    BY <1>3 DEF Inv
<1>5. /\ fetched \in Nat /\ current \in Nat \ {0} /\ checked \in Nat
      /\ disk \in [Path -> File(latest)]
      /\ {"target", "new", "old", "tar", "exec"} \subseteq Path
    BY <1>1, <1>2 DEF TypeOK, Path, latest
<1>6. fetched # 0 /\ Whole(current) # Absent /\ Whole(fetched) # Absent
  <2>1. fetched \in Nat \ {0}
      BY <1>1, <1>2 DEF TypeOK, latest
  <2> QED
      BY <1>5, <2>1, WholeThere
<1>7. \A r : Whole(r).rel = r /\ Whole(r).whole
    BY DEF Whole
<1>8. CASE Start
    BY <1>1, <1>2, <1>3, <1>4, <1>5, <1>6, <1>7, <1>8
    DEF Start, Goto, End, DiskInv, RunInv, Working, Local, Network
<1>9. CASE LatestVersion
    BY <1>1, <1>2, <1>3, <1>4, <1>5, <1>6, <1>7, <1>9
    DEF LatestVersion, Goto, End, DiskInv, RunInv, Working, Local, Network
<1>a. CASE Answer \/ getLastRelease
    BY <1>1, <1>2, <1>3, <1>4, <1>5, <1>6, <1>7, <1>a
    DEF Answer, getLastRelease, Goto, End, DiskInv, RunInv, Working, Local, Network
<1>b. CASE CreateTar \/ downloadAsset
    BY <1>1, <1>2, <1>3, <1>4, <1>5, <1>6, <1>7, <1>b
    DEF CreateTar, downloadAsset, Goto, End, DiskInv, RunInv, Working, Local, Network
<1>c. CASE extractTarGz
    BY <1>1, <1>2, <1>3, <1>4, <1>5, <1>6, <1>7, <1>c
    DEF extractTarGz, Goto, End, DiskInv, RunInv, Working, Local, Network, Delivered
<1>d. CASE Unpack
    BY <1>1, <1>2, <1>3, <1>4, <1>5, <1>6, <1>7, <1>d
    DEF Unpack, Goto, End, DiskInv, RunInv, Working, Local, Network, Delivered
<1>e. CASE OpenNew \/ Copy
    BY <1>1, <1>2, <1>3, <1>4, <1>5, <1>6, <1>7, <1>e
    DEF OpenNew, Copy, Goto, End, DiskInv, RunInv, Working, Local, Network
<1>f. CASE RemoveOld \/ MoveAway
    BY <1>1, <1>2, <1>3, <1>4, <1>5, <1>6, <1>7, <1>f
    DEF RemoveOld, MoveAway, Goto, End, DiskInv, RunInv, Working, Local, Network, Rename
<1>g. CASE MoveIn \/ Rollback
    BY <1>1, <1>2, <1>3, <1>4, <1>5, <1>6, <1>7, <1>g
    DEF MoveIn, Rollback, Goto, End, DiskInv, RunInv, Working, Local, Network, Rename
<1>h. CASE Cleanup
    BY <1>1, <1>2, <1>3, <1>4, <1>5, <1>6, <1>7, <1>h
    DEF Cleanup, Goto, End, DiskInv, RunInv, Working, Local, Network, Path
<1>i. CASE Cancelled \/ CallFails \/ Interrupt \/ Kill
    BY <1>1, <1>2, <1>3, <1>4, <1>5, <1>6, <1>7, <1>i
    DEF Cancelled, CallFails, Interrupt, Kill, Goto, End, DiskInv, RunInv, Working, Local, Network
<1>j. CASE Publish
    BY <1>1, <1>2, <1>3, <1>4, <1>5, <1>6, <1>7, <1>j
    DEF Publish, Goto, End, DiskInv, RunInv, Working, Local, Network
<1>k. CASE UNCHANGED vars
    BY <1>4, <1>k DEF vars, DiskInv
<1> QED
    BY <1>8, <1>9, <1>a, <1>b, <1>c, <1>d, <1>e, <1>f, <1>g, <1>h, <1>i, <1>j, <1>k DEF Next, FileStep

LEMMA NextInv == Inv /\ [Next]_vars => Inv'
BY NextTypeOK, NextRunInv, NextDiskInv DEF Inv

LEMMA SpecInv == Spec => []Inv
BY InitInv, NextInv, PTL DEF Spec

(* The program survives failing calls, signals and kills: the installed    *)
(* binary is complete, or it was moved to .dbctl.old by an update that     *)
(* was killed or failed between its two renames.                           *)
THEOREM ProgramIsKept == Spec => []ProgramKept
<1>1. Inv => ProgramKept
  <2> SUFFICES ASSUME Inv, Delivered PROVE ProgramKept
      BY DEF ProgramKept
  <2>1. DiskInv /\ TypeOK
      BY DEF Inv
  <2>2. Whole(current) # Absent /\ Whole(fetched) # Absent
    <3>1. current \in Nat \ {0} /\ fetched \in Nat \ {0}
        BY <2>1 DEF TypeOK
    <3> QED
        BY <3>1, WholeThere
  <2>3. Whole(current).whole /\ Whole(fetched).whole
      BY DEF Whole
  <2> QED
      BY <2>1, <2>2, <2>3 DEF DiskInv, ProgramKept
<1> QED
    BY <1>1, SpecInv, PTL

(* A successful update has installed the release that was proposed or a    *)
(* later one, and kept the one before.                                     *)
THEOREM UpdateIsAsProposed == Spec => []UpdatedAsProposed
<1>1. Inv => UpdatedAsProposed
    BY DEF Inv, RunInv, DiskInv, UpdatedAsProposed
<1> QED
    BY <1>1, SpecInv, PTL

-----------------------------------------------------------------------------
(* Versions *)

Numbers == [1..3 -> Nat]

(* The order of the code is the one of the definition. *)
LEMMA CompareIsOlder ==
    ASSUME NEW v \in Numbers, NEW w \in Numbers
    PROVE  Greater(v, w) <=> Older(v, w)
<1>1. Older(v, w) <=> \/ v[1] < w[1]
                      \/ v[1] = w[1] /\ v[2] < w[2]
                      \/ v[1] = w[1] /\ v[2] = w[2] /\ v[3] < w[3]
    BY DEF Older, Numbers
<1>2. \A k \in 1..3 : v[k] \in Nat /\ w[k] \in Nat
    BY DEF Numbers
<1> QED
    BY <1>1, <1>2 DEF Greater, Compare, compareSegment

LEMMA OlderOrder ==
    /\ \A v \in Numbers : ~Older(v, v)
    /\ \A u, v, w \in Numbers : ~Older(u, v) /\ ~Older(v, w) => ~Older(u, w)
<1>1. \A v, w \in Numbers :
        Older(v, w) <=> \/ v[1] < w[1]
                        \/ v[1] = w[1] /\ v[2] < w[2]
                        \/ v[1] = w[1] /\ v[2] = w[2] /\ v[3] < w[3]
    BY DEF Older, Numbers
<1>2. \A v \in Numbers : \A k \in 1..3 : v[k] \in Nat
    BY DEF Numbers
<1> QED
    BY <1>1, <1>2

LEMMA ParsedNumbers ==
    ASSUME NEW tag \in Tag, ParseVersion(tag) # Invalid
    PROVE  /\ ParseVersion(tag) \in Numbers
           /\ currentVersion(tag) = ParseVersion(tag)
<1>1. Len(tag.nums) \in 1..3 /\ ~tag.suffix /\ tag.nums \in Seq(Nat)
    BY DEF ParseVersion, Tag
<1>2. ParseVersion(tag) = [k \in 1..3 |-> Segment(tag.nums, k)]
    BY DEF ParseVersion
<1>3. \A k \in 1..3 : Segment(tag.nums, k) \in Nat
    BY <1>1 DEF Segment
<1>4. ParseVersion(tag) \in Numbers
    BY <1>2, <1>3 DEF Numbers
<1>5. tag = [tag EXCEPT !.suffix = FALSE]
    BY <1>1 DEF Tag
<1>6. tag.nums # <<>>
    BY <1>1, SMTT(30)
<1> QED
    BY <1>4, <1>5, <1>6 DEF currentVersion

LEMMA CurrentNumbers ==
    ASSUME NEW tag \in Tag, currentVersion(tag) # Invalid
    PROVE  currentVersion(tag) \in Numbers
<1>1. CASE tag.nums = <<>>
    BY <1>1 DEF currentVersion, Numbers
<1>2. CASE tag.nums # <<>>
  <2>1. [tag EXCEPT !.suffix = FALSE] \in Tag
      BY DEF Tag
  <2> QED
      BY <1>2, <2>1, ParsedNumbers DEF currentVersion
<1> QED
    BY <1>1, <1>2

Proposed == {"prompt", "fetch"} \cup Working

(* Neither what is proposed nor what is installed is older than the        *)
(* program that runs.                                                      *)
OrderInv ==
    /\ pc \in Proposed => ~Older(Version(checked), Version(current))
    /\ disk["target"] # Absent => ~Older(Version(disk["target"].rel), Version(current))

LEMMA VersionNumbers ==
    ASSUME TypeOK, NEW i \in 1..latest, Version(i) # Invalid
    PROVE  Version(i) \in Numbers
<1>1. releases[i] \in ReleaseType
    BY ReleaseAssumption DEF TypeOK, latest
<1>2. releases[i].tag \in Tag
    BY <1>1 DEF ReleaseType
<1> QED
    BY <1>2, CurrentNumbers DEF Version

(* Steps that install nothing and propose nothing. *)
Quiet ==
    /\ disk'["target"] \in {disk["target"], Absent}
    /\ UNCHANGED <<current, checked>>
    /\ pc' \in Proposed => pc \in Proposed

LEMMA QuietSteps ==
    ASSUME TypeOK, [Next]_vars, ~Start, ~LatestVersion, ~(MoveIn \/ Rollback)
    PROVE  Quiet
<1>1. disk \in [Path -> File(Len(releases))] /\ {"target", "new", "old", "tar", "exec"} \subseteq Path
    BY DEF TypeOK, Path
<1>2. CASE Answer \/ getLastRelease \/ CreateTar \/ downloadAsset
    BY <1>1, <1>2 DEF Answer, getLastRelease, CreateTar, downloadAsset, Quiet, Goto, End,
        Proposed, Working, Local
<1>3. CASE extractTarGz \/ Unpack \/ OpenNew \/ Copy
    BY <1>1, <1>3 DEF extractTarGz, Unpack, OpenNew, Copy, Quiet, Goto, End,
        Proposed, Working, Local
<1>4. CASE RemoveOld \/ MoveAway \/ Cleanup
    BY <1>1, <1>4 DEF RemoveOld, MoveAway, Rename, Cleanup, Quiet, Goto, End,
        Proposed, Working, Local
<1>5. CASE Cancelled \/ CallFails \/ Interrupt \/ Kill \/ Publish \/ UNCHANGED vars
    BY <1>5 DEF Cancelled, CallFails, Interrupt, Kill, Publish, vars, Quiet, Goto, End,
        Proposed, Working, Local
<1> QED
    BY <1>2, <1>3, <1>4, <1>5 DEF Next, FileStep

LEMMA NextOrderInv ==
    ASSUME Inv, [Next]_vars, Delivered', InOrder', Delivered /\ InOrder => OrderInv
    PROVE  OrderInv'
<1>1. TypeOK /\ RunInv /\ TypeOK'
    BY NextTypeOK DEF Inv
<1>2. /\ latest \in Nat /\ latest > 1 /\ latest' \in Nat /\ latest' >= latest
      /\ \A i \in 1..latest : releases'[i] = releases[i]
      /\ ~Publish => releases' = releases
    BY <1>1, ReleasesGrow, NextTypeOK DEF TypeOK, latest
<1>3. \A i \in 1..latest : Version(i)' = Version(i)
    BY <1>2 DEF Version
<1>4. Delivered /\ InOrder
    BY <1>2, <1>3 DEF Delivered, InOrder
<1>5. OrderInv /\ DiskInv
    BY <1>4 DEF Inv
<1>6. /\ current \in 1..latest /\ checked \in 1..latest /\ fetched \in 1..latest
      /\ disk["target"] # Absent => disk["target"].rel \in 1..latest
      /\ disk \in [Path -> File(latest)] /\ {"target", "new", "old"} \subseteq Path
  <2>1. /\ current \in 1..latest /\ checked \in 1..latest /\ fetched \in 1..latest
        /\ disk["target"] \in File(latest)
        /\ disk \in [Path -> File(latest)] /\ {"target", "new", "old"} \subseteq Path
      BY <1>1 DEF TypeOK, Path, latest
  <2> QED
      BY <1>2, <2>1, FileFields
<1>7. \A i \in 1..latest : Version(i) \in Numbers
    BY <1>1, <1>4, VersionNumbers DEF InOrder
<1> HIDE DEF latest
<1>8. CASE Quiet
    BY <1>3, <1>5, <1>6, <1>8 DEF Quiet, OrderInv
<1>9. CASE Start
  <2>1. /\ current' = disk["target"].rel /\ disk' = disk /\ disk["target"] # Absent
        /\ pc' \notin Proposed
      BY <1>9 DEF Start, Proposed, Working, Local
  <2>2. ~Older(Version(current'), Version(current'))
      BY <1>6, <1>7, <2>1, OlderOrder
  <2>3. Version(disk["target"].rel)' = Version(disk["target"].rel)
      BY <1>3, <1>6, <2>1
  <2> QED
      BY <2>1, <2>2, <2>3 DEF OrderInv
<1>a. CASE LatestVersion
  <2>1. disk' = disk /\ current' = current
      BY <1>a DEF LatestVersion
  <2>2. pc' \in Proposed => ~Older(Version(checked'), Version(current))
    <3> SUFFICES ASSUME pc' \in Proposed
                 PROVE  ~Older(Version(checked'), Version(current))
        OBVIOUS
    <3> DEFINE tag == releases[latest].tag
    <3>1. /\ checked' = latest
          /\ ParseVersion(tag) # Invalid
          /\ ~Greater(ParseVersion(tag), Version(current))
        BY <1>a DEF LatestVersion, Goto, End, Proposed, Working, Local, Version
    <3>2. tag \in Tag
      <4>1. releases[latest] \in ReleaseType
          BY <1>1, <1>2, ReleaseAssumption DEF TypeOK, latest
      <4> QED
          BY <4>1 DEF ReleaseType
    <3>3. Version(latest) = ParseVersion(tag) /\ ParseVersion(tag) \in Numbers
        BY <3>1, <3>2, ParsedNumbers DEF Version
    <3> QED
        BY <1>6, <1>7, <3>1, <3>3, CompareIsOlder
  <2>3. checked' \in 1..latest
      BY <1>2, <1>6, <1>a DEF LatestVersion
  <2> QED
      BY <1>3, <1>5, <1>6, <2>1, <2>2, <2>3 DEF OrderInv
<1>b. CASE MoveIn
  <2>1. /\ current' = current /\ checked' = checked /\ pc = "in"
        /\ disk' = disk \/ disk'["target"] = Whole(fetched)
      BY <1>5, <1>6, <1>b DEF MoveIn, Rename, DiskInv
  <2>2. /\ ~Older(Version(checked), Version(current))
        /\ checked \in 2..latest /\ fetched \in checked..latest
      BY <1>1, <1>5, <2>1 DEF OrderInv, RunInv, Proposed, Working, Local
  <2>3. ~Older(Version(fetched), Version(checked))
      BY <1>4, <1>6, <1>7, <2>2, OlderOrder DEF InOrder
  <2>4. ~Older(Version(fetched), Version(current))
      BY <1>6, <1>7, <2>2, <2>3, OlderOrder
  <2>5. Whole(fetched).rel = fetched
      BY DEF Whole
  <2> QED
      BY <1>3, <1>5, <1>6, <2>1, <2>2, <2>4, <2>5 DEF OrderInv
<1>c. CASE Rollback
  <2>1. /\ current' = current /\ checked' = checked /\ pc' \notin Proposed
        /\ disk' = disk \/ disk'["target"] = Whole(current)
      BY <1>5, <1>6, <1>c DEF Rollback, Rename, DiskInv, End, Proposed, Working, Local
  <2>2. Whole(current).rel = current /\ ~Older(Version(current), Version(current))
      BY <1>6, <1>7, OlderOrder DEF Whole
  <2> QED
      BY <1>3, <1>5, <1>6, <2>1, <2>2 DEF OrderInv
<1> QED
    BY <1>1, <1>8, <1>9, <1>a, <1>b, <1>c, QuietSteps

(* If releases are published in the order of their versions, no update     *)
(* replaces the program by an older version.                               *)
THEOREM NeverAnOlderVersion == Spec => []NeverOlder
<1> DEFINE I == Inv /\ (Delivered /\ InOrder => OrderInv)
<1>1. Init => I
  <2> SUFFICES ASSUME Init, Delivered, InOrder PROVE OrderInv
      BY InitInv
  <2>1. /\ disk["target"] = Whole(1) /\ current = 1 /\ pc = "idle"
      BY DEF Init, Path
  <2>2. TypeOK /\ 1 \in 1..latest
      BY InitTypeOK DEF TypeOK, latest
  <2>3. Version(1) \in Numbers
      BY <2>2, VersionNumbers DEF InOrder
  <2> QED
      BY <2>1, <2>3, OlderOrder DEF OrderInv, Whole, Proposed, Working, Local
<1>2. I /\ [Next]_vars => I'
    BY NextInv, NextOrderInv
<1>3. I => NeverOlder
    BY DEF OrderInv, NeverOlder
<1> QED
    BY <1>1, <1>2, <1>3, PTL DEF Spec

-----------------------------------------------------------------------------
(* Leftovers *)

AllSuitable == (\A i \in 2..latest : Suitable(releases[i])) /\ Version(1) # Invalid

(* A suitable release has an archive. *)
LEMMA SuitableAsset ==
    ASSUME NEW r, Suitable(r)
    PROVE  \E a \in filterAssetsForArchAndOs(r) : a.dot
<1>1. filterAssetsForArchAndOs(r) # {}
    BY FS_EmptySet DEF Suitable
<1> QED
    BY <1>1 DEF Suitable

LEMMA NeverRefused ==
    ASSUME Inv, [Next]_vars, AllSuitable', LeftoversHarmless
    PROVE  result' # "refused"
<1>1. TypeOK /\ RunInv
    BY DEF Inv
<1>2. /\ latest \in Nat /\ latest > 1 /\ latest' \in Nat /\ latest' >= latest
      /\ \A i \in 1..latest : releases'[i] = releases[i]
    BY <1>1, ReleasesGrow, NextTypeOK DEF TypeOK, latest
<1>3. AllSuitable
  <2>1. Version(1)' = Version(1)
      BY <1>2 DEF Version
  <2> QED
      BY <1>2, <2>1 DEF AllSuitable
<1>4. Delivered
    BY <1>3 DEF AllSuitable, Suitable, Delivered
<1>5. DiskInv /\ result # "refused"
    BY <1>3, <1>4 DEF Inv, LeftoversHarmless, AllSuitable
<1>6. current \in 1..latest /\ fetched \in Nat \ {0} /\ current \in Nat \ {0}
    BY <1>1 DEF TypeOK, latest
<1>7. Suitable(releases[latest])
    BY <1>2, <1>3 DEF AllSuitable
<1>8. CASE LatestVersion
  <2>1. filterAssetsForArchAndOs(releases[latest]) # {}
      BY <1>7, SuitableAsset
  <2>2. ParseVersion(releases[latest].tag) # Invalid
      BY <1>7 DEF Suitable
  <2>3. currentVersion(releases[current].tag) # Invalid
      BY <1>2, <1>3, <1>6 DEF AllSuitable, Suitable, Version
  <2> QED
      BY <1>5, <1>8, <2>1, <2>2, <2>3 DEF LatestVersion, Goto, End
<1>9. CASE getLastRelease
    BY <1>5, <1>7, <1>9 DEF getLastRelease, Suitable, Goto, End
<1>a. CASE extractTarGz
  <2>1. fetched \in 2..latest
      BY <1>1, <1>2, <1>a DEF extractTarGz, RunInv, Working, Local
  <2>2. Suitable(releases[fetched])
      BY <1>3, <2>1 DEF AllSuitable
  <2>3. ~releases[fetched].dirs /\ \E a \in filterAssetsForArchAndOs(releases[fetched]) : a.dot
      BY <2>2, SuitableAsset DEF Suitable
  <2> QED
      BY <1>5, <1>a, <2>3 DEF extractTarGz, Goto, End
<1>b. CASE OpenNew
  <2>1. disk["exec"] # Absent /\ disk["target"] # Absent
      BY <1>5, <1>6, <1>b, WholeThere DEF OpenNew, DiskInv
  <2> QED
      BY <1>5, <1>b, <2>1 DEF OpenNew, Goto, End
<1>c. CASE Start \/ Answer \/ CreateTar \/ downloadAsset \/ Unpack \/ Copy
    BY <1>5, <1>c DEF Start, Answer, CreateTar, downloadAsset, Unpack, Copy, Goto, End
<1>d. CASE RemoveOld \/ MoveAway \/ MoveIn \/ Rollback \/ Cleanup
    BY <1>5, <1>d DEF RemoveOld, MoveAway, MoveIn, Rollback, Cleanup, Goto, End
<1>e. CASE Cancelled \/ CallFails \/ Interrupt \/ Kill \/ Publish \/ UNCHANGED vars
    BY <1>5, <1>e DEF Cancelled, CallFails, Interrupt, Kill, Publish, vars, End
<1> QED
    BY <1>8, <1>9, <1>a, <1>b, <1>c, <1>d, <1>e DEF Next, FileStep

(* What earlier updates left behind never makes a later one fail, if every *)
(* release has one archive for the platform, without directories.          *)
THEOREM LeftoversAreHarmless == Spec => []LeftoversHarmless
<1>1. Init => LeftoversHarmless
    BY DEF Init, LeftoversHarmless
<1>2. Inv /\ LeftoversHarmless /\ [Next]_vars => LeftoversHarmless'
    BY NeverRefused DEF LeftoversHarmless, AllSuitable
<1> QED
    BY <1>1, <1>2, SpecInv, PTL DEF Spec

=============================================================================
