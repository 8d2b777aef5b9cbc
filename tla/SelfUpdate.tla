----------------------------- MODULE SelfUpdate -----------------------------
(***************************************************************************)
(* dbctl self-update: the program replaces its own binary by the latest    *)
(* release.  It asks GitHub twice, once for the version to propose and     *)
(* once more, after the answer of the user, for what to download.  The     *)
(* download goes through fixed paths under /tmp, the new binary is written *)
(* next to the installed one, and two renames swap them.                   *)
(*                                                                         *)
(* Any call may fail, the process may be killed between any two steps,     *)
(* releases are published meanwhile, and the command may be run again on   *)
(* whatever an earlier run left behind.  A signal only cancels the context *)
(* of the requests: the file operations and the prompt do not look at it.  *)
(* One update runs at a time; the code takes no lock.                      *)
(***************************************************************************)
EXTENDS Integers, Sequences, FiniteSets

CONSTANTS
    Build,              \* the builds a user may have installed first
    Release,            \* the releases that may be published
    Platform,           \* GOOS and GOARCH, the words the asset's url must contain
    MaxSegment,         \* the largest number ParseUint accepts
    MaxReleases,        \* bound: the builds and releases of one behaviour
    Absent              \* there is no such file

(* nums are the numbers of a version, <<>> for "snapshot"; suffix is what  *)
(* follows a "-".                                                          *)
Tag == [nums : Seq(Nat), suffix : BOOLEAN]
Asset == [words : SUBSET STRING, dot : BOOLEAN]
ReleaseType ==
    [tag : Tag, assets : SUBSET Asset,
     dirs : BOOLEAN,            \* the archive has directory entries
     exec : BOOLEAN]            \* it has the executable, named as expected
Binary == [rel : Nat \ {0}, whole : BOOLEAN]

ASSUME ReleaseAssumption ==
    /\ Build \subseteq ReleaseType /\ Release \subseteq ReleaseType
    /\ MaxSegment \in Nat /\ MaxReleases \in Nat
    /\ Absent \notin Binary

VARIABLES
    releases,           \* the build installed first, then what was published
    disk,               \* the files the update reads and writes
    dirs,               \* the directories of an archive exist under /tmp
    pc,                 \* the next step of the running update
    current,            \* the release the running process is
    checked,            \* the release whose version was proposed to the user
    fetched,            \* the release that is downloaded
    cancelled,          \* a signal has cancelled the context
    result              \* how the last run ended

vars == <<releases, disk, dirs, pc, current, checked, fetched, cancelled, result>>

-----------------------------------------------------------------------------
(* target is the executable, new and old are .dbctl.new and .dbctl.old     *)
(* beside it, tar and exec are the download and what is extracted from it. *)
Path == {"target", "new", "old", "tar", "exec"}

(* A file that comes from one of the first n releases, if there is one. *)
File(n) == [rel : 1..n, whole : BOOLEAN] \cup {Absent}

Network == {"check", "fetch", "body"}
Local == {"extract", "unpack", "open", "copy", "remove", "away",
          "in", "rollback", "cleanup"}
PC == {"idle", "prompt", "download"} \cup Network \cup Local
Result == {"none", "ok", "latest", "declined", "refused", "failed", "broken", "killed"}

TypeOK ==
    /\ releases \in Seq(Build \cup Release)
    /\ Len(releases) > 1
    /\ disk \in [Path -> File(Len(releases))]
    /\ dirs \in BOOLEAN
    /\ pc \in PC
    /\ current \in 1..Len(releases)
    /\ checked \in 1..Len(releases)
    /\ fetched \in 1..Len(releases)
    /\ cancelled \in BOOLEAN
    /\ result \in Result

-----------------------------------------------------------------------------
(* Versions *)

Invalid == <<>>

Segment(nums, k) == IF k <= Len(nums) THEN nums[k] ELSE 0

ParseVersion(tag) ==
    IF \/ Len(tag.nums) \notin 1..3
       \/ tag.suffix
       \/ \E k \in DOMAIN tag.nums : tag.nums[k] > MaxSegment
    THEN Invalid
    ELSE [k \in 1..3 |-> Segment(tag.nums, k)]

compareSegment(a, b) == IF a < b THEN -1 ELSE IF a > b THEN 1 ELSE 0

(* Mutant: the minor number is compared before the major one. *)
CompareMinorFirst(v, o) ==
    LET d(k) == compareSegment(v[k], o[k])
    IN  IF d(2) # 0 THEN d(2) ELSE IF d(1) # 0 THEN d(1) ELSE d(3)

Compare(v, o) ==
    LET d(k) == compareSegment(v[k], o[k])
    IN  IF d(1) # 0 THEN d(1) ELSE IF d(2) # 0 THEN d(2) ELSE d(3)

(* True if v is the smaller one; doSelfUpdate calls it to find out that    *)
(* there is nothing to update to.                                          *)
Greater(v, target) == Compare(v, target) < 0

(* What doSelfUpdate takes for the version of the build that runs. *)
currentVersion(tag) ==
    IF tag.nums = <<>> THEN <<0, 0, 1>> ELSE ParseVersion([tag EXCEPT !.suffix = FALSE])

latest == Len(releases)

filterAssetsForArchAndOs(r) == {a \in r.assets : Platform \subseteq a.words}

-----------------------------------------------------------------------------
(* doSelfUpdate and Update *)

Goto(l) == pc' = l /\ UNCHANGED result
End(how) == pc' = "idle" /\ result' = how

(* The user starts the installed binary. *)
Start ==
    /\ pc = "idle"
    /\ disk["target"] # Absent /\ disk["target"].whole
    /\ current' = disk["target"].rel
    /\ cancelled' = FALSE
    /\ pc' = "check" /\ result' = "none"
    /\ UNCHANGED <<releases, disk, dirs, checked, fetched>>

LatestVersion ==
    /\ pc = "check" /\ ~cancelled
    /\ LET tag == releases[latest].tag
           v == currentVersion(releases[current].tag)
       IN  \/ /\ \/ filterAssetsForArchAndOs(releases[latest]) = {}
                 \/ ParseVersion(tag) = Invalid
                 \/ v = Invalid
              /\ End("refused")
              /\ UNCHANGED checked
           \/ /\ filterAssetsForArchAndOs(releases[latest]) # {}
              /\ ParseVersion(tag) # Invalid
              /\ v # Invalid
              /\ checked' = latest
              /\ IF Greater(ParseVersion(tag), v) THEN End("latest") ELSE Goto("prompt")
    /\ UNCHANGED <<releases, disk, dirs, current, fetched, cancelled>>

(* y goes on; n or anything else does not. *)
Answer ==
    /\ pc = "prompt"
    /\ Goto("fetch") \/ End("declined")
    /\ UNCHANGED <<releases, disk, dirs, current, checked, fetched, cancelled>>

(* Mutant: the release after the latest one is asked for. *)
getNextRelease ==
    /\ pc = "fetch" /\ ~cancelled
    /\ fetched' = latest + 1
    /\ Goto("download")
    /\ UNCHANGED <<releases, disk, dirs, current, checked, cancelled>>

getLastRelease ==
    /\ pc = "fetch" /\ ~cancelled
    /\ \/ /\ Cardinality(filterAssetsForArchAndOs(releases[latest])) = 1
          /\ fetched' = latest
          /\ Goto("download")
       \/ /\ Cardinality(filterAssetsForArchAndOs(releases[latest])) # 1
          /\ UNCHANGED fetched
          /\ End("refused")
    /\ UNCHANGED <<releases, disk, dirs, current, checked, cancelled>>

Partial(r) == [rel |-> r, whole |-> FALSE]
Whole(r) == [rel |-> r, whole |-> TRUE]

(* downloadAsset: the file is created, then the body is copied into it. *)
CreateTar ==
    /\ pc = "download"
    /\ disk' = [disk EXCEPT !["tar"] = Partial(fetched)]
    /\ Goto("body")
    /\ UNCHANGED <<releases, dirs, current, checked, fetched, cancelled>>

downloadAsset ==
    /\ pc = "body" /\ ~cancelled
    /\ disk' = [disk EXCEPT !["tar"] = Whole(fetched)]
    /\ Goto("extract")
    /\ UNCHANGED <<releases, dirs, current, checked, fetched, cancelled>>

(* extractTarGz: a directory that exists is an error, a file is truncated. *)
extractTarGz ==
    /\ pc = "extract"
    /\ LET r == releases[fetched]
       IN  \/ /\ (r.dirs /\ dirs) \/ \A a \in filterAssetsForArchAndOs(r) : ~a.dot
              /\ End("refused")
              /\ UNCHANGED <<disk, dirs>>
           \/ /\ ~(r.dirs /\ dirs)
              /\ \E a \in filterAssetsForArchAndOs(r) : a.dot
              /\ dirs' = (dirs \/ r.dirs)
              /\ disk' = IF r.exec THEN [disk EXCEPT !["exec"] = Partial(fetched)] ELSE disk
              /\ Goto("unpack")
    /\ UNCHANGED <<releases, current, checked, fetched, cancelled>>

(* A truncated archive ends in an error, see CallFails. *)
Unpack ==
    /\ pc = "unpack"
    /\ disk["tar"].whole
    /\ disk' = IF releases[fetched].exec THEN [disk EXCEPT !["exec"] = Whole(fetched)] ELSE disk
    /\ Goto("open")
    /\ UNCHANGED <<releases, dirs, current, checked, fetched, cancelled>>

(* Mutant: a file left over by an earlier update is an error. *)
OpenNewExclusive ==
    /\ pc = "open"
    /\ \/ /\ Absent \in {disk["exec"], disk["target"]} \/ disk["new"] # Absent
          /\ End("refused")
          /\ UNCHANGED disk
       \/ /\ Absent \notin {disk["exec"], disk["target"]} /\ disk["new"] = Absent
          /\ disk' = [disk EXCEPT !["new"] = Partial(disk["exec"].rel)]
          /\ Goto("copy")
    /\ UNCHANGED <<releases, dirs, current, checked, fetched, cancelled>>

OpenNew ==
    /\ pc = "open"
    /\ \/ /\ Absent \in {disk["exec"], disk["target"]}
          /\ End("refused")
          /\ UNCHANGED disk
       \/ /\ Absent \notin {disk["exec"], disk["target"]}
          /\ disk' = [disk EXCEPT !["new"] = Partial(disk["exec"].rel)]
          /\ Goto("copy")
    /\ UNCHANGED <<releases, dirs, current, checked, fetched, cancelled>>

(* Mutant: the error of io.Copy is not looked at. *)
CopyUnchecked ==
    /\ pc = "copy"
    /\ \E d \in {disk["new"], disk["exec"]} : disk' = [disk EXCEPT !["new"] = d]
    /\ Goto("remove")
    /\ UNCHANGED <<releases, dirs, current, checked, fetched, cancelled>>

Copy ==
    /\ pc = "copy"
    /\ disk' = [disk EXCEPT !["new"] = disk["exec"]]
    /\ Goto("remove")
    /\ UNCHANGED <<releases, dirs, current, checked, fetched, cancelled>>

(* The error of this call is ignored. *)
RemoveOld ==
    /\ pc = "remove"
    /\ \E d \in {Absent, disk["old"]} : disk' = [disk EXCEPT !["old"] = d]
    /\ Goto("away")
    /\ UNCHANGED <<releases, dirs, current, checked, fetched, cancelled>>

Rename(from, to) ==
    /\ disk[from] # Absent
    /\ disk' = [disk EXCEPT ![to] = disk[from], ![from] = Absent]

MoveAway ==
    /\ pc = "away"
    /\ Rename("target", "old")
    /\ Goto("in")
    /\ UNCHANGED <<releases, dirs, current, checked, fetched, cancelled>>

MoveIn ==
    /\ pc = "in"
    /\ \/ Rename("new", "target") /\ Goto("cleanup")
       \/ UNCHANGED disk /\ Goto("rollback")
    /\ UNCHANGED <<releases, dirs, current, checked, fetched, cancelled>>

Rollback ==
    /\ pc = "rollback"
    /\ \/ Rename("old", "target") /\ End("failed")
       \/ UNCHANGED disk /\ End("broken")
    /\ UNCHANGED <<releases, dirs, current, checked, fetched, cancelled>>

(* Mutant: the old binary is cleaned up too. *)
CleanupOld ==
    /\ pc = "cleanup"
    /\ \E gone \in SUBSET {"tar", "exec", "old"} :
        disk' = [f \in Path |-> IF f \in gone THEN Absent ELSE disk[f]]
    /\ dirs' \in {FALSE, dirs}
    /\ End("ok")
    /\ UNCHANGED <<releases, current, checked, fetched, cancelled>>

(* RemoveAll of the directory and of the archive, errors ignored. *)
Cleanup ==
    /\ pc = "cleanup"
    /\ \E gone \in SUBSET {"tar", "exec"} :
        disk' = [f \in Path |-> IF f \in gone THEN Absent ELSE disk[f]]
    /\ dirs' \in {FALSE, dirs}
    /\ End("ok")
    /\ UNCHANGED <<releases, current, checked, fetched, cancelled>>

-----------------------------------------------------------------------------
(* Faults *)

(* Mutant: the download is requested without the context. *)
CancelledButDownload ==
    /\ cancelled /\ pc \in Network \ {"body"}
    /\ End("failed")
    /\ UNCHANGED <<releases, disk, dirs, current, checked, fetched, cancelled>>

(* A request whose context is cancelled returns an error. *)
Cancelled ==
    /\ cancelled /\ pc \in Network
    /\ End("failed")
    /\ UNCHANGED <<releases, disk, dirs, current, checked, fetched, cancelled>>

(* A call returns an error: what the steps before it did stays. *)
CallFails ==
    /\ pc \in Network \cup {"download", "extract", "unpack", "open", "copy", "away"}
    /\ End("failed")
    /\ UNCHANGED <<releases, disk, dirs, current, checked, fetched, cancelled>>

Interrupt ==
    /\ pc # "idle" /\ ~cancelled
    /\ cancelled' = TRUE
    /\ UNCHANGED <<releases, disk, dirs, pc, current, checked, fetched, result>>

Kill ==
    /\ pc # "idle"
    /\ End("killed")
    /\ UNCHANGED <<releases, disk, dirs, current, checked, fetched, cancelled>>

Publish ==
    /\ latest < MaxReleases
    /\ \E r \in Release : releases' = Append(releases, r)
    /\ UNCHANGED <<disk, dirs, pc, current, checked, fetched, cancelled, result>>

-----------------------------------------------------------------------------
Init ==
    /\ \E b \in Build, r \in Release : releases = <<b, r>>
    /\ disk = [f \in Path |-> IF f = "target" THEN Whole(1) ELSE Absent]
    /\ dirs = FALSE
    /\ pc = "idle"
    /\ current = 1 /\ checked = 1 /\ fetched = 1
    /\ cancelled = FALSE
    /\ result = "none"

FileStep ==
    \/ CreateTar \/ extractTarGz \/ Unpack \/ OpenNew \/ Copy
    \/ RemoveOld \/ MoveAway \/ MoveIn \/ Rollback \/ Cleanup

Next ==
    \/ Start \/ LatestVersion \/ Answer \/ getLastRelease \/ downloadAsset \/ FileStep
    \/ Cancelled \/ CallFails \/ Interrupt \/ Kill \/ Publish

(* File operations return, and so does a request whose context is          *)
(* cancelled.  Nothing is assumed of the network, which http.DefaultClient *)
(* waits for without a timeout, or of the user.                            *)
Spec == Init /\ [][Next]_vars /\ WF_vars(FileStep) /\ WF_vars(Cancelled)

-----------------------------------------------------------------------------
(* Properties *)

Version(r) == currentVersion(releases[r].tag)

(* v is older than w: the first number in which they differ is smaller. *)
Older(v, w) == \E k \in 1..3 : v[k] < w[k] /\ \A j \in 1..(k - 1) : v[j] = w[j]

Delivered == \A i \in 2..latest : releases[i].exec

(* Wherever the update is, fails or is killed, the installed binary is     *)
(* complete, or it is missing and the complete one it was is .dbctl.old.   *)
(* It is missing only between the two renames of Update, or after a kill   *)
(* there or a failed rollback.  It holds as long as every archive has the  *)
(* executable: otherwise what an earlier, broken download left in /tmp is  *)
(* installed.                                                              *)
ProgramKept ==
    Delivered =>
        \/ disk["target"] # Absent /\ disk["target"].whole
        \/ /\ disk["target"] = Absent
           /\ disk["old"] = Whole(current)
           /\ \/ pc \in {"in", "rollback"}
              \/ pc = "idle" /\ result \in {"killed", "broken"}

(* After "Successfully updated to version" the complete binary of the      *)
(* release proposed to the user, or of one published while the prompt was  *)
(* open, is installed, and the one before it is in .dbctl.old.             *)
UpdatedAsProposed ==
    Delivered /\ result = "ok" =>
        /\ disk["target"] = Whole(fetched)
        /\ fetched \in checked..latest
        /\ disk["old"] = Whole(current)

InOrder ==
    /\ \A i \in 1..latest : Version(i) # Invalid
    /\ \A i, j \in 2..latest : i < j => ~Older(Version(j), Version(i))

(* If the releases are published in the order of their versions, no update *)
(* replaces the program by an older version, also not one that is fetched  *)
(* after the comparison.                                                   *)
NeverOlder ==
    Delivered /\ InOrder /\ disk["target"] # Absent
        => ~Older(Version(disk["target"].rel), Version(current))

Suitable(r) ==
    /\ Cardinality(filterAssetsForArchAndOs(r)) = 1
    /\ \A a \in filterAssetsForArchAndOs(r) : a.dot
    /\ ParseVersion(r.tag) # Invalid
    /\ currentVersion(r.tag) # Invalid
    /\ r.exec /\ ~r.dirs

(* What a failed, interrupted or killed update leaves under /tmp and       *)
(* beside the binary never stops a later one: with releases that have one  *)
(* archive for the platform, and no directories in it, an update all of    *)
(* whose calls succeed goes through.                                       *)
LeftoversHarmless ==
    (\A i \in 2..latest : Suitable(releases[i])) /\ Version(1) # Invalid
        => result # "refused"

(* Once the download has arrived the update ends, with or without success, *)
(* and a signal ends it wherever it waits for GitHub; only the prompt goes *)
(* on waiting for the user.                                                *)
UpdateEnds == (pc \in Local \/ cancelled) ~> (pc \in {"idle", "prompt"})
=============================================================================
