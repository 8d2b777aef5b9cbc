---------------------------- MODULE MCSelfUpdate ----------------------------
(***************************************************************************)
(* Releases as goreleaser makes them for two platforms, and the odd ones:  *)
(* without an asset for this platform, with a second file for it, with an  *)
(* asset that is no archive, with directories in the archive, with the     *)
(* executable under another name, with a tag that is not a version.        *)
(***************************************************************************)
EXTENDS SelfUpdate

MCPlatform == {"linux", "amd64"}

Archive == [words |-> {"linux", "amd64"}, dot |-> TRUE]
Other == [words |-> {"darwin", "amd64"}, dot |-> TRUE]
Bare == [words |-> {"linux", "amd64"}, dot |-> FALSE]

Usual(nums) ==
    [tag |-> [nums |-> nums, suffix |-> FALSE], assets |-> {Archive, Other},
     dirs |-> FALSE, exec |-> TRUE]

(* A snapshot, a version of one number and a build of goreleaser's next. *)
MCBuild ==
    {[Usual(<<>>) EXCEPT !.assets = {}], Usual(<<1>>),
     [Usual(<<0, 2, 1>>) EXCEPT !.tag.suffix = TRUE]}

MCRelease ==
    {Usual(<<0, 2>>), Usual(<<1, 0, 0>>), Usual(<<1, 0, 1>>),
     [Usual(<<1, 1>>) EXCEPT !.dirs = TRUE],
     [Usual(<<1, 1, 0>>) EXCEPT !.assets = {Other}],
     [Usual(<<1, 1, 0>>) EXCEPT !.assets = {Archive, Bare}],
     [Usual(<<1, 1, 0>>) EXCEPT !.assets = {Bare}],
     [Usual(<<1, 1, 1>>) EXCEPT !.exec = FALSE],
     Usual(<<2, 3>>),
     [Usual(<<2, 0>>) EXCEPT !.tag.suffix = TRUE]}
=============================================================================
