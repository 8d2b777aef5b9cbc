\* Runs of self-update one after the other, with failing calls, signals and
\* kills at any step and at most MaxReleases builds and releases.
SPECIFICATION Spec
CONSTANTS
    Build <- MCBuild
    Release <- MCRelease
    Platform <- MCPlatform
    MaxSegment = 2
    MaxReleases = 3
    Absent = Absent
INVARIANTS TypeOK ProgramKept UpdatedAsProposed NeverOlder LeftoversHarmless
PROPERTY UpdateEnds
\* After a kill between the two renames there is no program left to start.
CHECK_DEADLOCK FALSE
