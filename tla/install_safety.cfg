CONSTANTS
    Place <- MCPlace
    Within <- MCWithin
    DefaultTarget = "plugins"
    Release <- MCRelease
    Complete <- MCRelease
    Named <- MCRelease
    Compatible <- MCCompatible
    Copied <- MCCopied
    FirstTool = 2
    Module = {m}
    Absent = Absent
SPECIFICATION Spec
INVARIANTS TypeOK Inv InstalledFromHere LoadsWhereDeployed
