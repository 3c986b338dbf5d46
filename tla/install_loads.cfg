CONSTANTS
    Place <- MCPlace
    Within <- MCWithin
    DefaultTarget = "plugins"
    Release <- MCRelease
    Complete <- MCRelease
    Named <- MCNamed
    Compatible <- MCCompatible
    Copied <- MCCopied
    FirstTool = 2
    Module = {m}
    Absent = Absent
SPECIFICATION Spec
INVARIANT InstalledLoads
