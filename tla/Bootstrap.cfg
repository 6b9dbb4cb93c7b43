SPECIFICATION Spec
CONSTANTS
    p = p
    a = a
    b1 = b1
    b2 = b2
    at = at
    co = co
    i1 = i1
    i2 = i2
    None = None
    Packages = {p}
    Apps = {a}
    Operations = {b1, b2, at, co}
    Installers = {i1, i2}
    Requests <- Commands
    MaxGroups = 7
    MaxGeneration = 2
    MaxInvocations = 3
    MaxScripts = 2
    MaxTroubles = 2
SYMMETRY InstallerSymmetry
INVARIANTS NoSilentReset InitializedStaysBootable ResultsAreKept RetiredStaysRetired
CHECK_DEADLOCK FALSE
