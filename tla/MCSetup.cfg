\* Two installs and two hosts on one machine.
CONSTANTS
    Installs = {i1, i2}
    Hosts = {h1, h2}
    Equipment <- Machines
    Packaged = {"good"}
    MaxMishaps = 2
    None = None
SYMMETRY Symmetry
SPECIFICATION MCSpec
INVARIANTS
    SetupTypeOK
    InstallDelivers
    RecordedInstallRuns
PROPERTIES
    EntriesAreNotOverruled
    InstallRaisesForAReason
    ComesUpInOrder
    FailuresHaveTheirCauses
