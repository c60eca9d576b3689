\* Root, on a distribution whose package manager has a tmux older than 3.0.
CONSTANTS
    Installs = {i1}
    Hosts = {h1}
    Equipment <- Machines
    Packaged = {"bad"}
    MaxMishaps = 0
    None = None
SPECIFICATION MCSpec
INVARIANT InstallDelivers
