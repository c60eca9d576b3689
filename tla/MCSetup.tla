-------------------------------- MODULE MCSetup --------------------------------
(* A machine, its installs and its hosts on small instances. *)
EXTENDS Setup, FiniteSets, TLC

\* What there is of each binary at first; what is not listed is not there.
Stocked == {"/usr/bin/tmux", "/usr/bin/ttyd", "/opt/tmux", "/opt/ttyd", "tmuxd/bin/ttyd"}
Machines == {[f \in Stocked |->
                CASE f = "/usr/bin/tmux" -> tmux
                  [] f = "/usr/bin/ttyd" -> "bad"
                  [] f = "tmuxd/bin/ttyd" -> wheel
                  [] OTHER -> mine] :
             tmux \in {"bad", "good"}, wheel \in {"none", "bad", "good"}, mine \in {"good"}}

\* Who takes part: any two of them.
VARIABLE crew
MCInit == SetupInit /\ crew \in {c \in SUBSET Processes : Cardinality(c) = 2}
MCNext ==
    /\ SetupNext
    /\ \A i \in Installs \ crew : install'[i] = install[i]
    /\ \A h \in Hosts \ crew : host'[h] = host[h]
    /\ UNCHANGED crew
MCSpec == MCInit /\ [][MCNext]_<<setupVars, crew>>

Symmetry == Permutations(Installs) \cup Permutations(Hosts)
=============================================================================
