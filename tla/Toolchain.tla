------------------------------- MODULE Toolchain -------------------------------
(***************************************************************************)
(* Which tmux and which ttyd: tmuxd.json (tmuxd/toolchain.py), the command *)
(* that fills it (tmuxd install: tmuxd/install.py and cmd_install), the     *)
(* person who edits it, and the files both stand for.                       *)
(*                                                                         *)
(* A file is an inode under a name: a copy in place writes into the inode   *)
(* others read and run, os.replace and unlink give the name another.  Which *)
(* bytes a binary has matters only as far as it is usable: it runs, and is  *)
(* new enough.                                                              *)
(***************************************************************************)
EXTENDS Naturals

CONSTANTS
    Installs,   \* the shells that run tmuxd install
    Hosts,      \* the processes that construct a Tmuxd, on one state directory
    Equipment,  \* what a machine has at first: sets of the data of a binary, by path
    Packaged,   \* what the package manager has for tmux; {} for who is not root
    MaxMishaps, \* bound: how often something comes in between: a kill, a failing disk or
                \* download, an edit, an upgrade
    None

Binaries == {"tmux", "ttyd"}
OnPath == [tmux |-> "/usr/bin/tmux", ttyd |-> "/usr/bin/ttyd"]
Mine == [tmux |-> "/opt/tmux", ttyd |-> "/opt/ttyd"]    \* what a person pins
Installed == "~/.tmuxd/bin/ttyd"
Wheel == "tmuxd/bin/ttyd"               \* the bundled build
Own == "bin/ttyd"                       \* from here on in the state directory
Attach == "attach.sh"
Conf == "tmux.conf"
ConfTmp == "tmux.conf.tmp"

Paths == {OnPath[b] : b \in Binaries} \cup {Mine[b] : b \in Binaries} \cup {Installed, Own}
Files == Paths \cup {Wheel, Attach, Conf, ConfTmp}

VARIABLES
    record,     \* tmuxd.json: the path of each binary, None for a key that is not there
    disk,       \* disk[f]: the inode that f names
    install,    \* install[i]: the tmuxd install that i runs, or how the last one ended
    mishaps,    \* how many there were
    disturbed,  \* for the properties: the processes under which somebody else changed
                \* the record or a binary,
    raced       \* and whether two installs were ever under way at once

toolchainVars == <<record, disk, install, mishaps, disturbed, raced>>

Mishap == mishaps < MaxMishaps /\ mishaps' = mishaps + 1

Record == [Binaries -> Paths \cup {None}]
NoRecord == [b \in Binaries |-> None]

\* "part": being written; "cut": its writer was killed; "stale": the wheel has a newer one.
Data == {"none", "part", "cut", "bad", "stale", "good"}
Processes == Installs \cup Hosts

ASSUME ToolchainAssumption ==
    /\ Installs \cap Hosts = {} /\ None \notin Processes \cup Paths /\ MaxMishaps \in Nat
    /\ \A have \in Equipment :
          /\ DOMAIN have \subseteq Paths \cup {Wheel}
          /\ \A f \in DOMAIN have : have[f] \in {"none", "bad", "good"}
    /\ Packaged \subseteq {"bad", "good"}

\* open: who writes it, last: who opened it last, and emptied it; run: whose ttyd it is.
Inode == [data : Data, open : SUBSET Processes, last : Processes \cup {None}, run : SUBSET Hosts]
Fresh(data) == [data |-> data, open |-> {}, last |-> None, run |-> {}]
Nothing == Fresh("none")

\* An install exits with 0, with 1, or with a traceback: "raised" of what it found or did not
\* find, "broken" of a file system or a connection that failed; or it is killed.
Ends == {"idle", "ok", "fail", "raised", "broken", "killed"}
Install == [pc : Ends \cup {"tmux", "package", "ttyd", "download", "check", "bundled", "copy",
                            "check copy", "report", "write"},
            recorded : Record, tmux : Paths \cup {None}, ttyd : Paths \cup {None}]
NoInstall == [pc |-> "idle", recorded |-> NoRecord, tmux |-> None, ttyd |-> None]

ToolchainInit ==
    /\ record = NoRecord
    /\ \E have \in Equipment :
          disk = [f \in Files |-> IF f \in DOMAIN have THEN Fresh(have[f]) ELSE Nothing]
    /\ install = [i \in Installs |-> NoInstall]
    /\ mishaps = 0
    /\ disturbed = {}
    /\ raced = FALSE

exists(f) == disk[f].data # "none"

\* It runs, and is new enough.  A file that somebody writes cannot be run.
is_usable(f) == disk[f].data \in {"stale", "good"} /\ disk[f].open = {}

\* The other way round: the writer gets "text file busy".
Busy(f) == disk[f].run # {}

\* What p does to a binary or to the record disturbs all others.
Disturbs(p) == disturbed' = Processes \ (IF p \in disturbed THEN {} ELSE {p})

-----------------------------------------------------------------------------
(* open(.., "w"), writing and closing, as a change of the inode.            *)

Opened(p, f) ==
    [disk EXCEPT ![f] = [disk[f] EXCEPT !.data = "part", !.open = @ \cup {p}, !.last = p]]

\* Whoever opened it last fills it from the start; one that was emptied under its writer has
\* a hole.  A name that has another inode by now is not affected.
Written(p, f, data) ==
    LET d == disk[f] IN
    [disk EXCEPT ![f] = [d EXCEPT !.open = @ \ {p},
                                  !.data = IF d.last = p THEN data ELSE @,
                                  !.last = IF @ = p THEN None ELSE @]]

\* The kernel closes the files of a process that ends, and its ttyd gets the parent-death signal.
Without(p) ==
    [f \in Files |-> [disk[f] EXCEPT !.open = @ \ {p}, !.run = @ \ {p},
                                     !.data = IF disk[f].last = p THEN "cut" ELSE @,
                                     !.last = IF @ = p THEN None ELSE @]]

-----------------------------------------------------------------------------
(* tmuxd install.                                                           *)

At(i, pc) == install[i].pc = pc
Goto(i, pc) == install' = [install EXCEPT ![i].pc = pc]
Found(i, b, f, pc) == install' = [install EXCEPT ![i] = [@ EXCEPT !.pc = pc, ![b] = f]]
Exit(i, end) == install' = [install EXCEPT ![i] = [NoInstall EXCEPT !.pc = end]]

\* The record is read once, here.
Begin(i) ==
    /\ install[i].pc \in Ends
    /\ install' = [install EXCEPT ![i] = [NoInstall EXCEPT !.pc = "tmux", !.recorded = record]]
    /\ disturbed' = disturbed \ {i}
    /\ raced' = (raced \/ \E j \in Installs \ {i} : install[j].pc \notin Ends)
    /\ UNCHANGED <<record, disk, mishaps>>

\* slip: an entry that does not work is no entry
CheckTmuxElsewhere(i) ==
    /\ At(i, "tmux")
    /\ LET named == install[i].recorded.tmux IN
       IF named # None /\ is_usable(named) THEN Found(i, "tmux", named, "ttyd")
       ELSE IF is_usable(OnPath.tmux) THEN Found(i, "tmux", OnPath.tmux, "ttyd")
       ELSE Goto(i, "package")
    /\ UNCHANGED <<record, disk, disturbed, raced, mishaps>>

\* slip: a tmux on the PATH is a tmux
CheckTmuxAnyVersion(i) ==
    /\ At(i, "tmux")
    /\ LET named == install[i].recorded.tmux IN
       \/ named # None /\ is_usable(named) /\ Found(i, "tmux", named, "ttyd")
       \/ named # None /\ ~is_usable(named) /\ Exit(i, "fail")
       \/ named = None /\ Found(i, "tmux", OnPath.tmux, "ttyd")
    /\ UNCHANGED <<record, disk, disturbed, mishaps, raced>>

\* "What the file says wins": an entry that does not work is reported, and that is all.
CheckTmux(i) ==
    /\ At(i, "tmux")
    /\ LET named == install[i].recorded.tmux IN
       \/ named # None /\ is_usable(named) /\ Found(i, "tmux", named, "ttyd")
       \/ named # None /\ ~is_usable(named) /\ Exit(i, "fail")
       \/ named = None /\ is_usable(OnPath.tmux) /\ Found(i, "tmux", OnPath.tmux, "ttyd")
       \/ named = None /\ ~is_usable(OnPath.tmux) /\ Goto(i, "package")
    /\ UNCHANGED <<record, disk, disturbed, raced, mishaps>>

\* install_tmux: for root the package manager puts its tmux on the PATH, and that is the answer.
PackageManager(i) ==
    /\ At(i, "package")
    /\ \E data \in Packaged :
          /\ disk' = [disk EXCEPT ![OnPath.tmux] = Fresh(data)]
          /\ Found(i, "tmux", OnPath.tmux, "ttyd")
    /\ Disturbs(i)
    /\ UNCHANGED <<record, raced, mishaps>>

\* Not root, no package manager, or it fails.
NoPackageManager(i) ==
    /\ At(i, "package")
    /\ Goto(i, "ttyd")
    /\ UNCHANGED <<record, disk, disturbed, raced, mishaps>>

\* slip: install_ttyd answers with a path and where it is from, and both are recorded
CheckTtydPair(i) ==
    /\ At(i, "ttyd")
    /\ install[i].recorded.ttyd = None
    /\ IF is_usable(OnPath.ttyd) THEN Found(i, "ttyd", <<OnPath.ttyd, "path">>, "report")
                                 ELSE Goto(i, "download")
    /\ UNCHANGED <<record, disk, disturbed, mishaps, raced>>

\* The same rule for ttyd; install_ttyd asks PATH first.
CheckTtyd(i) ==
    /\ At(i, "ttyd")
    /\ LET named == install[i].recorded.ttyd IN
       \/ named # None /\ is_usable(named) /\ Found(i, "ttyd", named, "report")
       \/ named # None /\ ~is_usable(named) /\ Exit(i, "fail")
       \/ named = None /\ is_usable(OnPath.ttyd) /\ Found(i, "ttyd", OnPath.ttyd, "report")
       \/ named = None /\ ~is_usable(OnPath.ttyd) /\ Goto(i, "download")
    /\ UNCHANGED <<record, disk, disturbed, raced, mishaps>>

\* download_ttyd: a whole file of that checksum, moved into place from a name of this process.
Download(i) ==
    /\ At(i, "download")
    /\ \E data \in {"good", "bad"} : disk' = [disk EXCEPT ![Installed] = Fresh(data)]
    /\ Goto(i, "check")
    /\ Disturbs(i)
    /\ UNCHANGED <<record, raced, mishaps>>

\* slip: every failure is cleaned up after, also one before anything was written
DownloadFailsAsOne(i) ==
    /\ At(i, "download")
    /\ Goto(i, "check")
    /\ UNCHANGED <<record, disk, disturbed, mishaps, raced>>

\* No network, no such release, or not the checksum: nothing is written.
DownloadFails(i) ==
    /\ At(i, "download")
    /\ Goto(i, "bundled")
    /\ UNCHANGED <<record, disk, disturbed, raced, mishaps>>

\* Both ways end with a look at what is there; what does not run is unlinked, and unlink raises
\* if it is gone already.
Check(i, from, otherwise) ==
    /\ At(i, from)
    /\ \/ /\ is_usable(Installed)
          /\ Found(i, "ttyd", Installed, "report")
          /\ UNCHANGED <<disk, disturbed>>
       \/ /\ ~is_usable(Installed) /\ exists(Installed)
          /\ disk' = [disk EXCEPT ![Installed] = Nothing]
          /\ Goto(i, otherwise)
          /\ Disturbs(i)
       \/ /\ ~exists(Installed)
          /\ Exit(i, "raised")
          /\ UNCHANGED <<disk, disturbed>>
    /\ UNCHANGED <<record, raced, mishaps>>

\* slip: the checksum was right
CheckDownloadTrusting(i) ==
    /\ At(i, "check")
    /\ Found(i, "ttyd", Installed, "report")
    /\ UNCHANGED <<record, disk, disturbed, raced, mishaps>>

CheckDownload(i) == Check(i, "check", "bundled")
CheckBundled(i) == Check(i, "check copy", "write")

\* install_bundled: copied in place, over whatever is there.
CopyBundled(i) ==
    /\ At(i, "bundled")
    /\ \/ ~exists(Wheel) /\ Goto(i, "write") /\ UNCHANGED <<disk, disturbed>>
       \/ exists(Wheel) /\ Busy(Installed) /\ Exit(i, "raised") /\ UNCHANGED <<disk, disturbed>>
       \/ /\ exists(Wheel) /\ ~Busy(Installed)
          /\ disk' = Opened(i, Installed)
          /\ Goto(i, "copy")
          /\ Disturbs(i)
    /\ UNCHANGED <<record, raced, mishaps>>

\* And chmod raises if the name is gone.
BundledCopied(i) ==
    /\ At(i, "copy")
    /\ disk' = Written(i, Installed, disk[Wheel].data)
    /\ IF exists(Installed) THEN Goto(i, "check copy") ELSE Exit(i, "raised")
    /\ Disturbs(i)
    /\ UNCHANGED <<record, raced, mishaps>>

\* T.version_of runs the ttyd a second time, and nothing catches what that raises: the file may
\* be gone by now, or open in a writer.
ReportTtyd(i) ==
    /\ At(i, "report")
    /\ LET f == install[i].ttyd IN
       \/ exists(f) /\ disk[f].open = {} /\ Goto(i, "write")
       \/ ~is_usable(f) /\ Exit(i, "raised")
    /\ UNCHANGED <<record, disk, disturbed, raced, mishaps>>

\* toolchain.write, which reads before it writes: but install passes both keys, and there is
\* no third.  With neither found nothing is written.
Write(i) ==
    /\ At(i, "write")
    /\ \/ /\ \A b \in Binaries : install[i][b] = None
          /\ Exit(i, "fail")
          /\ UNCHANGED <<record, disturbed>>
       \/ /\ \E b \in Binaries : install[i][b] # None
          /\ record' = [b \in Binaries |-> install[i][b]]
          /\ Exit(i, IF \A b \in Binaries : install[i][b] # None THEN "ok" ELSE "fail")
          /\ Disturbs(i)
    /\ UNCHANGED <<disk, raced, mishaps>>

\* It stops where it is.
StopsShort(i, end) ==
    /\ install[i].pc \notin Ends
    /\ Mishap
    /\ Exit(i, end)
    /\ disk' = Without(i)
    /\ UNCHANGED <<record, disturbed, raced>>

Killed(i) == StopsShort(i, "killed")

\* What is not caught: a download that ends in the middle (http.client.IncompleteRead), a
\* directory or a disk that takes no file, also under toolchain.write.
Breaks(i) ==
    /\ install[i].pc \in {"download", "check", "bundled", "copy", "check copy", "write"}
    /\ StopsShort(i, "broken")

RunInstall(i) ==
    \/ Begin(i) \/ CheckTmux(i) \/ PackageManager(i) \/ NoPackageManager(i)
    \/ CheckTtyd(i) \/ Download(i) \/ DownloadFails(i) \/ CheckDownload(i)
    \/ CopyBundled(i) \/ BundledCopied(i) \/ CheckBundled(i) \/ ReportTtyd(i) \/ Write(i)

-----------------------------------------------------------------------------
(* Meanwhile.                                                               *)

\* "Editing it is how you pin a binary."
Pin(b) ==
    /\ Mishap
    /\ record[b] # Mine[b]
    /\ record' = [record EXCEPT ![b] = Mine[b]]
    /\ disturbed' = Processes
    /\ UNCHANGED <<disk, install, raced>>

\* rm ~/.tmuxd.json.
Remove ==
    /\ Mishap
    /\ record # NoRecord
    /\ record' = NoRecord
    /\ disturbed' = Processes
    /\ UNCHANGED <<disk, install, raced>>

\* The distribution upgrades, or takes away, what is on the PATH: gone is as good as bad.
Upgrade(b, data) ==
    /\ Mishap
    /\ disk[OnPath[b]].data # data
    /\ disk' = [disk EXCEPT ![OnPath[b]] = Fresh(data)]
    /\ disturbed' = Processes
    /\ UNCHANGED <<record, install, raced>>

ToolchainNext ==
    \/ \E i \in Installs : RunInstall(i) \/ Killed(i) \/ Breaks(i)
    \/ \E b \in Binaries : Pin(b) \/ \E data \in {"bad", "good"} : Upgrade(b, data)
    \/ Remove

-----------------------------------------------------------------------------
(* Properties.                                                              *)

\* After an install that exits with 0, and before anyone else changes something, the record
\* names a tmux and a ttyd that run: what the next construction needs, whatever was on the
\* machine, whatever installs were killed on it before.
InstallDelivers ==
    \A i \in Installs : install[i].pc = "ok" /\ i \notin disturbed
        => \A b \in Binaries : record[b] # None /\ is_usable(record[b])

\* An install that is interrupted, or fails, hurts nobody: while the record names the installed
\* ttyd, that ttyd runs, unless two installs were under way at once.
RecordedInstallRuns == record.ttyd = Installed => is_usable(Installed) \/ raced

\* What the record said when an install began is what it says after it: "replacing what it says
\* would be overruling the user".  (An entry made while the install runs is overwritten.)
EntriesAreNotOverruled ==
    [][\A i \in Installs, b \in Binaries :
          install[i].pc = "write" /\ install'[i].pc # "write"
              /\ record[b] # None /\ install[i].recorded[b] = record[b]
          => record'[b] = record[b]]_toolchainVars

\* An install whose disk and downloads do not fail it (those end it as "broken") ends with a
\* traceback, and not with a report, only if it met another install, or a ttyd that runs the
\* very file it copies to (install_bundled), or if the ttyd it had found was taken away or
\* replaced before version_of ran it again.
InstallRaisesForAReason ==
    [][\A i \in Installs :
          install[i].pc # "raised" /\ install'[i].pc = "raised"
          => \/ raced
             \/ install[i].pc = "bundled" /\ Busy(Installed)
             \/ install[i].pc = "report" /\ i \in disturbed]_toolchainVars
=============================================================================
