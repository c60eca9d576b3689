--------------------------------- MODULE Setup ---------------------------------
(***************************************************************************)
(* The constructor of Tmuxd (tmuxd/core.py) up to ttyd: it finds tmux and   *)
(* ttyd through tmuxd.json and the PATH, and lays out a state directory     *)
(* that other processes construct on, or serve from, at the same time.      *)
(* Composed with the installs of Toolchain on one machine.                  *)
(*                                                                         *)
(* ensure() is in Ttyd.tla; here a host adopts the ttyd of another one or   *)
(* starts its own.                                                          *)
(***************************************************************************)
EXTENDS Toolchain

VARIABLES
    host,       \* host[h]: how far h's constructor is, or how it ended, and the ttyd it found
    crowded     \* for the properties: the hosts whose construction overlapped another one

setupVars == <<toolchainVars, host, crowded>>

Resting == {"idle", "up", "raised"}
Host == [pc : Resting \cup {"find tmux", "open conf", "write conf", "replace conf", "find ttyd",
                            "copy ttyd", "copying ttyd", "attach", "copying attach", "ensure"},
         bin : Paths \cup {None}]
NoHost == [pc |-> "idle", bin |-> None]

SetupInit ==
    /\ ToolchainInit
    /\ host = [h \in Hosts |-> NoHost]
    /\ crowded = {}

Constructing(h) == host[h].pc \notin Resting
HostAt(h, pc) == host[h].pc = pc
HostGoto(h, pc) == host' = [host EXCEPT ![h].pc = pc]
Raises(h) == host' = [host EXCEPT ![h] = [NoHost EXCEPT !.pc = "raised"]]
Runs(h) == \E f \in Files : h \in disk[f].run

\* All that a step of a constructor leaves alone.
elsewhere == <<record, install, mishaps, disturbed, raced, crowded>>

-----------------------------------------------------------------------------
(* Tmuxd.__init__.                                                          *)

Construct(h) ==
    /\ host[h].pc \in Resting \ {"up"}
    /\ host' = [host EXCEPT ![h] = [NoHost EXCEPT !.pc = "find tmux"]]
    /\ disturbed' = disturbed \ {h}
    /\ LET others == {g \in Hosts \ {h} : Constructing(g)} IN
       crowded' = (crowded \ {h}) \cup others \cup (IF others = {} THEN {} ELSE {h})
    /\ UNCHANGED <<record, disk, install, mishaps, raced>>

\* tmux.find_binary and check_version: the entry or, without one, the PATH; it works or it raises.
FindTmux(h) ==
    /\ HostAt(h, "find tmux")
    /\ LET f == IF record.tmux # None THEN record.tmux ELSE OnPath.tmux IN
       IF is_usable(f) THEN HostGoto(h, "open conf") ELSE Raises(h)
    /\ UNCHANGED <<elsewhere, disk>>

\* _render_conf: the temporary name is the same for every process.
OpenConf(h) ==
    /\ HostAt(h, "open conf")
    /\ disk' = Opened(h, ConfTmp)
    /\ HostGoto(h, "write conf")
    /\ UNCHANGED elsewhere

\* One write fills the file, under whichever name it is by now.
WriteConf(h) ==
    /\ HostAt(h, "write conf")
    /\ disk' = [f \in Files |-> IF h \in disk[f].open
                                THEN [disk[f] EXCEPT !.open = @ \ {h}, !.data = "good",
                                                     !.last = IF @ = h THEN None ELSE @]
                                ELSE disk[f]]
    /\ HostGoto(h, "replace conf")
    /\ UNCHANGED elsewhere

ReplaceConf(h) ==
    /\ HostAt(h, "replace conf")
    /\ IF exists(ConfTmp)
       THEN /\ disk' = [disk EXCEPT ![Conf] = disk[ConfTmp], ![ConfTmp] = Nothing]
            /\ HostGoto(h, "find ttyd")
       ELSE Raises(h) /\ UNCHANGED disk
    /\ UNCHANGED elsewhere

\* slip: a ttyd on the PATH is a ttyd
FindTtydAnyVersion(h) ==
    /\ HostAt(h, "find ttyd")
    /\ LET named == record.ttyd IN
       IF named # None /\ ~is_usable(named) THEN Raises(h)
       ELSE host' = [host EXCEPT ![h] = [pc |-> "attach",
                                         bin |-> IF named = None THEN OnPath.ttyd ELSE named]]
    /\ UNCHANGED <<elsewhere, disk>>

\* ttyd.find_binary: the entry works or it raises; then the PATH; then the bundled build.
FindTtyd(h) ==
    /\ HostAt(h, "find ttyd")
    /\ LET named == record.ttyd IN
       \/ /\ named # None /\ is_usable(named)
          /\ host' = [host EXCEPT ![h] = [pc |-> "attach", bin |-> named]]
       \/ named # None /\ ~is_usable(named) /\ Raises(h)
       \/ /\ named = None /\ is_usable(OnPath.ttyd)
          /\ host' = [host EXCEPT ![h] = [pc |-> "attach", bin |-> OnPath.ttyd]]
       \/ /\ named = None /\ ~is_usable(OnPath.ttyd)
          /\ IF exists(Wheel) THEN HostGoto(h, "copy ttyd") ELSE Raises(h)
    /\ UNCHANGED <<elsewhere, disk>>

\* "The copy happens only if the target is missing or the source is newer": whether it is
\* whole, nobody asks.
Current(f) == exists(f) /\ disk[f].data # "stale"

\* _runnable_copy.
CopyTtyd(h) ==
    /\ HostAt(h, "copy ttyd")
    /\ \/ /\ Current(Own)
          /\ host' = [host EXCEPT ![h] = [pc |-> "attach", bin |-> Own]]
          /\ UNCHANGED disk
       \/ ~Current(Own) /\ Busy(Own) /\ Raises(h) /\ UNCHANGED disk
       \/ ~Current(Own) /\ ~Busy(Own) /\ disk' = Opened(h, Own) /\ HostGoto(h, "copying ttyd")
    /\ UNCHANGED elsewhere

TtydCopied(h) ==
    /\ HostAt(h, "copying ttyd")
    /\ disk' = Written(h, Own, disk[Wheel].data)
    /\ host' = [host EXCEPT ![h] = [pc |-> "attach", bin |-> Own]]
    /\ UNCHANGED elsewhere

\* slip: a script that is there is good enough
AttachOnce(h) ==
    /\ HostAt(h, "attach")
    /\ IF exists(Attach)
       THEN HostGoto(h, "ensure") /\ UNCHANGED disk
       ELSE HostGoto(h, "copying attach") /\ disk' = Opened(h, Attach)
    /\ UNCHANGED elsewhere

\* _attach_script, by the same rule.
AttachScript(h) ==
    /\ HostAt(h, "attach")
    /\ IF Current(Attach)
       THEN HostGoto(h, "ensure") /\ UNCHANGED disk
       ELSE HostGoto(h, "copying attach") /\ disk' = Opened(h, Attach)
    /\ UNCHANGED elsewhere

AttachCopied(h) ==
    /\ HostAt(h, "copying attach")
    /\ disk' = Written(h, Attach, "good")
    /\ HostGoto(h, "ensure")
    /\ UNCHANGED elsewhere

Ensure(h) ==
    /\ HostAt(h, "ensure")
    /\ LET f == host[h].bin
           served == \E g \in Hosts : Runs(g)
       IN /\ IF served \/ is_usable(f) THEN HostGoto(h, "up") ELSE Raises(h)
          /\ disk' = IF ~served /\ is_usable(f) THEN [disk EXCEPT ![f].run = {h}] ELSE disk
    /\ UNCHANGED elsewhere

\* close(), or the process ends, and the ttyd it started with it.
Close(h) ==
    /\ HostAt(h, "up")
    /\ host' = [host EXCEPT ![h] = NoHost]
    /\ disk' = Without(h)
    /\ UNCHANGED elsewhere

HostKilled(h) ==
    /\ Constructing(h)
    /\ Mishap
    /\ host' = [host EXCEPT ![h] = NoHost]
    /\ disk' = Without(h)
    /\ UNCHANGED <<record, install, disturbed, raced, crowded>>

\* pip install -U tmuxd, while nobody copies from the old one.
WheelUpgrade ==
    /\ Mishap
    /\ \A f \in Files : disk[f].open = {}
    /\ disk' = [f \in Files |-> IF f \in {Own, Attach} /\ exists(f)
                                THEN [disk[f] EXCEPT !.data = "stale"] ELSE disk[f]]
    /\ disturbed' = Processes
    /\ UNCHANGED <<record, install, raced, crowded, host>>

RunHost(h) ==
    \/ Construct(h) \/ FindTmux(h) \/ OpenConf(h) \/ WriteConf(h) \/ ReplaceConf(h)
    \/ FindTtyd(h) \/ CopyTtyd(h) \/ TtydCopied(h) \/ AttachScript(h) \/ AttachCopied(h)
    \/ Ensure(h)

SetupNext ==
    \/ ToolchainNext /\ UNCHANGED <<host, crowded>>
    \/ \E h \in Hosts : RunHost(h) \/ Close(h) \/ HostKilled(h)
    \/ WheelUpgrade

SetupSpec == SetupInit /\ [][SetupNext]_setupVars

-----------------------------------------------------------------------------
(* Properties.                                                              *)

\* The type invariant of the record, the files, the installs and the constructors.
SetupTypeOK ==
    /\ record \in Record
    /\ disk \in [Files -> Inode]
    /\ install \in [Installs -> Install]
    /\ host \in [Hosts -> Host]
    /\ disturbed \subseteq Processes /\ raced \in BOOLEAN /\ crowded \subseteq Hosts
    /\ mishaps \in 0..MaxMishaps

\* A constructor that met no other one hands out a state directory that is in order: the
\* tmux.conf and the attach script whole and of this wheel, whatever was left there by
\* earlier ones.  Only a file whose writer was killed stays as it is.
ComesUpInOrder ==
    [][\A h \in Hosts :
          host[h].pc = "ensure" /\ host'[h].pc = "up" /\ h \notin crowded \cup disturbed
          => disk[Conf].data = "good" /\ disk[Attach].data \in {"good", "cut"}]_setupVars

\* What a constructor raises in the middle has a cause that it cannot see: the temporary
\* tmux.conf is gone because another constructor moved it; the wheel's ttyd cannot be copied
\* because a host still runs the old copy; ttyd does not start because its file is being
\* copied, was cut short or never ran here, or changed since it was found.
FailuresHaveTheirCauses ==
    [][\A h \in Hosts : host[h].pc # "raised" /\ host'[h].pc = "raised" =>
          /\ host[h].pc = "replace conf" => h \in crowded
          /\ host[h].pc = "copy ttyd" => \E g \in Hosts \ {h} : host[g].pc = "up"
          /\ host[h].pc = "ensure" =>
                \/ h \in crowded \cup disturbed
                \/ host[h].bin = Own /\ disk[Own].data \in {"cut", "bad"}]_setupVars
=============================================================================
