-------------------------------- MODULE Daemon --------------------------------
(***************************************************************************)
(* tmuxd/cli.py: the daemon (tmuxd serve), the commands that start it, stop *)
(* it and ask it something (status, new, ls, send ...), and daemon.json,    *)
(* the one file by which they find each other.  Every command reads the     *)
(* file once (Settings) and goes by what it read, whatever happens to the   *)
(* file and the daemon meanwhile.                                           *)
(*                                                                         *)
(* A process is known by a pid, which the system uses again after its end.  *)
(* The daemon's ttyd is in Ttyd.tla; here constructing the Tmuxd either     *)
(* works or raises.  uvicorn is external: it binds the control port or      *)
(* exits, answers, and returns from run() on SIGTERM.                       *)
(***************************************************************************)
EXTENDS Naturals, FiniteSets

CONSTANTS
    Pids,       \* the process ids
    Ports,      \* the control ports
    Users,      \* the shells that commands are typed at, one at a time each
    Onlookers,  \* those of them where nobody starts or stops a daemon
    Uses,       \* which of start, stop, serve (in the foreground), status and ask is typed
    Slow,       \* whether a daemon may take longer than a command waits for it
    Signals,    \* whether a daemon gets a ctrl-C or a SIGKILL
    AfterMisled,\* whether commands are typed after a start was misled (FALSE bounds a run)
    None

ASSUME DaemonAssumption ==
    /\ None \notin Pids \cup Ports \cup [pid : Pids, port : Ports]
    /\ None \notin {"read", "connect", "reply", "kill"}
    /\ {Slow, Signals, AfterMisled} \subseteq BOOLEAN /\ Onlookers \subseteq Users

VARIABLES
    file,       \* daemon.json: pid and control port; None when absent or not yet complete
    proc,       \* proc[p]: what the process with pid p is and does
    cli,        \* cli[u]: the command u runs, or how it ended
    orphaned,   \* whether the daemon that wrote the file was ended without its cleanup
    misled      \* whether a start has taken another program's answer for that of its daemon

daemonVars == <<file, proc, cli, orphaned, misled>>

\* How far a daemon has come.  After "write" it is in the file; from "banner" on a SIGTERM
\* raises; only from "bind" on does cleanup follow.
Daemon == {"settings", "open", "truncate", "write", "signal", "banner", "bind",
           "serving", "cleanup"}

Process == [is : {"free", "stranger"} \cup Daemon, port : Ports \cup {None}]
Free == [is |-> "free", port |-> None]

\* How a command ends: exit code 0, 1, or a traceback of an exception that is not NoServer.
Outcomes == {"ok", "failed", "error"}

File == [pid : Pids, port : Ports]

\* pid: the daemon it spawned or signalled.  record: what Settings read.  met: the daemon that
\* served when it read (nothing the code keeps).
Command == [is : Outcomes \cup {"start", "spawn", "wait", "stop", "status", "ask", "gone", "serve"},
            at : {"read", "connect", "reply", "kill", None},
            pid : Pids \cup {None}, record : File \cup {None}, met : File \cup {None}]
Ended(outcome) == [is |-> outcome, at |-> None, pid |-> None, record |-> None, met |-> None]

DaemonInit ==
    /\ file = None
    /\ proc = [p \in Pids |-> Free]
    /\ cli = [u \in Users |-> Ended("ok")]
    /\ orphaned = FALSE /\ misled = FALSE

alive(p) == proc[p].is # "free"
Serving(p) == proc[p].is = "serving"
Names(p) == file # None /\ file.pid = p

\* A daemon answers at this port; or another program listens there.
Health(port) == \E p \in Pids : Serving(p) /\ proc[p].port = port
Foreign(port) == \E p \in Pids : proc[p].is = "stranger" /\ proc[p].port = port
Taken(port) == Health(port) \/ Foreign(port)

Moves(p, from, to) == /\ proc[p].is = from
                      /\ proc' = [proc EXCEPT ![p].is = to]

Ends(p) == proc' = [proc EXCEPT ![p] = Free]

-----------------------------------------------------------------------------
(* cmd_serve.                                                               *)

\* Settings: without a flag, the ports are those of the file that is there, if any.
ReadSettings(p) ==
    /\ proc[p].is = "settings"
    /\ proc' = [proc EXCEPT ![p].is = "open", ![p].port = IF file = None THEN None ELSE file.port]
    /\ UNCHANGED <<file, cli, orphaned, misled>>

\* slip: the port is asked for, not decided, before it is written down
OpenPoolUndecided(p) ==
    /\ Moves(p, "open", "truncate")
    /\ UNCHANGED <<file, cli, orphaned, misled>>

\* Tmuxd(...) and the control port: the recorded one or free_port.  Or Tmuxd raises.
OpenPool(p) ==
    /\ proc[p].is = "open"
    /\ \/ \E port \in Ports :
             /\ IF proc[p].port = None THEN ~Taken(port) ELSE port = proc[p].port
             /\ proc' = [proc EXCEPT ![p].is = "truncate", ![p].port = port]
       \/ Ends(p)
    /\ UNCHANGED <<file, cli, orphaned, misled>>

\* open(..., "w") empties the file, json.dump fills it.
Truncate(p) ==
    /\ Moves(p, "truncate", "write")
    /\ file' = None
    /\ UNCHANGED <<cli, orphaned, misled>>

WriteFile(p) ==
    /\ Moves(p, "write", "signal")
    /\ file' = [pid |-> p, port |-> proc[p].port]
    /\ orphaned' = FALSE
    /\ UNCHANGED <<cli, misled>>

\* signal.signal, then the banner, then the try block.
InstallHandler(p) == Moves(p, "signal", "banner") /\ UNCHANGED <<file, cli, orphaned, misled>>
PrintBanner(p) == Moves(p, "banner", "bind") /\ UNCHANGED <<file, cli, orphaned, misled>>

\* uvicorn leaves with SystemExit if the port is taken; the finally runs.
Bind(p) ==
    /\ Moves(p, "bind", IF Taken(proc[p].port) THEN "cleanup" ELSE "serving")
    /\ UNCHANGED <<file, cli, orphaned, misled>>

\* slip: only what this process wrote, but what it wrote is left
CleanupKeepsFile(p) ==
    /\ proc[p].is = "cleanup"
    /\ Ends(p)
    /\ UNCHANGED <<file, cli, orphaned, misled>>

\* close(), and the file goes, whoever it names by now.
Cleanup(p) ==
    /\ proc[p].is = "cleanup"
    /\ file' = None
    /\ Ends(p)
    /\ UNCHANGED <<cli, orphaned, misled>>

\* What a SIGTERM makes of a process: the default ends it, and so does a KeyboardInterrupt
\* that is raised outside the try block.
Caught(p) == proc[p].is \in {"bind", "serving"}
Terminated(p) ==
    proc' = [proc EXCEPT ![p] = IF Caught(p) THEN [@ EXCEPT !.is = "cleanup"] ELSE Free]

-----------------------------------------------------------------------------
(* The commands.                                                            *)

Goes(u, to) == cli' = [cli EXCEPT ![u] = to]

Type(u, command) ==
    /\ cli[u].is \in Outcomes
    /\ misled => AfterMisled
    /\ command \in Uses
    /\ u \in Onlookers => command \in {"status", "ask"}
    /\ Goes(u, [Ended(command) EXCEPT !.at = "read"])
    /\ UNCHANGED <<file, proc, orphaned, misled>>

Spawned(p) == ~alive(p) /\ proc' = [proc EXCEPT ![p].is = "settings"]

\* tmuxd serve in the foreground: the shell is busy until it ends, which ctrl-C makes it do.
TypeServe(u) ==
    /\ cli[u].is \in Outcomes
    /\ misled => AfterMisled
    /\ "serve" \in Uses /\ u \notin Onlookers
    /\ \A p \in Pids : proc[p].is \notin Daemon
    /\ \E p \in Pids :
          /\ Spawned(p)
          /\ Goes(u, [Ended("serve") EXCEPT !.pid = p])
    /\ UNCHANGED <<file, orphaned, misled>>

\* Outside the try block, in the finally too, ctrl-C ends it where it is.
Interrupt(u) ==
    LET p == cli[u].pid IN
    /\ Signals
    /\ cli[u].is = "serve"
    /\ proc[p].is \in Daemon
    /\ Terminated(p)
    /\ orphaned' = (orphaned \/ (Names(p) /\ ~Caught(p)))
    /\ UNCHANGED <<file, cli, misled>>

ServeEnds(u) ==
    /\ cli[u].is = "serve"
    /\ proc[cli[u].pid].is \notin Daemon
    /\ Goes(u, Ended("ok"))
    /\ UNCHANGED <<file, proc, orphaned, misled>>

\* slip: start does not read the file again while it waits
SettingsOnce(u) ==
    LET c == cli[u] IN
    /\ c.at = "read"
    /\ \E m \in File \cup {None} :
          /\ IF m = None THEN \A p \in Pids : ~Serving(p)
                         ELSE Serving(m.pid) /\ proc[m.pid].port = m.port
          /\ Goes(u, [c EXCEPT !.at = "connect", !.met = m,
                               !.record = IF c.is = "wait" THEN c.record ELSE file])
    /\ UNCHANGED <<file, proc, orphaned, misled>>

\* Settings(args): a file that is absent or half written is an empty record.
Settings(u) ==
    /\ cli[u].at = "read"
    /\ \E m \in File \cup {None} :
          /\ IF m = None THEN \A p \in Pids : ~Serving(p)
                         ELSE Serving(m.pid) /\ proc[m.pid].port = m.port
          /\ Goes(u, [cli[u] EXCEPT !.at = "connect", !.record = file, !.met = m])
    /\ UNCHANGED <<file, proc, orphaned, misled>>

\* Where a command goes that finds nobody to ask.
Unanswered(u) ==
    LET c == cli[u] IN
    CASE c.is = "start"  -> [c EXCEPT !.is = "spawn", !.at = None]
      [] c.is = "wait"   -> [c EXCEPT !.at = "read"]
      [] c.is \in {"status", "ask"} -> Ended("failed")
      [] c.is = "stop"   -> IF c.record # None /\ alive(c.record.pid)
                            THEN [c EXCEPT !.at = "kill"] ELSE Ended("ok")

\* Whether the command asks at the recorded port: start and stop do if the pid is alive too.
Asking(c) == c.record # None /\ (c.is \in {"start", "stop"} => alive(c.record.pid))

\* slip: a live pid is proof enough
ConnectTrustsPid(u) ==
    LET c == cli[u] IN
    /\ c.at = "connect"
    /\ Goes(u, IF c.record # None /\ alive(c.record.pid)
               THEN [c EXCEPT !.at = "reply"] ELSE Unanswered(u))
    /\ UNCHANGED <<file, proc, orphaned, misled>>

\* slip: no question asked before a start, the daemon will find out
ConnectOrSpawn(u) ==
    LET c == cli[u] IN
    /\ c.at = "connect"
    /\ Goes(u, IF c.is # "start" /\ c.record # None /\ Health(c.record.port)
               THEN [c EXCEPT !.at = "reply"] ELSE Unanswered(u))
    /\ UNCHANGED <<file, proc, orphaned, misled>>

\* "A live pid is not proof": the control port has to answer.  Any program there that speaks
\* HTTP can pass for the daemon; nobody there, and an error without a code, is NoServer.
Connect(u) ==
    LET c == cli[u] IN
    /\ c.at = "connect"
    /\ \/ /\ Asking(c) /\ Taken(c.record.port)
          /\ Goes(u, [c EXCEPT !.at = "reply"])
          /\ misled' = (misled \/ (c.is = "wait" /\ Foreign(c.record.port)))
       \/ /\ ~(Asking(c) /\ Health(c.record.port))
          /\ Goes(u, Unanswered(u))
          /\ UNCHANGED misled
    /\ UNCHANGED <<file, proc, orphaned>>

\* start ends as the status that it runs; stop only counts the sessions it was told of.
Answered(u) ==
    LET c == cli[u] IN
    CASE c.is \in {"start", "status", "ask"} -> Ended("ok")
      [] c.is = "wait"   -> [Ended("status") EXCEPT !.at = "read"]
      [] c.is = "stop"   -> [c EXCEPT !.at = "kill"]

\* The answer arrives; or it is an error, times out, or the connection breaks.  Only status
\* takes any of that for a sign of life; what the health check of start never sees of a daemon
\* is an error.
Reply(u) ==
    LET c == cli[u] IN
    /\ c.at = "reply"
    /\ \/ Goes(u, Answered(u))
       \/ /\ c.is \in {"start", "wait"} => ~Health(c.record.port)
          /\ Goes(u, Ended(IF c.is = "status" THEN "ok" ELSE "error"))
    /\ UNCHANGED <<file, proc, orphaned, misled>>

StartSpawns(u) ==
    /\ cli[u].is = "spawn"
    /\ \E p \in Pids :
          /\ Spawned(p)
          /\ Goes(u, [Ended("wait") EXCEPT !.at = "read", !.pid = p])
    /\ UNCHANGED <<file, orphaned, misled>>

\* 15 seconds without an answer.
StartGivesUp(u) ==
    /\ cli[u].is = "wait" /\ cli[u].at = "read"
    /\ Slow \/ proc[cli[u].pid].is \notin Daemon
    /\ Goes(u, Ended("failed"))
    /\ UNCHANGED <<file, proc, orphaned, misled>>

\* os.kill(pid, 15), whoever has that pid now, a stranger too; if nobody has, it raises.
StopKills(u) ==
    LET p == cli[u].record.pid IN
    /\ cli[u].at = "kill"
    /\ IF alive(p) THEN Terminated(p) /\ Goes(u, [Ended("gone") EXCEPT !.pid = p])
                   ELSE Goes(u, Ended("error")) /\ UNCHANGED proc
    /\ UNCHANGED <<file, orphaned, misled>>

\* slip: stop waits for the file to go, not for the process
StopDoneByFile(u) ==
    /\ cli[u].is = "gone"
    /\ file = None
    /\ Goes(u, Ended("ok"))
    /\ UNCHANGED <<file, proc, orphaned, misled>>

\* The pid is gone; or 8 seconds have passed, in which a daemon is if it is not Slow.
StopDone(u) ==
    /\ cli[u].is = "gone"
    /\ Slow \/ proc[cli[u].pid].is \notin Daemon
    /\ Goes(u, Ended("ok"))
    /\ UNCHANGED <<file, proc, orphaned, misled>>

-----------------------------------------------------------------------------
(* Meanwhile.                                                               *)

\* SIGKILL, or a reboot.
Killed(p) ==
    /\ Signals
    /\ proc[p].is \in Daemon
    /\ Ends(p)
    /\ orphaned' = (orphaned \/ Names(p))
    /\ UNCHANGED <<file, cli, misled>>

\* Some other program gets the pid, perhaps listens at a port, and ends again.  Bound: one at
\* a time.
StrangerStarts(p) ==
    /\ \A q \in Pids : proc[q].is # "stranger"
    /\ ~alive(p)
    /\ \E port \in Ports \cup {None} :
          /\ ~Taken(port)
          /\ proc' = [proc EXCEPT ![p] = [is |-> "stranger", port |-> port]]
    /\ UNCHANGED <<file, cli, orphaned, misled>>

StrangerEnds(p) ==
    /\ proc[p].is = "stranger"
    /\ Ends(p)
    /\ UNCHANGED <<file, cli, orphaned, misled>>

Serve(p) == \/ ReadSettings(p) \/ OpenPool(p) \/ Truncate(p) \/ WriteFile(p)
            \/ InstallHandler(p) \/ PrintBanner(p) \/ Bind(p) \/ Cleanup(p)

RunCommand(u) == \/ Settings(u) \/ Connect(u) \/ Reply(u)
                 \/ StartSpawns(u) \/ StartGivesUp(u) \/ StopKills(u) \/ StopDone(u)
                 \/ ServeEnds(u)

DaemonNext ==
    \/ \E u \in Users : \/ \E c \in {"start", "stop", "status", "ask"} : Type(u, c)
                        \/ TypeServe(u) \/ Interrupt(u) \/ RunCommand(u)
    \/ \E p \in Pids : Serve(p) \/ Killed(p) \/ StrangerStarts(p) \/ StrangerEnds(p)

DaemonSpec == DaemonInit /\ [][DaemonNext]_daemonVars

\* Processes run, and the time passes after which start gives up.
DaemonFairSpec ==
    /\ DaemonSpec
    /\ \A u \in Users : WF_daemonVars(RunCommand(u)) /\ SF_daemonVars(StartGivesUp(u))
    /\ \A p \in Pids : WF_daemonVars(Serve(p))

-----------------------------------------------------------------------------
(* Properties.                                                              *)

\* The type invariant of the file, the processes and the commands.
DaemonTypeOK ==
    /\ file \in [pid : Pids, port : Ports] \cup {None}
    /\ proc \in [Pids -> Process]
    /\ cli \in [Users -> Command]
    /\ orphaned \in BOOLEAN /\ misled \in BOOLEAN

\* "One daemon, one file" (Settings): a daemon that serves, when no other is on its way up or
\* down, is the one the file names, with the port it got: ls, status and stop reach it.  This
\* holds until a start is answered by another program, and ends with its daemon half way up.
OneDaemonOneFile ==
    \A p \in Pids :
        Serving(p) /\ (\A q \in Pids \ {p} : proc[q].is \notin Daemon) /\ ~misled
        => file = [pid |-> p, port |-> proc[p].port]

\* cmd_serve's promise: the file outlives no stop, unless its daemon had ended by a SIGKILL or
\* by a ctrl-C outside the try block, and the stop hit a stranger with its pid; or a start was
\* misled, and the stop came before the daemon had its handler.
StopRemovesTheFile ==
    [][\A u \in Users : cli[u].is = "gone" /\ cli'[u].is = "ok" /\ file # None
                        => orphaned \/ misled]_daemonVars

\* When start and status go by an answer, then it is that of the daemon that the file leads to,
\* or of another program that listens at the very port that was recorded: a stale file, and a
\* stranger with its pid, do not fool them unless one answers there too.  (Such a program does
\* fool them: any answer is a running daemon to status, and a 2xx is one to start.)
StartIsNotFooled ==
    [][\A u \in Users :
          /\ cli[u].at = "connect" /\ cli'[u].at = "reply"
          /\ cli[u].is \in {"start", "wait", "status"}
          /\ ~misled
          => \/ \E p \in Pids : Serving(p) /\ file = [pid |-> p, port |-> proc[p].port]
             \/ Foreign(cli[u].record.port)]_daemonVars

\* "The control port answering is the daemon running" (cmd_status): a command that finds nobody,
\* be it to ask, to stop or to start it, overlooks no daemon that has served since it read the
\* file, whatever was started, stopped and killed in between, until a start is misled.
NobodyIsOverlooked ==
    [][\A u \in Users :
          LET m == cli[u].met IN
          /\ cli[u].at = "connect" /\ cli'[u].at \notin {"connect", "reply"}
          /\ m # None /\ ~misled
          => ~(Serving(m.pid) /\ proc[m.pid].port = m.port)]_daemonVars

\* No command hangs: not on a daemon that never comes up, on one that never goes, nor on a
\* stale file.
CommandsEnd == \A u \in Users : cli[u].is \notin Outcomes \cup {"serve"} ~> cli[u].is \in Outcomes
=============================================================================
