--------------------------------- MODULE Ttyd ---------------------------------
(***************************************************************************)
(* tmuxd/ttyd.py: the ttyd of one address, which is a unix socket or a tcp  *)
(* port, and the host processes that construct a Tmuxd on it.               *)
(*                                                                         *)
(* ensure() is a sequence of looks at the state record, the process table   *)
(* and the address, and of changes to them; other hosts construct, close    *)
(* and die between any two.  ttyd itself and the kernel are external: ttyd  *)
(* binds its address or exits, serves, and ends on a signal; the kernel     *)
(* sends SIGTERM to a child whose host is gone, if the child asked for it.  *)
(***************************************************************************)
EXTENDS Naturals, Sequences

CONSTANTS
    Hosts,      \* the host processes
    Bases,      \* base_path values; all else a record must match is the same
    MaxTtyds,   \* bound: how many ttyds are ever started
    None

ASSUME TtydAssumption ==
    /\ MaxTtyds \in Nat /\ None \notin Hosts /\ None \notin Bases
    /\ None \notin [pid : 1..MaxTtyds, base : Bases]

VARIABLES
    listen,     \* "unix" or "tcp"
    overlap,    \* whether hosts construct while others do, or take turns
    ttyd,       \* every ttyd started: its host, base_path, state, and how it is doing
    name,       \* the ttyd the address leads to, 0 for none; a dead one left its socket
    record,     \* the state record: pid and base_path, or None
    host        \* each host's step in ensure() or close(), and its handle

ttydVars == <<listen, overlap, ttyd, name, record, host>>

\* A forked child is still this program; from exec on it is a ttyd.  A ttyd that got its
\* SIGTERM is "stopping", and answers a little longer if it was serving.
TtydState == {"forked", "starting", "serving", "stopping", "dead"}

\* by: the living process that started it; None once that is gone, or the ttyd.
\* armed: the kernel will tell it when its host is gone.
TtydProc == [by : Hosts \cup {None}, base : Bases \cup {None}, state : TtydState,
             armed : BOOLEAN]

\* How ensure() can end without a handle, and where it can be.
Failures == {"PortInUse", "TtydFailed", "OSError"}
InEnsure == {"read", "alive", "probe", "check", "lexists", "unlink", "spawn", "popen", "wait",
             "answer", "chmod", "write"}
Up == {"up", "closing"}

Host == [pc : {"out"} \cup Failures \cup InEnsure \cup Up, base : Bases \cup {None},
         pid : 0..MaxTtyds, owned : BOOLEAN]

\* No Tmuxd: not constructed yet, closed, or the process is gone.
Out == [pc |-> "out", base |-> None, pid |-> 0, owned |-> FALSE]

TtydInit ==
    /\ listen \in {"unix", "tcp"}
    /\ overlap \in BOOLEAN
    /\ ttyd = <<>>
    /\ name = 0
    /\ record = None
    /\ host = [h \in Hosts |-> Out]

pid_alive(n) == ttyd[n].state # "dead"

\* listening(): connect() succeeds.
listening == name # 0 /\ ttyd[name].state \in {"serving", "stopping"}

At(h, step) == host[h].pc = step
Becomes(h, step) == host' = [host EXCEPT ![h].pc = step]
Raises(h, exc) == host' = [host EXCEPT ![h] = [Out EXCEPT !.pc = exc]]
Adopted(h, n) == host' = [host EXCEPT ![h] = [@ EXCEPT !.pc = "up", !.pid = n, !.owned = FALSE]]
SetState(n, s) == ttyd' = [ttyd EXCEPT ![n].state = s]
Ends(n) == ttyd' = [ttyd EXCEPT ![n] = [@ EXCEPT !.by = None, !.base = None, !.state = "dead"]]

\* A tcp port is free when its ttyd is gone; a socket's name outlives it.
Freed(n) == IF name = n /\ listen = "tcp" THEN 0 ELSE name

-----------------------------------------------------------------------------
(* ensure(): reuse a compatible ttyd on this address, or start one.         *)

Construct(h) ==
    LET others == {g \in Hosts : host[g].pc \in InEnsure} IN
    /\ host[h].pc \in {"out"} \cup Failures
    /\ overlap \/ others = {}
    /\ \E b \in Bases : host' = [host EXCEPT ![h] = [Out EXCEPT !.pc = "read", !.base = b]]
    /\ UNCHANGED <<listen, overlap, ttyd, name, record>>

\* slip: a ttyd of ours is a ttyd of ours, whatever path it serves
ReadAnyBase(h) ==
    /\ At(h, "read")
    /\ IF record # None
       THEN host' = [host EXCEPT ![h].pc = "alive", ![h].pid = record.pid]
       ELSE Becomes(h, "check")
    /\ UNCHANGED <<listen, overlap, ttyd, name, record>>

\* The record is of this address and base_path ...
Read(h) ==
    /\ At(h, "read")
    /\ IF record # None /\ record.base = host[h].base
       THEN host' = [host EXCEPT ![h].pc = "alive", ![h].pid = record.pid]
       ELSE Becomes(h, "check")
    /\ UNCHANGED <<listen, overlap, ttyd, name, record>>

\* If not, ensure() looks at the address as if there were no record.
NotThis(h) == host' = [host EXCEPT ![h].pc = "check", ![h].pid = 0]

\* ... its pid is alive and (_is_ttyd) a ttyd ...
Alive(h) ==
    /\ At(h, "alive")
    /\ IF pid_alive(host[h].pid) THEN Becomes(h, "probe") ELSE NotThis(h)
    /\ UNCHANGED <<listen, overlap, ttyd, name, record>>

\* ... and the address is answered.
Probe(h) ==
    /\ At(h, "probe")
    /\ IF listening THEN Adopted(h, host[h].pid) ELSE NotThis(h)
    /\ UNCHANGED <<listen, overlap, ttyd, name, record>>

Check(h) ==
    /\ At(h, "check")
    /\ IF listening THEN Raises(h, "PortInUse")
       ELSE Becomes(h, IF listen = "unix" THEN "lexists" ELSE "spawn")
    /\ UNCHANGED <<listen, overlap, ttyd, name, record>>

\* "Nobody answers on it": that was so when Check looked.
LExists(h) ==
    /\ At(h, "lexists")
    /\ Becomes(h, IF name # 0 THEN "unlink" ELSE "spawn")
    /\ UNCHANGED <<listen, overlap, ttyd, name, record>>

\* os.unlink raises if somebody else was faster.
Unlink(h) ==
    /\ At(h, "unlink")
    /\ name' = 0
    /\ IF name # 0 THEN Becomes(h, "spawn") ELSE Raises(h, "OSError")
    /\ UNCHANGED <<listen, overlap, ttyd, record>>

\* Popen forks, and returns once the child has run _pdeathsig and called exec; or it raises.
SpawnFails(h) ==
    /\ At(h, "spawn")
    /\ Raises(h, "OSError")
    /\ UNCHANGED <<listen, overlap, ttyd, name, record>>

Spawn(h) ==
    /\ At(h, "spawn")
    /\ Len(ttyd) < MaxTtyds
    /\ ttyd' = Append(ttyd, [by |-> h, base |-> host[h].base, state |-> "forked",
                             armed |-> FALSE])
    /\ host' = [host EXCEPT ![h].pc = "popen", ![h].pid = Len(ttyd) + 1, ![h].owned = TRUE]
    /\ UNCHANGED <<listen, overlap, name, record>>

PopenReturns(h) ==
    /\ At(h, "popen")
    /\ ttyd[host[h].pid].state # "forked"
    /\ Becomes(h, "wait")
    /\ UNCHANGED <<listen, overlap, ttyd, name, record>>

\* One round of the loop: has the child exited ...
Wait(h) ==
    /\ At(h, "wait")
    /\ IF pid_alive(host[h].pid) THEN Becomes(h, "answer") ELSE Raises(h, "TtydFailed")
    /\ UNCHANGED <<listen, overlap, ttyd, name, record>>

\* ... and is the address answered?
Answer(h) ==
    /\ At(h, "answer")
    /\ \/ listening /\ Becomes(h, IF listen = "unix" THEN "chmod" ELSE "write")
       \/ ~listening /\ Becomes(h, "wait")
    /\ UNCHANGED <<listen, overlap, ttyd, name, record>>

\* slip: the loop has no deadline for a child that is still there
TimeoutOfTheDead(h) ==
    /\ At(h, "wait")
    /\ ~pid_alive(host[h].pid)
    /\ Raises(h, "TtydFailed")
    /\ UNCHANGED <<listen, overlap, ttyd, name, record>>

\* startup_timeout has passed when a round would begin, also the one after a look in vain; the
\* child is told to go, and not waited for.
Timeout(h) ==
    /\ At(h, "wait") \/ (At(h, "answer") /\ ~listening)
    /\ IF pid_alive(host[h].pid) THEN SetState(host[h].pid, "stopping") ELSE UNCHANGED ttyd
    /\ Raises(h, "TtydFailed")
    /\ UNCHANGED <<listen, overlap, name, record>>

\* The socket's mode.  Without a socket it raises, and the child stays behind.
Chmod(h) ==
    /\ At(h, "chmod")
    /\ IF name # 0 THEN Becomes(h, "write") ELSE Raises(h, "OSError")
    /\ UNCHANGED <<listen, overlap, ttyd, name, record>>

\* slip: the host's own pid
WriteHostPid(h) ==
    /\ At(h, "write")
    /\ record' = [pid |-> h, base |-> host[h].base]
    /\ Becomes(h, "up")
    /\ UNCHANGED <<listen, overlap, ttyd, name>>

\* slip: a record is written once and never brought up to date
WriteOnce(h) ==
    /\ At(h, "write")
    /\ record' = IF record = None THEN [pid |-> host[h].pid, base |-> host[h].base] ELSE record
    /\ Becomes(h, "up")
    /\ UNCHANGED <<listen, overlap, ttyd, name>>

Write(h) ==
    /\ At(h, "write")
    /\ record' = [pid |-> host[h].pid, base |-> host[h].base]
    /\ Becomes(h, "up")
    /\ UNCHANGED <<listen, overlap, ttyd, name>>

\* version_of(binary) or _write raises: the binary is gone, the disk is full.  Again the child
\* stays behind, and this one serves.
WriteFails(h) ==
    /\ At(h, "write")
    /\ Raises(h, "OSError")
    /\ UNCHANGED <<listen, overlap, ttyd, name, record>>

-----------------------------------------------------------------------------
(* close().                                                                 *)

\* slip: whoever closes takes the ttyd down
StopAnyway(h) ==
    LET n == host[h].pid IN
    /\ At(h, "up")
    /\ IF pid_alive(n)
       THEN SetState(n, "stopping") /\ Becomes(h, "closing")
       ELSE host' = [host EXCEPT ![h] = Out] /\ UNCHANGED ttyd
    /\ UNCHANGED <<listen, overlap, name, record>>

\* Ttyd.stop: terminate and wait if it is ours and alive, else nothing.
Stop(h) ==
    LET n == host[h].pid IN
    /\ At(h, "up")
    /\ IF host[h].owned /\ pid_alive(n)
       THEN SetState(n, "stopping") /\ Becomes(h, "closing")
       ELSE host' = [host EXCEPT ![h] = Out] /\ UNCHANGED ttyd
    /\ UNCHANGED <<listen, overlap, name, record>>

Stopped(h) ==
    /\ At(h, "closing")
    /\ ~pid_alive(host[h].pid)
    /\ host' = [host EXCEPT ![h] = Out]
    /\ UNCHANGED <<listen, overlap, ttyd, name, record>>

\* The wait has timed out: kill, and wait again.
StopKills(h) ==
    /\ At(h, "closing")
    /\ pid_alive(host[h].pid)
    /\ Ends(host[h].pid)
    /\ name' = Freed(host[h].pid)
    /\ UNCHANGED <<listen, overlap, record, host>>

-----------------------------------------------------------------------------
(* ttyd, the kernel, and what else can happen.                              *)

\* _pdeathsig and exec, in the child: prctl comes too late for a host that is gone.
Arm(n) ==
    /\ ttyd[n].state = "forked"
    /\ ttyd' = [ttyd EXCEPT ![n].state = "starting", ![n].armed = ttyd[n].by # None]
    /\ UNCHANGED <<listen, overlap, name, record, host>>

\* An address that is taken, or a socket's name that is there, makes ttyd exit.
Bind(n) ==
    /\ ttyd[n].state = "starting"
    /\ IF name = 0 THEN SetState(n, "serving") /\ name' = n
                   ELSE Ends(n) /\ UNCHANGED name
    /\ UNCHANGED <<listen, overlap, record, host>>

\* On SIGTERM ttyd closes its socket, and removes it.
Terminate(n) ==
    /\ ttyd[n].state = "stopping"
    /\ Ends(n)
    /\ name' = IF name = n THEN 0 ELSE name
    /\ UNCHANGED <<listen, overlap, record, host>>

\* Somebody kills ttyd, or it crashes: a socket stays behind.
TtydKilled(n) ==
    /\ ttyd[n].state \in {"starting", "serving"}
    /\ Ends(n)
    /\ name' = Freed(n)
    /\ UNCHANGED <<listen, overlap, record, host>>

\* The host process is gone, SIGKILL included: PR_SET_PDEATHSIG ends its children, but for
\* one that has not asked for it yet.
HostDies(h) ==
    /\ host[h].pc # "out"
    /\ ttyd' = [n \in DOMAIN ttyd |->
                  IF ttyd[n].by # h THEN ttyd[n]
                  ELSE [ttyd[n] EXCEPT !.by = None,
                          !.state = IF ttyd[n].armed THEN "stopping" ELSE @]]
    /\ host' = [host EXCEPT ![h] = Out]
    /\ UNCHANGED <<listen, overlap, name, record>>

\* PR_SET_PDEATHSIG goes by the thread that forked: when the thread that constructed the Tmuxd
\* ends, the ttyd of a host that lives on is told to go.
ThreadEnds(h) ==
    LET n == host[h].pid IN
    /\ At(h, "up")
    /\ host[h].owned
    /\ ttyd[n].armed /\ ttyd[n].state \in {"starting", "serving"}
    /\ SetState(n, "stopping")
    /\ UNCHANGED <<listen, overlap, name, record, host>>

EnsureStep(h) == \/ Read(h) \/ Alive(h) \/ Probe(h) \/ Check(h) \/ LExists(h) \/ Unlink(h)
                 \/ SpawnFails(h) \/ Spawn(h) \/ PopenReturns(h) \/ Wait(h) \/ Answer(h)
                 \/ Timeout(h) \/ Chmod(h) \/ Write(h) \/ WriteFails(h)

CloseStep(h) == Stopped(h) \/ StopKills(h)

TtydStep(n) == Arm(n) \/ Bind(n) \/ Terminate(n) \/ TtydKilled(n)

TtydNext ==
    \/ \E h \in Hosts : \/ Construct(h) \/ EnsureStep(h)
                        \/ Stop(h) \/ CloseStep(h)
                        \/ HostDies(h) \/ ThreadEnds(h)
    \/ \E n \in DOMAIN ttyd : TtydStep(n)

TtydSpec == TtydInit /\ [][TtydNext]_ttydVars

\* A host that is inside a call keeps running, and a forked child reaches exec.  Its clock
\* runs, too: of the rounds of the loop, one finds the deadline behind it.  Of ttyd nothing is
\* assumed: it may hang before it binds, and ignore a SIGTERM.
TtydFairness ==
    /\ \A h \in Hosts : /\ WF_ttydVars(EnsureStep(h)) /\ WF_ttydVars(CloseStep(h))
                        /\ WF_ttydVars(Timeout(h))
    /\ \A n \in 1..MaxTtyds : WF_ttydVars(n \in DOMAIN ttyd /\ Arm(n))

TtydFairSpec == TtydSpec /\ TtydFairness

-----------------------------------------------------------------------------
(* Properties.                                                              *)

\* The type invariant of the hosts, their ttyds, the record and the address.
TtydTypeOK ==
    /\ listen \in {"unix", "tcp"} /\ overlap \in BOOLEAN
    /\ ttyd \in Seq(TtydProc) /\ Len(ttyd) <= MaxTtyds
    /\ name \in 0..Len(ttyd)
    /\ record \in [pid : 1..Len(ttyd), base : Bases] \cup {None}
    /\ host \in [Hosts -> Host]

Serving(n) == ttyd[n].state = "serving"

\* What a handle promises: its ttyd, as long as it serves, is the one its address leads to,
\* and serves the base_path its URLs are made from.  ensure's comment on the unlink says
\* that it "disconnects no one".
HandlesLeadToTheirTtyd ==
    \A h \in Hosts :
        LET n == host[h].pid IN
        At(h, "up") /\ Serving(n) => name = n /\ ttyd[n].base = host[h].base

\* Hosts take turns, and no child slipped away from its host between fork and prctl.
\* (A ttyd that did arm is so for good, dead or not.)
Escaped(n) == ttyd[n].by = None /\ ~ttyd[n].armed
Orderly == ~overlap /\ \A n \in DOMAIN ttyd : ~Escaped(n)

\* It keeps the promise on a port always, and on a socket when things are orderly: whatever
\* was killed, in whatever state it left the record and the socket.
HandlesLeadThereInOrder == listen = "tcp" \/ Orderly => HandlesLeadToTheirTtyd

\* "Adopted ttyds belong to someone else": a ttyd gets its SIGTERM in a step of the process
\* that started it, its close, its impatience or its death, or when the thread ends that
\* constructed it; and in no other's.
OnlyItsHostStopsATtyd ==
    [][\A n \in DOMAIN ttyd :
          ttyd[n].state # "stopping" /\ ttyd'[n].state = "stopping"
          => \E h \in Hosts :
                ttyd[n].by = h /\ (host'[h] # host[h] \/ (At(h, "up") /\ host' = host))]_ttydVars

\* Its construction raised when it was up and not yet in the record, and the process that
\* started it lives on without it.
Abandoned(n) == ttyd[n].by # None /\ host[ttyd[n].by].pid # n

\* A new Tmuxd "reuses it rather than fighting over the address": when things are orderly
\* it is refused only where a ttyd with another base_path answers, or one that is about
\* to go, or one that a failing construction has left there without a record.
Refused(h) == ~At(h, "PortInUse") /\ (At(h, "PortInUse"))'
RefusalsAreJustified ==
    [][\A h \in Hosts :
          Refused(h) /\ Orderly
          => \/ ttyd[name].base # host[h].base \/ ttyd[name].state = "stopping"
             \/ Abandoned(name)]_ttydVars

\* Every construction and every close comes to an end, with a ttyd that hangs or will not
\* go as well.
CallsEnd == \A h \in Hosts : host[h].pc \in InEnsure \cup {"closing"}
                              ~> host[h].pc \notin InEnsure \cup {"closing"}
=============================================================================
