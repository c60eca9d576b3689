----------------------------- MODULE DaemonProofs -----------------------------
(***************************************************************************)
(* What daemon.json is good for where one shell rules: whatever pids, ports *)
(* and onlookers there are, whatever is killed or interrupted when, and     *)
(* whichever stranger has which pid.                                        *)
(*                                                                         *)
(* DaemonInv says what the ruling shell can rely on: there is one daemon at *)
(* most; while no start, stop or serve is under way it serves, and is the   *)
(* one in the file; and what a start or a stop has read still names it.  It *)
(* holds until a start goes by the answer of another program: from then on  *)
(* (misled) a daemon may be on its way up that the shell takes for settled. *)
(***************************************************************************)
EXTENDS Daemon, TLAPS

\* Nobody but r starts or stops a daemon, which is never slower than a command waits.
OneRules(r) == Users \ {r} \subseteq Onlookers /\ ~Slow

\* The types, but for misled.
Shaped ==
    /\ file \in [pid : Pids, port : Ports] \cup {None}
    /\ proc \in [Pids -> Process]
    /\ cli \in [Users -> Command]
    /\ orphaned \in BOOLEAN

\* From the write to the cleanup a daemon is the one in the file.
Named == {"signal", "banner", "bind", "serving"}
IsDaemon(p) == proc[p].is \in Daemon

AtMostOne == \A p, q \in Pids : IsDaemon(p) /\ IsDaemon(q) => p = q

FileIsTheirs ==
    \A p \in Pids :
        /\ proc[p].is \in Named => file = [pid |-> p, port |-> proc[p].port]
        /\ proc[p].is \in Daemon \ {"settings", "open"} => proc[p].port \in Ports

\* A file without a daemon is one whose daemon never came to its cleanup.
FileHasOwner ==
    file # None /\ ~orphaned => proc[file.pid].is \in Named \cup {"cleanup"}

Settled == \A p \in Pids : IsDaemon(p) => Serving(p)

\* What the ruling shell knows at each step of its command c.
Knows(c) ==
    /\ c.is \in Outcomes \cup {"start", "stop", "status", "ask"} => Settled
    /\ c.is = "wait" /\ c.at = "reply" => Settled
    /\ c.is = "spawn" => \A p \in Pids : ~IsDaemon(p)
    /\ c.is \in {"wait", "gone", "serve"} =>
          c.pid \in Pids /\ \A p \in Pids : IsDaemon(p) => p = c.pid
    /\ c.is \in {"start", "stop"} /\ c.at \in {"connect", "reply", "kill"} =>
          \A p \in Pids : IsDaemon(p) => c.record = [pid |-> p, port |-> proc[p].port]

\* What the others do.
Asks(c) == c.is \in Outcomes \cup {"status", "ask"}

\* At any shell: a command reads, connects and so on if it is one of those that do, and goes
\* by what it read.
Sane(c) ==
    /\ c.at # None => c.is \in {"start", "wait", "stop", "status", "ask"}
    /\ c.at = None => c.is \in Outcomes \cup {"spawn", "gone", "serve"}
    /\ c.at = "connect" /\ c.met # None => c.record = c.met
    /\ c.at \in {"reply", "kill"} => c.record # None
    /\ c.at = "kill" => c.is = "stop"

DaemonInv(r) ==
    /\ Shaped /\ AtMostOne /\ FileIsTheirs /\ FileHasOwner
    /\ Knows(cli[r])
    /\ \A u \in Users : Sane(cli[u]) /\ (u # r => Asks(cli[u]))

\* Nobody and nothing.
LEMMA NoneIsNone ==
    None \notin Pids /\ None \notin File /\ None \notin {"read", "connect", "reply", "kill"}
  BY DaemonAssumption DEF File

-----------------------------------------------------------------------------
(* Steps of a command that leave the daemons and the file alone.            *)

\* From c to d.
CommandRespects(r, u) ==
    LET d == cli'[u] IN
    /\ UNCHANGED <<file, proc, orphaned>>
    /\ cli' \in [Users -> Command] /\ \A v \in Users : v # u => cli'[v] = cli[v]
    /\ Sane(d)
    /\ u = r => Knows(d)
    /\ u # r => Asks(d)

LEMMA RespectfulCommand ==
    ASSUME NEW r \in Users, NEW u \in Users, DaemonInv(r), CommandRespects(r, u)
    PROVE  DaemonInv(r)'
  <1>1. /\ UNCHANGED <<file, proc, orphaned>>
        /\ cli' \in [Users -> Command] /\ \A v \in Users : v # u => cli'[v] = cli[v]
    BY DEF CommandRespects
  <1>2. Shaped'
    BY <1>1 DEF DaemonInv, Shaped
  <1>3. AtMostOne' /\ FileIsTheirs' /\ FileHasOwner'
    BY <1>1 DEF DaemonInv, AtMostOne, FileIsTheirs, FileHasOwner, IsDaemon
  <1>4. Knows(cli[r])'
    <2>1. CASE u = r
      BY <1>1, <2>1 DEF CommandRespects, Knows, Settled, IsDaemon, Serving
    <2>2. CASE u # r
      BY <1>1, <2>2 DEF DaemonInv, Knows, Settled, IsDaemon, Serving
    <2>3. QED
      BY <2>1, <2>2
  <1>5. \A v \in Users : Sane(cli[v])' /\ (v # r => Asks(cli[v])')
    BY <1>1 DEF CommandRespects, DaemonInv, Sane, Asks
  <1>6. QED
    BY <1>2, <1>3, <1>4, <1>5 DEF DaemonInv

-----------------------------------------------------------------------------
(* Steps of one process.                                                    *)

\* It is no new daemon; if it changes the file it is the daemon, and if it serves only an
\* interrupt makes it anything but gone.
ProcessRespects(r, p) ==
    LET v == proc'[p] IN
    /\ UNCHANGED cli
    /\ proc' \in [Pids -> Process] /\ \A q \in Pids : q # p => proc'[q] = proc[q]
    /\ file' \in File \cup {None} /\ orphaned' \in BOOLEAN
    /\ v.is \in Daemon => IsDaemon(p)
    /\ v.is \in Named => file' = [pid |-> p, port |-> v.port]
    /\ v.is \in Daemon \ {"settings", "open"} => v.port \in Ports
    /\ file' # file => IsDaemon(p)
    /\ v.is \in Daemon /\ Serving(p) => v = proc[p] \/ cli[r].is = "serve"
    /\ FileHasOwner'

LEMMA RespectfulProcess ==
    ASSUME NEW r \in Users, NEW p \in Pids, DaemonInv(r), ProcessRespects(r, p)
    PROVE  DaemonInv(r)'
  <1>1. /\ UNCHANGED cli
        /\ proc' \in [Pids -> Process] /\ \A q \in Pids : q # p => proc'[q] = proc[q]
        /\ proc'[p].is \in Daemon => IsDaemon(p)
    BY DEF ProcessRespects
  <1>2. Shaped'
    BY <1>1 DEF DaemonInv, Shaped, ProcessRespects, File
  <1>3. AtMostOne'
    BY <1>1 DEF DaemonInv, AtMostOne, IsDaemon
  <1>4. FileIsTheirs'
    BY <1>1 DEF DaemonInv, AtMostOne, FileIsTheirs, IsDaemon, ProcessRespects, Named, Daemon
  <1>5. FileHasOwner'
    BY DEF ProcessRespects
  <1>6. Knows(cli[r])'
    <2>1. Settled /\ cli[r].is # "serve" => Settled'
      BY <1>1 DEF ProcessRespects, Settled, IsDaemon, Serving
    <2>2. \A q \in Pids : IsDaemon(q)' => IsDaemon(q)
      BY <1>1 DEF IsDaemon
    <2>3. cli[r].is \in {"start", "stop"} =>
             \A q \in Pids : IsDaemon(q)' => proc'[q] = proc[q]
      BY <1>1 DEF ProcessRespects, DaemonInv, Knows, Settled, IsDaemon, Serving
    <2>4. QED
      BY <1>1, <2>1, <2>2, <2>3 DEF DaemonInv, Knows, Outcomes
  <1>7. \A u \in Users : Sane(cli[u])' /\ (u # r => Asks(cli[u])')
    BY <1>1 DEF DaemonInv, Sane, Asks
  <1>8. QED
    BY <1>2, <1>3, <1>4, <1>5, <1>6, <1>7 DEF DaemonInv

\* One process changes, or all of its record.
LEMMA Changes ==
    ASSUME Shaped, NEW p \in Pids, NEW v \in Process, proc' = [proc EXCEPT ![p] = v]
    PROVE  /\ proc' \in [Pids -> Process] /\ proc'[p] = v
           /\ \A q \in Pids : q # p => proc'[q] = proc[q]
  BY DEF Shaped

LEMMA Moved ==
    ASSUME Shaped, NEW p \in Pids, NEW to \in {"free", "stranger"} \cup Daemon,
           proc' = [proc EXCEPT ![p].is = to]
    PROVE  /\ proc' \in [Pids -> Process]
           /\ proc'[p].is = to /\ proc'[p].port = proc[p].port
           /\ \A q \in Pids : q # p => proc'[q] = proc[q]
  <1> DEFINE v == [proc[p] EXCEPT !.is = to]
  <1>1. proc[p] \in Process
    BY DEF Shaped
  <1>2. v \in Process /\ v.is = to /\ v.port = proc[p].port
    BY <1>1 DEF Process
  <1>3. proc' = [proc EXCEPT ![p] = v]
    OBVIOUS
  <1> HIDE DEF v
  <1>4. QED
    BY <1>2, <1>3, Changes

LEMMA ItEnds ==
    ASSUME Shaped, NEW p \in Pids, Ends(p)
    PROVE  /\ proc' \in [Pids -> Process] /\ proc'[p] = Free /\ proc'[p].is = "free"
           /\ \A q \in Pids : q # p => proc'[q] = proc[q]
  <1>1. Free \in Process /\ Free.is = "free"
    BY DEF Free, Process
  <1>2. QED
    BY <1>1, Changes DEF Ends

\* What a SIGTERM does.
LEMMA Told ==
    ASSUME Shaped, NEW p \in Pids, Terminated(p)
    PROVE  /\ proc' \in [Pids -> Process]
           /\ Caught(p) => proc'[p].is = "cleanup" /\ proc'[p].port = proc[p].port
           /\ ~Caught(p) => proc'[p].is = "free"
           /\ \A q \in Pids : q # p => proc'[q] = proc[q]
  <1>1. CASE Caught(p)
    <2> DEFINE v == [proc[p] EXCEPT !.is = "cleanup"]
    <2>1. proc[p] \in Process
      BY DEF Shaped
    <2>2. v \in Process /\ v.is = "cleanup" /\ v.port = proc[p].port
      BY <2>1 DEF Process, Daemon
    <2>3. proc' = [proc EXCEPT ![p] = v]
      BY <1>1, <2>1 DEF Terminated, Shaped
    <2> HIDE DEF v
    <2>4. QED
      BY <1>1, <2>2, <2>3, Changes
  <1>2. CASE ~Caught(p)
    <2>1. proc' = [proc EXCEPT ![p] = Free]
      BY <1>2 DEF Terminated
    <2>2. Free \in Process /\ Free.is = "free"
      BY DEF Free, Process
    <2>3. QED
      BY <1>2, <2>1, <2>2, Changes
  <1>3. QED
    BY <1>1, <1>2

LEMMA DaemonSteps ==
    ASSUME NEW r \in Users, OneRules(r), DaemonInv(r), NEW p \in Pids,
           Serve(p) \/ Killed(p) \/ StrangerStarts(p) \/ StrangerEnds(p)
    PROVE  ProcessRespects(r, p)
  <1> USE DEF DaemonInv
  <1>0. proc[p] \in Process /\ Shaped /\ FileHasOwner /\ FileIsTheirs /\ AtMostOne
    BY DEF Shaped
  <1>1. CASE ReadSettings(p)
    <2> DEFINE port == IF file = None THEN None ELSE file.port
               v == [proc[p] EXCEPT !.is = "open", !.port = port]
    <2>1. port \in Ports \cup {None}
      BY <1>0 DEF Shaped
    <2>2. v \in Process /\ v.is = "open"
      <3> HIDE DEF port
      <3>1. QED
        BY <1>0, <2>1 DEF Process, Daemon
    <2>3. proc' = [proc EXCEPT ![p] = v]
      BY <1>0, <1>1 DEF ReadSettings, Shaped
    <2> HIDE DEF v
    <2>4. /\ proc' \in [Pids -> Process] /\ proc'[p] = v
          /\ \A q \in Pids : q # p => proc'[q] = proc[q]
      BY <1>0, <2>2, <2>3, Changes
    <2>5. QED
      BY <1>0, <1>1, <2>2, <2>4
      DEF ReadSettings, ProcessRespects, Shaped, FileHasOwner, FileIsTheirs, AtMostOne,
          IsDaemon, Serving, Named, Daemon, File
  <1>2. CASE OpenPool(p)
    <2>1. CASE Ends(p)
      BY <1>0, <1>2, <2>1, ItEnds
      DEF OpenPool, ProcessRespects, Shaped, FileHasOwner, FileIsTheirs, AtMostOne,
          IsDaemon, Serving, Named, Daemon, File
    <2>2. CASE ~Ends(p)
      <3>1. PICK port \in Ports : proc' = [proc EXCEPT ![p].is = "truncate", ![p].port = port]
        BY <1>2, <2>2 DEF OpenPool
      <3> DEFINE v == [proc[p] EXCEPT !.is = "truncate", !.port = port]
      <3>2. v \in Process /\ v.is = "truncate" /\ v.port = port
        BY <1>0 DEF Process, Daemon
      <3>3. proc' = [proc EXCEPT ![p] = v]
        BY <1>0, <3>1 DEF Shaped
      <3> HIDE DEF v
      <3>4. /\ proc' \in [Pids -> Process] /\ proc'[p] = v
            /\ \A q \in Pids : q # p => proc'[q] = proc[q]
        BY <1>0, <3>2, <3>3, Changes
      <3>5. QED
        BY <1>0, <1>2, <3>2, <3>4
        DEF OpenPool, ProcessRespects, Shaped, FileHasOwner, FileIsTheirs, AtMostOne,
            IsDaemon, Serving, Named, Daemon, File
    <2>3. QED
      BY <2>1, <2>2
  <1>3. CASE Truncate(p)
    <2>1. /\ proc' \in [Pids -> Process] /\ proc'[p].is = "write" /\ proc'[p].port = proc[p].port
          /\ \A q \in Pids : q # p => proc'[q] = proc[q]
      BY <1>0, <1>3, Moved DEF Truncate, Moves, Daemon
    <2>2. QED
      BY <1>0, <1>3, <2>1
      DEF Truncate, Moves, ProcessRespects, Shaped, FileHasOwner, FileIsTheirs, AtMostOne,
          IsDaemon, Serving, Named, Daemon, File
  <1>4. CASE WriteFile(p)
    <2>1. /\ proc' \in [Pids -> Process] /\ proc'[p].is = "signal" /\ proc'[p].port = proc[p].port
          /\ \A q \in Pids : q # p => proc'[q] = proc[q]
      BY <1>0, <1>4, Moved DEF WriteFile, Moves, Daemon
    <2>2. QED
      BY <1>0, <1>4, <2>1
      DEF WriteFile, Moves, ProcessRespects, Shaped, FileHasOwner, FileIsTheirs, AtMostOne,
          IsDaemon, Serving, Named, Daemon, File
  <1>5. CASE InstallHandler(p)
    <2>1. /\ proc' \in [Pids -> Process] /\ proc'[p].is = "banner" /\ proc'[p].port = proc[p].port
          /\ \A q \in Pids : q # p => proc'[q] = proc[q]
      BY <1>0, <1>5, Moved DEF InstallHandler, Moves, Daemon
    <2>2. QED
      BY <1>0, <1>5, <2>1
      DEF InstallHandler, Moves, ProcessRespects, Shaped, FileHasOwner, FileIsTheirs,
          AtMostOne, IsDaemon, Serving, Named, Daemon, File
  <1>6. CASE PrintBanner(p)
    <2>1. /\ proc' \in [Pids -> Process] /\ proc'[p].is = "bind" /\ proc'[p].port = proc[p].port
          /\ \A q \in Pids : q # p => proc'[q] = proc[q]
      BY <1>0, <1>6, Moved DEF PrintBanner, Moves, Daemon
    <2>2. QED
      BY <1>0, <1>6, <2>1
      DEF PrintBanner, Moves, ProcessRespects, Shaped, FileHasOwner, FileIsTheirs,
          AtMostOne, IsDaemon, Serving, Named, Daemon, File
  <1>7. CASE Bind(p) /\ Taken(proc[p].port)
    <2>1. /\ proc' \in [Pids -> Process] /\ proc'[p].is = "cleanup" /\ proc'[p].port = proc[p].port
          /\ \A q \in Pids : q # p => proc'[q] = proc[q]
      BY <1>0, <1>7, Moved DEF Bind, Moves, Daemon
    <2>2. QED
      BY <1>0, <1>7, <2>1
      DEF Bind, Moves, ProcessRespects, Shaped, FileHasOwner, FileIsTheirs, AtMostOne,
          IsDaemon, Serving, Named, Daemon, File
  <1>8. CASE Bind(p) /\ ~Taken(proc[p].port)
    <2>1. /\ proc' \in [Pids -> Process] /\ proc'[p].is = "serving" /\ proc'[p].port = proc[p].port
          /\ \A q \in Pids : q # p => proc'[q] = proc[q]
      BY <1>0, <1>8, Moved DEF Bind, Moves, Daemon
    <2>2. QED
      BY <1>0, <1>8, <2>1
      DEF Bind, Moves, ProcessRespects, Shaped, FileHasOwner, FileIsTheirs, AtMostOne,
          IsDaemon, Serving, Named, Daemon, File
  <1>9. CASE StrangerStarts(p)
    <2> DEFINE v(port) == [is |-> "stranger", port |-> port]
    <2>0. PICK port \in Ports \cup {None} : proc' = [proc EXCEPT ![p] = v(port)]
      BY <1>9 DEF StrangerStarts
    <2>1. /\ proc' \in [Pids -> Process] /\ proc'[p].is = "stranger"
          /\ \A q \in Pids : q # p => proc'[q] = proc[q]
      <3>1. v(port) \in Process /\ v(port).is = "stranger"
        BY DEF Process
      <3> HIDE DEF v
      <3>2. QED
        BY <1>0, <2>0, <3>1, Changes
    <2>2. QED
      BY <1>0, <1>9, <2>1
      DEF alive, StrangerStarts, Moves, ProcessRespects, Shaped, FileHasOwner, FileIsTheirs,
          AtMostOne, IsDaemon, Serving, Named, Daemon, File
  <1>10. CASE Cleanup(p)
    <2>1. /\ proc' \in [Pids -> Process] /\ proc'[p].is = "free"
          /\ \A q \in Pids : q # p => proc'[q] = proc[q]
      BY <1>0, <1>10, ItEnds DEF Cleanup
    <2>2. QED
      BY <1>0, <1>10, <2>1
      DEF Cleanup, Names, ProcessRespects, Shaped, FileHasOwner, FileIsTheirs, AtMostOne,
          IsDaemon, Serving, Named, Daemon, File
  <1>11. CASE Killed(p)
    <2>1. /\ proc' \in [Pids -> Process] /\ proc'[p].is = "free"
          /\ \A q \in Pids : q # p => proc'[q] = proc[q]
      BY <1>0, <1>11, ItEnds DEF Killed
    <2>2. QED
      BY <1>0, <1>11, <2>1
      DEF Killed, Names, ProcessRespects, Shaped, FileHasOwner, FileIsTheirs, AtMostOne,
          IsDaemon, Serving, Named, Daemon, File
  <1>12. CASE StrangerEnds(p)
    <2>1. /\ proc' \in [Pids -> Process] /\ proc'[p].is = "free"
          /\ \A q \in Pids : q # p => proc'[q] = proc[q]
      BY <1>0, <1>12, ItEnds DEF StrangerEnds
    <2>2. QED
      BY <1>0, <1>12, <2>1
      DEF StrangerEnds, Names, ProcessRespects, Shaped, FileHasOwner, FileIsTheirs,
          AtMostOne, IsDaemon, Serving, Named, Daemon, File
  <1>13. QED
    BY <1>1, <1>2, <1>3, <1>4, <1>5, <1>6, <1>7, <1>8, <1>9, <1>10, <1>11, <1>12 DEF Serve

LEMMA InterruptRespects ==
    ASSUME NEW r \in Users, DaemonInv(r), NEW u \in Users, Interrupt(u)
    PROVE  \E p \in Pids : ProcessRespects(r, p)
  <1> DEFINE p == cli[u].pid
  <1> USE DEF DaemonInv
  <1>1. u = r /\ cli[r].is = "serve" /\ p \in Pids
    BY DEF Interrupt, Asks, Outcomes, Knows
  <1>2. proc[p] \in Process /\ Shaped /\ FileHasOwner /\ FileIsTheirs
    BY <1>1 DEF Shaped
  <1>3. /\ Terminated(p) /\ proc[p].is \in Daemon /\ UNCHANGED <<file, cli>>
        /\ orphaned' = (orphaned \/ (Names(p) /\ ~Caught(p)))
    BY DEF Interrupt
  <1>4. /\ proc' \in [Pids -> Process]
        /\ Caught(p) => proc'[p].is = "cleanup" /\ proc'[p].port = proc[p].port
        /\ ~Caught(p) => proc'[p].is = "free"
        /\ \A q \in Pids : q # p => proc'[q] = proc[q]
    BY <1>1, <1>2, <1>3, Told
  <1>5. FileHasOwner'
    BY <1>1, <1>2, <1>3, <1>4 DEF FileHasOwner, Names, Shaped, Named
  <1>6. ProcessRespects(r, p)
    BY <1>1, <1>2, <1>3, <1>4, <1>5
    DEF ProcessRespects, Shaped, FileIsTheirs, IsDaemon, Caught, Named, Daemon, File
  <1>7. QED
    BY <1>1, <1>6

-----------------------------------------------------------------------------
(* The commands.                                                            *)

\* A shell goes on to d.
LEMMA GoesOn ==
    ASSUME NEW r \in Users, NEW u \in Users, DaemonInv(r), NEW d \in Command, Goes(u, d),
           UNCHANGED <<file, proc, orphaned>>,
           Sane(d), u = r => Knows(d), u # r => Asks(d)
    PROVE  CommandRespects(r, u)
  <1>1. /\ cli' \in [Users -> Command] /\ cli'[u] = d
        /\ \A v \in Users : v # u => cli'[v] = cli[v]
    BY DEF Goes, DaemonInv, Shaped
  <1>2. QED
    BY <1>1 DEF CommandRespects

\* The end of a command.
LEMMA EndOf ==
    ASSUME NEW outcome \in Outcomes
    PROVE  /\ Ended(outcome) \in Command /\ Ended(outcome).is = outcome
           /\ Sane(Ended(outcome)) /\ Asks(Ended(outcome))
           /\ Settled => Knows(Ended(outcome))
  BY NoneIsNone DEF Ended, Command, Sane, Asks, Knows, Outcomes

LEMMA TypeSteps ==
    ASSUME NEW r \in Users, OneRules(r), DaemonInv(r), NEW u \in Users,
           NEW command \in {"start", "stop", "status", "ask"}, Type(u, command)
    PROVE  CommandRespects(r, u)
  <1> DEFINE d == [is |-> command, at |-> "read", pid |-> None, record |-> None, met |-> None]
  <1>1. d \in Command
    BY DEF Command
  <1>2. Goes(u, d) /\ UNCHANGED <<file, proc, orphaned>> /\ cli[u].is \in Outcomes
    BY DEF Type, Ended
  <1>3. Sane(d) /\ (u # r => Asks(d))
    BY NoneIsNone DEF Sane, Asks, Type, OneRules
  <1>4. u = r => Knows(d)
    BY <1>2 DEF Knows, DaemonInv, Outcomes
  <1> HIDE DEF d
  <1>5. QED
    BY <1>1, <1>2, <1>3, <1>4, GoesOn

LEMMA SettingsSteps ==
    ASSUME NEW r \in Users, DaemonInv(r), NEW u \in Users, Settings(u)
    PROVE  CommandRespects(r, u)
  <1> DEFINE c == cli[u]
  <1> USE DEF DaemonInv
  <1>1. PICK m \in File \cup {None} :
           /\ IF m = None THEN \A p \in Pids : ~Serving(p)
                          ELSE Serving(m.pid) /\ proc[m.pid].port = m.port
           /\ Goes(u, [cli[u] EXCEPT !.at = "connect", !.record = file, !.met = m])
    BY DEF Settings
  <1> DEFINE d == [cli[u] EXCEPT !.at = "connect", !.record = file, !.met = m]
  <1>2. c \in Command /\ c.at = "read" /\ UNCHANGED <<file, proc, orphaned>>
    BY DEF Settings, Shaped
  <1>3. /\ d \in Command /\ d.is = c.is /\ d.at = "connect" /\ d.pid = c.pid
        /\ d.record = file /\ d.met = m
    BY <1>2 DEF Command, Shaped, File
  <1>4. Goes(u, d)
    BY <1>1
  <1> HIDE DEF d
  <1>5. m # None => file = m
    <2>1. SUFFICES ASSUME m # None PROVE file = m
      OBVIOUS
    <2>2. m \in File /\ m.pid \in Pids
      BY <2>1 DEF File
    <2>3. file = [pid |-> m.pid, port |-> m.port]
      BY <1>1, <2>1, <2>2 DEF FileIsTheirs, Serving, Named
    <2>4. QED
      BY <2>2, <2>3 DEF File
  <1>6. Sane(d) /\ (u # r => Asks(d))
    BY <1>2, <1>3, <1>5, NoneIsNone DEF Sane, Asks
  <1>7. u = r => Knows(d)
    BY <1>2, <1>3 DEF Knows, Settled, FileIsTheirs, Serving, Named
  <1>8. QED
    BY <1>2, <1>3, <1>4, <1>6, <1>7, GoesOn

LEMMA ConnectSteps ==
    ASSUME NEW r \in Users, DaemonInv(r), NEW u \in Users, Connect(u), ~misled'
    PROVE  CommandRespects(r, u)
  <1> DEFINE c == cli[u]
             answers == Asking(c) /\ Health(c.record.port)
  <1> USE DEF DaemonInv
  <1>1. /\ c \in Command /\ c.at = "connect" /\ Sane(c) /\ UNCHANGED <<file, proc, orphaned>>
        /\ c.is \in {"start", "wait", "stop", "status", "ask"}
        /\ u = r => Knows(c)
        /\ u # r => Asks(c)
    BY NoneIsNone DEF Connect, Shaped, Sane
  <1>2. ASSUME Asking(c), Taken(c.record.port), Goes(u, [c EXCEPT !.at = "reply"]),
               misled' = (misled \/ (c.is = "wait" /\ Foreign(c.record.port)))
        PROVE  CommandRespects(r, u)
    <2> DEFINE d == [cli[u] EXCEPT !.at = "reply"]
    <2>1. /\ d \in Command /\ d.is = c.is /\ d.at = "reply" /\ d.pid = c.pid
          /\ d.record = c.record
      BY <1>1 DEF Command
    <2>2. Goes(u, d)
      BY <1>2
    <2> HIDE DEF d
    <2>3. Sane(d) /\ (u # r => Asks(d))
      BY <1>1, <1>2, <2>1, NoneIsNone DEF Sane, Asks, Asking
    <2>4. Settled \/ c.is # "wait"
      BY <1>2 DEF Taken, Settled, Health, AtMostOne, IsDaemon, Serving, Daemon
    <2>5. u = r => Knows(d)
      BY <1>1, <2>1, <2>4 DEF Knows
    <2>6. QED
      BY <1>1, <2>1, <2>2, <2>3, <2>5, GoesOn
  <1>3. ASSUME ~answers, Goes(u, Unanswered(u))
        PROVE  CommandRespects(r, u)
    <2>1. Goes(u, Unanswered(u))
      BY <1>3
    <2>2. CASE c.is = "start"
      <3> DEFINE d == [cli[u] EXCEPT !.is = "spawn", !.at = None]
      <3>1. d \in Command /\ d.is = "spawn" /\ d.at = None
        BY <1>1 DEF Command
      <3>2. Goes(u, d)
        BY <2>1, <2>2 DEF Unanswered
      <3> HIDE DEF d
      <3>3. Sane(d) /\ u = r
        BY <1>1, <2>2, <3>1, NoneIsNone DEF Sane, Asks, Outcomes
      <3>4. \A p \in Pids : ~IsDaemon(p)
        <4>1. SUFFICES ASSUME NEW p \in Pids, IsDaemon(p) PROVE FALSE
          OBVIOUS
        <4>2. Serving(p) /\ c.record = [pid |-> p, port |-> proc[p].port]
          BY <1>1, <2>2, <3>3, <4>1 DEF Knows, Settled
        <4>3. c.record # None /\ Health(c.record.port) /\ alive(c.record.pid)
          <5>1. c.record \in File
            BY <4>1, <4>2 DEF File, FileIsTheirs, Serving, Named, Daemon
          <5>2. c.record # None
            BY <4>1, <4>2, <5>1, NoneIsNone DEF FileIsTheirs, Serving, Named, Shaped, File
          <5>3. QED
            BY <4>1, <4>2, <5>2 DEF Health, alive, Serving
        <4>4. QED
          BY <1>3, <4>3 DEF Asking
      <3>5. Knows(d)
        BY <3>1, <3>4 DEF Knows, Outcomes
      <3>6. QED
        BY <1>1, <3>1, <3>2, <3>3, <3>5, GoesOn
    <2>3. CASE c.is = "wait"
      <3> DEFINE d == [cli[u] EXCEPT !.at = "read"]
      <3>1. d \in Command /\ d.is = "wait" /\ d.at = "read" /\ d.pid = c.pid
        BY <1>1, <2>3 DEF Command
      <3>2. Goes(u, d)
        BY <2>1, <2>3 DEF Unanswered
      <3> HIDE DEF d
      <3>3. Sane(d) /\ u = r
        BY <1>1, <2>3, <3>1, NoneIsNone DEF Sane, Asks, Outcomes
      <3>4. Knows(d)
        BY <1>1, <2>3, <3>1, <3>3 DEF Knows, Outcomes
      <3>5. QED
        BY <1>1, <3>1, <3>2, <3>3, <3>4, GoesOn
    <2>4. CASE c.is \in {"status", "ask"}
      <3>1. Goes(u, Ended("failed"))
        BY <2>1, <2>4 DEF Unanswered
      <3>2. u = r => Settled
        BY <1>1, <2>4 DEF Knows
      <3>3. QED
        BY <1>1, <3>1, <3>2, EndOf, GoesOn DEF Outcomes
    <2>5. CASE c.is = "stop"
      <3>1. u = r /\ Settled
        BY <1>1, <2>5 DEF Asks, Knows, Outcomes
      <3>2. CASE c.record # None /\ alive(c.record.pid)
        <4> DEFINE d == [cli[u] EXCEPT !.at = "kill"]
        <4>1. d \in Command /\ d.is = "stop" /\ d.at = "kill" /\ d.record = c.record
          BY <1>1, <2>5 DEF Command
        <4>2. Goes(u, d)
          BY <2>1, <2>5, <3>2 DEF Unanswered
        <4> HIDE DEF d
        <4>3. Sane(d) /\ Knows(d)
          BY <1>1, <2>5, <3>1, <3>2, <4>1, NoneIsNone DEF Sane, Knows, Outcomes
        <4>4. QED
          BY <1>1, <3>1, <4>1, <4>2, <4>3, GoesOn
      <3>3. CASE ~(c.record # None /\ alive(c.record.pid))
        <4>1. Goes(u, Ended("ok"))
          BY <2>1, <2>5, <3>3 DEF Unanswered
        <4>2. QED
          BY <1>1, <3>1, <4>1, EndOf, GoesOn DEF Outcomes
      <3>4. QED
        BY <3>2, <3>3
    <2>6. QED
      BY <1>1, <2>2, <2>3, <2>4, <2>5
  <1>4. QED
    BY <1>2, <1>3 DEF Connect

LEMMA ReplySteps ==
    ASSUME NEW r \in Users, DaemonInv(r), NEW u \in Users, Reply(u)
    PROVE  CommandRespects(r, u)
  <1> DEFINE c == cli[u]
  <1> USE DEF DaemonInv
  <1>1. /\ c \in Command /\ c.at = "reply" /\ UNCHANGED <<file, proc, orphaned>>
        /\ c.is \in {"start", "wait", "stop", "status", "ask"} /\ c.record # None
        /\ u # r => Asks(c)
        /\ u = r => Settled /\ Knows(c)
    BY NoneIsNone DEF Reply, Shaped, Sane, Knows
  <1>2. CASE Goes(u, Ended("ok")) \/ Goes(u, Ended("error"))
    BY <1>1, <1>2, EndOf, GoesOn DEF Outcomes
  <1>3. CASE c.is = "wait" /\ Goes(u, Answered(u))
    <2> DEFINE d == [is |-> "status", at |-> "read", pid |-> None, record |-> None, met |-> None]
    <2>1. d \in Command
      BY DEF Command
    <2>2. Goes(u, d)
      BY <1>3 DEF Answered, Ended
    <2>3. Sane(d) /\ (u # r => Asks(d)) /\ (u = r => Knows(d))
      BY <1>1, NoneIsNone DEF Sane, Asks, Knows, Outcomes
    <2> HIDE DEF d
    <2>4. QED
      BY <1>1, <2>1, <2>2, <2>3, GoesOn
  <1>4. CASE c.is = "stop" /\ Goes(u, Answered(u))
    <2> DEFINE d == [cli[u] EXCEPT !.at = "kill"]
    <2>1. d \in Command /\ d.is = "stop" /\ d.at = "kill" /\ d.record = c.record
      BY <1>1, <1>4 DEF Command
    <2>2. Goes(u, d)
      BY <1>4 DEF Answered
    <2> HIDE DEF d
    <2>3. Sane(d) /\ (u # r => Asks(d)) /\ (u = r => Knows(d))
      BY <1>1, <1>4, <2>1, NoneIsNone DEF Sane, Asks, Knows, Outcomes
    <2>4. QED
      BY <1>1, <2>1, <2>2, <2>3, GoesOn
  <1>5. CASE c.is \in {"start", "status", "ask"} /\ Goes(u, Answered(u))
    BY <1>2, <1>5 DEF Answered
  <1>6. QED
    BY <1>1, <1>2, <1>3, <1>4, <1>5 DEF Reply

\* The commands that end because no daemon is left.
LEMMA EndSteps ==
    ASSUME NEW r \in Users, OneRules(r), DaemonInv(r), NEW u \in Users,
           StartGivesUp(u) \/ StopDone(u) \/ ServeEnds(u)
    PROVE  /\ CommandRespects(r, u)
           /\ u = r /\ \A p \in Pids : ~IsDaemon(p)
  <1> USE DEF DaemonInv
  <1>1. /\ cli[u].is \in {"wait", "gone", "serve"} /\ proc[cli[u].pid].is \notin Daemon
        /\ UNCHANGED <<file, proc, orphaned>>
    BY DEF StartGivesUp, StopDone, ServeEnds, OneRules
  <1>2. u = r /\ \A p \in Pids : ~IsDaemon(p)
    BY <1>1 DEF Asks, Knows, IsDaemon, Outcomes
  <1>3. Settled
    BY <1>2 DEF Settled
  <1>4. Goes(u, Ended("ok")) \/ Goes(u, Ended("failed"))
    BY DEF StartGivesUp, StopDone, ServeEnds
  <1>5. QED
    BY <1>1, <1>2, <1>3, <1>4, EndOf, GoesOn DEF Outcomes


\* The ruling shell starts a daemon where there is none.
LEMMA NewDaemon ==
    ASSUME NEW r \in Users, DaemonInv(r), NEW p \in Pids, Spawned(p),
           \A q \in Pids : ~IsDaemon(q), UNCHANGED <<file, orphaned>>,
           NEW d \in Command, Goes(r, d), d.is \in {"wait", "serve"}, d.pid = p,
           d.at \in {"read", None}, Sane(d)
    PROVE  DaemonInv(r)'
  <1> USE DEF DaemonInv
  <1>1. /\ proc' \in [Pids -> Process] /\ proc'[p].is = "settings"
        /\ \A q \in Pids : q # p => proc'[q] = proc[q]
    BY Moved DEF Spawned, Daemon
  <1>2. /\ cli' \in [Users -> Command] /\ cli'[r] = d
        /\ \A v \in Users : v # r => cli'[v] = cli[v]
    BY DEF Goes, Shaped
  <1>3. Shaped'
    BY <1>1, <1>2 DEF Shaped
  <1>4. \A q \in Pids : IsDaemon(q)' => q = p
    BY <1>1 DEF IsDaemon
  <1>5. AtMostOne'
    BY <1>4 DEF AtMostOne
  <1>6. FileIsTheirs'
    BY <1>1, <1>4 DEF FileIsTheirs, IsDaemon, Named, Daemon
  <1>7. FileHasOwner'
    BY DEF FileHasOwner, IsDaemon, Named, Daemon, Shaped
  <1>8. Knows(cli[r])'
    BY <1>2, <1>4, NoneIsNone DEF Knows, Outcomes
  <1>9. \A v \in Users : Sane(cli[v])' /\ (v # r => Asks(cli[v])')
    BY <1>2 DEF Sane, Asks
  <1>10. QED
    BY <1>3, <1>5, <1>6, <1>7, <1>8, <1>9

LEMMA TypeServeSteps ==
    ASSUME NEW r \in Users, OneRules(r), DaemonInv(r), NEW u \in Users, TypeServe(u)
    PROVE  DaemonInv(r)'
  <1>1. u = r /\ (\A q \in Pids : ~IsDaemon(q)) /\ UNCHANGED <<file, orphaned>>
    BY DEF TypeServe, OneRules, IsDaemon
  <1>2. PICK p \in Pids : Spawned(p) /\ Goes(r, [Ended("serve") EXCEPT !.pid = p])
    BY <1>1 DEF TypeServe
  <1> DEFINE d == [is |-> "serve", at |-> None, pid |-> p, record |-> None, met |-> None]
  <1>3. d \in Command
    BY DEF Command
  <1>4. Goes(r, d)
    BY <1>2 DEF Ended
  <1>5. d.is = "serve" /\ d.at = None /\ d.pid = p /\ Sane(d)
    BY NoneIsNone DEF Sane
  <1> HIDE DEF d
  <1>6. QED
    BY <1>1, <1>2, <1>3, <1>4, <1>5, NewDaemon

LEMMA StartSpawnsSteps ==
    ASSUME NEW r \in Users, DaemonInv(r), NEW u \in Users, StartSpawns(u)
    PROVE  DaemonInv(r)'
  <1>1. /\ u = r /\ UNCHANGED <<file, orphaned>>
        /\ \A q \in Pids : ~IsDaemon(q)
    BY DEF StartSpawns, DaemonInv, Asks, Knows, Outcomes
  <1>2. PICK p \in Pids :
           Spawned(p) /\ Goes(r, [Ended("wait") EXCEPT !.at = "read", !.pid = p])
    BY <1>1 DEF StartSpawns
  <1> DEFINE e == Ended("wait")
             d == [e EXCEPT !.at = "read", !.pid = p]
  <1>3. e \in Command /\ e.is = "wait"
    BY DEF Ended, Command
  <1> HIDE DEF e
  <1>4. d \in Command /\ d.is = "wait" /\ d.at = "read" /\ d.pid = p
    BY <1>3 DEF Command
  <1>5. Goes(r, d)
    BY <1>2 DEF e
  <1> HIDE DEF d
  <1>6. Sane(d)
    BY <1>4, NoneIsNone DEF Sane
  <1>7. QED
    BY <1>1, <1>2, <1>4, <1>5, <1>6, NewDaemon

\* stop hits the daemon that it read of, or a stranger that has its pid by now.
LEMMA StopKillsSteps ==
    ASSUME NEW r \in Users, DaemonInv(r), NEW u \in Users, StopKills(u)
    PROVE  DaemonInv(r)'
  <1> DEFINE c == cli[u]
             p == c.record.pid
  <1> USE DEF DaemonInv
  <1>1. /\ u = r /\ c \in Command /\ c.is = "stop" /\ c.at = "kill" /\ c.record \in File
        /\ Settled /\ UNCHANGED <<file, orphaned>> /\ Shaped
    BY NoneIsNone DEF StopKills, Sane, Asks, Knows, Outcomes, Shaped, Command
  <1>2. p \in Pids /\ \A q \in Pids : IsDaemon(q) => q = p
    <2>1. p \in Pids
      BY <1>1 DEF File
    <2>2. \A q \in Pids : IsDaemon(q) => c.record = [pid |-> q, port |-> proc[q].port]
      BY <1>1 DEF Knows
    <2>3. ASSUME NEW q \in Pids, IsDaemon(q) PROVE q = p
      <3>1. c.record = [pid |-> q, port |-> proc[q].port]
        BY <2>2, <2>3
      <3>2. c.record.pid = q
        BY <3>1
      <3>3. QED
        BY <3>2
    <2>4. QED
      BY <2>1, <2>3
  <1>3. CASE ~alive(p)
    <2>1. Goes(u, Ended("error")) /\ UNCHANGED proc
      BY <1>3 DEF StopKills
    <2>2. CommandRespects(r, u)
      BY <1>1, <2>1, EndOf, GoesOn DEF Outcomes
    <2>3. QED
      BY <2>2, RespectfulCommand
  <1>4. CASE alive(p)
    <2> DEFINE d == [is |-> "gone", at |-> None, pid |-> p, record |-> None, met |-> None]
    <2>1. d \in Command /\ d.is = "gone" /\ d.at = None /\ d.pid = p /\ Sane(d)
      BY <1>2, NoneIsNone DEF Command, Sane
    <2>2. Terminated(p) /\ Goes(r, d)
      BY <1>1, <1>4 DEF StopKills, Ended
    <2> HIDE DEF d
    <2>3. /\ cli' \in [Users -> Command] /\ cli'[r] = d
          /\ \A v \in Users : v # r => cli'[v] = cli[v]
      BY <1>1, <2>1, <2>2 DEF Goes, Shaped
    <2>4. /\ proc' \in [Pids -> Process]
          /\ Caught(p) => proc'[p].is = "cleanup" /\ proc'[p].port = proc[p].port
          /\ ~Caught(p) => proc'[p].is = "free"
          /\ \A q \in Pids : q # p => proc'[q] = proc[q]
      BY <1>1, <1>2, <2>2, Told
    <2>5. Shaped'
      BY <1>1, <2>3, <2>4 DEF Shaped
    <2>6. Caught(p) \/ ~IsDaemon(p)
      BY <1>1, <1>2 DEF Settled, Caught, Serving
    <2>7. \A q \in Pids : IsDaemon(q)' => IsDaemon(q) /\ q = p /\ proc'[q].is = "cleanup"
      <3>1. \A q \in Pids : q # p => ~IsDaemon(q)'
        BY <1>2, <2>4 DEF IsDaemon
      <3>2. proc'[p].is \in Daemon => IsDaemon(p) /\ proc'[p].is = "cleanup"
        BY <2>4, <2>6 DEF IsDaemon, Caught, Daemon
      <3>3. ASSUME NEW q \in Pids, IsDaemon(q)'
            PROVE  IsDaemon(q) /\ q = p /\ proc'[q].is = "cleanup"
        <4>1. q = p
          BY <3>1, <3>3
        <4>2. proc'[p].is \in Daemon
          BY <3>3, <4>1 DEF IsDaemon
        <4>3. QED
          BY <3>2, <4>1, <4>2
      <3>4. QED
        BY <3>3
    <2>8. AtMostOne' /\ FileIsTheirs'
      <3>1. AtMostOne'
        BY <2>7 DEF AtMostOne
      <3>2. p \in Pids /\ (IsDaemon(p) => proc'[p].port = proc[p].port)
        BY <1>2, <2>4, <2>6
      <3>3. proc[p].is \in {"bind", "serving"} => proc[p].port \in Ports
        BY <3>2 DEF FileIsTheirs, Daemon
      <3>4. ASSUME NEW q \in Pids, proc'[q].is \in Daemon
            PROVE  proc'[q].is = "cleanup" /\ proc'[q].port \in Ports
        <4>1. IsDaemon(q) /\ q = p /\ proc'[q].is = "cleanup"
          BY <2>7, <3>4 DEF IsDaemon
        <4>2. QED
          BY <2>6, <3>2, <3>3, <4>1 DEF Caught
      <3>5. FileIsTheirs'
        BY <3>4 DEF FileIsTheirs, Named, Daemon
      <3>6. QED
        BY <3>1, <3>5
    <2>9. FileHasOwner'
      <3>1. SUFFICES ASSUME file # None, ~orphaned
                     PROVE  proc'[file.pid].is \in Named \cup {"cleanup"}
        BY <1>1 DEF FileHasOwner
      <3>2. file.pid \in Pids /\ proc[file.pid].is \in Named \cup {"cleanup"}
        BY <1>1, <3>1 DEF FileHasOwner, Shaped
      <3>3. IsDaemon(file.pid)
        BY <3>2 DEF IsDaemon, Named, Daemon
      <3>4. file.pid = p
        BY <1>2, <3>2, <3>3
      <3>5. QED
        BY <2>4, <2>6, <3>3, <3>4
    <2>10. Knows(cli[r])'
      BY <1>2, <2>1, <2>3, <2>7, NoneIsNone DEF Knows, Outcomes
    <2>11. \A v \in Users : Sane(cli[v])' /\ (v # r => Asks(cli[v])')
      BY <2>1, <2>3 DEF Sane, Asks
    <2>12. QED
      BY <2>5, <2>8, <2>9, <2>10, <2>11
  <1>5. QED
    BY <1>3, <1>4

-----------------------------------------------------------------------------
(* The invariant.                                                           *)

LEMMA DaemonInvAtFirst ==
    ASSUME NEW r \in Users, DaemonInit
    PROVE  DaemonInv(r)
  <1>1. Free \in Process /\ Free.is = "free"
    BY DEF Free, Process
  <1>2. /\ file = None /\ orphaned = FALSE
        /\ proc \in [Pids -> Process] /\ \A p \in Pids : proc[p].is = "free"
    BY <1>1 DEF DaemonInit
  <1>3. /\ Ended("ok") \in Command /\ Sane(Ended("ok")) /\ Asks(Ended("ok"))
        /\ Settled => Knows(Ended("ok"))
    BY EndOf DEF Outcomes
  <1>4. cli \in [Users -> Command] /\ \A u \in Users : cli[u] = Ended("ok")
    BY <1>3 DEF DaemonInit
  <1>5. Shaped
    BY <1>2, <1>4 DEF Shaped
  <1>6. \A p \in Pids : ~IsDaemon(p)
    BY <1>2 DEF IsDaemon, Daemon
  <1>7. AtMostOne /\ FileIsTheirs /\ FileHasOwner /\ Settled
    BY <1>2, <1>6 DEF AtMostOne, FileIsTheirs, FileHasOwner, Settled, IsDaemon, Named, Daemon
  <1>8. QED
    BY <1>3, <1>4, <1>5, <1>7 DEF DaemonInv

LEMMA DaemonInvKept ==
    ASSUME NEW r \in Users, OneRules(r), DaemonInv(r), [DaemonNext]_daemonVars, ~misled'
    PROVE  DaemonInv(r)'
  <1>1. CASE UNCHANGED daemonVars
    <2>1. CommandRespects(r, r)
      BY <1>1 DEF daemonVars, CommandRespects, DaemonInv, Shaped
    <2>2. QED
      BY <2>1, RespectfulCommand
  <1>2. ASSUME NEW u \in Users,
               \E c \in {"start", "stop", "status", "ask"} : Type(u, c)
        PROVE  DaemonInv(r)'
    BY <1>2, TypeSteps, RespectfulCommand
  <1>3. ASSUME NEW u \in Users, Interrupt(u)
        PROVE  DaemonInv(r)'
    BY <1>3, InterruptRespects, RespectfulProcess
  <1>4. ASSUME NEW u \in Users, RunCommand(u)
        PROVE  DaemonInv(r)'
    <2>1. CASE Settings(u) \/ Connect(u) \/ Reply(u)
      BY <2>1, SettingsSteps, ConnectSteps, ReplySteps, RespectfulCommand
    <2>2. CASE StartGivesUp(u) \/ StopDone(u) \/ ServeEnds(u)
      BY <2>2, EndSteps, RespectfulCommand
    <2>3. CASE StartSpawns(u) \/ StopKills(u)
      BY <2>3, StartSpawnsSteps, StopKillsSteps
    <2>4. QED
      BY <1>4, <2>1, <2>2, <2>3 DEF RunCommand
  <1>5. ASSUME NEW p \in Pids,
               Serve(p) \/ Killed(p) \/ StrangerStarts(p) \/ StrangerEnds(p)
        PROVE  DaemonInv(r)'
    BY <1>5, DaemonSteps, RespectfulProcess
  <1>6. CASE DaemonNext
    BY <1>2, <1>3, <1>4, <1>5, <1>6, TypeServeSteps DEF DaemonNext
  <1>7. QED
    BY <1>1, <1>6

\* A start that was misled remains so.
LEMMA OnceMisled ==
    ASSUME misled, [DaemonNext]_daemonVars
    PROVE  misled'
  <1>1. ASSUME NEW u \in Users,
               \/ \E c \in {"start", "stop", "status", "ask"} : Type(u, c)
               \/ TypeServe(u) \/ Interrupt(u) \/ RunCommand(u)
        PROVE  misled'
    BY <1>1 DEF Type, TypeServe, Interrupt, RunCommand, Settings, Connect, Reply, StartSpawns,
                StartGivesUp, StopKills, StopDone, ServeEnds
  <1>2. ASSUME NEW p \in Pids,
               Serve(p) \/ Killed(p) \/ StrangerStarts(p) \/ StrangerEnds(p)
        PROVE  misled'
    BY <1>2 DEF Serve, ReadSettings, OpenPool, Truncate, WriteFile, InstallHandler, PrintBanner,
                Bind, Cleanup, Killed, StrangerStarts, StrangerEnds
  <1>3. QED
    BY <1>1, <1>2 DEF DaemonNext, daemonVars

LEMMA DaemonInvHolds ==
    ASSUME NEW r \in Users, OneRules(r)
    PROVE  DaemonSpec => [](misled \/ DaemonInv(r))
  <1>1. DaemonInit => DaemonInv(r)
    BY DaemonInvAtFirst
  <1>2. (misled \/ DaemonInv(r)) /\ [DaemonNext]_daemonVars => (misled \/ DaemonInv(r))'
    BY DaemonInvKept, OnceMisled
  <1>3. QED
    BY <1>1, <1>2, PTL DEF DaemonSpec

-----------------------------------------------------------------------------
(* The types, whoever rules and whoever is misled.                          *)

\* What a command knows at each of its steps.
Formed(c) ==
    /\ c.is \in {"wait", "gone", "serve"} => c.pid \in Pids
    /\ c.at # None => c.is \in {"start", "wait", "stop", "status", "ask"}
    /\ c.at = "kill" => c.record # None
    /\ c.at = "reply" => c.record # None

Ported(v) == v.is \in Daemon \ {"settings", "open"} => v.port \in Ports

Typed ==
    /\ DaemonTypeOK
    /\ \A p \in Pids : Ported(proc[p])
    /\ \A u \in Users : Formed(cli[u])

LEMMA TypedCommand ==
    ASSUME Typed, NEW u \in Users, NEW d \in Command, Formed(d), Goes(u, d),
           UNCHANGED <<file, orphaned>>, misled' \in BOOLEAN,
           \/ UNCHANGED proc
           \/ \E p \in Pids, v \in Process : Ported(v) /\ proc' = [proc EXCEPT ![p] = v]
    PROVE  Typed'
  <1>1. cli' \in [Users -> Command] /\ \A w \in Users : Formed(cli'[w])
    BY DEF Typed, DaemonTypeOK, Goes
  <1>2. proc' \in [Pids -> Process] /\ \A p \in Pids : Ported(proc'[p])
    BY DEF Typed, DaemonTypeOK
  <1>3. file' = file /\ orphaned' = orphaned
    OBVIOUS
  <1>4. DaemonTypeOK'
    BY <1>1, <1>2, <1>3 DEF Typed, DaemonTypeOK
  <1>5. QED
    BY <1>1, <1>2, <1>4 DEF Typed, Formed, Ported

LEMMA TypedProcess ==
    ASSUME Typed, NEW p \in Pids, NEW v \in Process, Ported(v), proc' = [proc EXCEPT ![p] = v],
           UNCHANGED <<cli, misled>>, orphaned' \in BOOLEAN,
           file' \in [pid : Pids, port : Ports] \cup {None}
    PROVE  Typed'
  <1>1. proc' \in [Pids -> Process] /\ \A q \in Pids : Ported(proc'[q])
    BY DEF Typed, DaemonTypeOK
  <1>2. DaemonTypeOK'
    BY <1>1 DEF Typed, DaemonTypeOK
  <1>3. QED
    BY <1>1, <1>2 DEF Typed, Formed, Ported

\* What a process becomes.
LEMMA Becomes ==
    ASSUME NEW v \in Process
    PROVE  /\ \A to \in {"free", "stranger"} \cup Daemon :
                 /\ [v EXCEPT !.is = to] \in Process
                 /\ [v EXCEPT !.is = to].is = to /\ [v EXCEPT !.is = to].port = v.port
           /\ Free \in Process /\ Ported(Free)
  BY DEF Process, Free, Ported, Daemon

LEMMA EndIsFormed ==
    ASSUME NEW outcome \in Outcomes
    PROVE  Ended(outcome) \in Command /\ Formed(Ended(outcome))
  BY NoneIsNone DEF Ended, Command, Formed, Outcomes

\* A process that goes on, its port as it was.
LEMMA TypedMove ==
    ASSUME Typed, NEW p \in Pids, NEW to \in {"free", "stranger"} \cup Daemon,
           proc[p].is \in {"settings", "open"} => to \in {"settings", "open", "free"},
           proc[p].is \notin Daemon => to \notin Daemon \ {"settings"},
           proc' = [proc EXCEPT ![p].is = to]
    PROVE  \E v \in Process : Ported(v) /\ proc' = [proc EXCEPT ![p] = v]
  <1> DEFINE v == [proc[p] EXCEPT !.is = to]
  <1>1. proc[p] \in Process /\ Ported(proc[p])
    BY DEF Typed, DaemonTypeOK
  <1>2. v \in Process /\ v.is = to /\ v.port = proc[p].port
    BY <1>1, Becomes
  <1>3. proc' = [proc EXCEPT ![p] = v]
    OBVIOUS
  <1> HIDE DEF v
  <1>4. Ported(v)
    BY <1>1, <1>2 DEF Ported, Daemon
  <1>5. QED
    BY <1>2, <1>3, <1>4

LEMMA TypedTerminated ==
    ASSUME Typed, NEW p \in Pids, Terminated(p)
    PROVE  \E v \in Process : Ported(v) /\ proc' = [proc EXCEPT ![p] = v]
  <1>1. proc[p] \in Process /\ Ported(proc[p])
    BY DEF Typed, DaemonTypeOK
  <1>2. CASE Caught(p)
    <2> DEFINE v == [proc[p] EXCEPT !.is = "cleanup"]
    <2>1. v \in Process /\ v.port = proc[p].port
      BY <1>1, Becomes DEF Daemon
    <2>2. Ported(v)
      BY <1>1, <1>2, <2>1 DEF Ported, Caught, Daemon
    <2>3. proc' = [proc EXCEPT ![p] = v]
      BY <1>1, <1>2 DEF Terminated, Typed, DaemonTypeOK
    <2>4. QED
      BY <2>1, <2>2, <2>3
  <1>3. CASE ~Caught(p)
    BY <1>1, <1>3, Becomes DEF Terminated
  <1>4. QED
    BY <1>2, <1>3

LEMMA TypedServe ==
    ASSUME Typed, NEW p \in Pids,
           Serve(p) \/ Killed(p) \/ StrangerStarts(p) \/ StrangerEnds(p)
    PROVE  Typed'
  <1>1. proc[p] \in Process /\ Ported(proc[p]) /\ DaemonTypeOK
    BY DEF Typed, DaemonTypeOK
  <1>2. CASE ReadSettings(p)
    <2> DEFINE port == IF file = None THEN None ELSE file.port
               v == [proc[p] EXCEPT !.is = "open", !.port = port]
    <2>1. port \in Ports \cup {None}
      BY <1>1 DEF DaemonTypeOK
    <2> HIDE DEF port
    <2>2. v \in Process /\ Ported(v)
      BY <1>1, <2>1 DEF Process, Daemon, Ported
    <2>3. proc' = [proc EXCEPT ![p] = v]
      BY <1>1, <1>2 DEF ReadSettings, DaemonTypeOK, port
    <2> HIDE DEF v
    <2>4. QED
      BY <1>1, <1>2, <2>2, <2>3, TypedProcess DEF ReadSettings, DaemonTypeOK
  <1>3. ASSUME NEW port \in Ports,
               proc' = [proc EXCEPT ![p].is = "truncate", ![p].port = port],
               UNCHANGED <<file, cli, orphaned, misled>>
        PROVE  Typed'
    <2> DEFINE v == [proc[p] EXCEPT !.is = "truncate", !.port = port]
    <2>1. v \in Process /\ Ported(v)
      BY <1>1 DEF Process, Daemon, Ported
    <2>2. proc' = [proc EXCEPT ![p] = v]
      BY <1>1, <1>3 DEF DaemonTypeOK
    <2> HIDE DEF v
    <2>3. QED
      BY <1>1, <1>3, <2>1, <2>2, TypedProcess DEF DaemonTypeOK
  <1>4. ASSUME Ends(p), UNCHANGED <<cli, misled>>, orphaned' \in BOOLEAN, file' \in {file, None}
        PROVE  Typed'
    <2>1. Free \in Process /\ Ported(Free) /\ proc' = [proc EXCEPT ![p] = Free]
      BY <1>1, <1>4, Becomes DEF Ends
    <2>2. file' \in [pid : Pids, port : Ports] \cup {None}
      BY <1>1, <1>4 DEF DaemonTypeOK
    <2>3. QED
      BY <1>4, <2>1, <2>2, TypedProcess
  <1>5. ASSUME NEW from \in Daemon \ {"settings", "open"}, NEW to \in Daemon,
               Moves(p, from, to), UNCHANGED <<cli, misled>>, orphaned' \in BOOLEAN,
               file' \in {file, None, [pid |-> p, port |-> proc[p].port]}
        PROVE  Typed'
    <2>1. PICK v \in Process : Ported(v) /\ proc' = [proc EXCEPT ![p] = v]
      BY <1>5, TypedMove DEF Moves
    <2>2. proc[p].port \in Ports
      BY <1>1, <1>5 DEF Moves, Ported
    <2>3. file' \in [pid : Pids, port : Ports] \cup {None}
      BY <1>1, <1>5, <2>2 DEF DaemonTypeOK
    <2>4. QED
      BY <1>5, <2>1, <2>3, TypedProcess
  <1>6. CASE OpenPool(p)
    BY <1>1, <1>3, <1>4, <1>6 DEF OpenPool, DaemonTypeOK
  <1>7. CASE Truncate(p) \/ WriteFile(p) \/ InstallHandler(p) \/ PrintBanner(p)
    BY <1>1, <1>5, <1>7
    DEF Truncate, WriteFile, InstallHandler, PrintBanner, DaemonTypeOK, Daemon
  <1>8. CASE Bind(p)
    <2>1. PICK to \in {"cleanup", "serving"} : Moves(p, "bind", to)
      BY <1>8 DEF Bind
    <2>2. QED
      BY <1>1, <1>5, <1>8, <2>1 DEF Bind, DaemonTypeOK, Daemon
  <1>9. CASE Cleanup(p) \/ Killed(p) \/ StrangerEnds(p)
    BY <1>1, <1>4, <1>9 DEF Cleanup, Killed, Names, StrangerEnds, DaemonTypeOK
  <1>10. CASE StrangerStarts(p)
    <2>1. PICK port \in Ports \cup {None} :
             proc' = [proc EXCEPT ![p] = [is |-> "stranger", port |-> port]]
      BY <1>10 DEF StrangerStarts
    <2>2. [is |-> "stranger", port |-> port] \in Process /\ Ported([is |-> "stranger", port |-> port])
      BY DEF Process, Ported, Daemon
    <2>3. QED
      BY <1>1, <1>10, <2>1, <2>2, TypedProcess DEF StrangerStarts, DaemonTypeOK
  <1>11. QED
    BY <1>2, <1>6, <1>7, <1>8, <1>9, <1>10 DEF Serve

LEMMA TypedInterrupt ==
    ASSUME Typed, NEW u \in Users, Interrupt(u)
    PROVE  Typed'
  <1>1. cli[u].pid \in Pids
    BY DEF Interrupt, Typed, Formed
  <1>2. PICK v \in Process : Ported(v) /\ proc' = [proc EXCEPT ![cli[u].pid] = v]
    BY <1>1, TypedTerminated DEF Interrupt
  <1>3. QED
    BY <1>1, <1>2, TypedProcess DEF Interrupt, Typed, DaemonTypeOK, Names

LEMMA TypedRun ==
    ASSUME Typed, NEW u \in Users,
           \/ \E c \in {"start", "stop", "status", "ask"} : Type(u, c)
           \/ TypeServe(u) \/ RunCommand(u)
    PROVE  Typed'
  <1> DEFINE c == cli[u]
  <1>1. c \in Command /\ Formed(c) /\ DaemonTypeOK
    BY DEF Typed, DaemonTypeOK
  <1>2. ASSUME NEW command \in {"start", "stop", "status", "ask"}, Type(u, command)
        PROVE  Typed'
    <2> DEFINE d == [is |-> command, at |-> "read", pid |-> None, record |-> None, met |-> None]
    <2>1. d \in Command /\ Formed(d)
      BY NoneIsNone DEF Command, Formed
    <2>2. Goes(u, d)
      BY <1>2 DEF Type, Ended
    <2> HIDE DEF d
    <2>3. QED
      BY <1>1, <1>2, <2>1, <2>2, TypedCommand DEF Type, DaemonTypeOK
  <1>3. ASSUME NEW p \in Pids, Spawned(p)
        PROVE  \E v \in Process : Ported(v) /\ proc' = [proc EXCEPT ![p] = v]
    BY <1>3, TypedMove DEF Spawned, alive, Daemon
  <1>4. CASE TypeServe(u)
    <2>1. PICK p \in Pids : Spawned(p) /\ Goes(u, [Ended("serve") EXCEPT !.pid = p])
      BY <1>4 DEF TypeServe
    <2> DEFINE d == [is |-> "serve", at |-> None, pid |-> p, record |-> None, met |-> None]
    <2>2. d \in Command /\ Formed(d) /\ Goes(u, d)
      BY <2>1, NoneIsNone DEF Ended, Command, Formed
    <2> HIDE DEF d
    <2>3. QED
      BY <1>1, <1>3, <1>4, <2>1, <2>2, TypedCommand DEF TypeServe, DaemonTypeOK
  <1>5. CASE StartSpawns(u)
    <2>1. PICK p \in Pids :
             Spawned(p) /\ Goes(u, [Ended("wait") EXCEPT !.at = "read", !.pid = p])
      BY <1>5 DEF StartSpawns
    <2> DEFINE e == Ended("wait")
               d == [e EXCEPT !.at = "read", !.pid = p]
    <2>0. e \in Command /\ e.is = "wait"
      BY DEF Ended, Command
    <2> HIDE DEF e
    <2>2. d \in Command /\ Formed(d) /\ Goes(u, d)
      <3>1. d \in Command /\ d.is = "wait" /\ d.at = "read" /\ d.pid = p
        BY <2>0 DEF Command
      <3>2. Goes(u, d)
        BY <2>1 DEF e
      <3> HIDE DEF d
      <3>3. QED
        BY <3>1, <3>2 DEF Formed
    <2> HIDE DEF d
    <2>3. QED
      BY <1>1, <1>3, <1>5, <2>1, <2>2, TypedCommand DEF StartSpawns, DaemonTypeOK
  <1>6. ASSUME NEW d \in Command, Formed(d), Goes(u, d), UNCHANGED <<file, proc, orphaned>>,
               misled' \in BOOLEAN
        PROVE  Typed'
    BY <1>6, TypedCommand
  <1>7. CASE StartGivesUp(u) \/ StopDone(u) \/ ServeEnds(u)
    BY <1>1, <1>6, <1>7, EndIsFormed DEF StartGivesUp, StopDone, ServeEnds, Outcomes, DaemonTypeOK
  <1>8. CASE Settings(u)
    <2>1. PICK m \in File \cup {None} :
             Goes(u, [cli[u] EXCEPT !.at = "connect", !.record = file, !.met = m])
      BY <1>8 DEF Settings
    <2> DEFINE d == [cli[u] EXCEPT !.at = "connect", !.record = file, !.met = m]
    <2>2. d \in Command /\ d.is = c.is /\ d.at = "connect" /\ d.pid = c.pid
      BY <1>1 DEF Command, DaemonTypeOK, File
    <2>3. Goes(u, d)
      BY <2>1
    <2> HIDE DEF d
    <2>4. c.at # None
      BY <1>8, NoneIsNone DEF Settings
    <2>5. Formed(d)
      BY <1>1, <2>2, <2>4 DEF Formed
    <2>6. QED
      BY <1>1, <1>6, <1>8, <2>2, <2>3, <2>5 DEF Settings, DaemonTypeOK
  <1>9. ASSUME NEW at \in {"reply", "kill", "read"}, c.at # None,
               at # "read" => c.record # None
        PROVE  [c EXCEPT !.at = at] \in Command /\ Formed([c EXCEPT !.at = at])
    <2> DEFINE d == [c EXCEPT !.at = at]
    <2>1. d \in Command /\ d.is = c.is /\ d.at = at /\ d.pid = c.pid /\ d.record = c.record
      BY <1>1 DEF Command
    <2> HIDE DEF d
    <2>2. Formed(d)
      BY <1>1, <1>9, <2>1 DEF Formed
    <2>3. QED
      BY <2>1, <2>2 DEF d
  <1>10. ASSUME c.at = "connect"
         PROVE  Unanswered(u) \in Command /\ Formed(Unanswered(u))
    <2>1. c.at # None /\ c.is \in {"start", "wait", "stop", "status", "ask"}
      BY <1>1, <1>10, NoneIsNone DEF Formed
    <2>2. CASE c.is = "start"
      <3> DEFINE d == [c EXCEPT !.is = "spawn", !.at = None]
      <3>1. d \in Command /\ d.is = "spawn" /\ d.at = None
        BY <1>1 DEF Command
      <3>2. Unanswered(u) = d
        BY <2>2 DEF Unanswered
      <3> HIDE DEF d
      <3>3. QED
        BY <3>1, <3>2, NoneIsNone DEF Formed
    <2>3. CASE c.is = "wait"
      BY <1>9, <2>1, <2>3 DEF Unanswered
    <2>4. CASE c.is \in {"status", "ask"}
      BY <2>4, EndIsFormed DEF Unanswered, Outcomes
    <2>5. CASE c.is = "stop" /\ c.record # None /\ alive(c.record.pid)
      BY <1>9, <2>1, <2>5 DEF Unanswered
    <2>6. CASE c.is = "stop" /\ ~(c.record # None /\ alive(c.record.pid))
      BY <2>6, EndIsFormed DEF Unanswered, Outcomes
    <2>7. QED
      BY <2>1, <2>2, <2>3, <2>4, <2>5, <2>6
  <1>11. CASE Connect(u)
    <2>1. c.at = "connect" /\ c.at # None /\ UNCHANGED <<file, proc, orphaned>>
      BY <1>11, NoneIsNone DEF Connect
    <2>2. misled' \in BOOLEAN
      BY <1>1, <1>11 DEF Connect, DaemonTypeOK
    <2>3. CASE Asking(c) /\ Goes(u, [c EXCEPT !.at = "reply"])
      BY <1>6, <1>9, <2>1, <2>2, <2>3 DEF Asking
    <2>4. CASE Goes(u, Unanswered(u))
      BY <1>6, <1>10, <2>1, <2>2, <2>4
    <2>5. QED
      BY <1>11, <2>3, <2>4 DEF Connect
  <1>12. CASE Reply(u)
    <2>1. /\ c.at = "reply" /\ c.at # None /\ UNCHANGED <<file, proc, orphaned>>
          /\ c.record # None /\ misled' \in BOOLEAN
          /\ c.is \in {"start", "wait", "stop", "status", "ask"}
      BY <1>1, <1>12, NoneIsNone DEF Reply, DaemonTypeOK, Formed
    <2>2. CASE Goes(u, Ended("ok")) \/ Goes(u, Ended("error"))
      BY <1>6, <2>1, <2>2, EndIsFormed DEF Outcomes
    <2>3. CASE c.is \in {"start", "status", "ask"} /\ Goes(u, Answered(u))
      BY <2>2, <2>3 DEF Answered
    <2>4. CASE c.is = "wait" /\ Goes(u, Answered(u))
      <3> DEFINE d == [is |-> "status", at |-> "read", pid |-> None, record |-> None, met |-> None]
      <3>1. d \in Command /\ Formed(d) /\ Goes(u, d)
        BY <2>4, NoneIsNone DEF Answered, Ended, Command, Formed
      <3> HIDE DEF d
      <3>2. QED
        BY <1>6, <2>1, <3>1
    <2>5. CASE c.is = "stop" /\ Goes(u, Answered(u))
      BY <1>6, <1>9, <2>1, <2>5 DEF Answered
    <2>6. QED
      BY <1>12, <2>1, <2>2, <2>3, <2>4, <2>5 DEF Reply
  <1>13. CASE StopKills(u)
    <2> DEFINE p == c.record.pid
    <2>1. c.at = "kill" /\ UNCHANGED <<file, orphaned, misled>>
      BY <1>13 DEF StopKills
    <2>2. p \in Pids
      BY <1>1, <2>1 DEF Formed, Command, File
    <2>3. CASE ~alive(p)
      BY <1>1, <1>6, <1>13, <2>1, <2>3, EndIsFormed DEF StopKills, Outcomes, DaemonTypeOK
    <2>4. CASE alive(p)
      <3> DEFINE d == [is |-> "gone", at |-> None, pid |-> p, record |-> None, met |-> None]
      <3>1. d \in Command /\ Formed(d)
        BY <2>2, NoneIsNone DEF Command, Formed
      <3>2. Goes(u, d) /\ Terminated(p)
        BY <1>13, <2>4 DEF StopKills, Ended
      <3>3. PICK v \in Process : Ported(v) /\ proc' = [proc EXCEPT ![p] = v]
        BY <2>2, <3>2, TypedTerminated
      <3> HIDE DEF d
      <3>4. misled' \in BOOLEAN
        BY <1>1, <2>1 DEF DaemonTypeOK
      <3>5. QED
        BY <2>1, <2>2, <3>1, <3>2, <3>3, <3>4, TypedCommand
    <2>5. QED
      BY <2>3, <2>4
  <1>14. QED
    BY <1>2, <1>4, <1>5, <1>7, <1>8, <1>11, <1>12, <1>13 DEF RunCommand

\* The file, the processes and the commands have their types, however many shells start and
\* stop daemons.
THEOREM DaemonTypeCorrect == DaemonSpec => []DaemonTypeOK
  <1>1. DaemonInit => Typed
    <2>1. SUFFICES ASSUME DaemonInit PROVE Typed
      OBVIOUS
    <2>2. Free \in Process /\ Ported(Free)
      BY DEF Free, Process, Ported, Daemon
    <2>3. Ended("ok") \in Command /\ Formed(Ended("ok"))
      BY EndIsFormed DEF Outcomes
    <2>4. QED
      BY <2>1, <2>2, <2>3 DEF DaemonInit, Typed, DaemonTypeOK
  <1>2. Typed /\ [DaemonNext]_daemonVars => Typed'
    <2>1. CASE UNCHANGED daemonVars
      BY <2>1 DEF daemonVars, Typed, DaemonTypeOK, Formed, Ported
    <2>2. QED
      BY <2>1, TypedRun, TypedInterrupt, TypedServe DEF DaemonNext
  <1>3. Typed => DaemonTypeOK
    BY DEF Typed
  <1>4. QED
    BY <1>1, <1>2, <1>3, PTL DEF DaemonSpec

-----------------------------------------------------------------------------
(* What the commands may rely on.                                           *)

\* Settings' "one daemon, one file": the daemon that serves is the one the file names, with the
\* port it got, whatever daemons before it were killed, interrupted or stopped, as long as no
\* start was misled.
THEOREM OneDaemonAlwaysHasOneFile ==
    ASSUME NEW r \in Users, OneRules(r)
    PROVE  DaemonSpec => []OneDaemonOneFile
  <1>1. misled \/ DaemonInv(r) => OneDaemonOneFile
    BY DEF DaemonInv, FileIsTheirs, OneDaemonOneFile, Serving, Named
  <1>2. QED
    BY <1>1, DaemonInvHolds, PTL

\* What a step of a shell does to the others, and what a step of a process to all of them.
LEMMA OneAtATime ==
    ASSUME Shaped, DaemonNext, NEW u \in Users, cli'[u] # cli[u]
    PROVE  \/ cli[u].is \in Outcomes
           \/ RunCommand(u)
  <1>1. ASSUME NEW v \in Users, NEW d, Goes(v, d)
        PROVE  u = v
    BY <1>1 DEF Goes, Shaped
  <1>2. ASSUME NEW v \in Users, NEW c \in {"start", "stop", "status", "ask"}, Type(v, c)
        PROVE  cli[u].is \in Outcomes
    BY <1>1, <1>2 DEF Type
  <1>3. ASSUME NEW v \in Users, TypeServe(v)
        PROVE  cli[u].is \in Outcomes
    BY <1>1, <1>3 DEF TypeServe
  <1>4. ASSUME NEW v \in Users, Interrupt(v)
        PROVE  FALSE
    BY <1>4 DEF Interrupt
  <1>5. ASSUME NEW v \in Users, RunCommand(v)
        PROVE  RunCommand(u)
    <2>1. PICK d : Goes(v, d)
      BY <1>5 DEF RunCommand, Settings, Connect, Reply, StartSpawns, StartGivesUp, StopKills,
                  StopDone, ServeEnds
    <2>2. QED
      BY <1>1, <1>5, <2>1
  <1>6. ASSUME NEW p \in Pids,
               Serve(p) \/ Killed(p) \/ StrangerStarts(p) \/ StrangerEnds(p)
        PROVE  FALSE
    BY <1>6 DEF Serve, ReadSettings, OpenPool, Truncate, WriteFile, InstallHandler, PrintBanner,
                Bind, Cleanup, Killed, StrangerStarts, StrangerEnds
  <1>7. QED
    BY <1>2, <1>3, <1>4, <1>5, <1>6 DEF DaemonNext

LEMMA OnlyStopDone ==
    ASSUME NEW r \in Users, DaemonInv(r), DaemonNext, NEW u \in Users,
           cli[u].is = "gone", cli'[u].is # "gone"
    PROVE  StopDone(u)
  <1>1. RunCommand(u)
    BY OneAtATime DEF DaemonInv, Outcomes
  <1>2. cli[u].at = None
    BY NoneIsNone DEF DaemonInv, Sane
  <1>3. QED
    BY <1>1, <1>2, NoneIsNone
    DEF RunCommand, Settings, Connect, Reply, StartSpawns, StartGivesUp, StopKills, ServeEnds

LEMMA OnlyConnect ==
    ASSUME NEW r \in Users, DaemonInv(r), DaemonNext, NEW u \in Users,
           cli[u].at = "connect", cli'[u].at # "connect"
    PROVE  Connect(u)
  <1>1. cli[u].is \in {"start", "wait", "stop", "status", "ask"}
    BY NoneIsNone DEF DaemonInv, Sane
  <1>2. RunCommand(u)
    BY <1>1, OneAtATime DEF DaemonInv, Outcomes
  <1>3. QED
    BY <1>1, <1>2
    DEF RunCommand, Settings, Reply, StartSpawns, StartGivesUp, StopKills, StopDone, ServeEnds

\* Who is not answered does not wait for a reply.
LEMMA UnansweredIsNoReply ==
    ASSUME NEW r \in Users, DaemonInv(r), NEW u \in Users, Connect(u), cli'[u].at = "reply"
    PROVE  Taken(cli[u].record.port)
  <1> DEFINE c == cli[u]
  <1>1. SUFFICES ASSUME ~Taken(c.record.port) PROVE FALSE
    OBVIOUS
  <1>2. /\ c \in Command /\ cli \in [Users -> Command]
        /\ c.is \in {"start", "wait", "stop", "status", "ask"}
    BY NoneIsNone DEF DaemonInv, Shaped, Sane, Connect
  <1>3. cli' = [cli EXCEPT ![u] = Unanswered(u)]
    BY <1>1 DEF Connect, Goes
  <1>4. Unanswered(u).at # "reply"
    <2>1. CASE c.is = "start"
      BY <1>2, <2>1, NoneIsNone DEF Unanswered, Command
    <2>2. CASE c.is = "wait"
      BY <1>2, <2>2 DEF Unanswered, Command
    <2>3. CASE c.is \in {"status", "ask"}
      BY <2>3, NoneIsNone DEF Unanswered, Ended
    <2>4. CASE c.is = "stop"
      BY <1>2, <2>4, NoneIsNone DEF Unanswered, Ended, Command
    <2>5. QED
      BY <1>2, <2>1, <2>2, <2>3, <2>4
  <1>5. QED
    BY <1>2, <1>3, <1>4

\* stop leaves a file only of a daemon that had ended without its cleanup, unless a start was
\* misled.
THEOREM StopAlwaysRemovesTheFile ==
    ASSUME NEW r \in Users, OneRules(r)
    PROVE  DaemonSpec => StopRemovesTheFile
  <1> DEFINE Removes(u) == cli[u].is = "gone" /\ cli'[u].is = "ok" /\ file # None => orphaned \/ misled
  <1>1. (misled \/ DaemonInv(r)) /\ [DaemonNext]_daemonVars => [\A u \in Users : Removes(u)]_daemonVars
    <2>1. SUFFICES ASSUME DaemonInv(r), DaemonNext, NEW u \in Users,
                          cli[u].is = "gone", cli'[u].is = "ok"
                   PROVE  file # None => orphaned
      BY DEF Removes
    <2>2. StopDone(u)
      BY <2>1, OnlyStopDone
    <2>3. \A p \in Pids : ~IsDaemon(p)
      BY <2>1, <2>2, EndSteps
    <2>4. QED
      BY <2>1, <2>3 DEF DaemonInv, FileHasOwner, Shaped, IsDaemon, Named, Daemon
  <1>2. QED
    BY <1>1, DaemonInvHolds, PTL DEF DaemonSpec, StopRemovesTheFile

\* start and status go by no answer but that of the daemon that the file leads to, or of a
\* program at the recorded port, as long as no start was misled.
THEOREM StartIsNeverFooled ==
    ASSUME NEW r \in Users, OneRules(r)
    PROVE  DaemonSpec => StartIsNotFooled
  <1> DEFINE Asked(u) ==
               /\ cli[u].at = "connect" /\ cli'[u].at = "reply"
               /\ cli[u].is \in {"start", "wait", "status"}
               /\ ~misled
               => \/ \E p \in Pids : Serving(p) /\ file = [pid |-> p, port |-> proc[p].port]
                  \/ Foreign(cli[u].record.port)
  <1>1. (misled \/ DaemonInv(r)) /\ [DaemonNext]_daemonVars => [\A u \in Users : Asked(u)]_daemonVars
    <2>1. SUFFICES ASSUME DaemonInv(r), DaemonNext, NEW u \in Users,
                          cli[u].at = "connect", cli'[u].at = "reply",
                          ~Foreign(cli[u].record.port)
                   PROVE  \E p \in Pids : Serving(p) /\ file = [pid |-> p, port |-> proc[p].port]
      BY DEF Asked
    <2>2. Connect(u)
      BY <2>1, OnlyConnect
    <2>3. Health(cli[u].record.port)
      BY <2>1, <2>2, UnansweredIsNoReply DEF Taken
    <2>4. QED
      BY <2>1, <2>3 DEF Health, DaemonInv, FileIsTheirs, Serving, Named
  <1>2. QED
    BY <1>1, DaemonInvHolds, PTL DEF DaemonSpec, StartIsNotFooled

\* A command that finds nobody overlooks no daemon that serves since it read the file.
THEOREM NobodyIsEverOverlooked ==
    ASSUME NEW r \in Users, OneRules(r)
    PROVE  DaemonSpec => NobodyIsOverlooked
  <1> DEFINE Finds(u) ==
               LET m == cli[u].met IN
               /\ cli[u].at = "connect" /\ cli'[u].at \notin {"connect", "reply"}
               /\ m # None /\ ~misled
               => ~(Serving(m.pid) /\ proc[m.pid].port = m.port)
  <1>1. (misled \/ DaemonInv(r)) /\ [DaemonNext]_daemonVars => [\A u \in Users : Finds(u)]_daemonVars
    <2>1. SUFFICES ASSUME DaemonInv(r), DaemonNext, NEW u \in Users,
                          cli[u].at = "connect", cli'[u].at \notin {"connect", "reply"},
                          cli[u].met # None,
                          Serving(cli[u].met.pid), proc[cli[u].met.pid].port = cli[u].met.port
                   PROVE  FALSE
      BY DEF Finds
    <2>2. Connect(u) /\ cli[u] \in Command /\ cli[u].record = cli[u].met
      BY <2>1, OnlyConnect DEF DaemonInv, Shaped, Sane
    <2>3. cli[u].met.pid \in Pids
      BY <2>1, <2>2 DEF Command, File
    <2>4. /\ cli[u].record # None /\ Health(cli[u].record.port)
          /\ alive(cli[u].record.pid)
      BY <2>1, <2>2, <2>3 DEF Health, alive, Serving
    <2>5. cli' = [cli EXCEPT ![u] = [cli[u] EXCEPT !.at = "reply"]]
      BY <2>2, <2>4 DEF Connect, Asking, Goes
    <2>6. cli'[u].at = "reply"
      BY <2>1, <2>2, <2>5 DEF DaemonInv, Shaped, Command
    <2>7. QED
      BY <2>1, <2>6
  <1>2. QED
    BY <1>1, DaemonInvHolds, PTL DEF DaemonSpec, NobodyIsOverlooked
=============================================================================
