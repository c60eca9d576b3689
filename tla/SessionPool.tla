----------------------------- MODULE SessionPool -----------------------------
(***************************************************************************)
(* The session pool: tmuxd/core.py (sessions), tmuxd/session.py and         *)
(* tmuxd/tmux.py over the record store of tmuxd/state.py.                   *)
(*                                                                         *)
(* tmux is the truth about which sessions exist (live); the record store    *)
(* holds what tmux cannot answer.  No lock spans a call: every call is a    *)
(* sequence of tmux commands and file accesses, and the calls of other      *)
(* threads and processes, the sessions' own exits, and tmux commands typed  *)
(* around the library fall between any two of them.  One action is one      *)
(* tmux command (the tmux server runs them one at a time) or one access     *)
(* to the record store; pc[p] names the next one.                           *)
(***************************************************************************)
EXTENDS RecordStore, FiniteSets, Sequences

CONSTANT PoolOps    \* which calls the callers make, see Call

ASSUME PoolAssumption == Ids \subseteq Nat

VARIABLES
    live,       \* live[i]: the creation that i's tmux session stems from, 0 if none
    born,       \* every session ever created, in order: its id, command and creator
    pc,         \* pc[p]: the next step of p's call, or how its last call ended
    req,        \* req[p]: the arguments of p's call
    view,       \* view[p]: the ids p's call still has in hand
    seen        \* seen[p]: the record p's call has read

poolVars == <<live, born, pc, req, view, seen>>
vars == <<storeVars, poolVars>>

\* How a call ends: a handle on a session of the library, a handle that says
\* external=True, a plain return, or the exception it raises.
Outcomes == {"idle", "handle", "external", "done",
             "SessionExists", "NoSuchSession", "TmuxGone", "OSError"}

Opening == {"gen_list", "gen_pick", "create_check", "session_check", "new"}

PCs == Outcomes \cup Opening \cup
       {"attach_read", "touch", "write", "get_check", "get_read",
        "kill_check", "kill_session", "kill_delete",
        "list_live", "list_all", "list_age", "list_delete"}

Ops == {"session", "create", "get", "kill", "sessions", "kill_server"}

\* A session's creator is a caller of the library or, for None, somebody at a shell.
Birth == [id : Ids, cmd : Cmds, by : Procs \cup {None}]

\* auto: the caller gave no id.  mark: how many sessions had been created when a
\* sessions() call asked tmux for its list (nothing the code keeps).
Request == [op : Ops \cup {None}, sid : Ids \cup {None}, cmd : Cmds \cup {None},
            auto : BOOLEAN, mark : Nat]

NoRequest == [op |-> None, sid |-> None, cmd |-> None, auto |-> FALSE, mark |-> 0]

Init ==
    /\ StoreInit
    /\ live = [i \in Ids |-> 0]
    /\ born = <<>>
    /\ pc = [p \in Procs |-> "idle"]
    /\ req = [p \in Procs |-> NoRequest]
    /\ view = [p \in Procs |-> {}]
    /\ seen = [p \in Procs |-> None]

LiveIds == {i \in Ids : live[i] # 0}
Recorded == {i \in Ids : disk[i] # None}

Free(p) == pc[p] \in Outcomes

\* Room for one more creation, counting the calls that may still make one.
Room == Len(born) + Cardinality({p \in Procs : pc[p] \in Opening}) < MaxStamp

\* Some handle on i can exist: only a session that was once there can be held.
Known(i) == \E n \in DOMAIN born : born[n].id = i

Goto(p, step) == pc' = [pc EXCEPT ![p] = step]

Begin(p, step, r) ==
    /\ Free(p)
    /\ r.op \in PoolOps
    /\ Goto(p, step)
    /\ req' = [req EXCEPT ![p] = r]
    /\ view' = [view EXCEPT ![p] = {}]
    /\ seen' = [seen EXCEPT ![p] = None]
    /\ UNCHANGED <<storeVars, live, born>>

FirstCheck(op) == IF op = "create" THEN "create_check" ELSE "session_check"

-----------------------------------------------------------------------------
(* session() and create(): get it or make it.                               *)

CallOpen(p) ==
    /\ Room
    /\ \E op \in {"session", "create"}, i \in Ids \cup {None}, c \in Cmds :
          Begin(p, IF i = None THEN "gen_list" ELSE FirstCheck(op),
                [op |-> op, sid |-> i, cmd |-> c, auto |-> i = None, mark |-> 0])

\* _generate_id asks tmux which ids are live ...
GenerateList(p) ==
    /\ pc[p] = "gen_list"
    /\ view' = [view EXCEPT ![p] = LiveIds]
    /\ Goto(p, "gen_pick")
    /\ UNCHANGED <<storeVars, live, born, req, seen>>

\* slip: the records are left out of what is taken
GeneratePickLiveOnly(p) ==
    LET taken == view[p] IN
    /\ pc[p] = "gen_pick"
    /\ \E i \in Ids \ taken :
          /\ \A j \in Ids \ taken : i <= j
          /\ req' = [req EXCEPT ![p].sid = i]
          /\ Goto(p, FirstCheck(req[p].op))
    /\ view' = [view EXCEPT ![p] = {}]
    /\ UNCHANGED <<storeVars, live, born, seen>>

\* slip: the number of ids taken stands for the first that is free
GeneratePickCounts(p) ==
    LET taken == view[p] \cup Recorded IN
    /\ pc[p] = "gen_pick"
    /\ req' = [req EXCEPT ![p].sid = Cardinality(taken)]
    /\ Goto(p, FirstCheck(req[p].op))
    /\ view' = [view EXCEPT ![p] = {}]
    /\ UNCHANGED <<storeVars, live, born, seen>>

\* ... then the store which are recorded, and counts up to the first that is neither.
\* Bound: a number outside Ids ends the call.
GeneratePick(p) ==
    LET taken == view[p] \cup Recorded IN
    /\ pc[p] = "gen_pick"
    /\ \/ \E i \in Ids \ taken :
             /\ \A j \in Ids \ taken : i <= j
             /\ req' = [req EXCEPT ![p].sid = i]
             /\ Goto(p, FirstCheck(req[p].op))
       \/ Ids \subseteq taken /\ Goto(p, "idle") /\ req' = [req EXCEPT ![p] = NoRequest]
    /\ view' = [view EXCEPT ![p] = {}]
    /\ UNCHANGED <<storeVars, live, born, seen>>

\* slip: create() leaves the check to session()
CreateUnchecked(p) ==
    /\ pc[p] = "create_check"
    /\ Goto(p, "session_check")
    /\ UNCHANGED <<storeVars, live, born, req, view, seen>>

\* create() looks once, and then calls session(), which looks again.
CreateCheck(p) ==
    /\ pc[p] = "create_check"
    /\ Goto(p, IF live[req[p].sid] # 0 THEN "SessionExists" ELSE "session_check")
    /\ UNCHANGED <<storeVars, live, born, req, view, seen>>

SessionCheck(p) ==
    /\ pc[p] = "session_check"
    /\ Goto(p, IF live[req[p].sid] # 0 THEN "attach_read" ELSE "new")
    /\ UNCHANGED <<storeVars, live, born, req, view, seen>>

\* The record of a live session, if it has one; then touch_attached.
AttachRead(p) ==
    /\ pc[p] = "attach_read"
    /\ seen' = [seen EXCEPT ![p] = disk[req[p].sid]]
    /\ StartTouch(p, req[p].sid)
    /\ Goto(p, "touch")
    /\ UNCHANGED <<live, born, req, view>>

\* touch_attached(sid) or what was read before it or the external stand-in.
AttachTouched(p) ==
    /\ pc[p] = "touch"
    /\ Goto(p, IF call[p].kind = "error" THEN "OSError"
               ELSE IF call[p].rec # None \/ seen[p] # None THEN "handle"
               ELSE "external")
    /\ Return(p)
    /\ seen' = [seen EXCEPT ![p] = None]
    /\ UNCHANGED <<live, born, req, view>>

FreshRecord(p) == [created_at |-> Len(born) + 1, cmd |-> req[p].cmd, attached |-> FALSE]

\* slip: the exit status of new-session is not looked at
NewSessionUnchecked(p) ==
    LET i == req[p].sid IN
    /\ pc[p] = "new"
    /\ IF live[i] = 0
       THEN /\ born' = Append(born, [id |-> i, cmd |-> req[p].cmd, by |-> p])
            /\ live' = [live EXCEPT ![i] = Len(born) + 1]
       ELSE UNCHANGED <<born, live>>
    /\ StartWrite(p, i, FreshRecord(p))
    /\ Goto(p, "write")
    /\ UNCHANGED <<req, view, seen>>

\* tmux new-session refuses a name it has; otherwise the session is there, and its record
\* is still to be written.
NewSession(p) ==
    LET i == req[p].sid IN
    /\ pc[p] = "new"
    /\ IF live[i] = 0
       THEN /\ born' = Append(born, [id |-> i, cmd |-> req[p].cmd, by |-> p])
            /\ live' = [live EXCEPT ![i] = Len(born) + 1]
            /\ StartWrite(p, i, FreshRecord(p))
            /\ Goto(p, "write")
       ELSE Goto(p, "TmuxGone") /\ UNCHANGED <<storeVars, born, live>>
    /\ UNCHANGED <<req, view, seen>>

RecordWritten(p) ==
    /\ pc[p] = "write"
    /\ Goto(p, IF call[p].kind = "error" THEN "OSError" ELSE "handle")
    /\ Return(p)
    /\ UNCHANGED <<live, born, req, view, seen>>

-----------------------------------------------------------------------------
(* get(): attach or raise.                                                  *)

CallGet(p) ==
    \E i \in Ids : Begin(p, "get_check", [NoRequest EXCEPT !.op = "get", !.sid = i])

GetCheck(p) ==
    /\ pc[p] = "get_check"
    /\ Goto(p, IF live[req[p].sid] # 0 THEN "get_read" ELSE "NoSuchSession")
    /\ UNCHANGED <<storeVars, live, born, req, view, seen>>

GetRead(p) ==
    /\ pc[p] = "get_read"
    /\ Goto(p, IF disk[req[p].sid] # None THEN "handle" ELSE "external")
    /\ UNCHANGED <<storeVars, live, born, req, view, seen>>

-----------------------------------------------------------------------------
(* Session.kill() and kill_tmux_server().                                   *)

CallKill(p) ==
    \E i \in Ids : /\ Known(i)
                   /\ Begin(p, "kill_check", [NoRequest EXCEPT !.op = "kill", !.sid = i])

\* has-session, and the client count that kill() returns.
KillCheck(p) ==
    /\ pc[p] = "kill_check"
    /\ Goto(p, IF live[req[p].sid] # 0 THEN "kill_session" ELSE "kill_delete")
    /\ UNCHANGED <<storeVars, live, born, req, view, seen>>

\* tmux kill-session fails on a name it no longer has, and run() raises.
KillSession(p) ==
    LET i == req[p].sid IN
    /\ pc[p] = "kill_session"
    /\ IF live[i] # 0
       THEN live' = [live EXCEPT ![i] = 0] /\ Goto(p, "kill_delete")
       ELSE Goto(p, "TmuxGone") /\ UNCHANGED live
    /\ UNCHANGED <<storeVars, born, req, view, seen>>

KillDelete(p) ==
    /\ pc[p] = "kill_delete"
    /\ Delete(req[p].sid)
    /\ Goto(p, "done")
    /\ UNCHANGED <<lock, call, live, born, req, view, seen>>

\* One tmux command whose exit status is not looked at.
KillTmuxServer(p) ==
    /\ Free(p)
    /\ "kill_server" \in PoolOps
    /\ live' = [i \in Ids |-> 0]
    /\ Goto(p, "done")
    /\ req' = [req EXCEPT ![p] = [NoRequest EXCEPT !.op = "kill_server"]]
    /\ UNCHANGED <<storeVars, born, view, seen>>

-----------------------------------------------------------------------------
(* sessions(): reconcile the records with tmux, sweep the expired ones.     *)

CallSessions(p) == Begin(p, "list_live", [NoRequest EXCEPT !.op = "sessions"])

ListLive(p) ==
    /\ pc[p] = "list_live"
    /\ view' = [view EXCEPT ![p] = LiveIds]
    /\ req' = [req EXCEPT ![p].mark = Len(born)]
    /\ Goto(p, "list_all")
    /\ UNCHANGED <<storeVars, live, born, seen>>

\* slip: every record is a candidate for the sweep
ListAllCandidates(p) ==
    /\ pc[p] = "list_all"
    /\ view' = [view EXCEPT ![p] = Recorded]
    /\ Goto(p, "list_age")
    /\ UNCHANGED <<storeVars, live, born, req, seen>>

\* Store.all(); only the records without a live session are looked at again.
ListAll(p) ==
    /\ pc[p] = "list_all"
    /\ view' = [view EXCEPT ![p] = Recorded \ view[p]]
    /\ Goto(p, "list_age")
    /\ UNCHANGED <<storeVars, live, born, req, seen>>

\* In the order of the ids, the age of each record's file.
ListAge(p) ==
    /\ pc[p] = "list_age"
    /\ \/ \E i \in view[p] :
             /\ \A j \in view[p] : i <= j
             /\ view' = [view EXCEPT ![p] = @ \ {i}]
             /\ IF Expired(i)
                THEN Goto(p, "list_delete") /\ req' = [req EXCEPT ![p].sid = i]
                ELSE UNCHANGED <<pc, req>>
       \/ view[p] = {} /\ Goto(p, "done") /\ UNCHANGED <<view, req>>
    /\ UNCHANGED <<storeVars, live, born, seen>>

ListDelete(p) ==
    /\ pc[p] = "list_delete"
    /\ Delete(req[p].sid)
    /\ Goto(p, "list_age")
    /\ UNCHANGED <<lock, call, live, born, req, view, seen>>

-----------------------------------------------------------------------------
(* What happens around the library.                                         *)

\* The last process in a session ends, or somebody types tmux kill-session.
Exit(i) ==
    /\ "exit" \in Faults
    /\ live[i] # 0
    /\ live' = [live EXCEPT ![i] = 0]
    /\ UNCHANGED <<storeVars, born, pc, req, view, seen>>

\* Somebody types tmux -L tmuxd new-session.
Bypass(i, c) ==
    /\ "bypass" \in Faults
    /\ Room
    /\ live[i] = 0
    /\ born' = Append(born, [id |-> i, cmd |-> c, by |-> None])
    /\ live' = [live EXCEPT ![i] = Len(born) + 1]
    /\ UNCHANGED <<storeVars, pc, req, view, seen>>

\* slip: a process takes the sessions it opened along
CrashTakesSessions(p) ==
    /\ StoreCrash(p)
    /\ live' = [i \in Ids |-> IF live[i] # 0 /\ born[live[i]].by = p THEN 0 ELSE live[i]]
    /\ Goto(p, "idle")
    /\ req' = [req EXCEPT ![p] = NoRequest]
    /\ view' = [view EXCEPT ![p] = {}]
    /\ seen' = [seen EXCEPT ![p] = None]
    /\ UNCHANGED born

\* The calling process is killed between two steps and started again.
Crash(p) ==
    /\ StoreCrash(p)
    /\ Goto(p, "idle")
    /\ req' = [req EXCEPT ![p] = NoRequest]
    /\ view' = [view EXCEPT ![p] = {}]
    /\ seen' = [seen EXCEPT ![p] = None]
    /\ UNCHANGED <<live, born>>

Call(p) == \/ CallOpen(p) \/ CallGet(p) \/ CallKill(p)
           \/ KillTmuxServer(p) \/ CallSessions(p)

\* The store's own steps, inside a call that has one in progress.
StoreProgress(p) == (StoreStep(p) \/ WriteError(p)) /\ UNCHANGED poolVars

Step(p) == \/ GenerateList(p) \/ GeneratePick(p)
           \/ CreateCheck(p) \/ SessionCheck(p) \/ AttachRead(p) \/ AttachTouched(p)
           \/ NewSession(p) \/ RecordWritten(p)
           \/ GetCheck(p) \/ GetRead(p)
           \/ KillCheck(p) \/ KillSession(p) \/ KillDelete(p)
           \/ ListLive(p) \/ ListAll(p) \/ ListAge(p) \/ ListDelete(p)
           \/ StoreProgress(p)

Environment == \/ \E i \in Ids : \/ Exit(i)
                                 \/ \E c \in Cmds : Bypass(i, c)
                                 \/ Lapse(i) /\ UNCHANGED poolVars
               \/ \E p \in Procs : Crash(p)

Next == \/ \E p \in Procs : Call(p) \/ Step(p)
        \/ Environment

Spec == Init /\ [][Next]_vars

\* A call that has begun keeps running.  The kernel wakes the waiters of a flock when it
\* is released, so a call that waits for it while it is free again and again gets it.
Fairness == \A p \in Procs :
    /\ WF_vars(Step(p))
    /\ SF_vars(Acquire(p) /\ UNCHANGED poolVars)

FairSpec == Spec /\ Fairness

-----------------------------------------------------------------------------
(* Properties.                                                              *)

\* The type invariant; a live session is the one its name was last created for.
PoolTypeOK ==
    /\ StoreTypeOK
    /\ live \in [Ids -> 0..Len(born)]
    /\ born \in Seq(Birth)
    /\ pc \in [Procs -> PCs]
    /\ req \in [Procs -> Request]
    /\ view \in [Procs -> SUBSET Ids]
    /\ seen \in [Procs -> Record \cup {None}]

\* r tells of a creation the library made under the name i.
Describes(r, i) ==
    /\ r.created_at \in DOMAIN born
    /\ born[r.created_at].id = i
    /\ born[r.created_at].cmd = r.cmd
    /\ born[r.created_at].by # None

\* "Clues, not truth" (state.py), but never made up: a record on disk tells of a session
\* that tmux really started through the library, under that id, with that command,
\* whatever was killed, swept, re-created or interrupted since.
RecordsAreReal == \A i \in Recorded : Describes(disk[i], i)

\* sessions() sweeps on the strength of a list it took earlier.  The one live session
\* whose record it can take away is a session created after that list.
SweepSparesListedSessions ==
    \A p \in Procs :
        LET i == req[p].sid IN
        pc[p] = "list_delete" /\ live[i] # 0 => live[i] > req[p].mark

\* "The id decides" (core.py) and "nothing else does" (kill's docstring): a live session
\* is never replaced, it appears because its creator's new-session ran, and only a kill,
\* a kill_tmux_server or its own end takes it away: no sweep, crash or attach does.
Opened(i) == live[i] = 0 /\ live'[i] = Len(born')
Ended(i) ==
    /\ live'[i] = 0
    /\ \/ \E p \in Procs : pc[p] = "kill_session" /\ req[p].sid = i /\ pc'[p] = "kill_delete"
       \/ \E p \in Procs : Free(p) /\ req'[p].op = "kill_server" /\ pc'[p] = "done"
       \/ UNCHANGED <<storeVars, pc>>
LiveSessionsAreLeftAlone ==
    [][\A i \in Ids : live'[i] # live[i] => Opened(i) \/ Ended(i)]_vars

\* Every call comes to an end: no caller waits for ever on the lock, also when others
\* crash inside it.
CallsReturn == \A p \in Procs : ~Free(p) ~> Free(p)

\* No call on i is in progress.
Quiet(i) == \A p \in Procs : Free(p) \/ req[p].sid # i

\* Between calls, the record of a live library session is there and is its own: not
\* missing, not swept, not that of an earlier session of the same name.
RecordsTellTheTruth ==
    \A i \in LiveIds :
        Quiet(i) /\ born[live[i]].by # None
        => disk[i] # None /\ disk[i].created_at = live[i]

\* create() "refuses to attach to an existing id" (core.py).
CreateRefusesExisting ==
    \A p \in Procs : req[p].op = "create" => pc[p] \notin {"attach_read", "touch"}

\* session() without an id makes a new session, under a number no record is kept for.
GeneratedIdIsNew ==
    \A p \in Procs :
        req[p].auto => /\ pc[p] \notin {"attach_read", "touch"}
                       /\ pc[p] = "new" => disk[req[p].sid] = None

\* A handle says external for one reason only: somebody went around the library
\* (works/02-session.md, section 7).
ExternalMeansBypass ==
    \A p \in Procs :
        pc[p] = "external" =>
            \E n \in DOMAIN born : born[n].id = req[p].sid /\ born[n].by = None
=============================================================================
