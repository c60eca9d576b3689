----------------------------- MODULE RecordStore -----------------------------
(***************************************************************************)
(* tmuxd/state.py: one JSON file per session id, shared by every process    *)
(* that constructed a Tmuxd on the same state directory.                    *)
(*                                                                         *)
(* A caller (a process, or a thread of one: flock on a descriptor of its    *)
(* own excludes both) writes a new record or stamps an existing one under   *)
(* the flock on .lock; it reads and deletes without it.  One step is one    *)
(* system call that another caller can see: flock, open-and-read, the       *)
(* os.replace that publishes the temporary file, unlink.                    *)
(*                                                                         *)
(* A record's created_at stands for the creation it was written for.        *)
(***************************************************************************)
EXTENDS Naturals

CONSTANTS
    Procs,      \* the callers
    Ids,        \* session ids; the file name is a bijective quoting of the id
    Cmds,       \* the commands sessions are started with
    Faults,     \* which of "crash" (SIGKILL), "io" (a failing write) can happen
    MaxStamp,   \* bound: creations, and so distinct created_at values
    None

ASSUME StoreAssumption ==
    /\ MaxStamp \in Nat
    /\ None \notin Procs /\ None \notin Ids /\ None \notin Cmds
    /\ None \notin [created_at : Nat, cmd : Cmds, attached : BOOLEAN]

VARIABLES
    disk,       \* disk[i]: the complete record in i's file, or None
    stale,      \* the ids whose file's mtime is further back than gc_ttl
    lock,       \* who holds the flock on .lock
    call        \* call[p]: the store call p is in

storeVars == <<disk, stale, lock, call>>

Record == [created_at : Nat, cmd : Cmds, attached : BOOLEAN]

Steps == {"idle", "lock", "read", "replace", "unlock", "done"}

StoreCall == [step : Steps, kind : {"write", "touch", "error", None},
              id : Ids \cup {None}, rec : Record \cup {None}]

NoCall == [step |-> "idle", kind |-> None, id |-> None, rec |-> None]

StoreInit ==
    /\ disk = [i \in Ids |-> None]
    /\ stale = {}
    /\ lock = None
    /\ call = [p \in Procs |-> NoCall]

-----------------------------------------------------------------------------
(* The steps of write and touch_attached.                                   *)

StartWrite(p, i, r) ==
    /\ call[p].step = "idle"
    /\ call' = [call EXCEPT ![p] =
                    [step |-> "lock", kind |-> "write", id |-> i, rec |-> r]]
    /\ UNCHANGED <<disk, stale, lock>>

StartTouch(p, i) ==
    /\ call[p].step = "idle"
    /\ call' = [call EXCEPT ![p] =
                    [step |-> "lock", kind |-> "touch", id |-> i, rec |-> None]]
    /\ UNCHANGED <<disk, stale, lock>>

AfterLock(p) == IF call[p].kind = "touch" THEN "read" ELSE "replace"

\* slip: the lock is opened and never waited for (flock without LOCK_EX)
AcquireUnlocked(p) ==
    /\ call[p].step = "lock"
    /\ lock' = p
    /\ call' = [call EXCEPT ![p].step = AfterLock(p)]
    /\ UNCHANGED <<disk, stale>>

\* _Lock.__enter__: flock(LOCK_EX) returns once nobody holds the lock.
Acquire(p) ==
    /\ call[p].step = "lock"
    /\ lock = None
    /\ lock' = p
    /\ call' = [call EXCEPT ![p].step = AfterLock(p)]
    /\ UNCHANGED <<disk, stale>>

\* slip: "return None" leaves the section without giving the lock back
ReadLeaksLock(p) ==
    LET c == call[p]
        r == disk[c.id] IN
    /\ c.step = "read"
    /\ call' = [call EXCEPT ![p] =
                    IF r = None THEN [c EXCEPT !.step = "done"]
                    ELSE [c EXCEPT !.step = "replace", !.rec = [r EXCEPT !.attached = TRUE]]]
    /\ UNCHANGED <<disk, stale, lock>>

\* touch_attached reads under the lock; with no record there is nothing to stamp.
ReadForTouch(p) ==
    LET c == call[p]
        r == disk[c.id] IN
    /\ c.step = "read"
    /\ call' = [call EXCEPT ![p] =
                    IF r = None THEN [c EXCEPT !.step = "unlock"]
                    ELSE [c EXCEPT !.step = "replace", !.rec = [r EXCEPT !.attached = TRUE]]]
    /\ UNCHANGED <<disk, stale, lock>>

\* slip: the file is written in place, and is there before it is complete
ReplaceInPlace(p) ==
    LET c == call[p] IN
    /\ c.step = "replace"
    /\ disk' = [disk EXCEPT ![c.id] = [created_at |-> c.rec.created_at]]
    /\ stale' = stale \ {c.id}
    /\ call' = [call EXCEPT ![p].step = "unlock"]
    /\ UNCHANGED lock

\* The os.replace of _write_atomic: the whole record appears at once, its mtime new.
Replace(p) ==
    LET c == call[p] IN
    /\ c.step = "replace"
    /\ disk' = [disk EXCEPT ![c.id] = c.rec]
    /\ stale' = stale \ {c.id}
    /\ call' = [call EXCEPT ![p].step = "unlock"]
    /\ UNCHANGED lock

\* Opening, writing or renaming the temporary file raises: disk keeps what it had.
WriteError(p) ==
    /\ "io" \in Faults
    /\ call[p].step = "replace"
    /\ call' = [call EXCEPT ![p].step = "unlock", ![p].kind = "error"]
    /\ UNCHANGED <<disk, stale, lock>>

\* _Lock.__exit__, on the way out of the with block, exception or not.
Release(p) ==
    /\ call[p].step = "unlock"
    /\ lock' = None
    /\ call' = [call EXCEPT ![p].step = "done"]
    /\ UNCHANGED <<disk, stale>>

\* The caller takes the result.
Return(p) ==
    /\ call[p].step = "done"
    /\ call' = [call EXCEPT ![p] = NoCall]
    /\ UNCHANGED <<disk, stale, lock>>

-----------------------------------------------------------------------------
(* Steps that take no lock.                                                 *)

\* Store.delete: an unlink; a missing file is no error.
Delete(i) ==
    /\ disk' = [disk EXCEPT ![i] = None]
    /\ stale' = stale \ {i}

\* The clock passes gc_ttl after the file's mtime.  gc_ttl may be 0.
Lapse(i) ==
    /\ disk[i] # None
    /\ stale' = stale \cup {i}
    /\ UNCHANGED <<disk, lock, call>>

\* Store.age(i) > gc_ttl: a file that is gone has age 0.
Expired(i) == i \in stale

\* slip: a lock file that outlives its owner instead of a flock
CrashKeepsLock(p) ==
    /\ "crash" \in Faults
    /\ call' = [call EXCEPT ![p] = NoCall]
    /\ UNCHANGED <<disk, stale, lock>>

\* SIGKILL: the kernel closes the descriptor and with it drops the flock; a temporary
\* file left behind does not end in .json, so nothing ever reads it.
StoreCrash(p) ==
    /\ "crash" \in Faults
    /\ call' = [call EXCEPT ![p] = NoCall]
    /\ lock' = IF lock = p THEN None ELSE lock
    /\ UNCHANGED <<disk, stale>>

StoreStep(p) == \/ Acquire(p)
                \/ ReadForTouch(p)
                \/ Replace(p)
                \/ Release(p)

-----------------------------------------------------------------------------
(* The store on its own: callers that write, stamp and delete as they like. *)

Caller(p) ==
    \/ \E i \in Ids, n \in 1..MaxStamp, c \in Cmds :
            StartWrite(p, i, [created_at |-> n, cmd |-> c, attached |-> FALSE])
    \/ \E i \in Ids : StartTouch(p, i)
    \/ Return(p)

StoreNext ==
    \/ \E p \in Procs : \/ Caller(p)
                       \/ StoreStep(p)
                       \/ WriteError(p)
                       \/ StoreCrash(p)
    \/ \E i \in Ids : \/ Lapse(i)
                      \/ Delete(i) /\ UNCHANGED <<lock, call>>

StoreSpec == StoreInit /\ [][StoreNext]_storeVars

\* A caller inside the store keeps running; nothing makes it start a call.
StoreFairness ==
    \A p \in Procs : WF_storeVars(ReadForTouch(p) \/ Replace(p) \/ Release(p))

StoreFairSpec == StoreSpec /\ StoreFairness

-----------------------------------------------------------------------------
(* Properties.                                                              *)

\* The type invariant of state.py's files, lock and calls in progress.
StoreTypeOK ==
    /\ disk \in [Ids -> Record \cup {None}]
    /\ stale \subseteq Ids
    /\ lock \in Procs \cup {None}
    /\ call \in [Procs -> StoreCall]

InSection(p) == call[p].step \in {"read", "replace", "unlock"}

\* state.py's "Cross-process locking": whoever is between flock and its release is the
\* one holder, so two callers are never there together, crashes included.
LockHeld == \A p \in Procs : InSection(p) <=> lock = p

\* r is s but for last_attached.
SameButAttached(r, s) == r = [s EXCEPT !.attached = r.attached]

\* touch_attached writes back what it read: a record some other caller wrote between its
\* read and its replace would be overwritten by the older one.  The lock prevents that.
TouchKeepsRecord ==
    \A p \in Procs :
        /\ call[p].kind = "touch"
        /\ call[p].step = "replace"
        /\ disk[call[p].id] # None
        => SameButAttached(call[p].rec, disk[call[p].id])

Atomic == INSTANCE AtomicRecords WITH records <- disk

\* Write, touch_attached and delete, system call by system call, are the indivisible
\* changes of one map that the library's callers are promised.  In particular an attach
\* changes nothing of a record but its stamp.
ImplementsAtomicRecords == Atomic!Spec

\* No way out of the section, an error or a crash included, keeps the lock: a lock that
\* stayed taken would hang every process on this state directory.
LockIsGivenBack == \A p \in Procs : lock = p ~> lock # p
=============================================================================
