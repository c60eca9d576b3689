-------------------------- MODULE RecordStoreProofs --------------------------
(***************************************************************************)
(* Proofs about the record store, for any callers, ids and commands.        *)
(* StoreInv is the inductive invariant: the types, what a call in progress  *)
(* carries at each step, who holds the lock, and what a touch is about to    *)
(* write back.                                                              *)
(***************************************************************************)
EXTENDS RecordStore, TLAPS

\* A call that works on a file names it, and knows what it will write.
CallsCarryArguments ==
    \A p \in Procs :
        LET c == call[p] IN
        /\ c.step \in {"lock", "read", "replace"}
              => c.id \in Ids /\ c.kind \in {"write", "touch"}
        /\ c.step = "lock" /\ c.kind = "write" => c.rec \in Record /\ ~c.rec.attached
        /\ c.step = "read" => c.kind = "touch"
        /\ c.step = "replace" => c.rec \in Record
        /\ c.step = "replace" /\ c.kind = "write" => ~c.rec.attached
        /\ c.step = "replace" /\ c.kind = "touch" => c.rec.attached

StoreInv ==
    /\ StoreTypeOK
    /\ CallsCarryArguments
    /\ LockHeld
    /\ TouchKeepsRecord

\* Nothing is on disk and nobody is in the store when the directory is first used.
LEMMA StoreInitInv == StoreInit => StoreInv
  BY StoreAssumption
  DEF StoreInit, StoreInv, StoreTypeOK, CallsCarryArguments, LockHeld, TouchKeepsRecord,
      NoCall, StoreCall, Steps, InSection

\* A caller that starts a write or a touch of its own carries what the store needs.
LEMMA StartKeepsInv ==
    ASSUME StoreInv, NEW p \in Procs, NEW i \in Ids,
           \/ StartTouch(p, i)
           \/ \E r \in Record : ~r.attached /\ StartWrite(p, i, r)
    PROVE  StoreInv'
  <1> USE StoreAssumption
      DEF StoreInv, StoreTypeOK, CallsCarryArguments, LockHeld, TouchKeepsRecord,
          StoreCall, Steps, InSection
  <1>1. CASE StartTouch(p, i)
    BY <1>1 DEF StartTouch
  <1>2. ASSUME NEW r \in Record, ~r.attached, StartWrite(p, i, r)
        PROVE  StoreInv'
    BY <1>2 DEF StartWrite
  <1>3. QED
    BY <1>1, <1>2

\* The steps of a call in progress: only the holder of the lock reads and replaces, so
\* what a touch has read is still what the file holds when it is written back.
LEMMA StepKeepsInv ==
    ASSUME StoreInv, NEW p \in Procs, StoreStep(p) \/ WriteError(p) \/ Return(p)
    PROVE  StoreInv'
  <1> USE StoreAssumption
      DEF StoreInv, StoreTypeOK, CallsCarryArguments, LockHeld, TouchKeepsRecord,
          StoreCall, Steps, InSection
  <1>1. CASE Acquire(p)
    BY <1>1 DEF Acquire, AfterLock
  <1>2. CASE ReadForTouch(p)
    <2> DEFINE c == call[p]
               r == disk[c.id]
               stamped == [c EXCEPT !.step = "replace", !.rec = [r EXCEPT !.attached = TRUE]]
    <2>1. /\ c \in StoreCall /\ c.step = "read" /\ c.kind = "touch" /\ c.id \in Ids
          /\ r \in Record \cup {None}
          /\ UNCHANGED <<disk, stale, lock>>
      BY <1>2 DEF ReadForTouch
    <2>2. CASE r = None
      BY <1>2, <2>1, <2>2 DEF ReadForTouch
    <2>3. CASE r # None
      <3>1. call' = [call EXCEPT ![p] = stamped]
        BY <1>2, <2>3 DEF ReadForTouch
      <3>2. /\ stamped.rec = [r EXCEPT !.attached = TRUE]
            /\ stamped.step = "replace" /\ stamped.kind = "touch" /\ stamped.id = c.id
            /\ stamped.rec \in Record /\ stamped.rec.attached
            /\ stamped \in StoreCall
            /\ SameButAttached(stamped.rec, r)
        BY <2>1, <2>3 DEF SameButAttached, Record
      <3> HIDE DEF stamped
      <3>3. QED
        BY <2>1, <3>1, <3>2
    <2>4. QED
      BY <2>2, <2>3
  <1>3. CASE Replace(p)
    BY <1>3 DEF Replace, SameButAttached, Record
  <1>4. CASE Release(p)
    BY <1>4 DEF Release
  <1>5. CASE WriteError(p)
    BY <1>5 DEF WriteError
  <1>6. CASE Return(p)
    BY <1>6 DEF Return, NoCall
  <1>7. QED
    BY <1>1, <1>2, <1>3, <1>4, <1>5, <1>6 DEF StoreStep

\* A crash closes the descriptor: the lock is free again and the call forgotten.
LEMMA CrashKeepsInv ==
    ASSUME StoreInv, NEW p \in Procs, StoreCrash(p)
    PROVE  StoreInv'
  BY StoreAssumption
  DEF StoreInv, StoreTypeOK, CallsCarryArguments, LockHeld, TouchKeepsRecord,
      StoreCall, Steps, InSection, StoreCrash, NoCall

\* The passing of time marks a file as expired and leaves its content alone.
LEMMA LapseKeepsInv ==
    ASSUME StoreInv, NEW i \in Ids, Lapse(i)
    PROVE  StoreInv'
  BY DEF StoreInv, StoreTypeOK, CallsCarryArguments, LockHeld, TouchKeepsRecord,
         StoreCall, InSection, Lapse

\* An unlink takes no lock: it disturbs no call's arguments and no holder.
LEMMA DeleteKeepsInv ==
    ASSUME StoreInv, NEW i \in Ids, Delete(i), UNCHANGED <<lock, call>>
    PROVE  StoreInv'
  BY DEF StoreInv, StoreTypeOK, CallsCarryArguments, LockHeld, TouchKeepsRecord,
         StoreCall, InSection, Delete

-----------------------------------------------------------------------------
(* The store on its own.                                                    *)

\* Every step of the store and its callers keeps StoreInv.
LEMMA NextKeepsInv == StoreInv /\ [StoreNext]_storeVars => StoreInv'
  <1> SUFFICES ASSUME StoreInv, [StoreNext]_storeVars
               PROVE  StoreInv'
    OBVIOUS
  <1>1. ASSUME NEW p \in Procs, Caller(p)
        PROVE  StoreInv'
    <2>1. ASSUME NEW i \in Ids, NEW n \in 1..MaxStamp, NEW c \in Cmds,
                 StartWrite(p, i, [created_at |-> n, cmd |-> c, attached |-> FALSE])
          PROVE  StoreInv'
      <3> DEFINE r == [created_at |-> n, cmd |-> c, attached |-> FALSE]
      <3>1. r \in Record /\ ~r.attached
        BY StoreAssumption DEF Record
      <3>2. \E x \in Record : ~x.attached /\ StartWrite(p, i, x)
        BY <2>1, <3>1
      <3>3. QED
        BY <3>2, StartKeepsInv
    <2>2. QED
      BY <1>1, <2>1, StartKeepsInv, StepKeepsInv DEF Caller
  <1>2. ASSUME NEW p \in Procs, StoreStep(p) \/ WriteError(p)
        PROVE  StoreInv'
    BY <1>2, StepKeepsInv
  <1>3. ASSUME NEW p \in Procs, StoreCrash(p)
        PROVE  StoreInv'
    BY <1>3, CrashKeepsInv
  <1>4. ASSUME NEW i \in Ids, Lapse(i)
        PROVE  StoreInv'
    BY <1>4, LapseKeepsInv
  <1>5. ASSUME NEW i \in Ids, Delete(i), UNCHANGED <<lock, call>>
        PROVE  StoreInv'
    BY <1>5, DeleteKeepsInv
  <1>6. CASE UNCHANGED storeVars
    BY <1>6
    DEF storeVars, StoreInv, StoreTypeOK, CallsCarryArguments, LockHeld, TouchKeepsRecord,
        StoreCall, InSection
  <1>7. QED
    BY <1>1, <1>2, <1>3, <1>4, <1>5, <1>6 DEF StoreNext

\* Type correctness of state.py's files, lock and calls, for any number of callers.
THEOREM StoreTypeCorrect == StoreSpec => []StoreTypeOK
  <1>1. StoreInv => StoreTypeOK
    BY DEF StoreInv
  <1>2. QED
    BY <1>1, StoreInitInv, NextKeepsInv, PTL DEF StoreSpec

\* The flock of state.py excludes: who is between flock and release is the one holder.
THEOREM LockExcludes == StoreSpec => []LockHeld
  <1>1. StoreInv => LockHeld
    BY DEF StoreInv
  <1>2. QED
    BY <1>1, StoreInitInv, NextKeepsInv, PTL DEF StoreSpec

\* touch_attached never writes an older record over a newer one.
THEOREM TouchLosesNoWrite == StoreSpec => []TouchKeepsRecord
  <1>1. StoreInv => TouchKeepsRecord
    BY DEF StoreInv
  <1>2. QED
    BY <1>1, StoreInitInv, NextKeepsInv, PTL DEF StoreSpec

-----------------------------------------------------------------------------
(* Refinement.                                                              *)

\* An unlink drops a record, or does nothing.
LEMMA DeleteImplements ==
    ASSUME StoreTypeOK, NEW i \in Ids, Delete(i), disk' # disk
    PROVE  Atomic!Next
  <1>1. disk[i] # None
    BY DEF StoreTypeOK, Delete
  <1>2. QED
    BY <1>1 DEF Delete, Atomic!Next, Atomic!Drop

\* A replace puts a new record, or stamps the one that is there, or restores the one that was.
LEMMA ReplaceImplements ==
    ASSUME StoreInv, NEW p \in Procs, Replace(p)
    PROVE  Atomic!Next
  <1> USE StoreAssumption
      DEF StoreInv, StoreTypeOK, CallsCarryArguments, StoreCall
  <1> DEFINE c == call[p]
  <1>1. /\ disk' = [disk EXCEPT ![c.id] = c.rec]
        /\ c.step = "replace" /\ c.id \in Ids /\ c.rec \in Record
        /\ c.kind \in {"write", "touch"}
        /\ disk'[c.id] = c.rec
    BY DEF Replace
  <1>2. CASE c.kind = "write"
    <2>1. ~c.rec.attached
      BY <1>1, <1>2
    <2>2. Atomic!Put(c.id)
      BY <1>1, <2>1 DEF Atomic!Put, Atomic!Record, Record
    <2>3. QED
      BY <1>1, <2>2 DEF Atomic!Next
  <1>3. CASE c.kind = "touch"
    <2>1. c.rec.attached = TRUE
      BY <1>1, <1>3 DEF Record
    <2>2. CASE disk[c.id] = None
      <3>1. Atomic!Restore(c.id)
        BY <1>1, <2>1, <2>2 DEF Atomic!Restore, Atomic!Record, Record
      <3>2. QED
        BY <1>1, <3>1 DEF Atomic!Next
    <2>3. CASE disk[c.id] # None
      <3>1. disk[c.id] \in Record
        BY <1>1, <2>3
      <3>2. c.rec = [disk[c.id] EXCEPT !.attached = TRUE]
        BY <1>1, <1>3, <2>1, <2>3, <3>1 DEF TouchKeepsRecord, SameButAttached
      <3>3. Atomic!Stamp(c.id)
        BY <1>1, <2>3, <3>2 DEF Atomic!Stamp
      <3>4. QED
        BY <1>1, <3>3 DEF Atomic!Next
    <2>4. QED
      BY <2>2, <2>3
  <1>4. QED
    BY <1>1, <1>2, <1>3

\* These are the two steps that change the map.
LEMMA StepsImplement == StoreInv /\ [StoreNext]_storeVars => [Atomic!Next]_disk
  <1> SUFFICES ASSUME StoreInv, [StoreNext]_storeVars, disk' # disk
               PROVE  Atomic!Next
    OBVIOUS
  <1>1. \/ \E p \in Procs : Replace(p)
        \/ \E i \in Ids : Delete(i)
    BY DEF StoreNext, Caller, StartWrite, StartTouch, Return, StoreStep, Acquire,
           ReadForTouch, Release, WriteError, StoreCrash, Lapse, storeVars
  <1>2. QED
    BY <1>1, ReplaceImplements, DeleteImplements DEF StoreInv

\* state.py's promise: write, touch_attached and delete are the indivisible changes of one
\* map of complete records.
THEOREM StoreImplementsAtomicRecords == StoreSpec => ImplementsAtomicRecords
  <1>1. StoreInit => Atomic!Init
    BY DEF StoreInit, Atomic!Init
  <1>2. QED
    BY <1>1, StoreInitInv, NextKeepsInv, StepsImplement, PTL
    DEF StoreSpec, ImplementsAtomicRecords, Atomic!Spec
=============================================================================
