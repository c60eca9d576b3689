---------------------------- MODULE AtomicRecords ----------------------------
(***************************************************************************)
(* What the state directory promises its callers (the docstring of         *)
(* tmuxd/state.py): every process sees one map from session id to a         *)
(* complete record, and a call is one indivisible change of that map; but   *)
(* for a deletion, which an attach in progress may undo.                    *)
(***************************************************************************)
EXTENDS Naturals

CONSTANTS Ids, Cmds, None

VARIABLE records

Record == [created_at : Nat, cmd : Cmds, attached : BOOLEAN]

Init == records = [i \in Ids |-> None]

\* A new session's record replaces whatever the id had: nobody attached to it yet.
Put(i) ==
    /\ records'[i] \in Record
    /\ ~records'[i].attached
    /\ records' = [records EXCEPT ![i] = records'[i]]

\* An attach stamps last_attached and changes nothing else.
Stamp(i) ==
    /\ records[i] # None
    /\ records' = [records EXCEPT ![i].attached = TRUE]

Drop(i) ==
    /\ records[i] # None
    /\ records' = [records EXCEPT ![i] = None]

\* Deleting takes no lock: an attach that was in progress puts the record back, stamped.
Restore(i) ==
    /\ records[i] = None
    /\ records'[i] \in Record
    /\ records'[i].attached
    /\ records' = [records EXCEPT ![i] = records'[i]]

Next == \E i \in Ids : \/ Put(i)
                       \/ Stamp(i)
                       \/ Drop(i)
                       \/ Restore(i)

Spec == Init /\ [][Next]_records
=============================================================================
