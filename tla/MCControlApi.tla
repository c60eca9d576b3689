----------------------------- MODULE MCControlApi -----------------------------
(* Three requests on one session: one types a line, one presses keys without a key of its *)
(* own, one opens the session again.  Two keys, or one for both requests that have one.   *)
EXTENDS ControlApi

CONSTANTS line, press, open, k1, k2

MCRequests == {line, press, open}
MCBody == [r \in MCRequests |-> CASE r = line -> {"text", "enter"}
                                  [] r = press -> {"keys"}
                                  [] r = open -> {"open"}]
Keying(k) == [r \in MCRequests |-> CASE r = line -> k1 [] r = press -> None [] r = open -> k]
OwnKeys == {Keying(k2)}
AllKeyings == {Keying(k1), Keying(k2)}
=============================================================================
