------------------------------ MODULE ControlApi ------------------------------
(***************************************************************************)
(* tmuxd/server.py: the POST handlers of the control API and the            *)
(* Idempotency-Key memory they share, with Session.send and send_key of     *)
(* tmuxd/session.py.                                                        *)
(*                                                                         *)
(* The handlers are plain functions, which FastAPI runs in a thread pool:   *)
(* requests interleave between any two tmux commands and any two accesses   *)
(* to the memory, and nothing holds a lock.  A client that gets no answer,  *)
(* or an error, may send its request again with the same key.               *)
(***************************************************************************)
EXTENDS Naturals, Sequences, FiniteSets

CONSTANTS
    Requests,   \* what the clients want done, each a request of its own
    Body,       \* Body[r]: the parts of r's body, see Script
    Keys,       \* the values of the Idempotency-Key header
    Keyings,    \* the ways clients give keys to requests; None is no header
    Attempts,   \* bound: how often a request is sent
    Patient,    \* whether a client waits for the answer before it sends again
    None

ASSUME ApiAssumption ==
    /\ Attempts \in Nat
    /\ Body \in [Requests -> SUBSET {"text", "enter", "keys", "open"}]
    /\ None \notin Keys /\ Keyings \subseteq [Requests -> Keys \cup {None}]
    /\ Patient \in BOOLEAN

VARIABLES
    key,        \* key[r]: the key of r; the same for all sessions and endpoints
    live,       \* whether the session the requests are for is there
    seen,       \* the keys in _Replays._seen
    old,        \* those of them that are older than the window
    try,        \* try[r][n]: how far the n-th attempt at r has come
    acked,      \* the requests that were answered 2xx
    lapsed      \* the keys whose answer was forgotten after the window

apiVars == <<key, live, seen, old, try, acked, lapsed>>

Answers == {"ok", "404", "503", "500"}

\* sweep, del, get: _Replays.get.  work: the library's calls.
\* put_sweep, put_del, put: _Replays.put.
Busy == {"sweep", "del", "get", "work", "put_sweep", "put_del", "put"}

\* done: how much of the script is behind it; dead: the keys its sweep still has to delete;
\* late: it was sent when its key had been answered already (nothing the code keeps).
Try == [pc : {"unsent"} \cup Busy \cup Answers, done : Nat, dead : SUBSET Keys, late : BOOLEAN]

Unsent == [pc |-> "unsent", done |-> 0, dead |-> {}, late |-> FALSE]

\* The requests that the memory cannot tell from r.
SameKey(r) == IF key[r] = None THEN {r} ELSE {q \in Requests : key[q] = key[r]}

\* The tmux commands of one request, in order.  send_keys looks the session up ("has"),
\* and so does each of send and send_key; create_session's get-or-create is one step.
Script(r) ==
    LET b == Body[r]
        If(c, s) == IF c THEN s ELSE <<>> IN
    IF "open" \in b THEN <<"open">>
    ELSE <<"has">>
         \o If("text" \in b \/ "enter" \in b, <<"has">>)
         \o If("text" \in b, <<"text">>)
         \o If("enter" \in b, <<"enter">>)
         \o If("keys" \in b, <<"has", "keys">>)

ApiInit ==
    /\ key \in Keyings
    /\ live = TRUE
    /\ seen = {} /\ old = {}
    /\ try = [r \in Requests |-> [n \in 1..Attempts |-> Unsent]]
    /\ acked = {} /\ lapsed = {}

At(r, n, step) == try[r][n].pc = step
Goto(r, n, step) == try' = [try EXCEPT ![r][n].pc = step]
Answer(r, n) == Goto(r, n, "ok") /\ acked' = acked \cup {r}

-----------------------------------------------------------------------------
(* One request, from its arrival to its answer.                             *)

\* The client sends, or sends again.
Send(r, n) ==
    /\ At(r, n, "unsent")
    /\ \A m \in 1..(n - 1) : /\ try[r][m].pc # "unsent"
                             /\ Patient => try[r][m].pc \in Answers
    /\ try' = [try EXCEPT ![r][n].pc = IF key[r] = None THEN "work" ELSE "sweep",
                          ![r][n].late = key[r] # None /\ SameKey(r) \cap acked # {}]
    /\ UNCHANGED <<key, live, seen, old, acked, lapsed>>

\* Some other handler is about to change the dict.
Disturbed(r, n) ==
    \E q \in Requests, m \in 1..Attempts :
        <<q, m>> # <<r, n>> /\ try[q][m].pc \in {"del", "put_del", "put"}

\* _sweep collects the keys that are too old; iterating a dict that changes size raises.
Sweep(r, n) ==
    /\ try[r][n].pc \in {"sweep", "put_sweep"}
    /\ \/ try' = [try EXCEPT ![r][n].dead = old,
                             ![r][n].pc = IF At(r, n, "sweep") THEN "del" ELSE "put_del"]
       \/ seen # {} /\ Disturbed(r, n) /\ Goto(r, n, "500")
    /\ UNCHANGED <<key, live, seen, old, acked, lapsed>>

\* ... and deletes them one by one; del raises for a key another sweep has deleted.
SweepDelete(r, n) ==
    LET dead == try[r][n].dead IN
    /\ try[r][n].pc \in {"del", "put_del"}
    /\ \/ \E k \in dead :
             /\ IF k \in seen THEN try' = [try EXCEPT ![r][n].dead = dead \ {k}]
                              ELSE Goto(r, n, "500")
             /\ seen' = seen \ {k}
             /\ old' = old \ {k}
       \/ /\ dead = {}
          /\ Goto(r, n, IF At(r, n, "del") THEN "get" ELSE "put")
          /\ UNCHANGED <<seen, old>>
    /\ UNCHANGED <<key, live, acked, lapsed>>

\* slip: the key is taken before the work is done
GetReserves(r, n) ==
    /\ At(r, n, "get")
    /\ IF key[r] \in seen THEN Answer(r, n) /\ UNCHANGED seen
       ELSE Goto(r, n, "work") /\ seen' = seen \cup {key[r]} /\ UNCHANGED acked
    /\ UNCHANGED <<key, live, old, lapsed>>

\* The answer that was given before, if it is remembered.
Get(r, n) ==
    /\ At(r, n, "get")
    /\ IF key[r] \in seen THEN Answer(r, n) ELSE Goto(r, n, "work") /\ UNCHANGED acked
    /\ UNCHANGED <<key, live, seen, old, lapsed>>

\* The next tmux command.  Any may fail, with the session there as well, and without it all
\* but opening it do: 404 from a lookup, 503 from the others (400 and 500 are no different to
\* the memory).  Opening may have come as far as the session before it fails.
Work(r, n) ==
    LET todo == Script(r)
        done == try[r][n].done
        part == todo[done + 1] IN
    /\ At(r, n, "work")
    /\ done < Len(todo)
    /\ \/ /\ live \/ part = "open"
          /\ try' = [try EXCEPT ![r][n].done = done + 1]
          /\ live' = TRUE
       \/ /\ Goto(r, n, IF part = "has" THEN "404" ELSE "503")
          /\ live' \in IF part = "open" THEN {live, TRUE} ELSE {live}
    /\ UNCHANGED <<key, seen, old, acked, lapsed>>

\* slip: no key is a key like any other
WorkDoneKeyless(r, n) ==
    /\ At(r, n, "work")
    /\ try[r][n].done = Len(Script(r))
    /\ Goto(r, n, "put_sweep")
    /\ UNCHANGED <<key, live, seen, old, acked, lapsed>>

WorkDone(r, n) ==
    /\ At(r, n, "work")
    /\ try[r][n].done = Len(Script(r))
    /\ IF key[r] = None THEN Answer(r, n) ELSE Goto(r, n, "put_sweep") /\ UNCHANGED acked
    /\ UNCHANGED <<key, live, seen, old, lapsed>>

\* slip: what is remembered is forgotten with the next sweep
PutOld(r, n) ==
    /\ At(r, n, "put")
    /\ seen' = seen \cup {key[r]}
    /\ old' = old \cup {key[r]}
    /\ Answer(r, n)
    /\ UNCHANGED <<key, live, lapsed>>

Put(r, n) ==
    /\ At(r, n, "put")
    /\ seen' = seen \cup {key[r]}
    /\ old' = old \ {key[r]}
    /\ Answer(r, n)
    /\ UNCHANGED <<key, live, lapsed>>

-----------------------------------------------------------------------------
(* Meanwhile.                                                               *)

\* IDEMPOTENCY_WINDOW has passed since k's answer was put.
Lapse(k) ==
    /\ k \in seen \ old
    /\ old' = old \cup {k}
    /\ lapsed' = lapsed \cup {k}
    /\ UNCHANGED <<key, live, seen, try, acked>>

\* The session ends: its process exits, or somebody kills it, with DELETE or without.
SessionEnds ==
    /\ live
    /\ live' = FALSE
    /\ UNCHANGED <<key, seen, old, try, acked, lapsed>>

Handler(r, n) == \/ Sweep(r, n) \/ SweepDelete(r, n) \/ Get(r, n)
                 \/ Work(r, n) \/ WorkDone(r, n) \/ Put(r, n)

ApiNext ==
    \/ \E r \in Requests, n \in 1..Attempts : Send(r, n) \/ Handler(r, n)
    \/ \E k \in Keys : Lapse(k)
    \/ SessionEnds

ApiSpec == ApiInit /\ [][ApiNext]_apiVars

-----------------------------------------------------------------------------
(* Properties.                                                              *)

\* The type invariant of the memory and of the requests in progress.
ApiTypeOK ==
    /\ key \in Keyings
    /\ live \in BOOLEAN
    /\ seen \subseteq Keys /\ old \subseteq seen
    /\ try \in [Requests -> [1..Attempts -> Try]]
    /\ \A r \in Requests, n \in 1..Attempts : try[r][n].done <= Len(Script(r))
    /\ acked \subseteq Requests /\ lapsed \subseteq Keys

\* The keystrokes that an attempt has handed to tmux.
Typed(r, n) == {i \in 1..try[r][n].done : Script(r)[i] \notin {"has", "open"}}

\* An answer of 2xx is the truth, the replayed one too: some attempt has handed every part
\* of the body to tmux, in the order text, Enter, keys.  Only with a key that stands for two
\* requests can that have been the other request's body.
OkMeansDone ==
    \A r \in acked :
        \E q \in SameKey(r), n \in 1..Attempts : try[q][n].done = Len(Script(q))

\* "Replays the original result" (works/03-server.md): what is sent under a key that has been
\* answered 2xx types nothing and opens nothing within the window, whatever handlers still
\* run, sweep and put, under this key or another.
AcknowledgedIsFinal ==
    \A r \in Requests, n \in 1..Attempts :
        try[r][n].late /\ key[r] \notin lapsed => try[r][n].done = 0

\* "A retried POST must not type a command twice" (_Replays).
NothingTypedTwice ==
    \A r \in Requests :
        key[r] \notin lapsed \cup {None} =>
            \A n, m \in 1..Attempts : n # m => Typed(r, n) \cap Typed(r, m) = {}
=============================================================================
