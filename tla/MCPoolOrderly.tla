---------------------------- MODULE MCPoolOrderly ----------------------------
(* What the docstrings promise of a call of the pool holds where calls do not get in *)
(* each other's way: either one caller is alone, or all of them only open and look.  *)
EXTENDS SessionPool

CONSTANT Openings   \* bound: the creations that callers together make

ASSUME OrderlyAssumption == Procs # {}

VARIABLE manner

orderlyVars == <<vars, manner>>

Manners == {"alone", "together"}

OrderlyInit == Init /\ manner \in Manners

\* The known gap is left out: a session that is started gets its record.
GetsItsRecord(p) == pc[p] = "write" => pc'[p] # "idle" /\ call'[p].kind # "error"

Only == CHOOSE p \in Procs : TRUE

\* One caller makes any call, while sessions end and records expire whenever they like.
Alone ==
    \/ (Call(Only) \/ Step(Only)) /\ GetsItsRecord(Only)
    \/ \E i \in Ids : Exit(i)
    \/ \E i \in Ids : Lapse(i) /\ UNCHANGED poolVars

MoreToOpen == Len(born) + Cardinality({p \in Procs : pc[p] \in Opening}) < Openings

\* All callers open, create and get; they are killed, and attaches fail.
Together ==
    \E p \in Procs :
        /\ \/ MoreToOpen /\ CallOpen(p)
           \/ CallGet(p) \/ Step(p) \/ Crash(p)
        /\ GetsItsRecord(p)

OrderlyNext == /\ \/ manner = "alone" /\ Alone
                  \/ manner = "together" /\ Together
               /\ UNCHANGED manner

OrderlySpec == OrderlyInit /\ [][OrderlyNext]_orderlyVars /\ Fairness

\* create() "refuses to attach to an existing id" (core.py), whatever session ended or was
\* swept before.
OneCallerIsRefused == manner = "alone" => CreateRefusesExisting

\* session() without an id (core.py, _generate_id) never runs into an old session or record.
OneCallerGetsANewId == manner = "alone" => GeneratedIdIsNew

\* external=True (works/02-session.md, section 7) is not the after-effect of the caller's
\* own exits, kills and sweeps.
OneCallerSeesNoExternals == manner = "alone" => ExternalMeansBypass
=============================================================================
