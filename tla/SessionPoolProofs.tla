-------------------------- MODULE SessionPoolProofs --------------------------
(***************************************************************************)
(* Proofs about the session pool, for any number of callers, ids, commands  *)
(* and creations, with crashes, failing writes, exits and bypasses.         *)
(*                                                                         *)
(* PoolInv is the inductive invariant.  Over the invariant of the record    *)
(* store it adds: what a call carries at each step, that every record on    *)
(* disk or on its way there tells of a creation by the library, and that    *)
(* what a sweep has in hand was not live when it asked tmux.                *)
(***************************************************************************)
EXTENDS SessionPool, RecordStoreProofs

\* The steps at which a call works on one id, and those at which it may still create.
Naming == {"create_check", "session_check", "new", "attach_read", "touch", "write",
           "get_check", "get_read", "kill_check", "kill_session", "kill_delete",
           "list_delete"}

RequestsCarryArguments ==
    \A p \in Procs : /\ pc[p] \in Naming => req[p].sid \in Ids
                     /\ pc[p] \in Opening => req[p].cmd \in Cmds

\* Also the record a store call carries tells of a session the library started.
CarriedRecordsAreReal ==
    \A p \in Procs :
        call[p].rec # None => call[p].id \in Ids /\ Describes(call[p].rec, call[p].id)

\* What was not live when the sweep took its list is dead or was created after it.
Since(p, i) == live[i] # 0 => live[i] > req[p].mark

MarksArePast == \A p \in Procs : req[p].mark <= Len(born)

SweepKnowsTheDead ==
    \A p \in Procs : \A i \in Ids :
        /\ pc[p] = "list_all" /\ i \notin view[p] => Since(p, i)
        /\ pc[p] \in {"list_age", "list_delete"} /\ i \in view[p] => Since(p, i)

PoolInv ==
    /\ PoolTypeOK
    /\ StoreInv
    /\ RequestsCarryArguments
    /\ RecordsAreReal
    /\ CarriedRecordsAreReal
    /\ MarksArePast
    /\ SweepKnowsTheDead
    /\ SweepSparesListedSessions

\* Nothing is live, recorded or in progress at first.
LEMMA InitInv == Init => PoolInv
  <1> SUFFICES ASSUME Init PROVE PoolInv
    OBVIOUS
  <1>1. StoreInv
    BY StoreInitInv DEF Init
  <1>2. /\ live \in [Ids -> 0..Len(born)]
        /\ born \in Seq(Birth)
    BY DEF Init
  <1>3. PoolTypeOK
    BY <1>1, <1>2 DEF Init, StoreInv, PoolTypeOK, PCs, Outcomes, Request, NoRequest
  <1>4. QED
    BY <1>1, <1>3
    DEF Init, StoreInit, NoCall, PoolInv, RequestsCarryArguments, RecordsAreReal, Recorded,
        CarriedRecordsAreReal, MarksArePast, NoRequest, SweepKnowsTheDead,
        SweepSparesListedSessions, Naming, Opening

-----------------------------------------------------------------------------
(* Lemmas.                                                                  *)

LEMMA StoreUnchangedKeepsInv ==
    ASSUME StoreInv, UNCHANGED storeVars
    PROVE  StoreInv'
  BY DEF storeVars, StoreInv, StoreTypeOK, CallsCarryArguments, LockHeld, TouchKeepsRecord,
         StoreCall, InSection

\* What born says of a creation it says for good: sessions are only ever added to it.
LEMMA DescribesIsStable ==
    ASSUME PoolTypeOK,
           UNCHANGED born \/ \E b \in Birth : born' = Append(born, b)
    PROVE  \A r \in Record, i \in Ids : Describes(r, i) => Describes(r, i)'
  <1>1. CASE UNCHANGED born
    BY <1>1 DEF Describes
  <1>2. ASSUME NEW b \in Birth, born' = Append(born, b)
        PROVE  \A n \in DOMAIN born : n \in DOMAIN born' /\ born'[n] = born[n]
    BY <1>2 DEF PoolTypeOK
  <1>3. QED
    BY <1>1, <1>2 DEF Describes

\* A step that leaves tmux and the store alone keeps PoolInv if the call it belongs to
\* goes on with what it needs.
LEMMA LocalStepKeepsInv ==
    ASSUME PoolInv, NEW p \in Procs,
           UNCHANGED <<storeVars, live, born>>,
           NEW step \in PCs, pc' = [pc EXCEPT ![p] = step],
           NEW r \in Request, req' = [req EXCEPT ![p] = r], r.mark <= Len(born),
           NEW v \in SUBSET Ids, view' = [view EXCEPT ![p] = v],
           NEW s \in Record \cup {None}, seen' = [seen EXCEPT ![p] = s],
           step \in Naming => r.sid \in Ids,
           step \in Opening => r.cmd \in Cmds,
           step = "list_all" => \A i \in Ids \ v : live[i] # 0 => live[i] > r.mark,
           step \in {"list_age", "list_delete"} => \A i \in v : live[i] # 0 => live[i] > r.mark,
           step = "list_delete" => (live[r.sid] # 0 => live[r.sid] > r.mark)
    PROVE  PoolInv'
  <1>1. StoreInv'
    BY StoreUnchangedKeepsInv DEF PoolInv
  <1>2. PoolTypeOK'
    BY <1>1 DEF PoolInv, PoolTypeOK, StoreInv
  <1>3. RequestsCarryArguments'
    BY DEF PoolInv, PoolTypeOK, RequestsCarryArguments
  <1>4. RecordsAreReal' /\ CarriedRecordsAreReal'
    BY DEF PoolInv, RecordsAreReal, CarriedRecordsAreReal, Recorded, Describes, storeVars
  <1>5. SweepKnowsTheDead'
    BY DEF PoolInv, PoolTypeOK, SweepKnowsTheDead, Since
  <1>6. SweepSparesListedSessions'
    BY DEF PoolInv, PoolTypeOK, SweepSparesListedSessions
  <1>7. MarksArePast'
    BY DEF PoolInv, PoolTypeOK, MarksArePast
  <1>8. QED
    BY <1>1, <1>2, <1>3, <1>4, <1>5, <1>6, <1>7 DEF PoolInv

\* LocalStepKeepsInv for a step that only moves the call on and takes no sweep further.
LEMMA CheckKeepsInv ==
    ASSUME PoolInv, NEW p \in Procs,
           UNCHANGED <<storeVars, live, born, req, view, seen>>,
           NEW step \in PCs \ {"list_all", "list_age", "list_delete"},
           pc' = [pc EXCEPT ![p] = step],
           step \in Naming => req[p].sid \in Ids,
           step \in Opening => req[p].cmd \in Cmds
    PROVE  PoolInv'
  <1> DEFINE r == req[p]
             v == view[p]
             s == seen[p]
  <1>1. /\ r \in Request /\ req' = [req EXCEPT ![p] = r]
        /\ v \in SUBSET Ids /\ view' = [view EXCEPT ![p] = v]
        /\ s \in Record \cup {None} /\ seen' = [seen EXCEPT ![p] = s]
        /\ step \in Naming => r.sid \in Ids
        /\ step \in Opening => r.cmd \in Cmds
        /\ r.mark <= Len(born)
        /\ UNCHANGED <<storeVars, live, born>>
    BY DEF PoolInv, PoolTypeOK, MarksArePast
  <1> HIDE DEF r, v, s
  <1>2. QED
    BY <1>1, LocalStepKeepsInv

\* A new call starts with its arguments and nothing else in hand.
LEMMA BeginKeepsInv ==
    ASSUME PoolInv, NEW p \in Procs, NEW r \in Request, r.mark = 0,
           NEW step \in PCs \ {"list_all", "list_age", "list_delete"},
           Begin(p, step, r),
           step \in Naming => r.sid \in Ids,
           step \in Opening => r.cmd \in Cmds
    PROVE  PoolInv'
  <1>1. /\ {} \in SUBSET Ids /\ None \in Record \cup {None}
        /\ UNCHANGED <<storeVars, live, born>>
        /\ pc' = [pc EXCEPT ![p] = step]
        /\ req' = [req EXCEPT ![p] = r]
        /\ view' = [view EXCEPT ![p] = {}]
        /\ seen' = [seen EXCEPT ![p] = None]
        /\ r.mark <= Len(born)
    BY DEF Begin, Goto, PoolInv, PoolTypeOK
  <1>2. QED
    BY <1>1, LocalStepKeepsInv

-----------------------------------------------------------------------------
(* The calls begin.                                                         *)

LEMMA CallKeepsInv ==
    ASSUME PoolInv, NEW p \in Procs, Call(p)
    PROVE  PoolInv'
  <1> USE StoreAssumption
      DEF Request, NoRequest, Naming, Opening, PCs, Outcomes, Ops
  <1>1. CASE CallOpen(p)
    <2>1. PICK op \in {"session", "create"}, i \in Ids \cup {None}, c \in Cmds :
             Begin(p, IF i = None THEN "gen_list" ELSE FirstCheck(op),
                   [op |-> op, sid |-> i, cmd |-> c, auto |-> i = None, mark |-> 0])
      BY <1>1 DEF CallOpen
    <2> DEFINE r == [op |-> op, sid |-> i, cmd |-> c, auto |-> i = None, mark |-> 0]
               step == IF i = None THEN "gen_list" ELSE FirstCheck(op)
    <2>2. (i = None) \in BOOLEAN
      OBVIOUS
    <2>3. r \in Request /\ r.sid = i /\ r.cmd = c /\ r.mark = 0
      BY <2>2
    <2>4. step \in {"gen_list", "create_check", "session_check"}
          /\ (step \in Naming => i \in Ids)
      BY DEF FirstCheck
    <2>5. QED
      BY <2>1, <2>3, <2>4, BeginKeepsInv
  <1>2. CASE CallGet(p)
    <2>1. PICK i \in Ids : Begin(p, "get_check", [NoRequest EXCEPT !.op = "get", !.sid = i])
      BY <1>2 DEF CallGet
    <2>2. QED
      BY <2>1, BeginKeepsInv
  <1>3. CASE CallKill(p)
    <2>1. PICK i \in Ids : Begin(p, "kill_check", [NoRequest EXCEPT !.op = "kill", !.sid = i])
      BY <1>3 DEF CallKill
    <2>2. QED
      BY <2>1, BeginKeepsInv
  <1>4. CASE CallSessions(p)
    BY <1>4, BeginKeepsInv DEF CallSessions
  <1>5. CASE KillTmuxServer(p)
    <2>1. StoreInv'
      BY <1>5, StoreUnchangedKeepsInv DEF PoolInv, KillTmuxServer
    <2>2. PoolTypeOK'
      <3>1. Len(born) \in Nat /\ 0 \in 0..Len(born)
        BY DEF PoolInv, PoolTypeOK
      <3>2. QED
        BY <1>5, <2>1, <3>1 DEF PoolInv, PoolTypeOK, StoreInv, KillTmuxServer,
                                Goto
    <2>3. RequestsCarryArguments'
      BY <1>5 DEF PoolInv, PoolTypeOK, RequestsCarryArguments, KillTmuxServer, Goto
    <2>4. RecordsAreReal' /\ CarriedRecordsAreReal'
      BY <1>5 DEF PoolInv, RecordsAreReal, CarriedRecordsAreReal, Recorded, Describes,
                  KillTmuxServer, storeVars
    <2>5. SweepKnowsTheDead' /\ SweepSparesListedSessions'
      BY <1>5 DEF PoolInv, PoolTypeOK, SweepKnowsTheDead, SweepSparesListedSessions, Since,
                  RequestsCarryArguments, KillTmuxServer, Goto
    <2>6. MarksArePast'
      BY <1>5 DEF PoolInv, PoolTypeOK, MarksArePast, KillTmuxServer
    <2>7. QED
      BY <2>1, <2>2, <2>3, <2>4, <2>5, <2>6 DEF PoolInv
  <1>6. QED
    BY <1>1, <1>2, <1>3, <1>4, <1>5 DEF Call

-----------------------------------------------------------------------------
(* The steps of session() and create().                                     *)

LEMMA GenerateKeepsInv ==
    ASSUME PoolInv, NEW p \in Procs, GenerateList(p) \/ GeneratePick(p)
    PROVE  PoolInv'
  <1>a. /\ {"gen_pick", "create_check", "session_check", "idle"}
              \subseteq PCs \ {"list_all", "list_age", "list_delete"}
        /\ "gen_list" \in Opening /\ "gen_pick" \in Opening
        /\ "gen_pick" \notin Naming /\ "idle" \notin Naming /\ "idle" \notin Opening
    BY DEF Naming, Opening, PCs, Outcomes
  <1>1. CASE GenerateList(p)
    <2> DEFINE r == req[p]
               v == LiveIds
               s == seen[p]
    <2>1. /\ r \in Request /\ req' = [req EXCEPT ![p] = r] /\ r.cmd \in Cmds
          /\ s \in Record \cup {None} /\ seen' = [seen EXCEPT ![p] = s]
          /\ v \in SUBSET Ids /\ view' = [view EXCEPT ![p] = v]
          /\ pc' = [pc EXCEPT ![p] = "gen_pick"]
          /\ r.mark <= Len(born)
          /\ UNCHANGED <<storeVars, live, born>>
      BY <1>1, <1>a
      DEF PoolInv, PoolTypeOK, RequestsCarryArguments, MarksArePast, GenerateList, Goto, LiveIds
    <2> HIDE DEF r, v, s
    <2>2. QED
      BY <2>1, <1>a, LocalStepKeepsInv
  <1>2. CASE GeneratePick(p)
    <2> DEFINE s == seen[p]
               taken == view[p] \cup Recorded
    <2>1. /\ s \in Record \cup {None} /\ seen' = [seen EXCEPT ![p] = s]
          /\ {} \in SUBSET Ids /\ view' = [view EXCEPT ![p] = {}]
          /\ req[p] \in Request /\ req[p].cmd \in Cmds /\ req[p].mark <= Len(born)
          /\ UNCHANGED <<storeVars, live, born>>
      BY <1>2, <1>a
      DEF PoolInv, PoolTypeOK, RequestsCarryArguments, MarksArePast, GeneratePick
    <2>2. ASSUME NEW i \in Ids \ taken, req' = [req EXCEPT ![p].sid = i],
                 Goto(p, FirstCheck(req[p].op))
          PROVE  PoolInv'
      <3> DEFINE r == [req[p] EXCEPT !.sid = i]
                 step == FirstCheck(req[p].op)
      <3>1. r \in Request /\ r.sid \in Ids /\ r.cmd \in Cmds /\ r.mark <= Len(born)
            /\ req' = [req EXCEPT ![p] = r]
        BY <2>1, <2>2 DEF Request
      <3>2. step \in {"create_check", "session_check"} /\ pc' = [pc EXCEPT ![p] = step]
        BY <2>2 DEF FirstCheck, Goto
      <3> HIDE DEF r, step, s
      <3>3. QED
        BY <2>1, <3>1, <3>2, <1>a, LocalStepKeepsInv
    <2>3. ASSUME Goto(p, "idle"), req' = [req EXCEPT ![p] = NoRequest]
          PROVE  PoolInv'
      <3>1. /\ NoRequest \in Request /\ pc' = [pc EXCEPT ![p] = "idle"]
            /\ NoRequest.mark <= Len(born)
        BY <2>3, StoreAssumption DEF Request, NoRequest, Goto, PoolInv, PoolTypeOK
      <3> HIDE DEF s
      <3>2. QED
        BY <2>1, <2>3, <3>1, <1>a, LocalStepKeepsInv
    <2>4. QED
      BY <1>2, <2>2, <2>3 DEF GeneratePick
  <1>3. QED
    BY <1>1, <1>2

LEMMA LookupKeepsInv ==
    ASSUME PoolInv, NEW p \in Procs,
           CreateCheck(p) \/ SessionCheck(p) \/ GetCheck(p) \/ GetRead(p) \/ KillCheck(p)
    PROVE  PoolInv'
  <1> DEFINE step == pc'[p]
  <1>1. /\ pc[p] \in Naming
        /\ step \in {"SessionExists", "session_check", "attach_read", "new", "get_read",
                     "NoSuchSession", "handle", "external", "kill_session", "kill_delete"}
        /\ pc' = [pc EXCEPT ![p] = step]
        /\ UNCHANGED <<storeVars, live, born, req, view, seen>>
        /\ step \in Opening => pc[p] \in Opening
    BY DEF PoolInv, PoolTypeOK, CreateCheck, SessionCheck, GetCheck, GetRead, KillCheck,
           Goto, Naming, Opening
  <1>2. step \in PCs \ {"list_all", "list_age", "list_delete"}
    BY <1>1 DEF PCs, Outcomes, Opening
  <1>3. req[p].sid \in Ids /\ (step \in Opening => req[p].cmd \in Cmds)
    BY <1>1 DEF PoolInv, RequestsCarryArguments
  <1> HIDE DEF step
  <1>4. QED
    BY <1>1, <1>2, <1>3, CheckKeepsInv

\* A step that leaves live and born alone and goes on outside a sweep keeps what PoolInv
\* says of requests and sweeps.
LEMMA NoSweepKeepsSweeps ==
    ASSUME PoolInv, NEW p \in Procs, UNCHANGED <<live, born, req, view>>,
           NEW step \in {"touch", "write", "handle", "external", "OSError", "done"},
           pc' = [pc EXCEPT ![p] = step],
           pc[p] \in Naming
    PROVE  /\ RequestsCarryArguments' /\ MarksArePast'
           /\ SweepKnowsTheDead' /\ SweepSparesListedSessions'
  BY DEF PoolInv, PoolTypeOK, RequestsCarryArguments, MarksArePast, SweepKnowsTheDead, Since,
         SweepSparesListedSessions, Naming, Opening

LEMMA AttachReadKeepsInv ==
    ASSUME PoolInv, NEW p \in Procs, AttachRead(p)
    PROVE  PoolInv'
  <1> DEFINE i == req[p].sid
  <1>1. i \in Ids /\ StartTouch(p, i) /\ pc' = [pc EXCEPT ![p] = "touch"]
        /\ pc[p] \in Naming /\ UNCHANGED <<live, born, req, view>>
    BY DEF PoolInv, RequestsCarryArguments, AttachRead, Naming, Goto
  <1>2. StoreInv'
    BY <1>1, StartKeepsInv DEF PoolInv
  <1>3. PoolTypeOK'
    BY <1>1, <1>2 DEF PoolInv, PoolTypeOK, StoreInv, StoreTypeOK, AttachRead, PCs
  <1>4. RecordsAreReal' /\ CarriedRecordsAreReal'
    BY <1>1 DEF PoolInv, PoolTypeOK, StoreTypeOK, RecordsAreReal, CarriedRecordsAreReal,
                Recorded, Describes, StartTouch
  <1>5. QED
    BY <1>1, <1>2, <1>3, <1>4, NoSweepKeepsSweeps DEF PoolInv

LEMMA StoreReturnKeepsInv ==
    ASSUME PoolInv, NEW p \in Procs, AttachTouched(p) \/ RecordWritten(p)
    PROVE  PoolInv'
  <1> DEFINE step == pc'[p]
  <1>1. /\ step \in {"handle", "external", "OSError"} /\ pc' = [pc EXCEPT ![p] = step]
        /\ pc[p] \in Naming /\ UNCHANGED <<live, born, req, view>> /\ Return(p)
    BY DEF PoolInv, PoolTypeOK, AttachTouched, RecordWritten, Goto, Naming
  <1>2. StoreInv'
    BY <1>1, StepKeepsInv DEF PoolInv
  <1>3. PoolTypeOK'
    BY <1>1, <1>2
    DEF PoolInv, PoolTypeOK, StoreInv, AttachTouched, RecordWritten, PCs, Outcomes
  <1>4. RecordsAreReal' /\ CarriedRecordsAreReal'
    BY <1>1 DEF PoolInv, PoolTypeOK, StoreTypeOK, RecordsAreReal, CarriedRecordsAreReal,
                Recorded, Describes, Return, NoCall
  <1> HIDE DEF step
  <1>5. QED
    BY <1>1, <1>2, <1>3, <1>4, NoSweepKeepsSweeps DEF PoolInv

\* The session is in born before its record is on its way, so the record is real; and it
\* is newer than any list a sweep has taken.
LEMMA NewSessionKeepsInv ==
    ASSUME PoolInv, NEW p \in Procs, NewSession(p)
    PROVE  PoolInv'
  <1>1. req[p].sid \in Ids /\ req[p].cmd \in Cmds /\ pc[p] \in Naming /\ Len(born) \in Nat
    BY DEF PoolInv, PoolTypeOK, RequestsCarryArguments, NewSession, Naming, Opening
  <1>2. CASE live[req[p].sid] # 0
    <2>1. "TmuxGone" \in PCs \ {"list_all", "list_age", "list_delete"}
          /\ "TmuxGone" \notin Naming /\ "TmuxGone" \notin Opening
      BY DEF PCs, Outcomes, Naming, Opening
    <2>2. QED
      BY <1>2, <2>1, CheckKeepsInv DEF NewSession, Goto
  <1>3. CASE live[req[p].sid] = 0
    <2>1. PICK i \in Ids : i = req[p].sid
      BY <1>1
    <2>2. PICK n \in Nat : n = Len(born) + 1
      BY <1>1
    <2>3. PICK b \in Birth : b.id = i /\ b.cmd = req[p].cmd /\ b.by = p
                            /\ born' = Append(born, b)
      BY <1>1, <1>3, <2>1 DEF NewSession, Birth
    <2>4. PICK r \in Record : /\ ~r.attached /\ r.created_at = n /\ r.cmd = b.cmd
                             /\ StartWrite(p, i, r)
      BY <1>1, <1>3, <2>1, <2>2, <2>3 DEF NewSession, FreshRecord, Record
    <2>5. /\ live[i] = 0 /\ live' = [live EXCEPT ![i] = n]
          /\ pc' = [pc EXCEPT ![p] = "write"]
          /\ UNCHANGED <<req, view, seen>>
      BY <1>3, <2>1, <2>2 DEF NewSession, Goto
    <2>6. born' \in Seq(Birth) /\ Len(born') = n /\ born'[n] = b /\ n \in DOMAIN born'
      BY <1>1, <2>2, <2>3 DEF PoolInv, PoolTypeOK
    <2>7. StoreInv'
      BY <2>4, StartKeepsInv DEF PoolInv
    <2>8. PoolTypeOK'
      <3>1. live' \in [Ids -> 0..Len(born')]
        BY <1>1, <2>2, <2>5, <2>6 DEF PoolInv, PoolTypeOK
      <3>2. QED
        BY <2>5, <2>6, <2>7, <3>1 DEF PoolInv, PoolTypeOK, StoreInv, PCs
    <2>9. RecordsAreReal' /\ CarriedRecordsAreReal'
      <3>1. Describes(r, i)'
        BY <2>3, <2>4, <2>6, StoreAssumption DEF Describes
      <3>2. \A x \in Record, j \in Ids : Describes(x, j) => Describes(x, j)'
        <4>1. \E x \in Birth : born' = Append(born, x)
          BY <2>3
        <4>2. QED
          BY <4>1, DescribesIsStable DEF PoolInv
      <3>3. /\ disk' = disk
            /\ call' = [call EXCEPT ![p] =
                           [step |-> "lock", kind |-> "write", id |-> i, rec |-> r]]
        BY <2>4 DEF StartWrite
      <3>4. DOMAIN call = Procs
        BY DEF PoolInv, PoolTypeOK, StoreTypeOK
      <3>5. RecordsAreReal'
        BY <3>2, <3>3 DEF PoolInv, PoolTypeOK, StoreTypeOK, RecordsAreReal, Recorded
      <3>6. CarriedRecordsAreReal'
        <4>1. ASSUME NEW q \in Procs, call'[q].rec # None
              PROVE  call'[q].id \in Ids /\ Describes(call[q].rec, call[q].id)'
          <5>1. CASE q = p
            BY <3>1, <3>3, <3>4, <5>1 DEF Describes
          <5>2. CASE q # p
            <6>1. call'[q] = call[q]
              BY <3>3, <3>4, <5>2
            <6>2. call[q].id \in Ids /\ call[q].rec \in Record
                  /\ Describes(call[q].rec, call[q].id)
              BY <4>1, <6>1
              DEF PoolInv, PoolTypeOK, StoreTypeOK, StoreCall, CarriedRecordsAreReal
            <6>3. QED
              BY <3>2, <6>1, <6>2 DEF Describes
          <5>3. QED
            BY <5>1, <5>2
        <4>2. QED
          BY <4>1 DEF CarriedRecordsAreReal
      <3>7. QED
        BY <3>5, <3>6
    <2>10. \A q \in Procs : req[q].mark \in Nat /\ req[q].mark < n
      BY <1>1, <2>2 DEF PoolInv, PoolTypeOK, MarksArePast, Request
    <2>11. MarksArePast' /\ RequestsCarryArguments'
      BY <1>1, <2>5, <2>6, <2>10
      DEF PoolInv, PoolTypeOK, MarksArePast, RequestsCarryArguments, Naming, Opening
    <2>12. SweepSparesListedSessions' /\ SweepKnowsTheDead'
      BY <2>5, <2>10
      DEF PoolInv, PoolTypeOK, SweepSparesListedSessions, SweepKnowsTheDead, Since
    <2>13. QED
      BY <2>7, <2>8, <2>9, <2>11, <2>12 DEF PoolInv
  <1>4. QED
    BY <1>2, <1>3

-----------------------------------------------------------------------------
(* Sessions end; records are deleted.                                       *)

\* Fewer live sessions: nothing PoolInv says of live ones becomes false.
LEMMA DeathKeepsInv ==
    ASSUME PoolInv,
           UNCHANGED <<storeVars, born, req, view, seen>>,
           live' \in [Ids -> 0..Len(born)],
           \A i \in Ids : live'[i] = 0 \/ live'[i] = live[i],
           \/ UNCHANGED pc
           \/ \E p \in Procs : pc[p] = "kill_session" /\ pc' = [pc EXCEPT ![p] = "kill_delete"]
    PROVE  PoolInv'
  <1>1. StoreInv'
    BY StoreUnchangedKeepsInv DEF PoolInv
  <1>2. PoolTypeOK'
    BY <1>1 DEF PoolInv, PoolTypeOK, StoreInv, PCs
  <1>3. RecordsAreReal' /\ CarriedRecordsAreReal' /\ MarksArePast'
    BY DEF PoolInv, RecordsAreReal, CarriedRecordsAreReal, MarksArePast, Recorded, Describes,
           storeVars
  <1>4. RequestsCarryArguments'
    BY DEF PoolInv, PoolTypeOK, RequestsCarryArguments, Naming, Opening
  <1>5. \A p \in Procs :
           /\ pc'[p] \in {"list_all", "list_age", "list_delete"} => pc'[p] = pc[p]
           /\ pc'[p] = "list_delete" => req[p].sid \in Ids
    BY DEF PoolInv, PoolTypeOK, RequestsCarryArguments, Naming
  <1>6. SweepKnowsTheDead' /\ SweepSparesListedSessions'
    BY <1>5 DEF PoolInv, SweepKnowsTheDead, SweepSparesListedSessions, Since
  <1>7. QED
    BY <1>1, <1>2, <1>3, <1>4, <1>6 DEF PoolInv

LEMMA KillSessionKeepsInv ==
    ASSUME PoolInv, NEW p \in Procs, KillSession(p)
    PROVE  PoolInv'
  <1>1. req[p].sid \in Ids /\ Len(born) \in Nat
    BY DEF PoolInv, PoolTypeOK, RequestsCarryArguments, KillSession, Naming
  <1>2. CASE live[req[p].sid] # 0
    <2>1. live' = [live EXCEPT ![req[p].sid] = 0]
          /\ UNCHANGED <<storeVars, born, req, view, seen>>
          /\ pc[p] = "kill_session" /\ pc' = [pc EXCEPT ![p] = "kill_delete"]
      BY <1>2 DEF KillSession, Goto
    <2>2. live' \in [Ids -> 0..Len(born)]
          /\ \A i \in Ids : live'[i] = 0 \/ live'[i] = live[i]
      BY <1>1, <2>1 DEF PoolInv, PoolTypeOK
    <2>3. QED
      BY <2>1, <2>2, DeathKeepsInv
  <1>3. CASE live[req[p].sid] = 0
    <2>1. "TmuxGone" \in PCs \ {"list_all", "list_age", "list_delete"}
          /\ "TmuxGone" \notin Naming /\ "TmuxGone" \notin Opening
      BY DEF PCs, Outcomes, Naming, Opening
    <2>2. QED
      BY <1>3, <2>1, CheckKeepsInv DEF KillSession, Goto
  <1>4. QED
    BY <1>2, <1>3

LEMMA ExitKeepsInv ==
    ASSUME PoolInv, NEW i \in Ids, Exit(i)
    PROVE  PoolInv'
  <1>1. live' \in [Ids -> 0..Len(born)] /\ \A j \in Ids : live'[j] = 0 \/ live'[j] = live[j]
    BY DEF PoolInv, PoolTypeOK, Exit
  <1>2. QED
    BY <1>1, DeathKeepsInv DEF Exit

\* An unlink by a kill or a sweep, which then goes on.
LEMMA UnlinkKeepsInv ==
    ASSUME PoolInv, NEW p \in Procs, KillDelete(p) \/ ListDelete(p)
    PROVE  PoolInv'
  <1> DEFINE i == req[p].sid
             step == pc'[p]
  <1>1. /\ i \in Ids /\ Delete(i) /\ pc' = [pc EXCEPT ![p] = step]
        /\ UNCHANGED <<lock, call, live, born, req, view, seen>>
        /\ \/ step = "done"
           \/ pc[p] = "list_delete" /\ step = "list_age"
    BY DEF PoolInv, PoolTypeOK, RequestsCarryArguments, KillDelete, ListDelete, Goto, Naming
  <1> HIDE DEF i, step
  <1>2. StoreInv'
    BY <1>1, DeleteKeepsInv DEF PoolInv
  <1>3. PoolTypeOK'
    BY <1>1, <1>2 DEF PoolInv, PoolTypeOK, StoreInv, PCs, Outcomes
  <1>4. RecordsAreReal' /\ CarriedRecordsAreReal' /\ MarksArePast'
    BY <1>1 DEF PoolInv, PoolTypeOK, StoreTypeOK, RecordsAreReal, CarriedRecordsAreReal,
                MarksArePast, Recorded, Describes, Delete
  <1>5. RequestsCarryArguments' /\ SweepSparesListedSessions'
    BY <1>1 DEF PoolInv, PoolTypeOK, RequestsCarryArguments, SweepSparesListedSessions,
                Naming, Opening
  <1>6. SweepKnowsTheDead'
    BY <1>1 DEF PoolInv, PoolTypeOK, SweepKnowsTheDead, Since
  <1>7. QED
    BY <1>2, <1>3, <1>4, <1>5, <1>6 DEF PoolInv

-----------------------------------------------------------------------------
(* The sweep.                                                               *)

LEMMA ListLiveKeepsInv ==
    ASSUME PoolInv, NEW p \in Procs, ListLive(p)
    PROVE  PoolInv'
  <1>1. PICK n \in Nat : n = Len(born)
    BY DEF PoolInv, PoolTypeOK
  <1>2. PICK r \in Request : r = [req[p] EXCEPT !.mark = n]
    BY <1>1 DEF PoolInv, PoolTypeOK, Request
  <1> DEFINE v == LiveIds
             s == seen[p]
  <1>3. r.mark <= Len(born)
    BY <1>1, <1>2 DEF PoolInv, PoolTypeOK, Request
  <1>4. req' = [req EXCEPT ![p] = r]
    BY <1>1, <1>2 DEF ListLive
  <1>5. /\ v \in SUBSET Ids /\ view' = [view EXCEPT ![p] = v]
        /\ s \in Record \cup {None} /\ seen' = [seen EXCEPT ![p] = s]
        /\ pc' = [pc EXCEPT ![p] = "list_all"]
        /\ UNCHANGED <<storeVars, live, born>>
        /\ \A i \in Ids \ v : live[i] # 0 => live[i] > r.mark
    BY DEF PoolInv, PoolTypeOK, ListLive, LiveIds, Goto
  <1>6. "list_all" \in PCs /\ "list_all" \notin Naming /\ "list_all" \notin Opening
    BY DEF PCs, Naming, Opening
  <1> HIDE DEF v, s
  <1>7. /\ "list_all" \notin {"list_age", "list_delete"}
        /\ r \in Request
    OBVIOUS
  <1>8. QED
    BY <1>3, <1>4, <1>5, <1>6, <1>7, LocalStepKeepsInv

LEMMA ListAllKeepsInv ==
    ASSUME PoolInv, NEW p \in Procs, ListAll(p)
    PROVE  PoolInv'
  <1> DEFINE r == req[p]
             v == Recorded \ view[p]
             s == seen[p]
  <1>1. /\ r \in Request /\ r.mark <= Len(born) /\ req' = [req EXCEPT ![p] = r]
        /\ v \in SUBSET Ids /\ view' = [view EXCEPT ![p] = v]
        /\ s \in Record \cup {None} /\ seen' = [seen EXCEPT ![p] = s]
        /\ pc' = [pc EXCEPT ![p] = "list_age"]
        /\ UNCHANGED <<storeVars, live, born>>
    BY DEF PoolInv, PoolTypeOK, MarksArePast, ListAll, Recorded, Goto
  <1>2. \A i \in v : live[i] # 0 => live[i] > r.mark
    BY DEF PoolInv, SweepKnowsTheDead, Since, ListAll, Recorded
  <1>3. "list_age" \in PCs /\ "list_age" \notin Naming /\ "list_age" \notin Opening
    BY DEF PCs, Naming, Opening
  <1> HIDE DEF r, v, s
  <1>4. QED
    BY <1>1, <1>2, <1>3, LocalStepKeepsInv

LEMMA ListAgeKeepsInv ==
    ASSUME PoolInv, NEW p \in Procs, ListAge(p)
    PROVE  PoolInv'
  <1> DEFINE s == seen[p]
  <1>1. /\ s \in Record \cup {None} /\ seen' = [seen EXCEPT ![p] = s]
        /\ req[p] \in Request /\ req[p].mark <= Len(born)
        /\ view[p] \in SUBSET Ids
        /\ UNCHANGED <<storeVars, live, born>>
        /\ \A i \in view[p] : live[i] # 0 => live[i] > req[p].mark
    BY DEF PoolInv, PoolTypeOK, MarksArePast, SweepKnowsTheDead, Since, ListAge
  <1>2. /\ {"list_age", "list_delete", "done"} \subseteq PCs
        /\ "list_age" \notin Naming /\ "done" \notin Naming
        /\ "list_age" \notin Opening /\ "list_delete" \notin Opening /\ "done" \notin Opening
    BY DEF PCs, Outcomes, Naming, Opening
  <1>3. CASE view[p] = {} /\ Goto(p, "done") /\ UNCHANGED <<view, req>>
    BY <1>1, <1>2, <1>3, CheckKeepsInv DEF ListAge, Goto
  <1>4. ASSUME NEW i \in view[p],
               view' = [view EXCEPT ![p] = @ \ {i}],
               IF Expired(i)
               THEN Goto(p, "list_delete") /\ req' = [req EXCEPT ![p].sid = i]
               ELSE UNCHANGED <<pc, req>>
        PROVE  PoolInv'
    <2> DEFINE v == view[p] \ {i}
    <2>1. v \in SUBSET Ids /\ view' = [view EXCEPT ![p] = v] /\ v \subseteq view[p]
      BY <1>1, <1>4 DEF PoolInv, PoolTypeOK
    <2>2. CASE Expired(i)
      <3> DEFINE r == [req[p] EXCEPT !.sid = i]
      <3>1. /\ r \in Request /\ r.sid = i /\ r.mark = req[p].mark /\ i \in Ids
            /\ req' = [req EXCEPT ![p] = r]
            /\ pc' = [pc EXCEPT ![p] = "list_delete"]
        BY <1>1, <1>4, <2>2 DEF Request, Goto
      <3> HIDE DEF r, v, s
      <3>2. QED
        BY <1>1, <1>2, <1>4, <2>1, <3>1, LocalStepKeepsInv
    <2>3. CASE ~Expired(i)
      <3> DEFINE r == req[p]
      <3>1. /\ r \in Request /\ r.mark = req[p].mark
            /\ req' = [req EXCEPT ![p] = r]
            /\ pc' = [pc EXCEPT ![p] = "list_age"]
        BY <1>1, <1>4, <2>3 DEF PoolInv, PoolTypeOK, ListAge
      <3> HIDE DEF r, v, s
      <3>2. QED
        BY <1>1, <1>2, <2>1, <3>1, LocalStepKeepsInv
    <2>4. QED
      BY <2>2, <2>3
  <1>5. QED
    BY <1>3, <1>4 DEF ListAge

-----------------------------------------------------------------------------
(* The store's steps, and what happens around the library.                  *)

\* A step that leaves the pool's own variables alone.
LEMMA StoreOnlyKeepsInv ==
    ASSUME PoolInv, UNCHANGED poolVars, StoreInv', RecordsAreReal', CarriedRecordsAreReal'
    PROVE  PoolInv'
  BY DEF PoolInv, PoolTypeOK, StoreInv, poolVars, RequestsCarryArguments, MarksArePast,
         SweepKnowsTheDead, Since, SweepSparesListedSessions

LEMMA StoreProgressKeepsInv ==
    ASSUME PoolInv, NEW p \in Procs, StoreProgress(p)
    PROVE  PoolInv'
  <1>1. /\ StoreInv /\ RecordsAreReal /\ CarriedRecordsAreReal
        /\ disk \in [Ids -> Record \cup {None}] /\ call \in [Procs -> StoreCall]
    BY DEF PoolInv, StoreInv, StoreTypeOK
  <1>2. StoreInv' /\ UNCHANGED poolVars
    BY <1>1, StepKeepsInv DEF StoreProgress
  <1>3. UNCHANGED born
    BY <1>2 DEF poolVars
  <1>4. CASE Replace(p)
    <2>1. PICK i \in Ids, r \in Record : i = call[p].id /\ r = call[p].rec
      BY <1>1, <1>4 DEF StoreInv, CallsCarryArguments, Replace
    <2>2. Describes(r, i)
      BY <1>1, <2>1, StoreAssumption DEF CarriedRecordsAreReal, Record
    <2>3. disk' = [disk EXCEPT ![i] = r] /\ call' = [call EXCEPT ![p].step = "unlock"]
      BY <1>4, <2>1 DEF Replace
    <2>4. RecordsAreReal'
      BY <1>1, <1>3, <2>2, <2>3 DEF RecordsAreReal, Recorded, Describes
    <2>5. CarriedRecordsAreReal'
      BY <1>1, <1>3, <2>3 DEF CarriedRecordsAreReal, StoreCall, Describes
    <2>6. QED
      BY <1>2, <2>4, <2>5, StoreOnlyKeepsInv
  <1>5. CASE ReadForTouch(p)
    <2>1. PICK i \in Ids : i = call[p].id
      BY <1>1, <1>5 DEF StoreInv, CallsCarryArguments, ReadForTouch
    <2>2. UNCHANGED disk
      BY <1>5 DEF ReadForTouch
    <2>3. RecordsAreReal'
      BY <1>1, <1>3, <2>2 DEF RecordsAreReal, Recorded, Describes
    <2>4. /\ \A q \in Procs \ {p} : call'[q] = call[q]
          /\ call'[p].id = i
          /\ \/ call'[p].rec = call[p].rec
             \/ disk[i] # None /\ call'[p].rec = [disk[i] EXCEPT !.attached = TRUE]
      BY <1>1, <1>5, <2>1 DEF ReadForTouch, StoreCall
    <2>5. ASSUME NEW q \in Procs, call'[q].rec # None, call'[q].rec = call[q].rec,
                 call'[q].id = call[q].id
          PROVE  call'[q].id \in Ids /\ Describes(call[q].rec, call[q].id)'
      BY <1>1, <1>3, <2>5 DEF CarriedRecordsAreReal, Describes
    <2>6. ASSUME disk[i] # None, call'[p].rec = [disk[i] EXCEPT !.attached = TRUE]
          PROVE  Describes(call[p].rec, call[p].id)'
      <3>1. PICK d \in Record : d = disk[i]
        BY <1>1, <2>6
      <3>2. Describes(d, i)
        BY <1>1, <2>6, <3>1 DEF RecordsAreReal, Recorded
      <3>3. PICK e \in Record : e = [d EXCEPT !.attached = TRUE]
        BY <3>1 DEF Record
      <3>4. Describes(e, i) /\ call'[p].rec = e
        BY <2>6, <3>1, <3>2, <3>3 DEF Describes, Record
      <3>5. QED
        BY <1>3, <2>4, <3>4 DEF Describes
    <2>7. CarriedRecordsAreReal'
      <3>1. ASSUME NEW q \in Procs, call'[q].rec # None
            PROVE  call'[q].id \in Ids /\ Describes(call[q].rec, call[q].id)'
        BY <2>1, <2>4, <2>5, <2>6, <3>1
      <3>2. QED
        BY <3>1 DEF CarriedRecordsAreReal
    <2>8. QED
      BY <1>2, <2>3, <2>7, StoreOnlyKeepsInv
  <1>6. CASE Acquire(p) \/ Release(p) \/ WriteError(p)
    <2>1. /\ UNCHANGED disk
          /\ \A q \in Procs : call'[q].rec = call[q].rec /\ call'[q].id = call[q].id
      BY <1>1, <1>6 DEF Acquire, Release, WriteError, StoreCall
    <2>2. RecordsAreReal' /\ CarriedRecordsAreReal'
      BY <1>1, <1>3, <2>1 DEF RecordsAreReal, CarriedRecordsAreReal, Recorded, Describes
    <2>3. QED
      BY <1>2, <2>2, StoreOnlyKeepsInv
  <1>7. QED
    BY <1>4, <1>5, <1>6 DEF StoreProgress, StoreStep

LEMMA LapsingKeepsInv ==
    ASSUME PoolInv, NEW i \in Ids, Lapse(i), UNCHANGED poolVars
    PROVE  PoolInv'
  <1>1. StoreInv'
    BY LapseKeepsInv DEF PoolInv
  <1>2. RecordsAreReal' /\ CarriedRecordsAreReal'
    BY DEF PoolInv, RecordsAreReal, CarriedRecordsAreReal, Recorded, Describes, Lapse, poolVars
  <1>3. QED
    BY <1>1, <1>2, StoreOnlyKeepsInv

\* A session somebody opened at a shell is newer than any list a sweep has taken.
LEMMA BypassKeepsInv ==
    ASSUME PoolInv, NEW i \in Ids, NEW c \in Cmds, Bypass(i, c)
    PROVE  PoolInv'
  <1>1. PICK n \in Nat : n = Len(born) + 1
    BY DEF PoolInv, PoolTypeOK
  <1>2. PICK b \in Birth : born' = Append(born, b)
    BY DEF Bypass, Birth
  <1>3. /\ live[i] = 0 /\ live' = [live EXCEPT ![i] = n]
        /\ UNCHANGED <<storeVars, pc, req, view, seen>>
    BY <1>1 DEF Bypass
  <1>4. born' \in Seq(Birth) /\ Len(born') = n
    BY <1>1, <1>2 DEF PoolInv, PoolTypeOK
  <1>5. StoreInv'
    BY <1>3, StoreUnchangedKeepsInv DEF PoolInv
  <1>6. PoolTypeOK'
    <2>1. live' \in [Ids -> 0..Len(born')]
      BY <1>1, <1>3, <1>4 DEF PoolInv, PoolTypeOK
    <2>2. QED
      BY <1>3, <1>4, <1>5, <2>1 DEF PoolInv, PoolTypeOK, StoreInv
  <1>7. \A x \in Record, j \in Ids : Describes(x, j) => Describes(x, j)'
    <2>1. \E x \in Birth : born' = Append(born, x)
      BY <1>2
    <2>2. QED
      BY <2>1, DescribesIsStable DEF PoolInv
  <1>8. /\ \A j \in Ids : disk[j] # None => disk[j] \in Record
        /\ \A q \in Procs : call[q].rec # None => call[q].rec \in Record
    BY DEF PoolInv, PoolTypeOK, StoreTypeOK, StoreCall
  <1>9. UNCHANGED <<disk, call>>
    BY <1>3 DEF storeVars
  <1>10. RecordsAreReal'
    BY <1>7, <1>8, <1>9 DEF PoolInv, RecordsAreReal, Recorded, Describes
  <1>11. CarriedRecordsAreReal'
    BY <1>7, <1>8, <1>9 DEF PoolInv, CarriedRecordsAreReal, Describes
  <1>12. \A q \in Procs : req[q].mark \in Nat /\ req[q].mark < n
    BY <1>1 DEF PoolInv, PoolTypeOK, MarksArePast, Request
  <1>13. MarksArePast' /\ RequestsCarryArguments'
    BY <1>3, <1>4, <1>12 DEF PoolInv, MarksArePast, RequestsCarryArguments
  <1>14. SweepSparesListedSessions' /\ SweepKnowsTheDead'
    BY <1>3, <1>12
    DEF PoolInv, PoolTypeOK, SweepSparesListedSessions, SweepKnowsTheDead, Since
  <1>15. QED
    BY <1>5, <1>6, <1>10, <1>11, <1>13, <1>14 DEF PoolInv

\* A crash ends the call in progress and nothing else.
LEMMA CrashingKeepsInv ==
    ASSUME PoolInv, NEW p \in Procs, Crash(p)
    PROVE  PoolInv'
  <1>1. StoreInv'
    BY CrashKeepsInv DEF PoolInv, Crash
  <1>2. /\ pc' = [pc EXCEPT ![p] = "idle"] /\ req' = [req EXCEPT ![p] = NoRequest]
        /\ view' = [view EXCEPT ![p] = {}] /\ seen' = [seen EXCEPT ![p] = None]
        /\ call' = [call EXCEPT ![p] = NoCall]
        /\ UNCHANGED <<live, born, disk>>
    BY DEF Crash, StoreCrash, Goto
  <1>3. NoRequest \in Request /\ NoRequest.mark = 0
    BY DEF NoRequest, Request
  <1>4. PoolTypeOK'
    BY <1>1, <1>2, <1>3 DEF PoolInv, PoolTypeOK, StoreInv, PCs, Outcomes
  <1>5. RecordsAreReal' /\ CarriedRecordsAreReal'
    BY <1>2 DEF PoolInv, PoolTypeOK, StoreTypeOK, RecordsAreReal, CarriedRecordsAreReal,
                Recorded, Describes, NoCall
  <1>6. RequestsCarryArguments' /\ SweepKnowsTheDead' /\ SweepSparesListedSessions'
    BY <1>2 DEF PoolInv, PoolTypeOK, RequestsCarryArguments, SweepKnowsTheDead, Since,
                SweepSparesListedSessions, Naming, Opening
  <1>7. MarksArePast'
    BY <1>2, <1>3 DEF PoolInv, PoolTypeOK, MarksArePast
  <1>8. QED
    BY <1>1, <1>4, <1>5, <1>6, <1>7 DEF PoolInv

-----------------------------------------------------------------------------
(* The theorems.                                                            *)

LEMMA PoolNextKeepsInv == PoolInv /\ [Next]_vars => PoolInv'
  <1> SUFFICES ASSUME PoolInv, [Next]_vars
               PROVE  PoolInv'
    OBVIOUS
  <1>1. ASSUME NEW p \in Procs, Call(p)
        PROVE  PoolInv'
    BY <1>1, CallKeepsInv
  <1>2. ASSUME NEW p \in Procs, Step(p)
        PROVE  PoolInv'
    BY <1>2, GenerateKeepsInv, LookupKeepsInv, AttachReadKeepsInv, StoreReturnKeepsInv,
       NewSessionKeepsInv, KillSessionKeepsInv, UnlinkKeepsInv, ListLiveKeepsInv,
       ListAllKeepsInv, ListAgeKeepsInv, StoreProgressKeepsInv
    DEF Step
  <1>3. CASE Environment
    BY <1>3, ExitKeepsInv, BypassKeepsInv, LapsingKeepsInv, CrashingKeepsInv DEF Environment
  <1>4. CASE UNCHANGED vars
    <2>1. UNCHANGED storeVars /\ UNCHANGED poolVars
      BY <1>4 DEF vars
    <2>2. StoreInv'
      BY <2>1, StoreUnchangedKeepsInv DEF PoolInv
    <2>3. RecordsAreReal' /\ CarriedRecordsAreReal'
      BY <2>1 DEF PoolInv, RecordsAreReal, CarriedRecordsAreReal, Recorded, Describes,
                  storeVars, poolVars
    <2>4. QED
      BY <2>1, <2>2, <2>3, StoreOnlyKeepsInv
  <1>5. QED
    BY <1>1, <1>2, <1>3, <1>4 DEF Next

\* Every state of the pool is well typed: in particular a live session is always one of
\* those that were created, under its own name's last creation.
THEOREM PoolTypeCorrect == Spec => []PoolTypeOK
  <1>1. PoolInv => PoolTypeOK
    BY DEF PoolInv
  <1>2. QED
    BY <1>1, InitInv, PoolNextKeepsInv, PTL DEF Spec

\* No interleaving of calls, sweeps, kills, exits, bypasses, failing writes and crashes
\* leaves a record on disk that tells of a session the library never started.
THEOREM RecordsStayReal == Spec => []RecordsAreReal
  <1>1. PoolInv => RecordsAreReal
    BY DEF PoolInv
  <1>2. QED
    BY <1>1, InitInv, PoolNextKeepsInv, PTL DEF Spec

\* A sweep never takes the record of a session that was live when it asked tmux and
\* still is.
THEOREM SweepSparesLive == Spec => []SweepSparesListedSessions
  <1>1. PoolInv => SweepSparesListedSessions
    BY DEF PoolInv
  <1>2. QED
    BY <1>1, InitInv, PoolNextKeepsInv, PTL DEF Spec

\* The store's lock excludes and its stamps lose no write inside the pool as well, where
\* records are deleted without it.
THEOREM PoolKeepsStoreDiscipline == Spec => [](LockHeld /\ TouchKeepsRecord)
  <1>1. PoolInv => LockHeld /\ TouchKeepsRecord
    BY DEF PoolInv, StoreInv
  <1>2. QED
    BY <1>1, InitInv, PoolNextKeepsInv, PTL DEF Spec

LEMMA StepsLeaveSessionsAlone ==
    ASSUME PoolInv, Next, NEW i \in Ids, live'[i] # live[i]
    PROVE  Opened(i) \/ Ended(i)
  <1>1. /\ live \in [Ids -> 0..Len(born)] /\ born \in Seq(Birth) /\ Len(born) \in Nat
        /\ DOMAIN pc = Procs /\ DOMAIN req = Procs
    BY DEF PoolInv, PoolTypeOK
  <1>2. ASSUME NEW p \in Procs, NewSession(p)
        PROVE  Opened(i)
    BY <1>1, <1>2 DEF NewSession, Opened
  <1>3. ASSUME NEW p \in Procs, KillSession(p)
        PROVE  Ended(i)
    BY <1>1, <1>3 DEF KillSession, Ended, Goto
  <1>4. ASSUME NEW p \in Procs, KillTmuxServer(p)
        PROVE  Ended(i)
    BY <1>1, <1>4 DEF KillTmuxServer, Ended, Goto, NoRequest
  <1>5. ASSUME NEW j \in Ids, Exit(j)
        PROVE  Ended(i)
    BY <1>1, <1>5 DEF Exit, Ended
  <1>6. ASSUME NEW j \in Ids, NEW c \in Cmds, Bypass(j, c)
        PROVE  Opened(i)
    BY <1>1, <1>6 DEF Bypass, Opened
  <1>7. \/ \E p \in Procs : NewSession(p) \/ KillSession(p) \/ KillTmuxServer(p)
        \/ \E j \in Ids : Exit(j) \/ \E c \in Cmds : Bypass(j, c)
    BY DEF Next, Call, CallOpen, CallGet, CallKill, CallSessions, Begin, Step, GenerateList,
           GeneratePick, CreateCheck, SessionCheck, AttachRead, AttachTouched, RecordWritten,
           GetCheck, GetRead, KillCheck, KillDelete, ListLive, ListAll, ListAge, ListDelete,
           StoreProgress, poolVars, Environment, Crash
  <1>8. QED
    BY <1>2, <1>3, <1>4, <1>5, <1>6, <1>7

\* Only a kill, a kill_tmux_server or its own end takes a live session away, and none is
\* ever replaced: the pool outlives the processes that use it.
THEOREM SessionsAreLeftAlone == Spec => LiveSessionsAreLeftAlone
  <1>1. PoolInv /\ [Next]_vars
        => [\A i \in Ids : live'[i] # live[i] => Opened(i) \/ Ended(i)]_vars
    BY StepsLeaveSessionsAlone
  <1>2. QED
    BY <1>1, InitInv, PoolNextKeepsInv, PTL DEF Spec, LiveSessionsAreLeftAlone

\* Of the pool's steps, too, only a replace and an unlink change the records.
LEMMA PoolStepsImplement == PoolInv /\ [Next]_vars => [Atomic!Next]_disk
  <1> SUFFICES ASSUME PoolInv, [Next]_vars, disk' # disk
               PROVE  Atomic!Next
    OBVIOUS
  <1>1. \/ \E p \in Procs : Call(p) \/ Step(p)
        \/ Environment
    BY DEF Next, vars, storeVars
  <1>2. ASSUME NEW p \in Procs, Call(p)
        PROVE  FALSE
    BY <1>2 DEF Call, CallOpen, CallGet, CallKill, CallSessions, KillTmuxServer, Begin,
                storeVars
  <1>3. ASSUME NEW p \in Procs, Step(p)
        PROVE  Atomic!Next
    <2>1. CASE KillDelete(p) \/ ListDelete(p)
      <3>1. req[p].sid \in Ids
        BY <2>1 DEF KillDelete, ListDelete, PoolInv, RequestsCarryArguments, Naming
      <3>2. QED
        BY <2>1, <3>1, DeleteImplements DEF KillDelete, ListDelete, PoolInv, StoreInv
    <2>2. CASE StoreProgress(p)
      <3>1. Replace(p)
        BY <2>2 DEF StoreProgress, StoreStep, Acquire, ReadForTouch, Release, WriteError
      <3>2. QED
        BY <3>1, ReplaceImplements DEF PoolInv
    <2>3. QED
      BY <1>3, <2>1, <2>2
      DEF Step, GenerateList, GeneratePick, CreateCheck, SessionCheck, AttachRead,
          AttachTouched, NewSession, RecordWritten, GetCheck, GetRead, KillCheck,
          KillSession, ListLive, ListAll, ListAge, StartTouch, StartWrite, Return, storeVars
  <1>4. CASE Environment
    BY <1>4 DEF Environment, Exit, Bypass, Lapse, Crash, StoreCrash, storeVars
  <1>5. QED
    BY <1>1, <1>2, <1>3, <1>4

\* The pool, too, keeps the promise of the state directory: its calls, interleaved with each
\* other, crashes and failing writes, change one map of complete records, and an attach
\* changes nothing of a record but its stamp.
THEOREM PoolImplementsAtomicRecords == Spec => ImplementsAtomicRecords
  <1>1. Init => Atomic!Init
    BY DEF Init, StoreInit, Atomic!Init
  <1>2. QED
    BY <1>1, InitInv, PoolNextKeepsInv, PoolStepsImplement, PTL
    DEF Spec, ImplementsAtomicRecords, Atomic!Spec
=============================================================================
