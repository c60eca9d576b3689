-------------------------- MODULE PoolOrderlyProofs --------------------------
(***************************************************************************)
(* Proofs about callers of the pool that do not get in each other's way,    *)
(* for any number of them, of ids and of creations: what the docstrings     *)
(* promise a call then holds.                                               *)
(*                                                                         *)
(* OrderlyInv adds GoodOrder to PoolInv: where the record of each live      *)
(* session is (LiveAreRecorded), and what the only caller knows of its id   *)
(* at each step because nobody else opens, kills or sweeps (OneKnows).      *)
(***************************************************************************)
EXTENDS MCPoolOrderly, SessionPoolProofs

\* p's call has yet to put its session's record on disk.
Writing(p) == pc[p] = "write" /\ call[p].step \in {"lock", "replace"}

\* A caller is in the store when its call says so, for the id the call is about.
CallsMatch ==
    \A p \in Procs :
        /\ pc[p] \notin {"touch", "write"} => call[p].step = "idle"
        /\ pc[p] = "touch" => call[p].kind \in {"touch", "error"}
        /\ pc[p] = "write" => call[p].kind = "write" /\ call[p].id = req[p].sid

\* No session was made around the library.
ByTheLibrary == \A n \in DOMAIN born : born[n].by \in Procs

\* The record on its way is the live session's, unless that has ended.
WritesCarryLive ==
    \A p \in Procs : Writing(p) =>
        \/ live[req[p].sid] = call[p].rec.created_at
        \/ manner = "alone" /\ live[req[p].sid] = 0

\* A touch that is about to replace a record replaces one that is there: nobody deletes it.
TouchesFindRecords ==
    \A p \in Procs :
        call[p].kind = "touch" /\ call[p].step = "replace" => disk[call[p].id] # None

\* A live session has its record, or the write of that is under way.
LiveAreRecorded ==
    \A i \in LiveIds : \/ disk[i] # None /\ disk[i].created_at = live[i]
                       \/ \E p \in Procs : Writing(p) /\ req[p].sid = i

\* The steps of calls that open or get; together, callers are at no other.
Looking == Outcomes \cup Opening \cup {"attach_read", "touch", "write", "get_check", "get_read"}

OnlyLook == manner = "together" => \A p \in Procs : pc[p] \in Looking

\* All but the only caller make no calls.
OthersRest == \A p \in Procs \ {Only} : pc[p] = "idle"

\* What the only caller knows when it is alone: that its list has all live sessions, ...
PickKnows == pc[Only] = "gen_pick" => LiveIds \subseteq view[Only]

\* that create() goes on to no session that was there before, ...
CreateKnows ==
    req[Only].op = "create" =>
        /\ pc[Only] \notin {"attach_read", "touch"}
        /\ pc[Only] = "session_check" => live[req[Only].sid] = 0

\* that a generated id stays unused until its session is made, ...
GeneratedKnows ==
    req[Only].auto =>
        /\ pc[Only] \notin {"attach_read", "touch"}
        /\ pc[Only] \in {"create_check", "session_check", "new"}
              => live[req[Only].sid] = 0 /\ disk[req[Only].sid] = None

\* that what kill() deletes has ended, and no session was created since a sweep's list, ...
DeleteKnows ==
    /\ pc[Only] = "kill_delete" => live[req[Only].sid] = 0
    /\ pc[Only] \in {"list_all", "list_age", "list_delete"} => req[Only].mark = Len(born)

\* and that the session it attaches to has a record.
AttachKnows ==
    /\ pc[Only] \in {"attach_read", "get_read"} => disk[req[Only].sid] # None
    /\ pc[Only] = "touch" => seen[Only] # None
    /\ pc[Only] # "external"

OneKnows ==
    manner = "alone" =>
        OthersRest /\ PickKnows /\ CreateKnows /\ GeneratedKnows /\ DeleteKnows /\ AttachKnows

GoodOrder ==
    /\ CallsMatch /\ ByTheLibrary /\ WritesCarryLive /\ TouchesFindRecords
    /\ LiveAreRecorded /\ OnlyLook /\ OneKnows

OrderlyInv == PoolInv /\ manner \in Manners /\ GoodOrder

-----------------------------------------------------------------------------

(* The start.                                                               *)

\* There is a caller, so there is the only one.
LEMMA OnlyIsACaller == Only \in Procs
  BY OrderlyAssumption DEF Only

\* What the steps below take from the invariant.
LEMMA OrderlyParts ==
    ASSUME OrderlyInv
    PROVE  /\ PoolTypeOK /\ StoreTypeOK /\ RequestsCarryArguments /\ CallsCarryArguments
           /\ CarriedRecordsAreReal /\ SweepSparesListedSessions
           /\ manner \in Manners /\ CallsMatch /\ ByTheLibrary /\ WritesCarryLive
           /\ TouchesFindRecords /\ LiveAreRecorded /\ OnlyLook /\ OneKnows
  BY DEF OrderlyInv, GoodOrder, PoolInv, PoolTypeOK, StoreInv

\* A step of orderly callers is a step of the pool.
LEMMA OrderlyIsNext ==
    ASSUME OrderlyNext
    PROVE  Next /\ UNCHANGED manner
  BY OnlyIsACaller DEF OrderlyNext, Alone, Together, Next, Environment, Call

\* Nothing is live, recorded or under way at first.
LEMMA OrderlyInitInv == OrderlyInit => OrderlyInv
  <1> SUFFICES ASSUME OrderlyInit PROVE OrderlyInv
    OBVIOUS
  <1>1. PoolInv /\ manner \in Manners
    BY InitInv DEF OrderlyInit
  <1>2. /\ \A p \in Procs : pc[p] = "idle" /\ call[p] = NoCall /\ req[p] = NoRequest
        /\ \A i \in Ids : live[i] = 0
        /\ born = <<>>
    BY DEF OrderlyInit, Init, StoreInit
  <1>3. CallsMatch /\ ByTheLibrary /\ WritesCarryLive /\ TouchesFindRecords
    BY <1>2 DEF CallsMatch, ByTheLibrary, WritesCarryLive, Writing, TouchesFindRecords, NoCall
  <1>4. LiveAreRecorded /\ OnlyLook
    BY <1>2 DEF LiveAreRecorded, LiveIds, OnlyLook, Looking, Outcomes
  <1>5. OneKnows
    BY <1>2, OnlyIsACaller
    DEF OneKnows, OthersRest, PickKnows, CreateKnows, GeneratedKnows, DeleteKnows, AttachKnows,
        NoRequest
  <1>6. QED
    BY <1>1, <1>3, <1>4, <1>5 DEF OrderlyInv, GoodOrder

-----------------------------------------------------------------------------
(* A call that moves on without touching a session or a record.             *)

\* What the invariant says of sessions and records does not depend on where other calls are.
LEMMA LocalKeepsStoreParts ==
    ASSUME OrderlyInv, NEW p \in Procs, UNCHANGED <<disk, call, live, born, manner>>,
           NEW step \in PCs \ {"touch", "write"}, pc' = [pc EXCEPT ![p] = step],
           NEW r, req' = [req EXCEPT ![p] = r], pc[p] \notin {"touch", "write"}
    PROVE  CallsMatch' /\ ByTheLibrary' /\ WritesCarryLive' /\ TouchesFindRecords'
             /\ LiveAreRecorded'
  <1>1. /\ PoolTypeOK /\ CallsMatch /\ ByTheLibrary /\ WritesCarryLive /\ TouchesFindRecords
        /\ LiveAreRecorded
    BY DEF OrderlyInv, GoodOrder, PoolInv
  <1>2. CallsMatch'
    BY <1>1 DEF PoolTypeOK, CallsMatch
  <1>3. ByTheLibrary' /\ TouchesFindRecords'
    BY <1>1 DEF ByTheLibrary, TouchesFindRecords
  <1>4. WritesCarryLive'
    BY <1>1 DEF PoolTypeOK, WritesCarryLive, Writing
  <1>5. LiveAreRecorded'
    BY <1>1 DEF PoolTypeOK, LiveAreRecorded, LiveIds, Writing
  <1>6. QED
    BY <1>2, <1>3, <1>4, <1>5

-----------------------------------------------------------------------------
(* Steps that only move a call on.                                          *)

\* A call begins.
LEMMA CallsBeginInOrder ==
    ASSUME OrderlyInv, NEW p \in Procs, manner = "alone" => p = Only, UNCHANGED manner,
           CallOpen(p) \/ CallGet(p) \/ CallKill(p) \/ CallSessions(p),
           CallKill(p) \/ CallSessions(p) => manner = "alone"
    PROVE  OnlyLook' /\ OneKnows'
  <1>1. CASE CallOpen(p)
    <2>1. OnlyLook' /\ (manner = "alone" => OthersRest' /\ PickKnows' /\ CreateKnows'
            /\ DeleteKnows' /\ AttachKnows')
      BY OrderlyParts, <1>1
      DEF OnlyLook, Looking, Opening, OthersRest, PickKnows, CreateKnows, DeleteKnows,
          AttachKnows, OneKnows, CallOpen, Goto, PoolTypeOK, FirstCheck, Begin
    <2>2. ASSUME manner = "alone"
          PROVE  GeneratedKnows'
      <3>1. PICK op \in {"session", "create"}, i \in Ids \cup {None}, c \in Cmds :
               Begin(p, IF i = None THEN "gen_list" ELSE FirstCheck(op),
                     [op |-> op, sid |-> i, cmd |-> c, auto |-> i = None, mark |-> 0])
        BY <1>1 DEF CallOpen
      <3>2. CASE i = None
        <4>1. pc'[Only] = "gen_list"
          BY OrderlyParts, <2>2, <3>1, <3>2 DEF Begin, Goto, PoolTypeOK
        <4>2. QED
          BY <4>1 DEF GeneratedKnows
      <3>3. CASE i # None
        <4>1. req'[Only].auto = FALSE
          BY OrderlyParts, <2>2, <3>1, <3>3 DEF Begin, PoolTypeOK
        <4>2. QED
          BY <4>1 DEF GeneratedKnows
      <3>4. QED
        BY <3>2, <3>3
    <2>3. QED
      BY <2>1, <2>2 DEF OneKnows
  <1>2. CASE CallGet(p)
    <2>1. OnlyLook'
      BY OrderlyParts, <1>2 DEF OnlyLook, Looking, CallGet, Goto, PoolTypeOK, Begin
    <2>2. OneKnows'
      BY OrderlyParts, <1>2, ZenonT(40)
      DEF OthersRest, PickKnows, CreateKnows, GeneratedKnows, DeleteKnows, AttachKnows,
          OneKnows, CallGet, Goto, PoolTypeOK, Begin
    <2>3. QED
      BY <2>1, <2>2 DEF OneKnows
  <1>3. CASE CallKill(p)
    <2>1. OnlyLook'
      BY OrderlyParts, <1>3 DEF OnlyLook, CallKill
    <2>2. OneKnows'
      BY OrderlyParts, <1>3, ZenonT(40)
      DEF OthersRest, PickKnows, CreateKnows, GeneratedKnows, DeleteKnows, AttachKnows,
          OneKnows, CallKill, Goto, PoolTypeOK, Begin
    <2>3. QED
      BY <2>1, <2>2 DEF OneKnows
  <1>4. CASE CallSessions(p)
    BY OrderlyParts, <1>4
    DEF OnlyLook, OthersRest, PickKnows, CreateKnows, GeneratedKnows, DeleteKnows,
        AttachKnows, OneKnows, CallSessions, Goto, PoolTypeOK, Begin
  <1>5. QED
    BY <1>1, <1>2, <1>3, <1>4

\* session(), create() and get() up to the creation or the attach.
LEMMA OpenStepsKnow ==
    ASSUME OrderlyInv, NEW p \in Procs, manner = "alone" => p = Only, UNCHANGED manner,
           \/ GenerateList(p) \/ GeneratePick(p) \/ CreateCheck(p) \/ SessionCheck(p)
           \/ GetCheck(p) \/ GetRead(p)
    PROVE  OnlyLook' /\ OneKnows'
  <1>1. CASE GenerateList(p)
    BY OrderlyParts, <1>1
    DEF OnlyLook, Looking, Opening, OthersRest, PickKnows, LiveIds, CreateKnows,
        GeneratedKnows, DeleteKnows, AttachKnows, OneKnows, GenerateList, Goto, PoolTypeOK
  <1>2. CASE GeneratePick(p)
    <2>1. OnlyLook'
      BY OrderlyParts, <1>2
      DEF OnlyLook, Looking, Outcomes, Opening, GeneratePick, Goto, PoolTypeOK, FirstCheck
    <2>2. OneKnows'
      BY OrderlyParts, <1>2
      DEF OthersRest, PickKnows, LiveIds, CreateKnows, GeneratedKnows, Recorded,
          DeleteKnows, AttachKnows, OneKnows, GeneratePick, Goto, storeVars, PoolTypeOK,
          Request, FirstCheck
    <2>3. QED
      BY <2>1, <2>2 DEF OneKnows
  <1>3. CASE CreateCheck(p)
    BY OrderlyParts, <1>3
    DEF OnlyLook, Looking, Outcomes, Opening, OthersRest, PickKnows, CreateKnows,
        GeneratedKnows, DeleteKnows, AttachKnows, OneKnows, CreateCheck, Goto, storeVars
  <1>4. CASE SessionCheck(p)
    <2>1. OnlyLook' /\ (manner = "alone" => OthersRest' /\ PickKnows' /\ CreateKnows'
            /\ GeneratedKnows' /\ DeleteKnows')
      BY OrderlyParts, <1>4
      DEF OnlyLook, Looking, Opening, OthersRest, PickKnows, CreateKnows, GeneratedKnows,
          DeleteKnows, OneKnows, SessionCheck, Goto, storeVars
    <2>2. ASSUME manner = "alone"
          PROVE  AttachKnows'
      <3>1. p = Only /\ req[Only].sid \in Ids /\ \A q \in Procs : ~Writing(q)
        BY OrderlyParts, <1>4, <2>2
        DEF SessionCheck, OneKnows, OthersRest, Writing, Naming, RequestsCarryArguments
      <3>2. live[req[Only].sid] # 0 => disk[req[Only].sid] # None
        BY OrderlyParts, <3>1 DEF LiveAreRecorded, LiveIds
      <3>3. QED
        BY OrderlyParts, <1>4, <2>2, <3>1, <3>2
        DEF SessionCheck, Goto, storeVars, PoolTypeOK, OneKnows, AttachKnows
    <2>3. QED
      BY <2>1, <2>2 DEF OneKnows
  <1>5. CASE GetCheck(p)
    <2>1. OnlyLook' /\ (manner = "alone" => OthersRest' /\ PickKnows' /\ CreateKnows'
            /\ GeneratedKnows' /\ DeleteKnows')
      BY OrderlyParts, <1>5
      DEF OnlyLook, Looking, Outcomes, OthersRest, PickKnows, CreateKnows, GeneratedKnows,
          DeleteKnows, OneKnows, GetCheck, Goto
    <2>2. ASSUME manner = "alone"
          PROVE  AttachKnows'
      <3>1. p = Only /\ req[Only].sid \in Ids /\ \A q \in Procs : ~Writing(q)
        BY OrderlyParts, <1>5, <2>2
        DEF GetCheck, OneKnows, OthersRest, Writing, Naming, RequestsCarryArguments
      <3>2. live[req[Only].sid] # 0 => disk[req[Only].sid] # None
        BY OrderlyParts, <3>1 DEF LiveAreRecorded, LiveIds
      <3>3. QED
        BY OrderlyParts, <1>5, <2>2, <3>1, <3>2
        DEF GetCheck, Goto, storeVars, PoolTypeOK, OneKnows, AttachKnows
    <2>3. QED
      BY <2>1, <2>2 DEF OneKnows
  <1>6. CASE GetRead(p)
    BY OrderlyParts, <1>6
    DEF OnlyLook, Looking, Outcomes, OthersRest, PickKnows, CreateKnows, GeneratedKnows,
        DeleteKnows, AttachKnows, OneKnows, GetRead, Goto, PoolTypeOK
  <1>7. QED
    BY <1>1, <1>2, <1>3, <1>4, <1>5, <1>6

\* kill() and sessions() up to what they delete.
LEMMA SweepStepsKnow ==
    ASSUME OrderlyInv, NEW p \in Procs, manner = "alone" => p = Only, UNCHANGED manner,
           KillCheck(p) \/ ListLive(p) \/ ListAll(p) \/ ListAge(p)
    PROVE  OnlyLook' /\ OneKnows'
  <1>1. CASE KillCheck(p)
    BY OrderlyParts, <1>1
    DEF OnlyLook, Looking, Outcomes, Opening, OthersRest, PickKnows, CreateKnows,
        GeneratedKnows, DeleteKnows, AttachKnows, OneKnows, KillCheck, Goto
  <1>2. CASE ListLive(p)
    BY OrderlyParts, <1>2
    DEF OnlyLook, Looking, Outcomes, Opening, OthersRest, PickKnows, CreateKnows,
        GeneratedKnows, DeleteKnows, AttachKnows, OneKnows, ListLive, Goto, PoolTypeOK
  <1>3. CASE ListAll(p)
    BY OrderlyParts, <1>3
    DEF OnlyLook, Looking, Outcomes, Opening, OthersRest, PickKnows, CreateKnows,
        GeneratedKnows, DeleteKnows, AttachKnows, OneKnows, ListAll, Goto
  <1>4. CASE ListAge(p)
    <2>1. OnlyLook' /\ (manner = "alone" => OthersRest' /\ PickKnows' /\ CreateKnows'
            /\ GeneratedKnows' /\ AttachKnows')
      BY OrderlyParts, <1>4, ZenonT(40)
      DEF OnlyLook, Looking, Outcomes, Opening, OthersRest, PickKnows, CreateKnows,
          GeneratedKnows, AttachKnows, OneKnows, ListAge, Goto, PoolTypeOK
    <2>2. ASSUME manner = "alone"
          PROVE  DeleteKnows'
      <3>1. req'[Only].mark = req[Only].mark /\ UNCHANGED born /\ pc'[Only] # "kill_delete"
            /\ pc[Only] = "list_age"
        BY OrderlyParts, <1>4, <2>2 DEF ListAge, Goto, PoolTypeOK, Request
      <3>2. QED
        BY OrderlyParts, <2>2, <3>1 DEF OneKnows, DeleteKnows
    <2>3. QED
      BY <2>1, <2>2 DEF OneKnows
  <1>5. QED
    BY <1>1, <1>2, <1>3, <1>4

-----------------------------------------------------------------------------
(* Steps that change sessions or records.                                   *)

\* The live session that is attached to has its record.
LEMMA AttachReadInOrder ==
    ASSUME OrderlyInv, NEW p \in Procs, manner = "alone" => p = Only,
           AttachRead(p), UNCHANGED manner
    PROVE  GoodOrder'
  <1>1. CallsMatch' /\ ByTheLibrary' /\ WritesCarryLive' /\ TouchesFindRecords'
          /\ LiveAreRecorded' /\ OnlyLook' /\ OneKnows'
    BY OrderlyParts
    DEF CallsMatch, ByTheLibrary, WritesCarryLive, Writing, TouchesFindRecords,
        LiveAreRecorded, LiveIds, OnlyLook, Looking, OthersRest, PickKnows, CreateKnows,
        GeneratedKnows, DeleteKnows, AttachKnows, OneKnows, AttachRead, StartTouch, Goto,
        PoolTypeOK, StoreTypeOK
  <1>2. QED
    BY <1>1 DEF GoodOrder, OneKnows

\* The handle of an attach is the record that was read or stamped.
LEMMA AttachTouchedInOrder ==
    ASSUME OrderlyInv, NEW p \in Procs, manner = "alone" => p = Only,
           AttachTouched(p), UNCHANGED manner
    PROVE  GoodOrder'
  <1>1. CallsMatch' /\ ByTheLibrary' /\ WritesCarryLive' /\ TouchesFindRecords'
          /\ LiveAreRecorded' /\ OnlyLook' /\ OneKnows'
    BY OrderlyParts
    DEF CallsMatch, ByTheLibrary, WritesCarryLive, Writing, TouchesFindRecords,
        LiveAreRecorded, LiveIds, OnlyLook, Looking, Outcomes, OthersRest, PickKnows,
        CreateKnows, GeneratedKnows, DeleteKnows, AttachKnows, OneKnows, AttachTouched,
        Return, NoCall, Goto, PoolTypeOK, StoreTypeOK
  <1>2. QED
    BY <1>1 DEF GoodOrder, OneKnows

\* A session starts and its record is on its way; a name that is taken ends the call.
LEMMA NewSessionInOrder ==
    ASSUME OrderlyInv, NEW p \in Procs, manner = "alone" => p = Only,
           NewSession(p), UNCHANGED manner
    PROVE  GoodOrder'
  <1> DEFINE i == req[p].sid
  <1>a. /\ i \in Ids /\ Len(born) \in Nat /\ pc[p] = "new" /\ Len(born) < Len(born) + 1
        /\ UNCHANGED <<disk, req, manner>>
    BY OrderlyParts
    DEF NewSession, StartWrite, storeVars, RequestsCarryArguments, Naming, PoolTypeOK
  <1>b. ASSUME live[i] # 0
        PROVE  CallsMatch' /\ ByTheLibrary' /\ WritesCarryLive' /\ TouchesFindRecords'
               /\ LiveAreRecorded'
    <2>1. /\ UNCHANGED <<disk, call, live, born, manner>>
          /\ pc' = [pc EXCEPT ![p] = "TmuxGone"]
          /\ req' = [req EXCEPT ![p] = req[p]]
      BY OrderlyParts, <1>a, <1>b DEF NewSession, Goto, storeVars, PoolTypeOK
    <2>2. "TmuxGone" \in PCs \ {"touch", "write"}
      BY DEF PCs, Outcomes
    <2>3. QED
      BY <1>a, <2>1, <2>2, LocalKeepsStoreParts
  <1>c. ASSUME live[i] = 0
        PROVE  CallsMatch' /\ ByTheLibrary' /\ WritesCarryLive' /\ TouchesFindRecords'
               /\ LiveAreRecorded'
    <2> DEFINE n == Len(born) + 1
               c == [step |-> "lock", kind |-> "write", id |-> i, rec |-> FreshRecord(p)]
    <2>1. /\ live' = [live EXCEPT ![i] = n]
          /\ pc' = [pc EXCEPT ![p] = "write"]
          /\ call' = [call EXCEPT ![p] = c]
          /\ born' = Append(born, [id |-> i, cmd |-> req[p].cmd, by |-> p])
      BY <1>c DEF NewSession, Goto, StartWrite
    <2>2. c.step = "lock" /\ c.kind = "write" /\ c.id = i /\ c.rec.created_at = n
      BY DEF FreshRecord
    <2>3. /\ live \in [Ids -> Nat] /\ DOMAIN pc = Procs /\ DOMAIN call = Procs
          /\ born \in Seq(Birth)
      BY OrderlyParts, <1>a DEF PoolTypeOK, StoreTypeOK
    <2>4. /\ \A q \in Procs \ {p} : pc'[q] = pc[q] /\ call'[q] = call[q]
          /\ \A j \in Ids \ {i} : live'[j] = live[j]
          /\ pc'[p] = "write" /\ call'[p] = c /\ live'[i] = n /\ Writing(p)' /\ req'[p].sid = i
      BY <1>a, <2>1, <2>2, <2>3 DEF Writing
    <2>5. CallsMatch'
      BY OrderlyParts, <1>a, <2>2, <2>4 DEF CallsMatch
    <2>6. ByTheLibrary'
      BY OrderlyParts, <2>1, <2>3 DEF ByTheLibrary
    <2>7. WritesCarryLive'
      <3>1. ASSUME NEW q \in Procs \ {p}, Writing(q)'
            PROVE  \/ live'[req'[q].sid] = call'[q].rec.created_at
                   \/ manner = "alone" /\ live'[req'[q].sid] = 0
        <4>1. Writing(q) /\ manner = "together"
          BY OrderlyParts, <2>4, <3>1 DEF Writing, OneKnows, OthersRest, Manners
        <4>2. call[q].rec \in Record /\ call[q].rec.created_at > 0
          BY OrderlyParts, <4>1, StoreAssumption
          DEF CarriedRecordsAreReal, Describes, Writing, CallsMatch, CallsCarryArguments,
              PoolTypeOK, Record
        <4>3. req[q].sid \in Ids \ {i} /\ live[req[q].sid] = call[q].rec.created_at
          BY OrderlyParts, <1>c, <4>1, <4>2
          DEF WritesCarryLive, Writing, RequestsCarryArguments, Naming
        <4>4. QED
          BY <1>a, <2>4, <3>1, <4>3
      <3>2. QED
        BY <1>a, <2>2, <2>4, <3>1 DEF WritesCarryLive
    <2>8. TouchesFindRecords'
      BY OrderlyParts, <1>a, <2>2, <2>4 DEF TouchesFindRecords
    <2>9. LiveAreRecorded'
      <3>1. ASSUME NEW j \in Ids \ {i}, live[j] # 0
            PROVE  \/ disk'[j] # None /\ disk'[j].created_at = live'[j]
                   \/ \E q \in Procs : Writing(q)' /\ req'[q].sid = j
        <4>1. CASE disk[j] # None /\ disk[j].created_at = live[j]
          BY <1>a, <2>4, <4>1
        <4>2. ASSUME NEW q \in Procs, Writing(q), req[q].sid = j
              PROVE  Writing(q)' /\ req'[q].sid = j
          BY <1>a, <2>4, <4>2 DEF Writing
        <4>3. QED
          BY OrderlyParts, <3>1, <4>1, <4>2 DEF LiveAreRecorded, LiveIds
      <3>2. QED
        BY <2>4, <3>1 DEF LiveAreRecorded, LiveIds
    <2>10. QED
      BY <2>5, <2>6, <2>7, <2>8, <2>9
  <1>1. OnlyLook'
    BY OrderlyParts DEF OnlyLook, Looking, Outcomes, NewSession, Goto, PoolTypeOK
  <1>2. OneKnows'
    BY OrderlyParts
    DEF OthersRest, PickKnows, CreateKnows, GeneratedKnows, DeleteKnows, AttachKnows,
        OneKnows, NewSession, Goto, PoolTypeOK
  <1>3. QED
    BY <1>b, <1>c, <1>1, <1>2 DEF GoodOrder, OneKnows

\* A write that returns has put the record on disk.
LEMMA RecordWrittenInOrder ==
    ASSUME OrderlyInv, NEW p \in Procs, manner = "alone" => p = Only,
           RecordWritten(p), UNCHANGED manner
    PROVE  GoodOrder'
  <1>1. CallsMatch' /\ ByTheLibrary' /\ WritesCarryLive'
    BY OrderlyParts
    DEF CallsMatch, ByTheLibrary, WritesCarryLive, Writing, RecordWritten, Return, NoCall,
        Goto, PoolTypeOK, StoreTypeOK
  <1>2. TouchesFindRecords'
    BY OrderlyParts DEF TouchesFindRecords, RecordWritten, Return, NoCall
  <1>3. LiveAreRecorded' /\ OnlyLook'
    BY OrderlyParts
    DEF LiveAreRecorded, LiveIds, Writing, OnlyLook, Looking, Outcomes, Opening,
        RecordWritten, Return, NoCall, Goto
  <1>4. OneKnows'
    BY OrderlyParts
    DEF OthersRest, PickKnows, CreateKnows, GeneratedKnows, DeleteKnows, AttachKnows,
        OneKnows, RecordWritten, Goto
  <1>5. QED
    BY <1>1, <1>2, <1>3, <1>4 DEF GoodOrder, OneKnows

\* Only a caller that is alone kills, and no write of another call is under way then.
LEMMA KillSessionInOrder ==
    ASSUME OrderlyInv, NEW p \in Procs, manner = "alone" => p = Only,
           KillSession(p), UNCHANGED manner
    PROVE  GoodOrder'
  <1>1. CallsMatch' /\ ByTheLibrary' /\ WritesCarryLive'
    BY OrderlyParts
    DEF CallsMatch, ByTheLibrary, WritesCarryLive, Writing, OnlyLook, Looking, Outcomes,
        Opening, Manners, OneKnows, OthersRest, KillSession, Goto, storeVars, PoolTypeOK
  <1>2. TouchesFindRecords'
    BY OrderlyParts DEF TouchesFindRecords, KillSession, storeVars
  <1>3. LiveAreRecorded'
    BY OrderlyParts
    DEF LiveAreRecorded, LiveIds, Writing, KillSession, Goto, storeVars, PoolTypeOK
  <1>4. OnlyLook'
    BY OrderlyParts DEF OnlyLook, Looking, Outcomes, Opening, KillSession
  <1>5. OneKnows'
    BY OrderlyParts
    DEF OthersRest, PickKnows, CreateKnows, GeneratedKnows, DeleteKnows, AttachKnows,
        OneKnows, KillSession, Goto, PoolTypeOK, Naming, RequestsCarryArguments
  <1>6. QED
    BY <1>1, <1>2, <1>3, <1>4, <1>5 DEF GoodOrder, OneKnows

\* kill() deletes the record of a session that has ended.
LEMMA KillDeleteInOrder ==
    ASSUME OrderlyInv, NEW p \in Procs, manner = "alone" => p = Only,
           KillDelete(p), UNCHANGED manner
    PROVE  GoodOrder'
  <1>1. CallsMatch' /\ ByTheLibrary' /\ WritesCarryLive' /\ TouchesFindRecords'
          /\ OnlyLook' /\ OneKnows'
    BY OrderlyParts
    DEF CallsMatch, ByTheLibrary, WritesCarryLive, Writing, TouchesFindRecords, OnlyLook,
        Looking, Outcomes, Opening, Manners, OneKnows, OthersRest, PickKnows, CreateKnows,
        GeneratedKnows, DeleteKnows, AttachKnows, KillDelete, Goto
  <1>2. LiveAreRecorded'
    <2>1. manner = "alone" /\ p = Only /\ \A q \in Procs : ~Writing(q)
      BY OrderlyParts
      DEF OnlyLook, Looking, Outcomes, Opening, Manners, OneKnows, OthersRest, Writing, KillDelete
    <2>2. req[p].sid \in Ids /\ live[req[p].sid] = 0
      BY OrderlyParts, <2>1 DEF OneKnows, DeleteKnows, RequestsCarryArguments, Naming, KillDelete
    <2>3. QED
      BY OrderlyParts, <2>1, <2>2
      DEF LiveAreRecorded, LiveIds, KillDelete, Delete, PoolTypeOK, StoreTypeOK
  <1>3. QED
    BY <1>1, <1>2 DEF GoodOrder, OneKnows

\* The sweep of a caller that is alone deletes no record of a live session: none was
\* created after its list.
LEMMA ListDeleteInOrder ==
    ASSUME OrderlyInv, NEW p \in Procs, manner = "alone" => p = Only,
           ListDelete(p), UNCHANGED manner
    PROVE  GoodOrder'
  <1>1. CallsMatch' /\ ByTheLibrary' /\ WritesCarryLive' /\ TouchesFindRecords'
          /\ OnlyLook' /\ OneKnows'
    BY OrderlyParts
    DEF CallsMatch, ByTheLibrary, WritesCarryLive, Writing, TouchesFindRecords, OnlyLook,
        Looking, Outcomes, Opening, Manners, OneKnows, OthersRest, PickKnows, CreateKnows,
        GeneratedKnows, DeleteKnows, AttachKnows, ListDelete, Goto
  <1>2. LiveAreRecorded'
    <2>1. manner = "alone" /\ p = Only /\ \A q \in Procs : ~Writing(q)
      BY OrderlyParts
      DEF OnlyLook, Looking, Outcomes, Opening, Manners, OneKnows, OthersRest, Writing, ListDelete
    <2>2. req[p].sid \in Ids /\ live[req[p].sid] = 0
      BY OrderlyParts, <2>1
      DEF OneKnows, DeleteKnows, SweepSparesListedSessions, PoolTypeOK, RequestsCarryArguments,
          Naming, ListDelete
    <2>3. QED
      BY OrderlyParts, <2>1, <2>2
      DEF LiveAreRecorded, LiveIds, ListDelete, Delete, PoolTypeOK, StoreTypeOK
  <1>3. QED
    BY <1>1, <1>2 DEF GoodOrder, OneKnows

\* All sessions end at once.
LEMMA KillServerInOrder ==
    ASSUME OrderlyInv, manner = "alone", KillTmuxServer(Only), UNCHANGED manner
    PROVE  GoodOrder'
  <1>1. CallsMatch' /\ ByTheLibrary' /\ WritesCarryLive' /\ TouchesFindRecords'
          /\ LiveAreRecorded' /\ OnlyLook' /\ OneKnows'
    BY OrderlyParts, OnlyIsACaller
    DEF CallsMatch, ByTheLibrary, WritesCarryLive, Writing, TouchesFindRecords,
        LiveAreRecorded, LiveIds, OnlyLook, Outcomes, OthersRest, PickKnows, CreateKnows,
        GeneratedKnows, DeleteKnows, AttachKnows, OneKnows, KillTmuxServer, Free, Goto,
        storeVars
  <1>2. QED
    BY <1>1 DEF GoodOrder, OneKnows

\* A session ends by itself, between any two steps.
LEMMA ExitInOrder ==
    ASSUME OrderlyInv, manner = "alone", NEW i \in Ids, Exit(i), UNCHANGED manner
    PROVE  GoodOrder'
  <1>1. CallsMatch' /\ ByTheLibrary' /\ WritesCarryLive' /\ TouchesFindRecords'
          /\ LiveAreRecorded' /\ OnlyLook' /\ OneKnows'
    BY OrderlyParts
    DEF CallsMatch, ByTheLibrary, WritesCarryLive, Writing, TouchesFindRecords,
        LiveAreRecorded, LiveIds, OnlyLook, OthersRest, PickKnows, CreateKnows,
        GeneratedKnows, DeleteKnows, AttachKnows, OneKnows, Exit, storeVars
  <1>2. QED
    BY <1>1 DEF GoodOrder, OneKnows

\* A record expires, between any two steps.
LEMMA LapseInOrder ==
    ASSUME OrderlyInv, NEW i \in Ids, Lapse(i), UNCHANGED poolVars, UNCHANGED manner
    PROVE  GoodOrder'
  <1>1. CallsMatch' /\ ByTheLibrary' /\ WritesCarryLive' /\ TouchesFindRecords'
          /\ LiveAreRecorded' /\ OnlyLook' /\ OneKnows'
    BY OrderlyParts
    DEF CallsMatch, ByTheLibrary, WritesCarryLive, Writing, TouchesFindRecords,
        LiveAreRecorded, LiveIds, OnlyLook, OthersRest, PickKnows, CreateKnows,
        GeneratedKnows, DeleteKnows, AttachKnows, OneKnows, Lapse, poolVars
  <1>2. QED
    BY <1>1 DEF GoodOrder, OneKnows

\* A caller is killed outside the write of a new record.
LEMMA CrashInOrder ==
    ASSUME OrderlyInv, manner = "together", NEW p \in Procs, Crash(p), pc[p] # "write",
           UNCHANGED manner
    PROVE  GoodOrder'
  <1>1. CallsMatch' /\ ByTheLibrary' /\ WritesCarryLive' /\ TouchesFindRecords'
          /\ LiveAreRecorded' /\ OnlyLook' /\ OneKnows'
    BY OrderlyParts
    DEF CallsMatch, ByTheLibrary, WritesCarryLive, Writing, TouchesFindRecords,
        LiveAreRecorded, LiveIds, OnlyLook, Looking, Outcomes, OthersRest, PickKnows,
        CreateKnows, GeneratedKnows, DeleteKnows, AttachKnows, OneKnows, Crash, StoreCrash,
        NoCall, Goto, PoolTypeOK, StoreTypeOK
  <1>2. QED
    BY <1>1 DEF GoodOrder, OneKnows

-----------------------------------------------------------------------------
(* Steps inside the store.                                                  *)

\* A replace puts the live session's record on disk, or stamps the one that is there.
LEMMA StoreProgressInOrder ==
    ASSUME OrderlyInv, NEW p \in Procs, manner = "alone" => p = Only,
           StoreProgress(p), GetsItsRecord(p), UNCHANGED manner
    PROVE  GoodOrder'
  <1>1. /\ PoolTypeOK /\ CallsCarryArguments /\ TouchKeepsRecord /\ RequestsCarryArguments
        /\ CallsMatch /\ ByTheLibrary /\ WritesCarryLive /\ TouchesFindRecords
        /\ LiveAreRecorded /\ OnlyLook /\ OneKnows /\ manner \in Manners
        /\ disk \in [Ids -> Record \cup {None}] /\ call \in [Procs -> StoreCall]
        /\ live \in [Ids -> Nat] /\ pc \in [Procs -> PCs] /\ req \in [Procs -> Request]
        /\ pc[p] = "write" => call'[p].kind # "error"
    BY DEF OrderlyInv, GoodOrder, PoolInv, StoreInv, PoolTypeOK, StoreTypeOK, GetsItsRecord
  <1>2. UNCHANGED <<live, born, pc, req, view, seen, manner>>
    BY DEF StoreProgress, poolVars
  <1>3. call[p].step # "idle" /\ pc[p] \in {"touch", "write"}
    BY <1>1
    DEF StoreProgress, StoreStep, Acquire, ReadForTouch, Replace, Release, WriteError, CallsMatch
  <1>4. /\ \A q \in Procs \ {p} : call'[q] = call[q]
        /\ call'[p].id = call[p].id
        /\ call'[p].kind \in {call[p].kind, "error"}
        /\ pc[p] = "write" => call'[p].kind = call[p].kind
    <2>1. CASE StoreStep(p)
      <3>1. CASE ReadForTouch(p)
        BY <1>1, <3>1 DEF ReadForTouch, StoreCall
      <3>2. CASE Acquire(p) \/ Replace(p) \/ Release(p)
        BY <1>1, <3>2 DEF Acquire, Replace, Release, StoreCall
      <3>3. QED
        BY <2>1, <3>1, <3>2 DEF StoreStep
    <2>2. CASE WriteError(p)
      BY <1>1, <2>2 DEF WriteError, StoreCall
    <2>3. QED
      BY <2>1, <2>2 DEF StoreProgress
  <1>5. ByTheLibrary' /\ OnlyLook'
    BY <1>1, <1>2 DEF ByTheLibrary, OnlyLook
  <1>6. CallsMatch'
    BY <1>1, <1>2, <1>3, <1>4 DEF CallsMatch
  <1>7. OneKnows'
    <2>1. CASE manner = "alone"
      BY <1>1, <1>2, <1>3, <2>1
      DEF OneKnows, OthersRest, PickKnows, CreateKnows, GeneratedKnows, DeleteKnows,
          AttachKnows, LiveIds
    <2>2. QED
      BY <1>2, <2>1 DEF OneKnows
  <1>8. CASE ~Replace(p)
    <2>1. UNCHANGED disk
      BY <1>8 DEF StoreProgress, StoreStep, Acquire, ReadForTouch, Release, WriteError
    <2>2. pc[p] = "write" =>
              /\ call'[p].rec = call[p].rec
              /\ call[p].step \in {"lock", "replace"} <=> call'[p].step \in {"lock", "replace"}
      BY <1>1, <1>8
      DEF StoreProgress, StoreStep, Acquire, AfterLock, ReadForTouch, Release, WriteError,
          StoreCall, CallsMatch, CallsCarryArguments
    <2>3. \A q \in Procs : /\ Writing(q)' <=> Writing(q)
                           /\ Writing(q) => call'[q].rec = call[q].rec
      BY <1>1, <1>2, <1>4, <2>2 DEF Writing
    <2>4. WritesCarryLive'
      BY <1>1, <1>2, <2>3 DEF WritesCarryLive
    <2>5. LiveAreRecorded'
      BY <1>1, <1>2, <2>1, <2>3 DEF LiveAreRecorded, LiveIds
    <2>6. TouchesFindRecords'
      <3>1. CASE ReadForTouch(p)
        <4>1. call'[p].step = "replace" => disk[call[p].id] # None
          BY <1>1, <3>1 DEF ReadForTouch, StoreCall
        <4>2. QED
          BY <1>1, <1>4, <2>1, <4>1 DEF TouchesFindRecords
      <3>2. CASE ~ReadForTouch(p)
        <4>1. call'[p].kind = "touch" => call'[p].step # "replace"
          BY <1>1, <1>8, <3>2
          DEF StoreProgress, StoreStep, Acquire, AfterLock, Release, WriteError, StoreCall
        <4>2. QED
          BY <1>1, <1>4, <2>1, <4>1 DEF TouchesFindRecords
      <3>3. QED
        BY <3>1, <3>2
    <2>7. QED
      BY <1>5, <1>6, <1>7, <2>4, <2>5, <2>6 DEF GoodOrder
  <1>9. CASE Replace(p)
    <2>1. PICK i \in Ids, r \in Record : i = call[p].id /\ r = call[p].rec
      BY <1>1, <1>9 DEF CallsCarryArguments, Replace
    <2>2. /\ disk' = [disk EXCEPT ![i] = r]
          /\ call[p].step = "replace" /\ call'[p].step = "unlock" /\ r # None
      BY <1>1, <1>9, <2>1, StoreAssumption DEF Replace, StoreCall, Record
    <2>3. TouchesFindRecords'
      BY <1>1, <1>4, <2>2 DEF TouchesFindRecords
    <2>4. \A q \in Procs : Writing(q)' <=> q # p /\ Writing(q)
      BY <1>2, <1>4, <2>2 DEF Writing
    <2>5. WritesCarryLive'
      BY <1>1, <1>2, <1>4, <2>4 DEF WritesCarryLive
    <2>6. live[i] # 0 => \/ r.created_at = live[i]
                         \/ \E q \in Procs : q # p /\ Writing(q) /\ req[q].sid = i
      <3>1. CASE pc[p] = "write"
        BY <1>1, <2>1, <2>2, <3>1 DEF WritesCarryLive, Writing, CallsMatch
      <3>2. CASE pc[p] = "touch"
        <4>1. call[p].kind = "touch" /\ disk[i] # None /\ SameButAttached(r, disk[i])
          BY <1>1, <2>1, <2>2, <3>2
          DEF CallsMatch, TouchKeepsRecord, TouchesFindRecords, CallsCarryArguments
        <4>2. r.created_at = disk[i].created_at
          BY <1>1, <4>1 DEF SameButAttached, Record
        <4>3. QED
          BY <1>1, <3>2, <4>1, <4>2 DEF LiveAreRecorded, LiveIds, Writing
      <3>3. QED
        BY <1>3, <3>1, <3>2
    <2>7. LiveAreRecorded'
      <3>1. ASSUME NEW j \in Ids, live[j] # 0
            PROVE  \/ disk'[j] # None /\ disk'[j].created_at = live[j]
                   \/ \E q \in Procs : Writing(q)' /\ req[q].sid = j
        <4>1. CASE j = i
          BY <1>1, <2>2, <2>4, <2>6, <3>1, <4>1
        <4>2. CASE j # i
          <5>1. ~(Writing(p) /\ req[p].sid = j)
            BY <1>1, <2>1, <4>2 DEF CallsMatch, Writing
          <5>2. QED
            BY <1>1, <2>2, <2>4, <3>1, <4>2, <5>1 DEF LiveAreRecorded, LiveIds
        <4>3. QED
          BY <4>1, <4>2
      <3>2. QED
        BY <1>2, <3>1 DEF LiveAreRecorded, LiveIds
    <2>8. QED
      BY <1>5, <1>6, <1>7, <2>3, <2>5, <2>7 DEF GoodOrder
  <1>10. QED
    BY <1>8, <1>9

-----------------------------------------------------------------------------
(* The invariant, and the theorems.                                         *)

\* A step that only moves its own call on.
LEMMA LocalInOrder ==
    ASSUME OrderlyInv, NEW p \in Procs, OnlyLook' /\ OneKnows', UNCHANGED manner,
           \/ CallOpen(p) \/ CallGet(p) \/ CallKill(p) \/ CallSessions(p)
           \/ GenerateList(p) \/ GeneratePick(p) \/ CreateCheck(p) \/ SessionCheck(p)
           \/ GetCheck(p) \/ GetRead(p)
           \/ KillCheck(p) \/ ListLive(p) \/ ListAll(p) \/ ListAge(p)
    PROVE  GoodOrder'
  <1>1. pc \in [Procs -> PCs] /\ req \in [Procs -> Request]
    BY DEF OrderlyInv, GoodOrder, PoolInv, PoolTypeOK
  <1>2. /\ UNCHANGED <<disk, call, live, born, manner>>
        /\ pc[p] \notin {"touch", "write"}
        /\ \E step \in PCs \ {"touch", "write"} : pc' = [pc EXCEPT ![p] = step]
        /\ \E r : req' = [req EXCEPT ![p] = r]
    <2>1. CASE CallOpen(p) \/ CallGet(p) \/ CallKill(p) \/ CallSessions(p)
      BY <1>1, <2>1
      DEF CallOpen, CallGet, CallKill, CallSessions, Begin, Free, Goto, FirstCheck, PCs, Outcomes,
          Opening, storeVars
    <2>2. CASE \/ GenerateList(p) \/ GeneratePick(p) \/ CreateCheck(p) \/ SessionCheck(p)
               \/ GetCheck(p) \/ GetRead(p)
      BY <1>1, <2>2
      DEF GenerateList, GeneratePick, CreateCheck, SessionCheck, GetCheck, GetRead, Goto,
          FirstCheck, PCs, Outcomes, Opening, storeVars
    <2>3. CASE KillCheck(p) \/ ListLive(p) \/ ListAll(p) \/ ListAge(p)
      BY <1>1, <2>3
      DEF KillCheck, ListLive, ListAll, ListAge, Goto, PCs, Outcomes, Opening, storeVars
    <2>4. QED
      BY <2>1, <2>2, <2>3
  <1>3. QED
    BY <1>2, LocalKeepsStoreParts DEF GoodOrder

\* The rest of the invariant follows every step; PoolInv follows it as a step of the pool.
LEMMA OrderlyStepKeepsInv == OrderlyInv /\ [OrderlyNext]_orderlyVars => OrderlyInv'
  <1> SUFFICES ASSUME OrderlyInv, [OrderlyNext]_orderlyVars
               PROVE  OrderlyInv'
    OBVIOUS
  <1>1. PoolInv' /\ UNCHANGED manner
    <2>1. [Next]_vars /\ UNCHANGED manner
      BY OrderlyIsNext DEF orderlyVars
    <2>2. QED
      BY <2>1, PoolNextKeepsInv DEF OrderlyInv, GoodOrder
  <1>2. ASSUME NEW p \in Procs, manner = "alone" => p = Only, GetsItsRecord(p),
               \/ Step(p) \/ CallOpen(p) \/ CallGet(p)
               \/ manner = "alone" /\ (CallKill(p) \/ CallSessions(p))
        PROVE  GoodOrder'
    <2>1. CASE \/ GenerateList(p) \/ GeneratePick(p) \/ CreateCheck(p) \/ SessionCheck(p)
               \/ GetCheck(p) \/ GetRead(p)
      BY <1>1, <1>2, <2>1, OpenStepsKnow, LocalInOrder
    <2>2. CASE KillCheck(p) \/ ListLive(p) \/ ListAll(p) \/ ListAge(p)
      BY <1>1, <1>2, <2>2, SweepStepsKnow, LocalInOrder
    <2>3. CASE CallOpen(p) \/ CallGet(p)
      <3>1. CallKill(p) \/ CallSessions(p) => pc'[p] \in {"kill_check", "list_live"}
        BY DEF CallKill, CallSessions, Begin, Goto, OrderlyInv, GoodOrder, PoolInv, PoolTypeOK
      <3>2. CallOpen(p) \/ CallGet(p) => pc'[p] \notin {"kill_check", "list_live"}
        BY
        DEF CallOpen, CallGet, Begin, Goto, FirstCheck, OrderlyInv, GoodOrder, PoolInv, PoolTypeOK
      <3>3. QED
        BY <1>1, <1>2, <2>3, <3>1, <3>2, CallsBeginInOrder, LocalInOrder
    <2>4. CASE manner = "alone" /\ (CallKill(p) \/ CallSessions(p))
      BY <1>1, <1>2, <2>4, CallsBeginInOrder, LocalInOrder
    <2>5. CASE AttachRead(p) \/ AttachTouched(p) \/ NewSession(p) \/ RecordWritten(p)
      BY <1>1, <1>2, <2>5, AttachReadInOrder, AttachTouchedInOrder, NewSessionInOrder,
         RecordWrittenInOrder
    <2>6. CASE KillSession(p) \/ KillDelete(p) \/ ListDelete(p)
      BY <1>1, <1>2, <2>6, KillSessionInOrder, KillDeleteInOrder, ListDeleteInOrder
    <2>7. CASE StoreProgress(p)
      BY <1>1, <1>2, <2>7, StoreProgressInOrder
    <2>8. QED
      BY <1>2, <2>1, <2>2, <2>3, <2>4, <2>5, <2>6, <2>7 DEF Step
  <1>3. ASSUME manner = "alone", Alone
        PROVE  GoodOrder'
    <2>1. CASE KillTmuxServer(Only)
      BY <1>1, <1>3, <2>1, KillServerInOrder
    <2>2. CASE \E i \in Ids : Exit(i)
      BY <1>1, <1>3, <2>2, ExitInOrder
    <2>3. CASE \E i \in Ids : Lapse(i) /\ UNCHANGED poolVars
      BY <1>1, <1>3, <2>3, LapseInOrder
    <2>4. CASE (Call(Only) \/ Step(Only)) /\ GetsItsRecord(Only)
      BY <1>2, <1>3, <2>1, <2>4, OnlyIsACaller DEF Call
    <2>5. QED
      BY <1>3, <2>2, <2>3, <2>4 DEF Alone
  <1>4. ASSUME manner = "together", Together
        PROVE  GoodOrder'
    <2>1. PICK p \in Procs : /\ CallOpen(p) \/ CallGet(p) \/ Step(p) \/ Crash(p)
                             /\ GetsItsRecord(p)
      BY <1>4 DEF Together
    <2>2. CASE Crash(p)
      <3>1. pc[p] # "write"
        BY <2>1, <2>2 DEF Crash, Goto, GetsItsRecord, OrderlyInv, GoodOrder, PoolInv, PoolTypeOK
      <3>2. QED
        BY <1>1, <1>4, <2>2, <3>1, CrashInOrder
    <2>3. CASE CallOpen(p) \/ CallGet(p) \/ Step(p)
      BY <1>2, <1>4, <2>1, <2>3
    <2>4. QED
      BY <2>1, <2>2, <2>3
  <1>5. ASSUME UNCHANGED orderlyVars
        PROVE  GoodOrder'
    <2>1. UNCHANGED <<disk, call, live, born, pc, req, view, seen, manner>>
      BY <1>5 DEF orderlyVars, vars, storeVars, poolVars
    <2>2. CallsMatch' /\ ByTheLibrary' /\ WritesCarryLive' /\ TouchesFindRecords'
          /\ LiveAreRecorded'
      BY <2>1
      DEF OrderlyInv, GoodOrder, CallsMatch, ByTheLibrary, WritesCarryLive, TouchesFindRecords,
          LiveAreRecorded, LiveIds, Writing
    <2>3. OnlyLook' /\ OneKnows'
      BY <2>1
      DEF OrderlyInv, GoodOrder, OnlyLook, OneKnows, OthersRest, PickKnows, LiveIds, CreateKnows,
          GeneratedKnows, DeleteKnows, AttachKnows
    <2>4. QED
      BY <2>2, <2>3 DEF GoodOrder
  <1>6. GoodOrder'
    BY <1>3, <1>4, <1>5 DEF OrderlyNext
  <1>7. QED
    BY <1>1, <1>6 DEF OrderlyInv, GoodOrder

\* The invariant holds in every state of every orderly behaviour.
LEMMA AlwaysOrderly == OrderlySpec => []OrderlyInv
  BY OrderlyInitInv, OrderlyStepKeepsInv, PTL DEF OrderlySpec

\* Between calls, the record of a live session of the library is there and is its own,
\* whatever calls are made one after the other, and whatever openings and gets run at once.
THEOREM RecordsAreTruthful == OrderlySpec => []RecordsTellTheTruth
  <1>1. OrderlyInv => RecordsTellTheTruth
    BY
    DEF OrderlyInv, GoodOrder, RecordsTellTheTruth, LiveAreRecorded, Quiet, Free, Outcomes,
        Writing
  <1>2. QED
    BY <1>1, AlwaysOrderly, PTL

\* A caller that is alone and asks create() for an id that is live is refused: its call
\* never goes on to attach.
THEOREM OneCreatorIsRefused == OrderlySpec => []OneCallerIsRefused
  <1>1. OrderlyInv => OneCallerIsRefused
    BY
    DEF OrderlyInv, GoodOrder, OneCallerIsRefused, CreateRefusesExisting, OneKnows, OthersRest,
        CreateKnows
  <1>2. QED
    BY <1>1, AlwaysOrderly, PTL

\* The number that session() and create() pick for a caller that is alone is neither a live
\* session's nor a record's, up to the moment the session is made.
THEOREM OneCallersIdIsNew == OrderlySpec => []OneCallerGetsANewId
  <1>1. OrderlyInv => OneCallerGetsANewId
    BY
    DEF OrderlyInv, GoodOrder, OneCallerGetsANewId, GeneratedIdIsNew, OneKnows, OthersRest,
        GeneratedKnows
  <1>2. QED
    BY <1>1, AlwaysOrderly, PTL

\* A caller that is alone gets no handle that says external: no record goes missing while
\* its session is live.
THEOREM OneCallerHasNoExternals == OrderlySpec => []OneCallerSeesNoExternals
  <1>1. OrderlyInv => OneCallerSeesNoExternals
    BY
    DEF OrderlyInv, GoodOrder, OneCallerSeesNoExternals, ExternalMeansBypass, OneKnows,
        OthersRest, AttachKnows
  <1>2. QED
    BY <1>1, AlwaysOrderly, PTL
=============================================================================
