--------------------------- MODULE ControlApiProofs ---------------------------
(***************************************************************************)
(* Proofs about the POST handlers and the Idempotency-Key memory, for any    *)
(* requests, bodies, keys shared in any way and number of attempts.          *)
(*                                                                         *)
(* ApiInv is the inductive invariant: the types, that a key in the memory    *)
(* has its work behind it, that nothing is swept or old before it lapsed,    *)
(* and that an attempt sent after the answer never gets to work.             *)
(***************************************************************************)
EXTENDS ControlApi, TLAPS

\* Only a handler that has done all its work puts its key.
PutsAreDone ==
    \A r \in Requests, n \in 1..Attempts :
        try[r][n].pc \in {"put_sweep", "put_del", "put"}
        => key[r] # None /\ try[r][n].done = Len(Script(r))

\* What the memory replays was done.
SeenIsDone ==
    \A k \in seen : \E q \in Requests, n \in 1..Attempts :
        key[q] = k /\ try[q][n].done = Len(Script(q))

\* Nothing is old, or about to be deleted, that has not lapsed.
OnlyLapsedGo ==
    /\ old \subseteq lapsed
    /\ \A r \in Requests, n \in 1..Attempts : try[r][n].dead \subseteq lapsed

\* An answer is remembered until it lapses.
AckedAreSeen == \A r \in acked : key[r] # None => key[r] \in seen \cup lapsed

\* An attempt that is sent after the answer finds it.
LateOnesWait ==
    \A r \in Requests, n \in 1..Attempts :
        /\ try[r][n].pc = "unsent" => try[r][n].done = 0 /\ ~try[r][n].late
        /\ try[r][n].late /\ key[r] \notin lapsed =>
              /\ key[r] # None /\ key[r] \in seen
              /\ try[r][n].pc \in {"sweep", "del", "get"} \cup Answers
              /\ try[r][n].done = 0

\* A key that is looked up, or put, is one.
KeysAreKeys ==
    \A r \in Requests, n \in 1..Attempts :
        try[r][n].pc \in Busy \ {"work"} => key[r] \in Keys

ApiInv == /\ ApiTypeOK /\ PutsAreDone /\ SeenIsDone /\ OnlyLapsedGo /\ AckedAreSeen
          /\ LateOnesWait /\ KeysAreKeys /\ OkMeansDone

-----------------------------------------------------------------------------
(* Steps of one attempt.                                                    *)

Parts == {"has", "text", "enter", "keys", "open"}

LEMMA ScriptLength == \A r \in Requests : Len(Script(r)) \in Nat /\ Len(Script(r)) > 0
  <1> SUFFICES ASSUME NEW r \in Requests PROVE Script(r) \in Seq(Parts) /\ Len(Script(r)) > 0
    OBVIOUS
  <1> DEFINE If(c, s) == IF c THEN s ELSE <<>>
             typed == If("text" \in Body[r] \/ "enter" \in Body[r], <<"has">>)
             text == If("text" \in Body[r], <<"text">>)
             enter == If("enter" \in Body[r], <<"enter">>)
             keys == If("keys" \in Body[r], <<"has", "keys">>)
             first == <<"has">>
  <1>1. /\ typed \in Seq(Parts) /\ text \in Seq(Parts) /\ enter \in Seq(Parts)
        /\ keys \in Seq(Parts) /\ first \in Seq(Parts) /\ Len(first) = 1
    <2>1. /\ <<"has">> \in Seq(Parts) /\ <<"text">> \in Seq(Parts) /\ <<"enter">> \in Seq(Parts)
          /\ Len(<<"has">>) = 1
      BY DEF Parts
    <2>2. <<"has", "keys">> \in Seq(Parts)
      BY DEF Parts
    <2>3. <<>> \in Seq(Parts)
      OBVIOUS
    <2>4. QED
      BY <2>1, <2>2, <2>3
  <1>2. CASE "open" \in Body[r]
    <2>1. Script(r) = <<"open">>
      BY <1>2 DEF Script
    <2>2. QED
      BY <2>1 DEF Parts
  <1>3. CASE "open" \notin Body[r]
    <2>1. Script(r) = first \o typed \o text \o enter \o keys
      BY <1>3 DEF Script
    <2> HIDE DEF first, typed, text, enter, keys
    <2>2. QED
      BY <1>1, <2>1
  <1>4. QED
    BY <1>2, <1>3

\* A step of an attempt leaves the others where they are.
OnlyTry(r, n) ==
    /\ try' \in [Requests -> [1..Attempts -> Try]]
    /\ \A q \in Requests, m \in 1..Attempts : q # r \/ m # n => try'[q][m] = try[q][m]

LEMMA GotoFields ==
    ASSUME ApiTypeOK, NEW r \in Requests, NEW n \in 1..Attempts, NEW step \in Busy \cup Answers,
           Goto(r, n, step)
    PROVE  /\ OnlyTry(r, n)
           /\ try'[r][n].pc = step /\ try'[r][n].done = try[r][n].done
           /\ try'[r][n].dead = try[r][n].dead /\ try'[r][n].late = try[r][n].late
  <1>1. try[r][n] \in Try /\ [try[r][n] EXCEPT !.pc = step] \in Try
    <2>1. try[r][n] \in Try
      BY DEF ApiTypeOK
    <2>2. ASSUME NEW t \in Try PROVE [t EXCEPT !.pc = step] \in Try
      BY DEF Try
    <2>3. QED
      BY <2>1, <2>2
  <1>2. try' = [try EXCEPT ![r] = [try[r] EXCEPT ![n] = [try[r][n] EXCEPT !.pc = step]]]
    BY DEF Goto
  <1> DEFINE u == [try[r][n] EXCEPT !.pc = step]
  <1>3. /\ u.pc = step /\ u.done = try[r][n].done /\ u.dead = try[r][n].dead
        /\ u.late = try[r][n].late
    BY <1>1 DEF Try
  <1> HIDE DEF u
  <1>4. OnlyTry(r, n) /\ try'[r][n] = u
    BY <1>1, <1>2 DEF ApiTypeOK, OnlyTry, u
  <1>5. QED
    BY <1>3, <1>4

\* What a step of attempt n at r has to respect.
Respects(r, n) ==
    LET t == try[r][n]
        u == try'[r][n] IN
    /\ UNCHANGED <<key, lapsed>> /\ live' \in BOOLEAN /\ OnlyTry(r, n)
    /\ u.done \in {t.done, t.done + 1} /\ u.done <= Len(Script(r))
    /\ seen' \subseteq seen \cup {key[r]} /\ seen \subseteq seen' \cup lapsed
    /\ key[r] \in seen' \ seen => key[r] \in Keys /\ t.done = Len(Script(r))
    /\ old' \subseteq lapsed /\ old' \subseteq seen' /\ u.dead \subseteq lapsed
    /\ acked' \subseteq acked \cup {r}
    /\ r \in acked' \ acked => (u.done = Len(Script(r)) /\ key[r] = None) \/ key[r] \in seen'
    /\ u.pc \in {"put_sweep", "put_del", "put"} => key[r] # None /\ u.done = Len(Script(r))
    /\ u.pc \in Busy \ {"work"} => key[r] \in Keys
    /\ u.pc # "unsent"
    /\ u.late /\ key[r] \notin lapsed =>
          /\ key[r] # None /\ key[r] \in seen
          /\ u.pc \in {"sweep", "del", "get"} \cup Answers /\ u.done = 0

LEMMA RespectfulStep ==
    ASSUME ApiInv, NEW r \in Requests, NEW n \in 1..Attempts, Respects(r, n)
    PROVE  ApiInv'
  <1> DEFINE t == try[r][n]
             u == try'[r][n]
  <1> USE DEF ApiInv
  <1>1. /\ try \in [Requests -> [1..Attempts -> Try]] /\ t \in Try /\ t.done \in Nat
        /\ Len(Script(r)) \in Nat
    BY ScriptLength DEF ApiTypeOK, Try
  <1>2. \A q \in Requests, m \in 1..Attempts :
           /\ try[q][m].done = Len(Script(q)) => try'[q][m].done = Len(Script(q))
           /\ try'[q][m].done <= Len(Script(q))
    <2>1. SUFFICES ASSUME NEW q \in Requests, NEW m \in 1..Attempts
                   PROVE  /\ try[q][m].done = Len(Script(q)) => try'[q][m].done = Len(Script(q))
                          /\ try'[q][m].done <= Len(Script(q))
      OBVIOUS
    <2>2. CASE q # r \/ m # n
      BY <2>2 DEF Respects, OnlyTry, ApiTypeOK
    <2>3. CASE q = r /\ m = n
      BY <1>1, <2>3 DEF Respects
    <2>4. QED
      BY <2>2, <2>3
  <1>3. ApiTypeOK'
    <2>1. seen' \subseteq Keys /\ old' \subseteq seen' /\ acked' \subseteq Requests
      BY DEF Respects, ApiTypeOK
    <2>2. \A q \in Requests, m \in 1..Attempts : (try[q][m].done <= Len(Script(q)))'
      BY <1>2 DEF Script
    <2>3. QED
      BY <2>1, <2>2 DEF Respects, OnlyTry, ApiTypeOK
  <1>4. PutsAreDone'
    BY DEF PutsAreDone, Respects, OnlyTry
  <1>5. SeenIsDone'
    <2>1. ASSUME NEW k \in seen'
          PROVE  \E q \in Requests, m \in 1..Attempts :
                    key[q] = k /\ try'[q][m].done = Len(Script(q))
      <3>1. CASE k \in seen
        BY <1>2, <3>1 DEF SeenIsDone
      <3>2. CASE k \notin seen
        BY <1>2, <3>2 DEF Respects
      <3>3. QED
        BY <3>1, <3>2
    <2>2. QED
      BY <2>1 DEF SeenIsDone, Respects
  <1>6. OnlyLapsedGo'
    BY DEF OnlyLapsedGo, Respects, OnlyTry
  <1>7. AckedAreSeen'
    BY DEF AckedAreSeen, Respects
  <1>8. LateOnesWait'
    BY DEF LateOnesWait, Respects, OnlyTry
  <1>9. KeysAreKeys'
    BY DEF KeysAreKeys, Respects, OnlyTry
  <1>10. OkMeansDone'
    <2>1. SUFFICES ASSUME NEW a \in acked'
                   PROVE  \E q \in SameKey(a), m \in 1..Attempts :
                             try'[q][m].done = Len(Script(q))
      BY DEF OkMeansDone, Respects, SameKey
    <2>2. \A q \in SameKey(a) : q \in Requests
      BY <1>3 DEF SameKey, ApiTypeOK
    <2>3. CASE a \in acked
      BY <1>2, <2>2, <2>3 DEF OkMeansDone
    <2>4. CASE a \notin acked
      <3>1. a = r
        BY <2>4 DEF Respects
      <3>2. CASE u.done = Len(Script(r)) /\ key[r] = None
        BY <3>1, <3>2 DEF SameKey
      <3>3. CASE key[r] \in seen' /\ key[r] # None
        <4>1. PICK q \in Requests, m \in 1..Attempts :
                 key[q] = key[r] /\ try'[q][m].done = Len(Script(q))
          BY <1>5, <3>3 DEF SeenIsDone, Respects
        <4>2. q \in SameKey(r)
          BY <3>3, <4>1 DEF SameKey
        <4>3. QED
          BY <3>1, <4>1, <4>2
      <3>4. QED
        BY <2>4, <3>1, <3>2, <3>3, ApiAssumption, <1>3 DEF Respects, ApiTypeOK
    <2>5. QED
      BY <2>3, <2>4
  <1>11. QED
    BY <1>3, <1>4, <1>5, <1>6, <1>7, <1>8, <1>9, <1>10

-----------------------------------------------------------------------------
(* The steps of a request.                                                  *)

LEMMA SendRespects ==
    ASSUME ApiInv, NEW r \in Requests, NEW n \in 1..Attempts, Send(r, n)
    PROVE  Respects(r, n)
  <1> DEFINE t == try[r][n]
             late == key[r] # None /\ SameKey(r) \cap acked # {}
             pc == IF key[r] = None THEN "work" ELSE "sweep"
             u == [t EXCEPT !.pc = pc, !.late = late]
  <1> USE DEF ApiInv
  <1>1. t \in Try /\ t.pc = "unsent" /\ t.done = 0 /\ ~t.late /\ t.dead \subseteq lapsed
    BY DEF ApiTypeOK, Send, At, LateOnesWait, OnlyLapsedGo
  <1>2. u \in Try /\ u.pc = pc /\ u.late = late /\ u.done = 0 /\ u.dead = t.dead
    BY <1>1 DEF Try, Busy
  <1>3. try' = [try EXCEPT ![r] = [try[r] EXCEPT ![n] = u]]
    BY DEF Send
  <1> HIDE DEF u
  <1>4. OnlyTry(r, n) /\ try'[r][n] = u
    BY <1>2, <1>3 DEF ApiTypeOK, OnlyTry
  <1>5. late /\ key[r] \notin lapsed => key[r] \in seen
    BY DEF SameKey, AckedAreSeen, ApiTypeOK
  <1>6. key[r] \in Keys \cup {None}
    BY ApiAssumption DEF ApiTypeOK
  <1>7. Len(Script(r)) \in Nat
    BY ScriptLength
  <1>8. /\ u.pc \in {"work", "sweep"} /\ (u.pc = "sweep" => key[r] \in Keys)
        /\ u.late => key[r] # None /\ late /\ u.pc = "sweep"
    BY <1>2, <1>6
  <1>9. u.late /\ key[r] \notin lapsed => key[r] # None /\ key[r] \in seen /\ u.pc = "sweep"
    BY <1>5, <1>8
  <1>10. /\ UNCHANGED <<key, live, seen, old, acked, lapsed>>
         /\ live \in BOOLEAN /\ old \subseteq seen /\ old \subseteq lapsed
    BY DEF Send, ApiTypeOK, OnlyLapsedGo
  <1> HIDE DEF t, late, pc
  <1>11. QED
    BY <1>1, <1>2, <1>4, <1>7, <1>8, <1>9, <1>10 DEF Respects, Busy, Answers, t

\* A step that moves on, and leaves the memory and the answers alone.
LEMMA GotoRespects ==
    ASSUME ApiInv, NEW r \in Requests, NEW n \in 1..Attempts, NEW step \in Busy \cup Answers,
           Goto(r, n, step), UNCHANGED <<key, live, seen, old, lapsed, acked>>,
           step \in {"put_sweep", "put_del", "put"}
               => key[r] # None /\ try[r][n].done = Len(Script(r)),
           step \in Busy \ {"work"} => key[r] \in Keys,
           try[r][n].late /\ key[r] \notin lapsed =>
               /\ key[r] # None /\ key[r] \in seen
               /\ step \in {"sweep", "del", "get"} \cup Answers /\ try[r][n].done = 0
    PROVE  Respects(r, n)
  <1>1. /\ try[r][n].done \in Nat /\ try[r][n].done <= Len(Script(r))
        /\ try[r][n].dead \subseteq lapsed /\ step # "unsent"
    BY DEF ApiInv, ApiTypeOK, Try, OnlyLapsedGo, Busy, Answers
  <1>2. QED
    BY <1>1, GotoFields DEF ApiInv, ApiTypeOK, OnlyLapsedGo, Respects

LEMMA SweepRespects ==
    ASSUME ApiInv, NEW r \in Requests, NEW n \in 1..Attempts, Sweep(r, n)
    PROVE  Respects(r, n)
  <1> DEFINE t == try[r][n]
             pc == IF At(r, n, "sweep") THEN "del" ELSE "put_del"
             u == [t EXCEPT !.dead = old, !.pc = pc]
  <1> USE DEF ApiInv
  <1>1. /\ t \in Try /\ t.done \in Nat /\ t.done <= Len(Script(r)) /\ old \subseteq Keys
        /\ t.pc \in {"sweep", "put_sweep"} /\ key[r] \in Keys
    BY DEF ApiTypeOK, Sweep, KeysAreKeys, Busy, Try
  <1>2. t.late /\ key[r] \notin lapsed =>
            key[r] # None /\ key[r] \in seen /\ t.done = 0 /\ t.pc = "sweep"
    BY <1>1 DEF LateOnesWait, Answers
  <1>3. CASE Goto(r, n, "500")
    BY <1>1, <1>2, <1>3, GotoRespects DEF Sweep, Busy, Answers
  <1>4. CASE try' = [try EXCEPT ![r][n].dead = old, ![r][n].pc = pc]
    <2>1. try' = [try EXCEPT ![r] = [try[r] EXCEPT ![n] = u]]
      BY <1>4
    <2>2. u \in Try /\ u.pc = pc /\ u.late = t.late /\ u.done = t.done /\ u.dead = old
      BY <1>1 DEF Try, Busy
    <2> HIDE DEF u
    <2>3. OnlyTry(r, n) /\ try'[r][n] = u
      BY <2>1, <2>2 DEF ApiTypeOK, OnlyTry
    <2>4. pc = "put_del" => key[r] # None /\ t.done = Len(Script(r))
      BY <1>1 DEF PutsAreDone, At
    <2>5. t.late /\ key[r] \notin lapsed => pc = "del"
      BY <1>2 DEF At
    <2>6. QED
      BY <1>1, <1>2, <2>2, <2>3, <2>4, <2>5 DEF Respects, Sweep, ApiTypeOK, OnlyLapsedGo
  <1>5. QED
    BY <1>3, <1>4 DEF Sweep

LEMMA SweepDeleteRespects ==
    ASSUME ApiInv, NEW r \in Requests, NEW n \in 1..Attempts, SweepDelete(r, n)
    PROVE  Respects(r, n)
  <1> DEFINE t == try[r][n]
  <1> USE DEF ApiInv
  <1>1. /\ t \in Try /\ t.done \in Nat /\ t.done <= Len(Script(r)) /\ t.dead \subseteq lapsed
        /\ t.pc \in {"del", "put_del"} /\ key[r] \in Keys /\ old \subseteq lapsed
    BY DEF ApiTypeOK, SweepDelete, KeysAreKeys, Busy, Try, OnlyLapsedGo
  <1>2. /\ t.late /\ key[r] \notin lapsed =>
               key[r] # None /\ key[r] \in seen /\ t.done = 0 /\ t.pc = "del"
        /\ t.pc = "put_del" => key[r] # None /\ t.done = Len(Script(r))
    BY <1>1 DEF LateOnesWait, PutsAreDone, Answers
  <1>3. CASE t.dead = {} /\ Goto(r, n, IF At(r, n, "del") THEN "get" ELSE "put")
                          /\ UNCHANGED <<seen, old>>
    <2>1. UNCHANGED <<key, live, acked, lapsed>>
      BY DEF SweepDelete
    <2>2. CASE At(r, n, "del")
      <3>1. Goto(r, n, "get")
        BY <1>3, <2>2
      <3>2. QED
        BY <1>1, <1>2, <1>3, <2>1, <3>1, GotoRespects DEF Busy
    <2>3. CASE ~At(r, n, "del")
      <3>1. Goto(r, n, "put") /\ t.pc = "put_del"
        BY <1>1, <1>3, <2>3 DEF At
      <3>2. QED
        BY <1>1, <1>2, <1>3, <2>1, <3>1, GotoRespects DEF Busy
    <2>4. QED
      BY <2>2, <2>3
  <1>4. ASSUME NEW k \in t.dead,
               try' = [try EXCEPT ![r][n].dead = t.dead \ {k}] \/ Goto(r, n, "500"),
               seen' = seen \ {k}, old' = old \ {k}
        PROVE  Respects(r, n)
    <2>1. UNCHANGED <<key, live, acked, lapsed>> /\ k \in lapsed
      BY <1>1 DEF SweepDelete
    <2>2. /\ seen' \subseteq seen /\ seen \subseteq seen' \cup lapsed /\ old' \subseteq lapsed
          /\ old' \subseteq seen'
      BY <1>1, <1>4, <2>1 DEF ApiTypeOK
    <2>3. CASE Goto(r, n, "500")
      <3>1. /\ OnlyTry(r, n) /\ try'[r][n].pc = "500" /\ try'[r][n].done = t.done
            /\ try'[r][n].dead = t.dead /\ try'[r][n].late = t.late
        BY <2>3, GotoFields DEF Answers
      <3>2. QED
        BY <1>1, <1>2, <2>1, <2>2, <3>1 DEF Respects, ApiTypeOK, Busy, Answers
    <2>4. CASE try' = [try EXCEPT ![r][n].dead = t.dead \ {k}]
      <3> DEFINE u == [t EXCEPT !.dead = t.dead \ {k}]
      <3>1. try' = [try EXCEPT ![r] = [try[r] EXCEPT ![n] = u]]
        BY <2>4
      <3>2. /\ u \in Try /\ u.pc = t.pc /\ u.late = t.late
            /\ u.done = t.done /\ u.dead \subseteq lapsed
        BY <1>1 DEF Try
      <3> HIDE DEF u
      <3>3. OnlyTry(r, n) /\ try'[r][n] = u
        BY <3>1, <3>2 DEF ApiTypeOK, OnlyTry
      <3>4. QED
        BY <1>1, <1>2, <2>1, <2>2, <3>2, <3>3 DEF Respects, ApiTypeOK
    <2>5. QED
      BY <1>4, <2>3, <2>4
  <1>5. QED
    BY <1>3, <1>4 DEF SweepDelete

LEMMA GetRespects ==
    ASSUME ApiInv, NEW r \in Requests, NEW n \in 1..Attempts, Get(r, n)
    PROVE  Respects(r, n)
  <1> DEFINE t == try[r][n]
  <1> USE DEF ApiInv
  <1>1. /\ t \in Try /\ t.done \in Nat /\ t.done <= Len(Script(r)) /\ t.dead \subseteq lapsed
        /\ t.pc = "get" /\ key[r] \in Keys /\ old \subseteq lapsed
        /\ UNCHANGED <<key, live, seen, old, lapsed>>
    BY DEF ApiTypeOK, Get, At, KeysAreKeys, Busy, Try, OnlyLapsedGo
  <1>2. t.late /\ key[r] \notin lapsed => key[r] # None /\ key[r] \in seen /\ t.done = 0
    BY DEF LateOnesWait
  <1>3. CASE key[r] \in seen
    <2>1. Goto(r, n, "ok") /\ acked' = acked \cup {r}
      BY <1>3 DEF Get, Answer
    <2>2. /\ OnlyTry(r, n) /\ try'[r][n].pc = "ok" /\ try'[r][n].done = t.done
          /\ try'[r][n].dead = t.dead /\ try'[r][n].late = t.late
      BY <2>1, GotoFields DEF Answers
    <2>3. QED
      BY <1>1, <1>2, <1>3, <2>1, <2>2 DEF Respects, ApiTypeOK, Busy, Answers
  <1>4. CASE key[r] \notin seen
    <2>1. Goto(r, n, "work") /\ UNCHANGED acked
      BY <1>4 DEF Get
    <2>2. QED
      BY <1>1, <1>2, <1>4, <2>1, GotoRespects DEF Busy
  <1>5. QED
    BY <1>3, <1>4

LEMMA WorkRespects ==
    ASSUME ApiInv, NEW r \in Requests, NEW n \in 1..Attempts, Work(r, n)
    PROVE  Respects(r, n)
  <1> DEFINE t == try[r][n]
             u == [t EXCEPT !.done = t.done + 1]
  <1> USE DEF ApiInv
  <1>1. /\ t \in Try /\ t.done \in Nat /\ t.done < Len(Script(r)) /\ t.dead \subseteq lapsed
        /\ t.pc = "work" /\ old \subseteq lapsed /\ Len(Script(r)) \in Nat
        /\ UNCHANGED <<key, seen, old, acked, lapsed>>
    BY ScriptLength DEF ApiTypeOK, Work, At, Try, OnlyLapsedGo
  <1>2. ~(t.late /\ key[r] \notin lapsed)
    BY <1>1 DEF LateOnesWait, Answers
  <1>3. CASE try' = [try EXCEPT ![r][n].done = t.done + 1] /\ live' = TRUE
    <2>1. try' = [try EXCEPT ![r] = [try[r] EXCEPT ![n] = u]]
      BY <1>3
    <2>2. u \in Try /\ u.pc = "work" /\ u.late = t.late /\ u.done = t.done + 1 /\ u.dead = t.dead
      BY <1>1 DEF Try
    <2> HIDE DEF u
    <2>3. OnlyTry(r, n) /\ try'[r][n] = u
      BY <2>1, <2>2 DEF ApiTypeOK, OnlyTry
    <2>4. u.done <= Len(Script(r))
      BY <1>1, <2>2
    <2>5. QED
      BY <1>1, <1>2, <1>3, <2>2, <2>3, <2>4 DEF Respects, ApiTypeOK
  <1>4. ASSUME NEW step \in {"404", "503"}, Goto(r, n, step), live' \in BOOLEAN
        PROVE  Respects(r, n)
    <2>1. /\ OnlyTry(r, n) /\ try'[r][n].pc = step /\ try'[r][n].done = t.done
          /\ try'[r][n].dead = t.dead /\ try'[r][n].late = t.late
      BY <1>4, GotoFields DEF Answers
    <2>2. QED
      BY <1>1, <1>2, <1>4, <2>1 DEF Respects, ApiTypeOK, Busy, Answers
  <1>5. live' \in BOOLEAN
    BY DEF Work, ApiTypeOK
  <1>6. QED
    BY <1>3, <1>4, <1>5 DEF Work

LEMMA WorkDoneRespects ==
    ASSUME ApiInv, NEW r \in Requests, NEW n \in 1..Attempts, WorkDone(r, n)
    PROVE  Respects(r, n)
  <1> DEFINE t == try[r][n]
  <1> USE DEF ApiInv
  <1>1. /\ t \in Try /\ t.done \in Nat /\ t.done = Len(Script(r)) /\ t.dead \subseteq lapsed
        /\ t.pc = "work" /\ old \subseteq lapsed /\ key[r] \in Keys \cup {None}
        /\ UNCHANGED <<key, live, seen, old, lapsed>>
    BY ApiAssumption DEF ApiTypeOK, WorkDone, At, Try, OnlyLapsedGo
  <1>2. ~(t.late /\ key[r] \notin lapsed)
    BY <1>1 DEF LateOnesWait, Answers
  <1>3. CASE key[r] = None
    <2>1. Goto(r, n, "ok") /\ acked' = acked \cup {r}
      BY <1>3 DEF WorkDone, Answer
    <2>2. /\ OnlyTry(r, n) /\ try'[r][n].pc = "ok" /\ try'[r][n].done = t.done
          /\ try'[r][n].dead = t.dead /\ try'[r][n].late = t.late
      BY <2>1, GotoFields DEF Answers
    <2>3. QED
      BY <1>1, <1>2, <1>3, <2>1, <2>2 DEF Respects, ApiTypeOK, Busy, Answers
  <1>4. CASE key[r] # None
    <2>1. Goto(r, n, "put_sweep") /\ UNCHANGED acked
      BY <1>4 DEF WorkDone
    <2>2. QED
      BY <1>1, <1>2, <1>4, <2>1, GotoRespects DEF Busy
  <1>5. QED
    BY <1>3, <1>4

LEMMA PutRespects ==
    ASSUME ApiInv, NEW r \in Requests, NEW n \in 1..Attempts, Put(r, n)
    PROVE  Respects(r, n)
  <1> DEFINE t == try[r][n]
  <1> USE DEF ApiInv
  <1>1. /\ t \in Try /\ t.done \in Nat /\ t.done = Len(Script(r)) /\ t.dead \subseteq lapsed
        /\ t.pc = "put" /\ old \subseteq lapsed /\ key[r] \in Keys
        /\ UNCHANGED <<key, live, lapsed>>
        /\ seen' = seen \cup {key[r]} /\ old' = old \ {key[r]} /\ acked' = acked \cup {r}
    BY DEF ApiTypeOK, Put, At, Try, OnlyLapsedGo, KeysAreKeys, PutsAreDone, Busy, Answer
  <1>2. ~(t.late /\ key[r] \notin lapsed)
    BY <1>1 DEF LateOnesWait, Answers
  <1>3. /\ OnlyTry(r, n) /\ try'[r][n].pc = "ok" /\ try'[r][n].done = t.done
        /\ try'[r][n].dead = t.dead /\ try'[r][n].late = t.late
    BY GotoFields DEF Put, Answer, Answers
  <1>4. QED
    BY <1>1, <1>2, <1>3 DEF Respects, ApiTypeOK, Busy, Answers

-----------------------------------------------------------------------------
(* The invariant.                                                           *)

LEMMA InitInv == ApiInit => ApiInv
  <1> SUFFICES ASSUME ApiInit PROVE ApiInv
    OBVIOUS
  <1> USE DEF ApiInit
  <1>1. \A r \in Requests, n \in 1..Attempts :
           try[r][n] = Unsent /\ Unsent \in Try /\ Unsent.pc = "unsent" /\ Unsent.done = 0
           /\ Unsent.dead = {} /\ ~Unsent.late
    BY DEF Unsent, Try
  <1>2. ApiTypeOK
    <2>1. \A r \in Requests, n \in 1..Attempts : try[r][n].done <= Len(Script(r))
      BY <1>1, ScriptLength
    <2>2. Requests = {} \/ 1..Attempts = {} \/ Unsent \in Try
      BY <1>1
    <2>3. QED
      BY <2>1, <2>2 DEF ApiTypeOK
  <1>3. PutsAreDone /\ SeenIsDone /\ OnlyLapsedGo /\ AckedAreSeen /\ LateOnesWait
        /\ KeysAreKeys /\ OkMeansDone
    BY <1>1 DEF PutsAreDone, SeenIsDone, OnlyLapsedGo, AckedAreSeen, LateOnesWait, KeysAreKeys,
       OkMeansDone, Busy
  <1>4. QED
    BY <1>2, <1>3 DEF ApiInv

\* The window and the session's end move no attempt.
LEMMA EnvironmentKeepsInv ==
    ASSUME ApiInv, UNCHANGED <<key, seen, try, acked>>, live' \in BOOLEAN,
           lapsed \subseteq lapsed', lapsed' \subseteq Keys,
           old' \subseteq lapsed', old' \subseteq seen'
    PROVE  ApiInv'
  <1> USE DEF ApiInv
  <1>1. ApiTypeOK'
    BY DEF ApiTypeOK, Script
  <1>2. PutsAreDone' /\ SeenIsDone' /\ OkMeansDone'
    BY DEF PutsAreDone, SeenIsDone, OkMeansDone, SameKey
  <1>3. OnlyLapsedGo' /\ AckedAreSeen' /\ LateOnesWait' /\ KeysAreKeys'
    BY DEF OnlyLapsedGo, AckedAreSeen, LateOnesWait, KeysAreKeys
  <1>4. QED
    BY <1>1, <1>2, <1>3

LEMMA StepKeepsInv == ApiInv /\ [ApiNext]_apiVars => ApiInv'
  <1> SUFFICES ASSUME ApiInv, [ApiNext]_apiVars PROVE ApiInv'
    OBVIOUS
  <1>1. /\ live \in BOOLEAN /\ lapsed \subseteq Keys /\ seen \subseteq Keys
        /\ old \subseteq lapsed /\ old \subseteq seen
    BY DEF ApiInv, ApiTypeOK, OnlyLapsedGo
  <1>2. ASSUME NEW r \in Requests, NEW n \in 1..Attempts, Send(r, n) \/ Handler(r, n)
        PROVE  ApiInv'
    <2>1. Respects(r, n)
      BY <1>2, SendRespects, SweepRespects, SweepDeleteRespects, GetRespects, WorkRespects,
         WorkDoneRespects, PutRespects DEF Handler
    <2>2. QED
      BY <2>1, RespectfulStep
  <1>3. ASSUME NEW k \in Keys, Lapse(k) PROVE ApiInv'
    BY <1>1, <1>3, EnvironmentKeepsInv DEF Lapse
  <1>4. CASE SessionEnds
    BY <1>1, <1>4, EnvironmentKeepsInv DEF SessionEnds
  <1>5. CASE UNCHANGED apiVars
    BY <1>1, <1>5, EnvironmentKeepsInv DEF apiVars
  <1>6. QED
    BY <1>2, <1>3, <1>4, <1>5 DEF ApiNext

\* The invariant of the memory and of the requests in progress is one: it holds at the
\* start, and no step of a request, a sweep or the clock breaks it.
THEOREM ApiInvariant == ApiSpec => []ApiInv
  <1>1. QED
    BY InitInv, StepKeepsInv, PTL DEF ApiSpec

\* Type correctness of the memory and of the requests in progress.
THEOREM ApiTypeCorrect == ApiSpec => []ApiTypeOK
  <1>1. ApiInv => ApiTypeOK
    BY DEF ApiInv
  <1>2. QED
    BY <1>1, ApiInvariant, PTL

\* A 2xx of the control API, replayed or not, stands for work that was done in full, for a
\* request with the same Idempotency-Key.
THEOREM OkAlwaysMeansDone == ApiSpec => []OkMeansDone
  <1>1. ApiInv => OkMeansDone
    BY DEF ApiInv
  <1>2. QED
    BY <1>1, ApiInvariant, PTL

\* What is sent after the answer runs no tmux command while the answer is remembered, whatever
\* sweeps and puts are under way.
THEOREM AcknowledgedStaysFinal == ApiSpec => []AcknowledgedIsFinal
  <1>1. ApiInv => AcknowledgedIsFinal
    BY DEF ApiInv, LateOnesWait, AcknowledgedIsFinal
  <1>2. QED
    BY <1>1, ApiInvariant, PTL

=============================================================================
