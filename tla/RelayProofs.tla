------------------------------ MODULE RelayProofs ------------------------------
(***************************************************************************)
(* What the relay passes on, for any number of frames.                      *)
(*                                                                         *)
(* RelayInv says what has been sent at each step: nothing before the accept *)
(* or the start, then a stream of frames, and at the end either all of them *)
(* and the close (or the end of the response), or a reason why not.         *)
(***************************************************************************)
EXTENDS Relay, TLAPS

Accepted == E("accept", 0)
Started == E("start", 200)

\* Frames 1 to n after the first event, none of which ttyd did not say.
Stream(first, n) == <<first>> \o FramesUpto(n)
Streams(first) == Passed \in 0..said /\ sent = Stream(first, Passed)

AllFrames(first) == Stream(first, said)
Finished == Closed /\ sent = Append(AllFrames(Accepted), E("close", CloseCode(code)))
Whole == sent = Append(AllFrames(Started), E("end", 0))

\* The browser left, or sent something that it was too late for.
Excused == left \/ Len(heard) < typed

Before == {"ask", "refuse", "receive", "dial", "accept", "body", "open"}
OfSockets == {"refuse", "receive", "dial", "accept", "relay", "close"}
OfPages == {"body", "open", "head", "pieces"}

\* ttyd is there from Dial or Open on, and says nothing once it has closed, or before it has
\* said how its answer will end.
TtydSpeaks ==
    /\ app \in Before \ {"accept"} => ttyd = "away"
    /\ app \in {"accept", "relay", "head", "pieces"} => ttyd # "away"
    /\ app = "done" /\ kind = "http" => ttyd # "open"
    /\ ttyd = "away" => said = 0 /\ framing = "none" /\ ~whole
    /\ Closed => code \in Codes
    /\ kind = "http" /\ framing = "none" => said = 0

\* Each of the two kinds goes its own way.
EachItsWay ==
    /\ app \in OfSockets => kind = "websocket"
    /\ app \in OfPages => kind = "http"

\* The tasks start with the relay.
TasksWait == app \notin {"relay", "close", "done"} => up = "idle" /\ down = "idle"

SentSoFar ==
    /\ app \in Before \cup {"head"} => sent = <<>>
    /\ app = "pieces" => Streams(Started)
    /\ app = "relay" =>
          \/ Streams(Accepted) /\ (down = "ended" => left)
          \/ Finished /\ down = "ended"
    /\ app = "relay" /\ up = "ended" => Excused

SentAtLast ==
    /\ app = "close" => Excused \/ Finished
    /\ app = "done" /\ sent # <<>> /\ sent[1].type = "accept" => Excused \/ Finished
    /\ app = "done" /\ kind = "http" /\ whole => Whole \/ left \/ Reset

RelayInv ==
    /\ RelayTypeOK /\ InOrder
    /\ TtydSpeaks /\ EachItsWay /\ TasksWait
    /\ SentSoFar /\ SentAtLast

-----------------------------------------------------------------------------
(* Streams.                                                                 *)

\* The frames of a stream.
LEMMA FramesAre ==
    ASSUME NEW n \in 0..Frames
    PROVE  /\ FramesUpto(n) \in Seq(Events) /\ Len(FramesUpto(n)) = n
           /\ \A i \in 1..n : FramesUpto(n)[i] = E("frame", i)
  <1>1. Frames \in Nat
    BY RelayAssumption
  <1>2. \A i \in 1..n : E("frame", i) \in Events
    BY <1>1 DEF E, Events
  <1>3. QED
    BY <1>1, <1>2 DEF FramesUpto

\* The first event, and the frames after it.
LEMMA StreamIs ==
    ASSUME NEW n \in 0..Frames, NEW first \in Events
    PROVE  /\ Stream(first, n) \in Seq(Events) /\ Len(Stream(first, n)) = n + 1
           /\ Stream(first, n)[1] = first
           /\ \A i \in 2..(n + 1) : Stream(first, n)[i] = E("frame", i - 1)
  <1> DEFINE f == FramesUpto(n)
  <1>1. f \in Seq(Events) /\ Len(f) = n /\ \A i \in 1..n : f[i] = E("frame", i)
    BY FramesAre
  <1>2. n \in Nat
    BY RelayAssumption
  <1> HIDE DEF f
  <1>3. QED
    BY <1>1, <1>2 DEF Stream, f

\* One more frame is a longer stream.
LEMMA Longer ==
    ASSUME NEW n \in 0..Frames, n < Frames, NEW first \in Events
    PROVE  Append(Stream(first, n), E("frame", n + 1)) = Stream(first, n + 1)
  <1> DEFINE s == Stream(first, n)
             t == Stream(first, n + 1)
             e == E("frame", n + 1)
  <1>1. n \in Nat /\ Frames \in Nat /\ n + 1 \in 0..Frames
    BY RelayAssumption
  <1>2. e \in Events
    BY <1>1 DEF E, Events
  <1>3. /\ s \in Seq(Events) /\ Len(s) = n + 1 /\ s[1] = first
        /\ \A i \in 2..(n + 1) : s[i] = E("frame", i - 1)
    BY StreamIs
  <1>4. /\ t \in Seq(Events) /\ Len(t) = n + 2 /\ t[1] = first
        /\ \A i \in 2..(n + 2) : t[i] = E("frame", i - 1)
    BY <1>1, StreamIs
  <1>5. t[n + 2] = e
    BY <1>1, <1>4
  <1> HIDE DEF s, t, e
  <1>6. Append(s, e) \in Seq(Events) /\ Len(Append(s, e)) = n + 2
    BY <1>1, <1>2, <1>3
  <1>7. \A i \in 1..(n + 2) : Append(s, e)[i] = t[i]
    BY <1>1, <1>2, <1>3, <1>4, <1>5
  <1>8. QED
    BY <1>4, <1>6, <1>7 DEF s, t, e

\* The same for what ttyd has heard.
LEMMA NextFrame ==
    ASSUME NEW s \in Seq(1..Frames), s = Upto(Len(s)), NEW m \in 0..Frames, Len(s) < m
    PROVE  LET t == Append(s, Len(s) + 1) IN
           t \in Seq(1..Frames) /\ t = Upto(Len(t)) /\ Len(t) <= m
  <1> DEFINE k == Len(s)
             t == Append(s, k + 1)
  <1>1. k \in Nat /\ Frames \in Nat /\ m \in Nat /\ k + 1 \in 1..Frames /\ k + 1 <= m
    BY RelayAssumption
  <1>2. \A i \in 1..k : s[i] = i
    BY DEF Upto
  <1> HIDE DEF k
  <1>3. /\ t \in Seq(1..Frames) /\ Len(t) = k + 1
        /\ \A i \in 1..(k + 1) : t[i] = i
    BY <1>1, <1>2 DEF k
  <1> HIDE DEF t
  <1>4. t = Upto(k + 1)
    BY <1>1, <1>3 DEF Upto
  <1>5. QED
    BY <1>1, <1>3, <1>4 DEF t, k

\* How the invariant and the properties write the end.
LEMMA AppendIsConcat ==
    ASSUME NEW n \in 0..Frames, NEW first \in Events, NEW e \in Events
    PROVE  Append(Stream(first, n), e) = <<first>> \o FramesUpto(n) \o <<e>>
  <1> DEFINE s == Stream(first, n)
  <1>1. s \in Seq(Events) /\ s = <<first>> \o FramesUpto(n)
    BY StreamIs DEF Stream
  <1> HIDE DEF s
  <1>2. Append(s, e) = s \o <<e>>
    <2>1. /\ Append(s, e) \in Seq(Events) /\ s \o <<e>> \in Seq(Events)
          /\ Len(Append(s, e)) = Len(s) + 1 /\ Len(s \o <<e>>) = Len(s) + 1
      BY <1>1
    <2>2. \A i \in 1..(Len(s) + 1) : Append(s, e)[i] = (s \o <<e>>)[i]
      BY <1>1
    <2>3. QED
      BY <2>1, <2>2
  <1>3. QED
    BY <1>1, <1>2 DEF s

\* Both first events are events.
LEMMA FirstEvents == Accepted \in Events /\ Started \in Events
  BY DEF Accepted, Started, E, Events, Codes

\* What the types say of the counts.
LEMMA NumbersAre ==
    ASSUME RelayTypeOK
    PROVE  /\ Frames \in Nat /\ said \in 0..Frames /\ said \in Nat /\ typed \in Nat
           /\ Len(sent) \in Nat /\ Len(heard) \in Nat
  BY RelayAssumption DEF RelayTypeOK

-----------------------------------------------------------------------------
(* The steps.                                                               *)

\* What the browser and ttyd do.
LEMMA EndsKeepInv ==
    ASSUME RelayInv, Ends
    PROVE  RelayInv'
  <1> USE DEF RelayInv, Closed, Reset
  <1>0. /\ RelayTypeOK /\ InOrder /\ TtydSpeaks /\ EachItsWay /\ TasksWait /\ SentSoFar
        /\ SentAtLast
    OBVIOUS
  <1>1. CASE BrowserTypes
    <2>1. RelayTypeOK'
      BY <1>0, <1>1, NumbersAre DEF BrowserTypes, linkVars, ttydVars, RelayTypeOK
    <2>2. InOrder'
      BY <1>0, <1>1, NumbersAre DEF BrowserTypes, ttydVars, InOrder
    <2>3. TtydSpeaks'
      BY <1>0, <1>1 DEF BrowserTypes, linkVars, ttydVars, TtydSpeaks
    <2>4. EachItsWay' /\ TasksWait'
      BY <1>0, <1>1 DEF BrowserTypes, EachItsWay, TasksWait
    <2>5. SentSoFar'
      BY <1>0, <1>1, NumbersAre
      DEF BrowserTypes, linkVars, ttydVars, SentSoFar, Streams, Passed, AllFrames, Finished,
          Excused
    <2>6. SentAtLast'
      BY <1>0, <1>1, NumbersAre
      DEF BrowserTypes, linkVars, ttydVars, SentAtLast, AllFrames, Finished, Excused
    <2>7. QED
      BY <2>1, <2>2, <2>3, <2>4, <2>5, <2>6
  <1>2. CASE BrowserLeaves
    <2>1. RelayTypeOK'
      BY <1>0, <1>2 DEF BrowserLeaves, linkVars, ttydVars, RelayTypeOK
    <2>2. InOrder'
      BY <1>0, <1>2 DEF BrowserLeaves, ttydVars, InOrder
    <2>3. TtydSpeaks'
      BY <1>0, <1>2 DEF BrowserLeaves, linkVars, ttydVars, TtydSpeaks
    <2>4. EachItsWay' /\ TasksWait'
      BY <1>0, <1>2 DEF BrowserLeaves, EachItsWay, TasksWait
    <2>5. SentSoFar'
      BY <1>0, <1>2
      DEF BrowserLeaves, linkVars, ttydVars, SentSoFar, Streams, Passed, AllFrames, Finished,
          Excused
    <2>6. SentAtLast'
      BY <1>0, <1>2 DEF BrowserLeaves, ttydVars, SentAtLast, AllFrames, Whole, Excused
    <2>7. QED
      BY <2>1, <2>2, <2>3, <2>4, <2>5, <2>6
  <1>3. CASE TtydHeads
    <2>1. RelayTypeOK'
      BY <1>0, <1>3 DEF TtydHeads, browserVars, linkVars, TtydChanges, RelayTypeOK
    <2>2. InOrder'
      BY <1>0, <1>3 DEF TtydHeads, browserVars, TtydChanges, InOrder
    <2>3. TtydSpeaks'
      BY <1>0, <1>3 DEF TtydHeads, linkVars, TtydChanges, TtydSpeaks
    <2>4. EachItsWay' /\ TasksWait'
      BY <1>0, <1>3 DEF TtydHeads, TtydChanges, EachItsWay, TasksWait
    <2>5. SentSoFar'
      BY <1>0, <1>3
      DEF TtydHeads, browserVars, TtydChanges, SentSoFar, Streams, Passed, Finished, Excused
    <2>6. SentAtLast'
      BY <1>0, <1>3
      DEF TtydHeads, browserVars, TtydChanges, SentAtLast, TtydSpeaks, Finished, Excused
    <2>7. QED
      BY <2>1, <2>2, <2>3, <2>4, <2>5, <2>6
  <1>4. CASE TtydSays
    <2>1. RelayTypeOK'
      BY <1>0, <1>4, NumbersAre DEF TtydSays, browserVars, linkVars, TtydChanges, RelayTypeOK
    <2>2. InOrder'
      BY <1>0, <1>4, NumbersAre DEF TtydSays, browserVars, TtydChanges, InOrder
    <2>3. TtydSpeaks'
      BY <1>0, <1>4 DEF TtydSays, linkVars, TtydChanges, TtydSpeaks
    <2>4. EachItsWay' /\ TasksWait'
      BY <1>0, <1>4 DEF TtydSays, TtydChanges, EachItsWay, TasksWait
    <2>5. SentSoFar'
      BY <1>0, <1>4, NumbersAre
      DEF TtydSays, browserVars, TtydChanges, SentSoFar, Streams, Passed, Finished, Excused
    <2>6. SentAtLast'
      BY <1>0, <1>4 DEF TtydSays, browserVars, TtydChanges, SentAtLast, Finished, Excused
    <2>7. QED
      BY <2>1, <2>2, <2>3, <2>4, <2>5, <2>6
  <1>5. CASE TtydIsThrough
    <2>1. RelayTypeOK'
      BY <1>0, <1>5 DEF TtydIsThrough, browserVars, linkVars, TtydChanges, RelayTypeOK
    <2>2. InOrder'
      BY <1>0, <1>5 DEF TtydIsThrough, browserVars, TtydChanges, InOrder
    <2>3. TtydSpeaks'
      BY <1>0, <1>5 DEF TtydIsThrough, linkVars, TtydChanges, TtydSpeaks
    <2>4. EachItsWay' /\ TasksWait'
      BY <1>0, <1>5 DEF TtydIsThrough, TtydChanges, EachItsWay, TasksWait
    <2>5. SentSoFar'
      BY <1>0, <1>5
      DEF TtydIsThrough, browserVars, TtydChanges, SentSoFar, Streams, Passed, Finished, Excused
    <2>6. SentAtLast'
      BY <1>0, <1>5
      DEF TtydIsThrough, browserVars, TtydChanges, SentAtLast, TtydSpeaks, Finished, Excused
    <2>7. QED
      BY <2>1, <2>2, <2>3, <2>4, <2>5, <2>6
  <1>6. CASE TtydCloses
    <2>1. RelayTypeOK'
      BY <1>0, <1>6 DEF TtydCloses, browserVars, TtydChanges, RelayTypeOK
    <2>2. InOrder'
      BY <1>0, <1>6 DEF TtydCloses, browserVars, TtydChanges, InOrder
    <2>3. TtydSpeaks'
      BY <1>0, <1>6 DEF TtydCloses, TtydChanges, TtydSpeaks
    <2>4. EachItsWay' /\ TasksWait'
      BY <1>0, <1>6 DEF TtydCloses, TtydChanges, EachItsWay, TasksWait
    <2>5. SentSoFar'
      BY <1>0, <1>6
      DEF TtydCloses, browserVars, TtydChanges, SentSoFar, Streams, Passed, Finished, Excused
    <2>6. SentAtLast'
      BY <1>0, <1>6
      DEF TtydCloses, browserVars, TtydChanges, SentAtLast, TtydSpeaks, Finished, Excused
    <2>7. QED
      BY <2>1, <2>2, <2>3, <2>4, <2>5, <2>6
  <1>7. QED
    BY <1>1, <1>2, <1>3, <1>4, <1>5, <1>6 DEF Ends

\* The steps that send nothing to the browser.
LEMMA SilentStepsKeepInv ==
    ASSUME RelayInv, UNCHANGED sent,
           \/ Authorize \/ Receive \/ Dial \/ FirstCompleted \/ Close \/ ReadBody \/ Open
           \/ Up \/ DownDrains \/ DownTakes
    PROVE  RelayInv'
  <1> USE DEF RelayInv, Closed, Reset
  <1>0. /\ RelayTypeOK /\ InOrder /\ TtydSpeaks /\ EachItsWay /\ TasksWait /\ SentSoFar
        /\ SentAtLast /\ UNCHANGED sent
    OBVIOUS
  <1>1. CASE Authorize
    <2>1. RelayTypeOK'
      BY <1>0, <1>1
      DEF Authorize, Goes, Answers, browserVars, linkVars, ttydVars, App, RelayTypeOK
    <2>2. InOrder'
      BY <1>0, <1>1 DEF Authorize, Goes, Answers, browserVars, ttydVars, InOrder
    <2>3. TtydSpeaks'
      BY <1>0, <1>1 DEF Authorize, Goes, Answers, linkVars, ttydVars, TtydSpeaks, Before
    <2>4. EachItsWay' /\ TasksWait'
      BY <1>0, <1>1
      DEF Authorize, Goes, Answers, EachItsWay, OfSockets, OfPages, RelayTypeOK, TasksWait
    <2>5. SentSoFar'
      BY <1>0, <1>1 DEF Authorize, Goes, Answers, SentSoFar, Before
    <2>6. SentAtLast'
      BY <1>0, <1>1
      DEF Authorize, Goes, Answers, ttydVars, SentAtLast, SentSoFar, TtydSpeaks, Before
    <2>7. QED
      BY <2>1, <2>2, <2>3, <2>4, <2>5, <2>6
  <1>2. CASE Receive
    <2>1. RelayTypeOK'
      BY <1>0, <1>2 DEF Receive, Goes, browserVars, linkVars, ttydVars, App, RelayTypeOK
    <2>2. InOrder'
      BY <1>0, <1>2 DEF Receive, Goes, browserVars, ttydVars, InOrder
    <2>3. TtydSpeaks'
      BY <1>0, <1>2 DEF Receive, Goes, linkVars, ttydVars, TtydSpeaks, Before
    <2>4. EachItsWay' /\ TasksWait'
      BY <1>0, <1>2 DEF Receive, Goes, EachItsWay, OfSockets, OfPages, TasksWait
    <2>5. SentSoFar'
      BY <1>0, <1>2 DEF Receive, Goes, SentSoFar, Before
    <2>6. SentAtLast'
      BY <1>0, <1>2 DEF Receive, Goes, SentAtLast
    <2>7. QED
      BY <2>1, <2>2, <2>3, <2>4, <2>5, <2>6
  <1>3. CASE Dial
    <2>1. RelayTypeOK'
      BY <1>0, <1>3 DEF Dial, Goes, Answers, browserVars, ttydVars, App, RelayTypeOK
    <2>2. InOrder'
      BY <1>0, <1>3 DEF Dial, Goes, Answers, browserVars, ttydVars, InOrder
    <2>3. TtydSpeaks'
      BY <1>0, <1>3 DEF Dial, Goes, Answers, ttydVars, TtydSpeaks
    <2>4. EachItsWay' /\ TasksWait'
      BY <1>0, <1>3 DEF Dial, Goes, Answers, EachItsWay, OfSockets, OfPages, TasksWait
    <2>5. SentSoFar'
      BY <1>0, <1>3 DEF Dial, Goes, Answers, SentSoFar, Before
    <2>6. SentAtLast'
      BY <1>0, <1>3 DEF Dial, Goes, Answers, SentAtLast
    <2>7. QED
      BY <2>1, <2>2, <2>3, <2>4, <2>5, <2>6
  <1>4. CASE FirstCompleted
    <2>1. RelayTypeOK'
      BY <1>0, <1>4 DEF FirstCompleted, browserVars, linkVars, ttydVars, App, RelayTypeOK
    <2>2. InOrder'
      BY <1>0, <1>4 DEF FirstCompleted, browserVars, ttydVars, InOrder
    <2>3. TtydSpeaks'
      BY <1>0, <1>4 DEF FirstCompleted, linkVars, ttydVars, TtydSpeaks, Before
    <2>4. EachItsWay' /\ TasksWait'
      BY <1>0, <1>4 DEF FirstCompleted, EachItsWay, OfSockets, OfPages, TasksWait
    <2>5. SentSoFar'
      BY <1>0, <1>4 DEF FirstCompleted, SentSoFar, Before
    <2>6. SentAtLast'
      BY <1>0, <1>4
      DEF FirstCompleted, browserVars, linkVars, ttydVars, SentAtLast, SentSoFar, AllFrames,
          Finished, Excused
    <2>7. QED
      BY <2>1, <2>2, <2>3, <2>4, <2>5, <2>6
  <1>5. CASE Close
    <2>1. RelayTypeOK'
      BY <1>0, <1>5 DEF Close, Goes, Hangup, browserVars, ttydVars, App, Codes, RelayTypeOK
    <2>2. InOrder'
      BY <1>0, <1>5 DEF Close, Goes, browserVars, ttydVars, InOrder
    <2>3. TtydSpeaks'
      BY <1>0, <1>5 DEF Close, Goes, Hangup, ttydVars, Codes, TtydSpeaks, Before
    <2>4. EachItsWay' /\ TasksWait'
      BY <1>0, <1>5 DEF Close, Goes, EachItsWay, OfSockets, OfPages, TasksWait
    <2>5. SentSoFar'
      BY <1>0, <1>5 DEF Close, Goes, SentSoFar, Before
    <2>6. SentAtLast'
      BY <1>0, <1>5
      DEF Close, Goes, Hangup, browserVars, ttydVars, SentAtLast, EachItsWay, AllFrames, Finished,
          Excused, OfSockets
    <2>7. QED
      BY <2>1, <2>2, <2>3, <2>4, <2>5, <2>6
  <1>6. CASE ReadBody
    <2>1. RelayTypeOK'
      BY <1>0, <1>6 DEF ReadBody, Goes, browserVars, linkVars, ttydVars, App, RelayTypeOK
    <2>2. InOrder'
      BY <1>0, <1>6 DEF ReadBody, Goes, browserVars, ttydVars, InOrder
    <2>3. TtydSpeaks'
      BY <1>0, <1>6 DEF ReadBody, Goes, linkVars, ttydVars, TtydSpeaks, Before
    <2>4. EachItsWay' /\ TasksWait'
      BY <1>0, <1>6 DEF ReadBody, Goes, EachItsWay, OfSockets, OfPages, TasksWait
    <2>5. SentSoFar'
      BY <1>0, <1>6 DEF ReadBody, Goes, SentSoFar, Before
    <2>6. SentAtLast'
      BY <1>0, <1>6 DEF ReadBody, Goes, ttydVars, SentAtLast, SentSoFar, TtydSpeaks, Before
    <2>7. QED
      BY <2>1, <2>2, <2>3, <2>4, <2>5, <2>6
  <1>7. CASE Open
    <2>1. RelayTypeOK'
      BY <1>0, <1>7 DEF Open, Goes, Answers, browserVars, linkVars, ttydVars, App, RelayTypeOK
    <2>2. InOrder'
      BY <1>0, <1>7 DEF Open, Goes, Answers, browserVars, ttydVars, InOrder
    <2>3. TtydSpeaks'
      BY <1>0, <1>7 DEF Open, Goes, Answers, linkVars, ttydVars, TtydSpeaks, Before
    <2>4. EachItsWay' /\ TasksWait'
      BY <1>0, <1>7 DEF Open, Goes, Answers, EachItsWay, OfSockets, OfPages, TasksWait
    <2>5. SentSoFar'
      BY <1>0, <1>7 DEF Open, Goes, Answers, SentSoFar, Before
    <2>6. SentAtLast'
      BY <1>0, <1>7 DEF Open, Goes, Answers, ttydVars, SentAtLast, SentSoFar, TtydSpeaks, Before
    <2>7. QED
      BY <2>1, <2>2, <2>3, <2>4, <2>5, <2>6
  <1>8. CASE Up
    <2> USE DEF Up, UpTakes, UpDrains, browserVars, linkVars, ttydVars
    <2>0. heard' \in Seq(1..Frames) /\ InOrder'
      <3>1. CASE UNCHANGED heard
        BY <1>0, <1>8, <3>1 DEF RelayTypeOK, InOrder
      <3>2. CASE heard' = Append(heard, Len(heard) + 1) /\ Len(heard) < typed
        BY <1>0, <1>8, <3>2, NextFrame DEF RelayTypeOK, InOrder
      <3>3. QED
        BY <1>8, <3>1, <3>2
    <2>1. RelayTypeOK'
      BY <1>0, <1>8, <2>0 DEF RelayTypeOK
    <2>2. InOrder'
      BY <2>0
    <2>3. TtydSpeaks'
      BY <1>0, <1>8 DEF TtydSpeaks
    <2>4. EachItsWay' /\ TasksWait'
      BY <1>0, <1>8 DEF EachItsWay, TasksWait
    <2>5. SentSoFar'
      BY <1>0, <1>8 DEF SentSoFar, Streams, Passed, AllFrames, Finished, Excused
    <2>6. SentAtLast'
      BY <1>0, <1>8 DEF SentAtLast
    <2>7. QED
      BY <2>1, <2>2, <2>3, <2>4, <2>5, <2>6
  <1>9. CASE DownDrains
    <2>1. RelayTypeOK'
      BY <1>0, <1>9 DEF DownDrains, browserVars, linkVars, ttydVars, RelayTypeOK
    <2>2. InOrder'
      BY <1>0, <1>9 DEF DownDrains, browserVars, ttydVars, InOrder
    <2>3. TtydSpeaks'
      BY <1>0, <1>9 DEF DownDrains, linkVars, ttydVars, TtydSpeaks
    <2>4. EachItsWay' /\ TasksWait'
      BY <1>0, <1>9 DEF DownDrains, EachItsWay, TasksWait
    <2>5. SentSoFar'
      BY <1>0, <1>9 DEF DownDrains, browserVars, ttydVars, SentSoFar, Streams, Passed, Excused
    <2>6. SentAtLast'
      BY <1>0, <1>9 DEF DownDrains, SentAtLast
    <2>7. QED
      BY <2>1, <2>2, <2>3, <2>4, <2>5, <2>6
  <1>10. CASE DownTakes
    <2>1. RelayTypeOK'
      BY <1>0, <1>10 DEF DownTakes, browserVars, linkVars, ttydVars, RelayTypeOK
    <2>2. InOrder'
      BY <1>0, <1>10 DEF DownTakes, browserVars, ttydVars, InOrder
    <2>3. TtydSpeaks'
      BY <1>0, <1>10 DEF DownTakes, linkVars, ttydVars, TtydSpeaks
    <2>4. EachItsWay' /\ TasksWait'
      BY <1>0, <1>10 DEF DownTakes, EachItsWay, TasksWait
    <2>5. SentSoFar'
      BY <1>0, <1>10
      DEF DownTakes, Event, browserVars, ttydVars, SentSoFar, Streams, Passed, Excused
    <2>6. SentAtLast'
      BY <1>0, <1>10 DEF DownTakes, SentAtLast
    <2>7. QED
      BY <2>1, <2>2, <2>3, <2>4, <2>5, <2>6
  <1>11. QED
    BY <1>1, <1>2, <1>3, <1>4, <1>5, <1>6, <1>7, <1>8, <1>9, <1>10

\* A request that is refused or fails: nothing had been sent.
LEMMA RefusalKeepsInv ==
    ASSUME RelayInv, sent = <<>>, app' = "done", sent' \in Seq(Events), ttyd # "open",
           UNCHANGED <<kind, up, down, browserVars, heard, ttydVars, linkVars>>,
           \A i \in 1..Len(sent') : sent'[i].type \notin {"frame", "accept"},
           kind = "http" => ~whole
    PROVE  RelayInv'
  <1> USE DEF RelayInv, Closed, Reset
  <1>0. /\ RelayTypeOK /\ InOrder /\ TtydSpeaks /\ EachItsWay /\ TasksWait /\ SentSoFar
        /\ SentAtLast
    OBVIOUS
  <1>1. RelayTypeOK'
    BY <1>0 DEF browserVars, linkVars, ttydVars, App, RelayTypeOK
  <1>2. InOrder'
    BY <1>0 DEF browserVars, InOrder
  <1>3. TtydSpeaks'
    BY <1>0 DEF linkVars, ttydVars, TtydSpeaks, Before
  <1>4. EachItsWay' /\ TasksWait'
    BY <1>0 DEF EachItsWay, OfSockets, OfPages, TasksWait
  <1>5. SentSoFar'
    BY <1>0 DEF SentSoFar, Before
  <1>6. SentAtLast'
    BY <1>0 DEF ttydVars, SentAtLast
  <1>7. QED
    BY <1>1, <1>2, <1>3, <1>4, <1>5, <1>6

\* The first event.
LEMMA Begun ==
    ASSUME NEW first \in Events
    PROVE  /\ Append(<<>>, first) = Stream(first, 0) /\ Stream(first, 0) \in Seq(Events)
           /\ Len(Stream(first, 0)) = 1 /\ Stream(first, 0)[1] = first
  <1>1. 0 \in 0..Frames
    BY RelayAssumption
  <1>2. /\ Stream(first, 0) \in Seq(Events) /\ Len(Stream(first, 0)) = 0 + 1
        /\ Stream(first, 0)[1] = first
    BY <1>1, StreamIs
  <1>3. QED
    BY <1>2

\* The accept, or the head of a response.
LEMMA BeginningKeepsInv ==
    ASSUME RelayInv, (Accept /\ app' = "relay") \/ (ReadHead /\ app' = "pieces")
    PROVE  RelayInv'
  <1> USE DEF RelayInv, Closed, Reset
  <1> DEFINE first == IF kind = "http" THEN Started ELSE Accepted
  <1>0. /\ RelayTypeOK /\ InOrder /\ TtydSpeaks /\ EachItsWay /\ TasksWait /\ SentSoFar
        /\ SentAtLast
    OBVIOUS
  <1>1. /\ UNCHANGED <<kind, up, down, browserVars, heard, ttydVars, linkVars>>
        /\ app' = IF kind = "http" THEN "pieces" ELSE "relay"
        /\ kind # "http" => app = "accept"
        /\ kind = "http" => app = "head"
    BY DEF Accept, ReadHead, Goes, Answers, Breaks, EachItsWay, OfSockets, OfPages, RelayTypeOK
  <1>2. sent = <<>> /\ sent' = Append(<<>>, first)
    BY <1>1 DEF Accept, ReadHead, Goes, Answers, Breaks, Event, SentSoFar, Before, EachItsWay, OfSockets,
                OfPages, Started, Accepted
  <1>3. /\ sent' = Stream(first, 0) /\ sent' \in Seq(Events) /\ Len(sent') = 1
        /\ sent'[1] = first /\ sent'[1].type # "frame"
    BY <1>2, Begun, FirstEvents DEF Started, Accepted, E
  <1> HIDE DEF first
  <1>4. Streams(first)'
    <2>1. Passed' = 0 /\ said' = said /\ 0 \in 0..said
      BY <1>1, <1>3, NumbersAre DEF Passed, ttydVars
    <2>2. Streams(first)' <=> Passed' \in 0..said' /\ sent' = Stream(first, Passed')
      BY <1>1 DEF Streams, first, Started, Accepted
    <2>3. QED
      BY <1>3, <2>1, <2>2
  <1>5. RelayTypeOK' /\ InOrder'
    BY <1>0, <1>1, <1>3 DEF RelayTypeOK, InOrder, browserVars, linkVars, ttydVars, App
  <1>6. TtydSpeaks' /\ EachItsWay' /\ TasksWait'
    BY <1>0, <1>1
    DEF TtydSpeaks, EachItsWay, TasksWait, Before, OfSockets, OfPages, RelayTypeOK, browserVars,
        linkVars, ttydVars
  <1>7. up # "ended" /\ down # "ended"
    BY <1>0, <1>1 DEF TasksWait, Before
  <1>8. SentSoFar' /\ SentAtLast'
    BY <1>0, <1>1, <1>4, <1>7 DEF SentSoFar, SentAtLast, Before, first
  <1>9. QED
    BY <1>5, <1>6, <1>8

\* One frame more.
LEMMA FrameKeepsInv ==
    ASSUME RelayInv, NEW first \in {Accepted, Started}, Streams(first), Passed < said,
           Event("frame", Passed + 1), app \in {"relay", "pieces"}, app' = app, down # "ended",
           app = "relay" => first = Accepted, app = "pieces" => first = Started,
           UNCHANGED <<kind, up, browserVars, heard, ttydVars, linkVars>>,
           down' \in {"idle", "drain"}, app = "pieces" => UNCHANGED down
    PROVE  RelayInv'
  <1> USE DEF RelayInv, Closed, Reset
  <1>0. /\ RelayTypeOK /\ InOrder /\ TtydSpeaks /\ EachItsWay /\ TasksWait /\ SentSoFar
        /\ SentAtLast
    OBVIOUS
  <1> DEFINE n == Passed
  <1>1. /\ n \in 0..Frames /\ n < Frames /\ n \in Nat /\ n + 1 \in 0..said
        /\ E("frame", n + 1) \in Events /\ first \in Events
    BY <1>0, NumbersAre, FirstEvents DEF Streams, E, Events
  <1>2. Len(sent) = n + 1 /\ sent \in Seq(Events)
    BY <1>0, NumbersAre DEF Passed, RelayTypeOK
  <1>3. sent' = Stream(first, n + 1)
    BY <1>1, Longer DEF Streams, Event
  <1>4. /\ sent' \in Seq(Events) /\ Len(sent') = n + 2
        /\ sent'[n + 2] = E("frame", n + 1) /\ \A i \in 1..(n + 1) : sent'[i] = sent[i]
    BY <1>1, <1>2 DEF Event
  <1>5. Passed' = n + 1
    BY <1>1, <1>4 DEF Passed
  <1>6. RelayTypeOK'
    BY <1>0, <1>4 DEF RelayTypeOK, browserVars, linkVars, ttydVars
  <1>7. InOrder'
    <2>1. ASSUME NEW i \in DOMAIN sent', sent'[i].type = "frame"
          PROVE  sent'[i].n = i - 1 /\ i - 1 <= said
      <3>1. CASE i = n + 2
        BY <1>1, <1>4, <3>1 DEF E
      <3>2. CASE i # n + 2
        <4>1. i \in 1..(n + 1) /\ sent'[i] = sent[i] /\ i \in DOMAIN sent
          BY <1>1, <1>2, <1>4, <3>2
        <4>2. QED
          BY <1>0, <2>1, <4>1 DEF InOrder
      <3>3. QED
        BY <3>1, <3>2
    <2>2. QED
      BY <1>0, <2>1 DEF InOrder, browserVars, ttydVars
  <1>8. TtydSpeaks' /\ EachItsWay' /\ TasksWait'
    BY <1>0 DEF TtydSpeaks, EachItsWay, TasksWait, Before, OfSockets, OfPages, linkVars, ttydVars
  <1>9. SentSoFar'
    <2>1. app = "relay" => Streams(Accepted)'
      BY <1>1, <1>3, <1>5 DEF Streams, ttydVars, Accepted
    <2>2. app = "pieces" => Streams(Started)'
      BY <1>1, <1>3, <1>5 DEF Streams, ttydVars, Started
    <2>3. QED
      BY <1>0, <2>1, <2>2 DEF SentSoFar, Before, Excused, browserVars
  <1>10. SentAtLast'
    BY DEF SentAtLast
  <1>11. QED
    BY <1>6, <1>7, <1>8, <1>9, <1>10

\* The last event, after all the frames.
LEMMA LastKeepsInv ==
    ASSUME RelayInv, NEW first \in {Accepted, Started}, Streams(first), Passed = said,
           NEW e \in Events, e.type # "frame", sent' = Append(sent, e),
           UNCHANGED <<kind, up, browserVars, heard, ttydVars>>,
           \/ /\ app = "relay" /\ app' = "relay" /\ first = Accepted /\ Closed
              /\ e = E("close", CloseCode(code)) /\ down' = "ended" /\ UNCHANGED linkVars
           \/ /\ app = "pieces" /\ app' = "done" /\ first = Started
              /\ e = E("end", 0) /\ UNCHANGED down /\ Hangup
    PROVE  RelayInv'
  <1> USE DEF RelayInv, Closed, Reset
  <1>0. /\ RelayTypeOK /\ InOrder /\ TtydSpeaks /\ EachItsWay /\ TasksWait /\ SentSoFar
        /\ SentAtLast
    OBVIOUS
  <1>1. sent \in Seq(Events) /\ Len(sent) \in Nat /\ sent = Stream(first, said)
    BY <1>0, NumbersAre DEF RelayTypeOK, Streams
  <1>2. /\ sent' \in Seq(Events) /\ Len(sent') = Len(sent) + 1 /\ sent'[Len(sent) + 1] = e
        /\ \A i \in 1..Len(sent) : sent'[i] = sent[i]
    BY <1>1
  <1>3. RelayTypeOK'
    BY <1>0, <1>2 DEF RelayTypeOK, Hangup, App, Codes, browserVars, linkVars, ttydVars
  <1>4. InOrder'
    <2>1. ASSUME NEW i \in DOMAIN sent', sent'[i].type = "frame"
          PROVE  sent'[i].n = i - 1 /\ i - 1 <= said
      <3>1. i \in DOMAIN sent /\ sent'[i] = sent[i]
        BY <1>1, <1>2, <2>1
      <3>2. QED
        BY <1>0, <2>1, <3>1 DEF InOrder
    <2>2. QED
      BY <1>0, <2>1 DEF InOrder, browserVars, ttydVars
  <1>5. TtydSpeaks' /\ EachItsWay' /\ TasksWait'
    BY <1>0 DEF TtydSpeaks, EachItsWay, TasksWait, Before, OfSockets, OfPages, Hangup, Codes,
                linkVars, ttydVars
  <1>6. app = "relay" => Finished'
    BY <1>1 DEF Finished, AllFrames, Accepted, linkVars, ttydVars
  <1>7. app = "pieces" => Whole' /\ kind = "http"
    BY <1>0, <1>1 DEF Whole, AllFrames, Started, ttydVars, EachItsWay, OfPages
  <1>8. SentSoFar'
    BY <1>0, <1>6 DEF SentSoFar, Before, Excused, browserVars
  <1>9. SentAtLast'
    <2>1. app = "pieces" => sent'[1].type = "start"
      <3>1. app = "pieces" => sent[1] = Started /\ 1 \in 1..Len(sent)
        BY <1>0, <1>1, StreamIs, NumbersAre, FirstEvents DEF Started
      <3>2. QED
        BY <1>2, <3>1 DEF Started, E
    <2>2. QED
      BY <1>7, <2>1 DEF SentAtLast
  <1>10. QED
    BY <1>3, <1>4, <1>5, <1>8, <1>9

Refusals == {Response(403), Response(502), <<E("close", 1008)>>, <<E("close", 1011)>>}

\* What is sent where no stream begins.
LEMMA RefusalsAre ==
    ASSUME sent = <<>>, NEW events \in Refusals, sent' = sent \o events
    PROVE  /\ sent' \in Seq(Events)
           /\ \A i \in 1..Len(sent') : sent'[i].type \notin {"frame", "accept"}
  <1>1. ASSUME NEW status \in {403, 502}, events = Response(status)
        PROVE  /\ events \in Seq(Events)
               /\ \A i \in 1..Len(events) : events[i].type \notin {"frame", "accept"}
    <2>1. E("start", status) \in Events /\ E("end", 0) \in Events
      BY DEF E, Events
    <2>2. events = <<E("start", status), E("end", 0)>>
      BY <1>1 DEF Response
    <2>3. QED
      BY <2>1, <2>2 DEF E
  <1>2. ASSUME NEW c \in {1008, 1011}, events = <<E("close", c)>>
        PROVE  /\ events \in Seq(Events)
               /\ \A i \in 1..Len(events) : events[i].type \notin {"frame", "accept"}
    <2>1. E("close", c) \in Events
      BY DEF E, Events
    <2>2. QED
      BY <1>2, <2>1 DEF E
  <1>3. /\ events \in Seq(Events)
        /\ \A i \in 1..Len(events) : events[i].type \notin {"frame", "accept"}
    BY <1>1, <1>2 DEF Refusals
  <1>4. sent' = events
    BY <1>3
  <1>5. QED
    BY <1>3, <1>4

\* An accept that fails, and a response that breaks off.
LEMMA BreakKeepsInv ==
    ASSUME RelayInv, app' = "done",
           UNCHANGED <<kind, up, down, browserVars, heard, ttydVars, sent>>,
           \/ app = "accept" /\ UNCHANGED linkVars
           \/ app \in {"head", "pieces"} /\ (Reset \/ left) /\ Hangup
    PROVE  RelayInv'
  <1> USE DEF RelayInv, Closed, Reset
  <1>0. /\ RelayTypeOK /\ InOrder /\ TtydSpeaks /\ EachItsWay /\ TasksWait /\ SentSoFar
        /\ SentAtLast
    OBVIOUS
  <1>1. RelayTypeOK'
    BY <1>0 DEF RelayTypeOK, Hangup, App, Codes, browserVars, linkVars, ttydVars
  <1>2. InOrder'
    BY <1>0 DEF InOrder, browserVars, ttydVars
  <1>3. TtydSpeaks' /\ EachItsWay' /\ TasksWait'
    BY <1>0 DEF TtydSpeaks, EachItsWay, TasksWait, Before, OfSockets, OfPages, Hangup, Codes,
                linkVars, ttydVars
  <1>4. SentSoFar'
    BY <1>0 DEF SentSoFar, Before
  <1>5. sent # <<>> => sent[1].type = "start"
    <2>1. SUFFICES ASSUME sent # <<>> PROVE sent[1].type = "start"
      OBVIOUS
    <2>2. Streams(Started)
      BY <1>0, <2>1 DEF SentSoFar, Before
    <2>3. sent[1] = Started
      <3>1. Passed \in 0..Frames /\ sent = Stream(Started, Passed)
        BY <1>0, <2>2, NumbersAre DEF Streams
      <3>2. QED
        BY <3>1, StreamIs, FirstEvents
    <2>4. QED
      BY <2>3 DEF Started, E
  <1>6. kind = "http" => left' \/ Reset'
    BY <1>0 DEF EachItsWay, OfSockets, Hangup, browserVars
  <1>7. SentAtLast'
    BY <1>5, <1>6 DEF SentAtLast
  <1>8. QED
    BY <1>1, <1>2, <1>3, <1>4, <1>7

\* The coroutine.
LEMMA MainKeepsInv ==
    ASSUME RelayInv, Main
    PROVE  RelayInv'
  <1>0. /\ RelayTypeOK /\ InOrder /\ TtydSpeaks /\ EachItsWay /\ TasksWait /\ SentSoFar
        /\ SentAtLast
    BY DEF RelayInv
  <1>1. CASE (Authorize \/ Dial \/ Open) /\ UNCHANGED sent
    BY <1>1, SilentStepsKeepInv
  <1>2. CASE Receive \/ FirstCompleted \/ Close \/ ReadBody
    BY <1>2, SilentStepsKeepInv DEF Receive, FirstCompleted, Close, ReadBody
  <1>3. ASSUME NEW from \in Before \cup {"head"}, NEW events \in Refusals,
               Answers(from, events), UNCHANGED linkVars, ttyd # "open", ~whole
        PROVE  RelayInv'
    <2>1. sent = <<>>
      BY <1>0, <1>3 DEF SentSoFar, Answers, Goes
    <2>2. /\ sent' \in Seq(Events)
          /\ \A i \in 1..Len(sent') : sent'[i].type \notin {"frame", "accept"}
      BY <1>3, <2>1, RefusalsAre DEF Answers
    <2>3. QED
      BY <1>3, <2>1, <2>2, RefusalKeepsInv DEF Answers, Goes
  <1>4. ASSUME app \in Before \ {"accept"}
        PROVE  ttyd # "open" /\ ~whole
    BY <1>0, <1>4 DEF TtydSpeaks
  <1>5. CASE Authorize \/ Refuse \/ Dial \/ Open
    <2>1. CASE Answers("ask", Response(403)) /\ UNCHANGED linkVars
      BY <1>3, <1>4, <2>1 DEF Answers, Goes, Before, Refusals
    <2>2. CASE Answers("refuse", <<E("close", 1008)>>) /\ UNCHANGED linkVars
      BY <1>3, <1>4, <2>2 DEF Answers, Goes, Before, Refusals
    <2>3. CASE Answers("dial", <<E("close", 1011)>>) /\ UNCHANGED linkVars
      BY <1>3, <1>4, <2>3 DEF Answers, Goes, Before, Refusals
    <2>4. CASE Answers("open", Response(502)) /\ UNCHANGED linkVars
      BY <1>3, <1>4, <2>4 DEF Answers, Goes, Before, Refusals
    <2>5. QED
      BY <1>1, <1>5, <2>1, <2>2, <2>3, <2>4 DEF Authorize, Refuse, Dial, Open
  <1>6. CASE Accept
    BY <1>6, BeginningKeepsInv, BreakKeepsInv DEF Accept, Goes
  <1>7. CASE ReadHead
    <2>1. CASE Goes("head", "pieces")
      BY <1>7, <2>1, BeginningKeepsInv DEF Goes
    <2>2. CASE Closed /\ ~whole /\ Answers("head", Response(502)) /\ UNCHANGED linkVars
      BY <1>3, <2>2 DEF Closed, Refusals
    <2>3. CASE Breaks("head")
      BY <2>3, BreakKeepsInv DEF Breaks, Goes
    <2>4. QED
      BY <1>7, <2>1, <2>2, <2>3 DEF ReadHead
  <1>8. CASE ReadPiece
    <2>1. Streams(Started) /\ app = "pieces"
      BY <1>0, <1>8 DEF ReadPiece, Breaks, SentSoFar, Goes, Answers
    <2>2. down = "idle" /\ up = "idle"
      BY <1>0, <2>1 DEF TasksWait
    <2>3. CASE Passed < said /\ Goes("pieces", "pieces") /\ Event("frame", Passed + 1)
               /\ UNCHANGED linkVars
      BY <2>1, <2>2, <2>3, FrameKeepsInv DEF Goes
    <2>4. CASE Passed = said /\ Answers("pieces", <<E("end", 0)>>) /\ Hangup
      <3>1. E("end", 0) \in Events /\ E("end", 0).type # "frame"
        BY DEF E, Events
      <3>2. sent' = Append(sent, E("end", 0))
        BY <1>0, <2>4, <3>1 DEF Answers, RelayTypeOK
      <3>3. QED
        BY <2>1, <2>4, <3>1, <3>2, LastKeepsInv DEF Answers, Goes
    <2>5. CASE Breaks("pieces")
      BY <2>5, BreakKeepsInv DEF Breaks, Goes
    <2>6. QED
      BY <1>8, <2>3, <2>4, <2>5 DEF ReadPiece
  <1>9. QED
    BY <1>2, <1>5, <1>6, <1>7, <1>8 DEF Main

\* The two tasks.
LEMMA TasksKeepInv ==
    ASSUME RelayInv, Up \/ Down
    PROVE  RelayInv'
  <1>0. RelayTypeOK /\ SentSoFar /\ TtydSpeaks
    BY DEF RelayInv
  <1>1. CASE Up
    BY <1>1, SilentStepsKeepInv DEF Up, UpTakes, UpDrains
  <1>2. CASE DownDrains
    BY <1>2, SilentStepsKeepInv DEF DownDrains
  <1>3. CASE DownTakes
    <2>1. app = "relay" /\ down = "idle" /\ Streams(Accepted)
      BY <1>0, <1>3 DEF DownTakes, SentSoFar
    <2>2. CASE UNCHANGED sent
      BY <1>3, <2>2, SilentStepsKeepInv
    <2>3. CASE Passed < said /\ Event("frame", Passed + 1) /\ down' = "drain"
      BY <1>3, <2>1, <2>3, FrameKeepsInv DEF DownTakes
    <2>4. CASE Passed = said /\ Closed /\ Event("close", CloseCode(code)) /\ down' = "ended"
      <3> DEFINE e == E("close", CloseCode(code))
      <3>1. e \in Events /\ e.type # "frame"
        <4>1. CloseCode(code) \in Codes \ Reserved
          BY <1>0, <2>4 DEF CloseCode, TtydSpeaks, Codes, Reserved
        <4>2. QED
          BY <4>1 DEF E, Events
      <3>2. QED
        BY <1>3, <2>1, <2>4, <3>1, LastKeepsInv DEF DownTakes, Event
    <2>5. QED
      BY <1>3, <2>2, <2>3, <2>4 DEF DownTakes
  <1>4. QED
    BY <1>1, <1>2, <1>3 DEF Down

\* RelayInv holds at first, and so always.
LEMMA RelayInvAtFirst == RelayInit => RelayInv
  <1> SUFFICES ASSUME RelayInit PROVE RelayInv
    OBVIOUS
  <1>1. RelayTypeOK
    <2>1. <<>> \in Seq(1..Frames) /\ <<>> \in Seq(Events) /\ 0 \in 0..Frames
      BY RelayAssumption
    <2>2. "ask" \in App /\ "none" \in Framing /\ 0 \in Codes \cup {0}
      BY DEF App, Framing
    <2>3. QED
      BY <2>1, <2>2 DEF RelayInit, RelayTypeOK
  <1>2. InOrder
    <2>1. heard = Upto(0) /\ Len(heard) = 0 /\ DOMAIN sent = {}
      BY DEF RelayInit, Upto
    <2>2. QED
      BY <2>1 DEF RelayInit, InOrder
  <1>3. TtydSpeaks /\ EachItsWay /\ TasksWait
    BY DEF RelayInit, TtydSpeaks, EachItsWay, TasksWait, Before, OfSockets, OfPages, Closed
  <1>4. SentSoFar /\ SentAtLast
    BY DEF RelayInit, SentSoFar, SentAtLast, Before
  <1>5. QED
    BY <1>1, <1>2, <1>3, <1>4 DEF RelayInv

\* Main, the two tasks and the two ends keep it.
LEMMA RelayInvHolds == RelaySpec => []RelayInv
  <1>1. ASSUME RelayInv, UNCHANGED relayVars PROVE RelayInv'
    BY <1>1
    DEF relayVars, browserVars, linkVars, ttydVars, RelayInv, RelayTypeOK, InOrder, TtydSpeaks,
        EachItsWay, TasksWait, SentSoFar, SentAtLast, Streams, Passed, AllFrames, Finished, Whole,
        Excused, Closed, Reset
  <1>2. RelayInv /\ [RelayNext]_relayVars => RelayInv'
    BY <1>1, MainKeepsInv, TasksKeepInv, EndsKeepInv DEF RelayNext
  <1>3. QED
    BY <1>2, RelayInvAtFirst, PTL DEF RelaySpec

-----------------------------------------------------------------------------
(* What either end can rely on.                                             *)

\* The tasks, the ends and the events have their types; no reserved close code is sent.
THEOREM RelayTypeCorrect == RelaySpec => []RelayTypeOK
  <1>1. RelayInv => RelayTypeOK
    BY DEF RelayInv
  <1>2. QED
    BY <1>1, RelayInvHolds, PTL

\* What one end gets is what the other sent, in that order, nothing twice, up to some point.
THEOREM RelayedInOrder == RelaySpec => []InOrder
  <1>1. RelayInv => InOrder
    BY DEF RelayInv
  <1>2. QED
    BY <1>1, RelayInvHolds, PTL

\* What ttyd says before it closes arrives, and then the close, unless the browser had left or
\* sent something into the closed connection.
THEOREM LastWordsAlwaysArrive == RelaySpec => []LastWordsArrive
  <1>1. RelayInv => LastWordsArrive
    <2>1. SUFFICES ASSUME RelayInv, app = "done", sent # <<>>, sent[1].type = "accept", ~left,
                          typed = Len(heard)
                   PROVE  sent = <<E("accept", 0)>> \o FramesUpto(said)
                                   \o <<E("close", CloseCode(code))>>
      BY DEF LastWordsArrive
    <2>2. Finished
      BY <2>1, NumbersAre DEF RelayInv, SentAtLast, Excused
    <2>3. said \in 0..Frames /\ Accepted \in Events /\ E("close", CloseCode(code)) \in Events
      <3>1. CloseCode(code) \in Codes \ Reserved
        BY <2>1, <2>2 DEF RelayInv, Finished, CloseCode, TtydSpeaks, Codes, Reserved
      <3>2. QED
        BY <2>1, <3>1, FirstEvents, NumbersAre DEF RelayInv, E, Events
    <2>4. QED
      BY <2>2, <2>3, AppendIsConcat DEF Finished, AllFrames, Accepted
  <1>2. QED
    BY <1>1, RelayInvHolds, PTL

\* A response that ttyd completed is passed on as a whole: start, each piece, end; unless the
\* browser left or the connection was reset.
THEOREM ResponsesAreWhole == RelaySpec => []ResponseIsWhole
  <1>1. RelayInv => ResponseIsWhole
    <2>1. SUFFICES ASSUME RelayInv, kind = "http", app = "done", whole, ~left, ~Reset
                   PROVE  sent = <<E("start", 200)>> \o FramesUpto(said) \o <<E("end", 0)>>
      BY DEF ResponseIsWhole
    <2>2. Whole
      BY <2>1 DEF RelayInv, SentAtLast
    <2>3. said \in 0..Frames /\ Started \in Events /\ E("end", 0) \in Events
      BY <2>1, FirstEvents, NumbersAre DEF RelayInv, E, Events
    <2>4. QED
      BY <2>2, <2>3, AppendIsConcat DEF Whole, AllFrames, Started
  <1>2. QED
    BY <1>1, RelayInvHolds, PTL
=============================================================================
