--------------------------------- MODULE Relay ---------------------------------
(***************************************************************************)
(* tmuxd/asgi.py: TtydProxy, the ASGI app that relays a browser's HTTP      *)
(* requests and WebSockets to ttyd.  One request, or one WebSocket, with    *)
(* its two tasks; requests share no state.                                  *)
(*                                                                         *)
(* A task runs from one await to the next.  websockets' send and the ASGI   *)
(* send write first and then wait for the peer to keep up, so a cancelled   *)
(* task loses no frame it had taken, only those it had not.  The ASGI       *)
(* server, websockets and ttyd are external.                                *)
(***************************************************************************)
EXTENDS Naturals, Sequences

CONSTANT Frames     \* bound: the frames, or pieces of a body, each side sends

ASSUME RelayAssumption == Frames \in Nat

VARIABLES
    kind,       \* the scope's type
    app,        \* how far __call__ has come
    up, down,   \* browser_to_ttyd and ttyd_to_browser
    left,       \* whether the browser has closed its end
    typed,      \* how many frames the browser has sent
    heard,      \* the frames passed on to ttyd
    ttyd,       \* its end of the connection
    code,       \* the code it was closed with
    said,       \* how many frames, or pieces of the response, have come from it
    framing,    \* how the end of an HTTP response is told
    whole,      \* whether ttyd has said all it had to say
    sent        \* the ASGI events sent to the browser

relayVars == <<kind, app, up, down, left, typed, heard, ttyd, code, said, framing, whole,
              sent>>
browserVars == <<left, typed>>
linkVars == <<ttyd, code>>
ttydVars == <<said, framing, whole>>

Codes == {1000, 1001, 1006}
Reserved == {1006}

App == {"ask", "refuse", "receive", "dial", "accept", "relay", "close",     \* _websocket
        "body", "open", "head", "pieces",                                   \* _http
        "done"}

Framing == {"none", "marked", "eof"}

RelayInit ==
    /\ kind \in {"http", "websocket"}
    /\ app = "ask"
    /\ up = "idle" /\ down = "idle"
    /\ left = FALSE /\ typed = 0 /\ heard = <<>>
    /\ ttyd = "away" /\ code = 0 /\ said = 0 /\ framing = "none" /\ whole = FALSE
    /\ sent = <<>>

\* An ASGI event: its type, and the status, the close code or the number of the frame.
E(type, n) == [type |-> type, n |-> n]
Event(type, n) == sent' = Append(sent, E(type, n))

\* How many frames, or pieces, were read from ttyd and passed on, once there was an accept or
\* a start and as long as there was no close or end.
Passed == Len(sent) - 1
Closed == ttyd = "closed"
Reset == Closed /\ code = 1006      \* not in order: reading a response raises

\* Where the coroutine goes, and what else it leaves as it is.
Goes(from, to) ==
    /\ app = from /\ app' = to
    /\ UNCHANGED <<kind, up, down, browserVars, heard, ttydVars>>

Response(status) == <<E("start", status), E("end", 0)>>     \* _plain
Answers(from, events) == Goes(from, "done") /\ sent' = sent \o events

\* Our end is closed, if ttyd's was not before.
Hangup == ttyd' = "closed" /\ code' = IF Closed THEN code ELSE 1000

-----------------------------------------------------------------------------
(* __call__ and _websocket.                                                 *)

\* authorize(scope): yes or no, for a page and for a socket.
Authorize ==
    /\ \/ Goes("ask", IF kind = "http" THEN "body" ELSE "receive") /\ UNCHANGED sent
       \/ kind = "websocket" /\ Goes("ask", "refuse") /\ UNCHANGED sent
       \/ kind = "http" /\ Answers("ask", Response(403))
    /\ UNCHANGED linkVars

Refuse == Answers("refuse", <<E("close", 1008)>>) /\ UNCHANGED linkVars
Receive == Goes("receive", "dial") /\ UNCHANGED <<linkVars, sent>>

Dial ==
    \/ Goes("dial", "accept") /\ ttyd' = "open" /\ UNCHANGED <<code, sent>>
    \/ Answers("dial", <<E("close", 1011)>>) /\ UNCHANGED linkVars

\* Without its browser this send may raise too, and it is outside the try block: nobody closes
\* the connection to ttyd then.
Accept ==
    /\ \/ Goes("accept", "relay") /\ Event("accept", 0)
       \/ left /\ Goes("accept", "done") /\ UNCHANGED sent
    /\ UNCHANGED linkVars

\* slip: a task for every message
UpTakesAny ==
    /\ app = "relay" /\ up = "idle" /\ ~Closed
    /\ \E i \in 1..typed : /\ \A j \in DOMAIN heard : heard[j] # i
                           /\ heard' = Append(heard, i)
    /\ up' = "drain"
    /\ UNCHANGED <<kind, app, down, browserVars, linkVars, ttydVars, sent>>

\* browser_to_ttyd: one message.  Sending to a closed connection raises, and ends the task.
UpTakes ==
    /\ app = "relay" /\ up = "idle"
    /\ IF Len(heard) < typed
       THEN IF Closed THEN up' = "ended" /\ UNCHANGED heard
            ELSE up' = "drain" /\ heard' = Append(heard, Len(heard) + 1)
       ELSE left /\ up' = "ended" /\ UNCHANGED heard
    /\ UNCHANGED <<kind, app, down, browserVars, linkVars, ttydVars, sent>>

UpDrains ==
    /\ app = "relay" /\ up = "drain"
    /\ up' = "idle"
    /\ UNCHANGED <<kind, app, down, browserVars, heard, linkVars, ttydVars, sent>>

\* slip: the code as it came
CloseCodeRaw(c) == c

\* 1005 and 1006 are reserved, never sent.
CloseCode(c) == IF c \in Reserved THEN 1000 ELSE c

\* slip: a closed connection has nothing more to say
DownTakesLeaves ==
    /\ app = "relay" /\ down = "idle"
    /\ IF Closed THEN Event("close", CloseCode(code)) /\ down' = "ended"
       ELSE /\ Passed < said
            /\ Event("frame", Passed + 1) /\ down' = "drain"
    /\ UNCHANGED <<kind, app, up, browserVars, heard, linkVars, ttydVars>>

\* ttyd_to_browser: one frame; or, after the last one, the close.  Without its browser a
\* send may raise, which ends the task.
DownTakes ==
    /\ app = "relay" /\ down = "idle"
    /\ \/ /\ Passed < said
          /\ \/ Event("frame", Passed + 1) /\ down' = "drain"
             \/ left /\ down' = "ended" /\ UNCHANGED sent
       \/ /\ Passed = said /\ Closed
          /\ Event("close", CloseCode(code))
          /\ down' = "ended"
    /\ UNCHANGED <<kind, app, up, browserVars, heard, linkVars, ttydVars>>

DownDrains ==
    /\ app = "relay" /\ down = "drain"
    /\ down' = "idle"
    /\ UNCHANGED <<kind, app, up, browserVars, heard, linkVars, ttydVars, sent>>

\* slip: asyncio.wait as it is by default
FirstCompletedOfAll ==
    /\ up = "ended" /\ down = "ended"
    /\ app = "relay" /\ app' = "close"
    /\ UNCHANGED <<kind, up, down, browserVars, heard, linkVars, ttydVars, sent>>

\* FIRST_COMPLETED; both tasks are cancelled, wherever they wait.
FirstCompleted ==
    /\ up = "ended" \/ down = "ended"
    /\ app = "relay" /\ app' = "close"
    /\ up' = "ended" /\ down' = "ended"
    /\ UNCHANGED <<kind, browserVars, heard, linkVars, ttydVars, sent>>

\* upstream.close().
Close ==
    /\ Goes("close", "done")
    /\ Hangup
    /\ UNCHANGED sent

-----------------------------------------------------------------------------
(* _http.                                                                   *)

\* The request's body, in however many parts, or a disconnect in the middle of it.
ReadBody ==
    /\ \/ Goes("body", "open")
       \/ left /\ Goes("body", "done")
    /\ UNCHANGED <<linkVars, sent>>

Open ==
    \/ Goes("open", "head") /\ ttyd' = "open" /\ UNCHANGED <<code, sent>>
    \/ Answers("open", Response(502)) /\ UNCHANGED linkVars

\* A reset of ttyd's connection raises, and a send may without its browser; the finally closes.
Breaks(from) == (Reset \/ left) /\ Goes(from, "done") /\ Hangup /\ UNCHANGED sent

\* _read_head: said counts the head as nothing; no head is no framing.
ReadHead ==
    \/ /\ framing # "none" \/ whole
       /\ Goes("head", "pieces")
       /\ Event("start", 200)
       /\ UNCHANGED linkVars
    \/ /\ Closed /\ ~Reset /\ framing = "none" /\ ~whole
       /\ Answers("head", Response(502))
       /\ UNCHANGED linkVars
    \/ Breaks("head")

\* The end of the body: what the head or the chunks tell, or the regular end of the connection.
AtEnd == framing = "none" \/ (framing = "marked" /\ whole) \/ (Closed /\ ~Reset)

\* slip: nothing there means no more to come
ReadPieceNow ==
    /\ UNCHANGED linkVars
    /\ IF Passed < said
       THEN Goes("pieces", "pieces") /\ Event("frame", Passed + 1)
       ELSE Answers("pieces", <<E("end", 0)>>)

\* One piece of the body; writer.close() in the end.
ReadPiece ==
    \/ /\ Passed < said
       /\ Goes("pieces", "pieces") /\ Event("frame", Passed + 1)
       /\ UNCHANGED linkVars
    \/ /\ Passed = said /\ AtEnd
       /\ Answers("pieces", <<E("end", 0)>>)
       /\ Hangup
    \/ Breaks("pieces")

-----------------------------------------------------------------------------
(* The two ends.                                                            *)

\* The browser sends a frame, or leaves.
BrowserTypes ==
    /\ kind = "websocket" /\ ~left /\ typed < Frames
    /\ typed' = typed + 1
    /\ UNCHANGED <<kind, app, up, down, left, heard, linkVars, ttydVars, sent>>

BrowserLeaves ==
    /\ ~left
    /\ left' = TRUE
    /\ UNCHANGED <<kind, app, up, down, typed, heard, linkVars, ttydVars, sent>>

TtydChanges == UNCHANGED <<kind, app, up, down, browserVars, heard, sent>>

\* The head of a response; one without a body is whole with it.
TtydHeads ==
    /\ kind = "http" /\ ttyd = "open" /\ framing = "none" /\ ~whole
    /\ framing' \in Framing
    /\ whole' = (framing' = "none")
    /\ TtydChanges /\ UNCHANGED <<linkVars, said>>

TtydSays ==
    /\ ttyd = "open" /\ ~whole /\ said < Frames
    /\ kind = "http" => framing # "none"
    /\ said' = said + 1
    /\ TtydChanges /\ UNCHANGED <<linkVars, framing, whole>>

\* The last piece of a response has been sent.
TtydIsThrough ==
    /\ kind = "http" /\ ttyd = "open" /\ framing # "none" /\ ~whole
    /\ whole' = TRUE
    /\ TtydChanges /\ UNCHANGED <<linkVars, said, framing>>

\* It closes, in the middle of whatever it is.
TtydCloses ==
    /\ ttyd = "open"
    /\ ttyd' = "closed" /\ code' \in Codes
    /\ TtydChanges /\ UNCHANGED <<said, framing, whole>>

Main == \/ Authorize \/ Refuse \/ Receive \/ Dial \/ Accept \/ FirstCompleted \/ Close
        \/ ReadBody \/ Open \/ ReadHead \/ ReadPiece
Up == UpTakes \/ UpDrains
Down == DownTakes \/ DownDrains
Ends == \/ BrowserTypes \/ BrowserLeaves
        \/ TtydHeads \/ TtydSays \/ TtydIsThrough \/ TtydCloses

RelayNext == Main \/ Up \/ Down \/ Ends

RelaySpec == RelayInit /\ [][RelayNext]_relayVars

\* The event loop runs what can run, and a peer that has not gone reads what it is sent.
RelayFairSpec ==
    RelaySpec /\ WF_relayVars(Main) /\ WF_relayVars(Up) /\ WF_relayVars(Down)

-----------------------------------------------------------------------------
(* Properties.                                                              *)

Events == [type : {"frame"}, n : 1..Frames]
          \cup [type : {"start"}, n : {200, 403, 502}]
          \cup [type : {"close"}, n : (Codes \ Reserved) \cup {1008, 1011}]
          \cup [type : {"accept", "end"}, n : {0}]

\* The type invariant; a reserved close code is no event.
RelayTypeOK ==
    /\ kind \in {"http", "websocket"} /\ app \in App
    /\ up \in {"idle", "drain", "ended"} /\ down \in {"idle", "drain", "ended"}
    /\ left \in BOOLEAN /\ typed \in 0..Frames /\ heard \in Seq(1..Frames)
    /\ ttyd \in {"away", "open", "closed"} /\ code \in Codes \cup {0}
    /\ said \in 0..Frames /\ framing \in Framing /\ whole \in BOOLEAN
    /\ sent \in Seq(Events)

Upto(n) == [i \in 1..n |-> i]
FramesUpto(n) == [i \in 1..n |-> E("frame", i)]

\* "relayed to ttyd byte for byte": what one end gets is what the other sent, in that order,
\* nothing twice, up to some point.
InOrder ==
    /\ heard = Upto(Len(heard)) /\ Len(heard) <= typed
    /\ \A i \in DOMAIN sent : sent[i].type = "frame" => sent[i].n = i - 1 /\ i - 1 <= said

\* What ttyd says before it closes arrives, and then the close: unless the browser had left,
\* or had sent something into the closed connection, which ends the relay at once.
LastWordsArrive ==
    app = "done" /\ sent # <<>> /\ sent[1].type = "accept" /\ ~left /\ typed = Len(heard)
    => sent = <<E("accept", 0)>> \o FramesUpto(said) \o <<E("close", CloseCode(code))>>

\* A response that ttyd completed is passed on as a whole: start, each piece, end; unless the
\* browser left, or the connection was reset (which loses what had come and was not yet read).
ResponseIsWhole ==
    kind = "http" /\ app = "done" /\ whole /\ ~left /\ ~Reset
    => sent = <<E("start", 200)>> \o FramesUpto(said) \o <<E("end", 0)>>

\* When one end of a WebSocket closes, the coroutine ends, its tasks with it, and the connection
\* to ttyd (which counts as a client of the session) is closed: unless the accept never got
\* through, which leaves it open.
BothEndsClose ==
    (kind = "websocket" /\ app \in {"accept", "relay"} /\ (left \/ Closed))
        ~> (app = "done" /\ (Closed \/ sent = <<>>))
=============================================================================
