------------------------------ MODULE TtydProofs ------------------------------
(***************************************************************************)
(* What holds of one address whatever its hosts, base paths and ttyds are.  *)
(*                                                                         *)
(* TtydInv says who may have what in hand.  At any time a host owns its own *)
(* children only, and what it or the record names serves the base path      *)
(* written beside it; a port leads to the one ttyd bound to it.  In order,  *)
(* that is with hosts taking turns and no child slipped away, more holds:   *)
(* a ttyd on its way up belongs to the one host that is constructing, so    *)
(* nobody else binds the name that this host found free, and the one that   *)
(* serves is in the record, or about to be, or its construction failed on   *)
(* the way there.                                                           *)
(*                                                                         *)
(* A step of TtydNext either leaves the ttyds alone (HostRespects), or      *)
(* changes some of them (TtydRespects), or starts one; each kind keeps the  *)
(* invariant.                                                               *)
(***************************************************************************)
EXTENDS Ttyd, TLAPS

Reusing == {"alive", "probe"}
Waiting == {"popen", "wait", "answer"}
Starting == Waiting \cup {"chmod", "write"}

\* A host that has a ttyd in hand has one that was started.
HandsAreFull ==
    \A h \in Hosts :
        LET c == host[h] IN
        /\ c.pc \in Reusing \cup Starting \cup Up => c.pid \in DOMAIN ttyd
        /\ c.pc \in InEnsure \cup Up => c.base \in Bases
        /\ c.pc \in Starting \cup {"closing"} => c.owned
        /\ c.pc \in {"read"} \cup Reusing => ~c.owned

\* What a host owns is its child, or has ended.
OwnersAreParents ==
    \A h \in Hosts :
        LET c == host[h] IN
        c.pc \in Starting \cup Up /\ c.owned
        => ttyd[c.pid].state = "dead" \/ ttyd[c.pid].by = h

\* What a host has in hand, and what the record names, serves their base_path or has ended.
BasesAgree ==
    /\ \A h \in Hosts :
          LET c == host[h] IN
          c.pc \in Reusing \cup Starting \cup Up
          => ttyd[c.pid].state = "dead" \/ ttyd[c.pid].base = c.base
    /\ record # None => ttyd[record.pid].state = "dead" \/ ttyd[record.pid].base = record.base

\* Only a ttyd without a host is unarmed once it has been forked.
ArmedByParents ==
    \A n \in DOMAIN ttyd :
        /\ ttyd[n].state = "dead" => ttyd[n].by = None
        /\ ttyd[n].state = "forked" => ~ttyd[n].armed
        /\ ttyd[n].state \in {"starting", "serving"} /\ ~ttyd[n].armed => ttyd[n].by = None

\* The address leads to a ttyd that was bound to it; a port, to one that still is.
NameIsBound == name # 0 => ttyd[name].state \in {"serving", "stopping", "dead"}
PortsAreHeld ==
    listen = "tcp" =>
        /\ name # 0 => ttyd[name].state # "dead"
        /\ \A h \in Hosts : host[h].pc \notin {"lexists", "unlink"}
        /\ \A n \in DOMAIN ttyd : Serving(n) => name = n

Turns == ~overlap => \A g, h \in Hosts : host[g].pc \in InEnsure /\ host[h].pc \in InEnsure => g = h

\* In order, nobody but the one host that is constructing starts a ttyd, and it found the
\* address free; who serves is at the address, and in the record once it was written, unless
\* that failed.
InOrder ==
    /\ \A n \in DOMAIN ttyd :
          /\ ttyd[n].state \in {"forked", "starting"} =>
                \E h \in Hosts : host[h].pid = n /\ host[h].pc \in Waiting
          /\ Serving(n) => name = n
          /\ Serving(n) => \/ record # None /\ record.pid = n
                           \/ \E h \in Hosts : host[h].pid = n /\ host[h].pc \in Starting
                           \/ Abandoned(n)
    /\ \A h \in Hosts :
          LET c == host[h] IN
          /\ c.pc \in {"lexists", "unlink"} /\ name # 0 => ttyd[name].state = "dead"
          /\ c.pc = "spawn" => name = 0
          /\ c.pc \in Starting => name \in {0, c.pid}
          /\ c.pc = "alive" => record # None /\ record.pid = c.pid
          /\ c.pc = "check" =>
                \A n \in DOMAIN ttyd : Serving(n) => ttyd[n].base # c.base \/ Abandoned(n)

TtydInv == /\ TtydTypeOK /\ HandsAreFull /\ OwnersAreParents /\ BasesAgree /\ ArmedByParents
           /\ NameIsBound /\ PortsAreHeld /\ Turns
           /\ Orderly => InOrder

-----------------------------------------------------------------------------
(* Steps of a host that leave the ttyds as they are.                        *)

OnlyHost(h) == /\ host' \in [Hosts -> Host]
               /\ \A g \in Hosts : g # h => host'[g] = host[g]

\* What such a step has to respect, at any time and when things are in order.
HostRespectsTypes(h) ==
    LET c == host[h]
        d == host'[h] IN
    /\ OnlyHost(h) /\ UNCHANGED <<listen, overlap, ttyd>>
    /\ \/ d.pid \in {c.pid, 0}
       \/ d.pc = "alive" /\ record' = record /\ record # None /\ d.pid = record.pid
    /\ d.pc \in Reusing \cup Starting \cup Up =>
          /\ d.pid \in DOMAIN ttyd
          /\ ttyd[d.pid].state = "dead" \/ ttyd[d.pid].base = d.base
    /\ d.pc \in InEnsure \cup Up => d.base \in Bases
    /\ d.pc \in Starting \cup {"closing"} => d.owned
    /\ d.pc \in {"read"} \cup Reusing => ~d.owned
    /\ d.pc \in Starting \cup Up /\ d.owned => ttyd[d.pid].state = "dead" \/ ttyd[d.pid].by = h
    /\ d.pc \in InEnsure /\ c.pc \notin InEnsure /\ ~overlap
          => \A g \in Hosts : host[g].pc \notin InEnsure
    /\ name' \in {name, 0}
    /\ record' # record => c.pc = "write" /\ record' = [pid |-> c.pid, base |-> c.base]
    /\ listen = "tcp" => name' = name /\ d.pc \notin {"lexists", "unlink"}

HostRespectsOrder(h) ==
    LET c == host[h]
        d == host'[h] IN
    /\ c.pc \in Waiting /\ ttyd[c.pid].state \in {"forked", "starting"}
          => d.pid = c.pid /\ d.pc \in Waiting
    /\ name' # name => \A n \in DOMAIN ttyd : ~Serving(n)
    /\ c.pc \in Starting /\ Serving(c.pid)
          => \/ d.pid = c.pid /\ d.pc \in Starting
             \/ record' # None /\ record'.pid = c.pid
             \/ ttyd[c.pid].by = h /\ d.pid # c.pid
    /\ d.pc \in {"lexists", "unlink"} /\ name' # 0 => ttyd[name'].state = "dead"
    /\ d.pc = "spawn" => name' = 0
    /\ d.pc \in Starting => name' \in {0, d.pid}
    /\ d.pc = "alive" => record' # None /\ record'.pid = d.pid
    /\ d.pc = "check" =>
          \A n \in DOMAIN ttyd : Serving(n) => ttyd[n].base # d.base \/ Abandoned(n)

HostRespects(h) == HostRespectsTypes(h) /\ (Orderly => HostRespectsOrder(h))

LEMMA RespectfulHost ==
    ASSUME TtydInv, NEW h \in Hosts, HostRespects(h)
    PROVE  TtydInv'
  <1> DEFINE c == host[h]
             d == host'[h]
  <1> USE DEF TtydInv
  <1>1. /\ host \in [Hosts -> Host] /\ host' \in [Hosts -> Host]
        /\ \A g \in Hosts : g # h => host'[g] = host[g]
        /\ UNCHANGED <<listen, overlap, ttyd>>
    BY DEF HostRespects, HostRespectsTypes, OnlyHost, TtydTypeOK
  <1>2. record' # record =>
           /\ record' # None /\ record'.pid = c.pid /\ record'.base = c.base
           /\ c.pid \in DOMAIN ttyd /\ c.base \in Bases
           /\ record' \in [pid : 1..Len(ttyd), base : Bases]
    <2>1. SUFFICES ASSUME record' # record
                   PROVE  /\ record' # None /\ record'.pid = c.pid /\ record'.base = c.base
                          /\ c.pid \in DOMAIN ttyd /\ c.base \in Bases
                          /\ record' \in [pid : 1..Len(ttyd), base : Bases]
      OBVIOUS
    <2>2. record' = [pid |-> c.pid, base |-> c.base] /\ c.pc = "write"
      BY <2>1 DEF HostRespects, HostRespectsTypes, HostRespectsOrder
    <2>3. c.pid \in DOMAIN ttyd /\ c.base \in Bases /\ DOMAIN ttyd = 1..Len(ttyd)
      BY <2>2 DEF HandsAreFull, Starting, InEnsure, TtydTypeOK
    <2>4. record' \in [pid : 1..Len(ttyd), base : Bases]
      BY <2>2, <2>3
    <2>5. record' \in [pid : 1..MaxTtyds, base : Bases]
      BY <2>2, <2>3, TtydAssumption DEF TtydTypeOK
    <2>6. QED
      BY <2>2, <2>3, <2>4, <2>5, TtydAssumption
  <1>3. TtydTypeOK'
    BY <1>1, <1>2 DEF TtydTypeOK, HostRespects, HostRespectsTypes, HostRespectsOrder
  <1>4. HandsAreFull'
    BY <1>1 DEF HandsAreFull, HostRespects, HostRespectsTypes, HostRespectsOrder
  <1>5. OwnersAreParents'
    BY <1>1 DEF OwnersAreParents, HostRespects, HostRespectsTypes, HostRespectsOrder
  <1>6. BasesAgree'
    BY <1>1, <1>2 DEF BasesAgree, HostRespects, HostRespectsTypes, Starting
  <1>7. ArmedByParents' /\ NameIsBound'
    BY <1>1 DEF ArmedByParents, NameIsBound, HostRespects, HostRespectsTypes, HostRespectsOrder
  <1>8. PortsAreHeld'
    BY <1>1 DEF PortsAreHeld, HostRespects, HostRespectsTypes, Serving
  <1>9. Turns'
    BY <1>1 DEF Turns, HostRespects, HostRespectsTypes, HostRespectsOrder
  <1>10. Orderly' => InOrder'
    <2>1. SUFFICES ASSUME Orderly, InOrder PROVE InOrder'
      BY <1>1 DEF Orderly, Escaped
    <2>2. /\ c.pc \in Waiting /\ ttyd[c.pid].state \in {"forked", "starting"}
                => d.pid = c.pid /\ d.pc \in Waiting
          /\ name' # name => \A n \in DOMAIN ttyd : ~Serving(n)
          /\ c.pc \in Starting /\ Serving(c.pid)
                => \/ d.pid = c.pid /\ d.pc \in Starting
                   \/ record' # None /\ record'.pid = c.pid
                   \/ ttyd[c.pid].by = h /\ d.pid # c.pid
          /\ d.pc \in {"lexists", "unlink"} /\ name' # 0 => ttyd[name'].state = "dead"
          /\ d.pc = "spawn" => name' = 0
          /\ d.pc \in Starting => name' \in {0, d.pid}
          /\ d.pc = "alive" => record' # None /\ record'.pid = d.pid
          /\ d.pc = "check" =>
                \A n \in DOMAIN ttyd : Serving(n) => ttyd[n].base # d.base \/ Abandoned(n)
          /\ \/ d.pid \in {c.pid, 0}
             \/ d.pc = "alive" /\ record' = record /\ record # None /\ d.pid = record.pid
          /\ name' \in {name, 0}
          /\ record' # record => c.pc = "write" /\ record'.pid = c.pid
      BY <1>2, <2>1 DEF HostRespects, HostRespectsTypes, HostRespectsOrder
    <2>3. ASSUME NEW n \in DOMAIN ttyd', ttyd'[n].state \in {"forked", "starting"}
          PROVE  \E g \in Hosts : host'[g].pid = n /\ host'[g].pc \in Waiting
      <3>1. PICK g \in Hosts : host[g].pid = n /\ host[g].pc \in Waiting
        BY <1>1, <2>1, <2>3 DEF InOrder
      <3>2. host'[g].pid = n /\ host'[g].pc \in Waiting
        BY <1>1, <2>2, <2>3, <3>1
      <3>3. QED
        BY <3>2
    <2>8. ASSUME NEW n \in DOMAIN ttyd, Abandoned(n)
          PROVE  Abandoned(n)' \/ (d.pc = "alive" /\ record' # None /\ record'.pid = n)
      <3>1. ttyd[n].by \in Hosts /\ n # 0
        <4>1. ttyd[n] \in TtydProc /\ n \in 1..Len(ttyd) /\ Len(ttyd) \in Nat
          BY <2>8 DEF TtydTypeOK
        <4>2. ttyd[n].by \in Hosts \cup {None}
          BY <4>1 DEF TtydProc
        <4>3. QED
          BY <2>8, <4>1, <4>2 DEF Abandoned
      <3>2. CASE ttyd[n].by = h
        BY <1>1, <2>2, <2>8, <3>1, <3>2 DEF Abandoned
      <3>3. CASE ttyd[n].by # h
        BY <1>1, <2>8, <3>1, <3>3 DEF Abandoned
      <3>4. QED
        BY <3>2, <3>3
    <2>4. ASSUME NEW n \in DOMAIN ttyd', Serving(n)
          PROVE  \/ record' # None /\ record'.pid = n
                 \/ \E g \in Hosts : host'[g].pid = n /\ host'[g].pc \in Starting
                 \/ Abandoned(n)'
      <3>1. CASE record # None /\ record.pid = n
        <4>1. CASE record' = record
          BY <3>1, <4>1
        <4>2. CASE record' # record
          BY <1>1, <1>2, <2>1, <2>2, <2>4, <3>1, <4>2 DEF InOrder, Starting, Waiting
        <4>3. QED
          BY <4>1, <4>2
      <3>2. CASE \E g \in Hosts : host[g].pid = n /\ host[g].pc \in Starting
        <4>1. PICK g \in Hosts : host[g].pid = n /\ host[g].pc \in Starting
          BY <3>2
        <4>2. CASE g = h
          <5>1. ttyd[n].by = h /\ host'[h].pid # n => Abandoned(n)'
            BY <1>1, TtydAssumption DEF Abandoned
          <5>2. QED
            BY <1>1, <2>2, <2>4, <4>1, <4>2, <5>1
        <4>3. CASE g # h
          BY <1>1, <4>1, <4>3
        <4>4. QED
          BY <4>2, <4>3
      <3>3. CASE Abandoned(n)
        BY <1>1, <2>4, <2>8, <3>3
      <3>4. QED
        BY <1>1, <2>1, <2>4, <3>1, <3>2, <3>3 DEF InOrder
    <2>5. ASSUME NEW n \in DOMAIN ttyd', Serving(n)
          PROVE  name' = n
      BY <1>1, <2>1, <2>2, <2>5 DEF InOrder
    <2>6. ASSUME NEW g \in Hosts
          PROVE  /\ host'[g].pc \in {"lexists", "unlink"} /\ name' # 0
                       => ttyd'[name'].state = "dead"
                 /\ host'[g].pc = "spawn" => name' = 0
                 /\ host'[g].pc \in Starting => name' \in {0, host'[g].pid}
                 /\ host'[g].pc = "alive" => record' # None /\ record'.pid = host'[g].pid
                 /\ host'[g].pc = "check"
                       => \A n \in DOMAIN ttyd :
                             Serving(n) => ttyd[n].base # host'[g].base \/ Abandoned(n)'
      <3>1. CASE g = h
        BY <1>1, <2>2, <2>8, <3>1
      <3>2. CASE g # h
        <4>1. host[g].pc \in {"alive", "check"} => d.pc # "alive" /\ record' = record
          BY <1>1, <1>9, <2>1, <2>2, <3>2 DEF Orderly, Turns, InEnsure
        <4>2. QED
          BY <1>1, <2>1, <2>2, <2>8, <3>2, <4>1 DEF InOrder
      <3>3. QED
        BY <3>1, <3>2
    <2>7. QED
      BY <1>1, <2>3, <2>4, <2>5, <2>6 DEF InOrder, Serving
  <1>11. QED
    BY <1>3, <1>4, <1>5, <1>6, <1>7, <1>8, <1>9, <1>10

Steps == {"out"} \cup Failures \cup InEnsure \cup Up

Quiet(h) == \/ Construct(h) \/ Read(h) \/ Alive(h) \/ Probe(h) \/ Check(h) \/ LExists(h)
            \/ Unlink(h) \/ SpawnFails(h) \/ PopenReturns(h) \/ Wait(h) \/ Answer(h)
            \/ Chmod(h) \/ Write(h) \/ WriteFails(h) \/ Stopped(h)

-----------------------------------------------------------------------------
(* Each such step.                                                          *)

\* What a host's next step, and what is given up, leave of what it has in hand.
LEMMA Moves ==
    ASSUME TtydTypeOK, NEW h \in Hosts, NEW step \in Steps, Becomes(h, step)
    PROVE  /\ OnlyHost(h)
           /\ host'[h].pc = step /\ host'[h].base = host[h].base
           /\ host'[h].pid = host[h].pid /\ host'[h].owned = host[h].owned
  <1> DEFINE u == [host[h] EXCEPT !.pc = step]
  <1>1. host[h] \in Host
    BY DEF TtydTypeOK
  <1>2. u \in Host
    BY <1>1 DEF Host, Steps
  <1>3. /\ u.pc = step /\ u.base = host[h].base
        /\ u.pid = host[h].pid /\ u.owned = host[h].owned
    BY <1>1 DEF Host
  <1>4. host' = [host EXCEPT ![h] = u]
    BY DEF Becomes
  <1> HIDE DEF u
  <1>5. QED
    BY <1>2, <1>3, <1>4 DEF OnlyHost, TtydTypeOK

LEMMA Replaced ==
    ASSUME TtydTypeOK, NEW h \in Hosts, NEW u \in Host, host' = [host EXCEPT ![h] = u]
    PROVE  OnlyHost(h) /\ host'[h] = u
  BY DEF OnlyHost, TtydTypeOK

LEMMA OutIsAHost == Out \in Host
  <1>1. MaxTtyds \in Nat
    BY TtydAssumption
  <1>2. QED
    BY <1>1 DEF Out, Host

LEMMA GivesUp ==
    ASSUME TtydTypeOK, NEW h \in Hosts, NEW exc \in Failures, Raises(h, exc)
    PROVE  OnlyHost(h) /\ host'[h].pc = exc /\ ~host'[h].owned /\ host'[h].pid = 0
  <1> DEFINE u == [Out EXCEPT !.pc = exc]
  <1>1. u \in Host
    BY OutIsAHost DEF Host, Failures
  <1>2. u.pc = exc /\ ~u.owned /\ u.pid = 0
    BY DEF Out
  <1>3. host' = [host EXCEPT ![h] = u]
    BY DEF Raises
  <1> HIDE DEF u
  <1>4. QED
    BY <1>1, <1>2, <1>3, Replaced

LEMMA Goes ==
    ASSUME TtydTypeOK, NEW h \in Hosts, host' = [host EXCEPT ![h] = Out]
    PROVE  OnlyHost(h) /\ host'[h] = Out
  BY OutIsAHost, Replaced

LEMMA LooksElsewhere ==
    ASSUME TtydTypeOK, NEW h \in Hosts, NotThis(h)
    PROVE  /\ OnlyHost(h) /\ host'[h].pc = "check" /\ host'[h].pid = 0
           /\ host'[h].base = host[h].base /\ host'[h].owned = host[h].owned
  <1> DEFINE u == [host[h] EXCEPT !.pc = "check", !.pid = 0]
  <1>1. host[h] \in Host /\ 0 \in 0..MaxTtyds
    BY TtydAssumption DEF TtydTypeOK
  <1>2. /\ u \in Host /\ u.pc = "check" /\ u.pid = 0
        /\ u.base = host[h].base /\ u.owned = host[h].owned
    BY <1>1 DEF Host, InEnsure
  <1>3. host' = [host EXCEPT ![h] = u]
    BY DEF NotThis, TtydTypeOK
  <1> HIDE DEF u
  <1>4. QED
    BY <1>2, <1>3, Replaced

LEMMA HostSteps ==
    ASSUME TtydInv, NEW h \in Hosts, Quiet(h)
    PROVE  HostRespects(h)
  <1> DEFINE c == host[h]
             d == host'[h]
  <1> USE DEF TtydInv
  <1> DEFINE Left(exc) == OnlyHost(h) /\ d.pc = exc /\ ~d.owned /\ d.pid = 0
             Went(step) == /\ OnlyHost(h) /\ d.pc = step /\ d.base = c.base
                           /\ d.pid = c.pid /\ d.owned = c.owned
  <1>1. /\ Raises(h, "PortInUse") => Left("PortInUse")
        /\ Raises(h, "TtydFailed") => Left("TtydFailed")
        /\ Raises(h, "OSError") => Left("OSError")
    BY GivesUp DEF Failures
  <1>2. /\ Becomes(h, "check") => Went("check")
        /\ Becomes(h, "probe") => Went("probe")
        /\ Becomes(h, "answer") => Went("answer")
        /\ Becomes(h, "lexists") => Went("lexists")
        /\ Becomes(h, "unlink") => Went("unlink")
        /\ Becomes(h, "spawn") => Went("spawn")
        /\ Becomes(h, "wait") => Went("wait")
        /\ Becomes(h, "chmod") => Went("chmod")
        /\ Becomes(h, "write") => Went("write")
        /\ Becomes(h, "up") => Went("up")
    BY Moves DEF Steps, InEnsure, Up
  <1>3. \A u \in Host : host' = [host EXCEPT ![h] = u] => OnlyHost(h) /\ d = u
    BY Replaced
  <1>4. c \in Host
    BY DEF TtydTypeOK
  <1>5. CASE Construct(h)
    <2>1. PICK b \in Bases : host' = [host EXCEPT ![h] = [Out EXCEPT !.pc = "read", !.base = b]]
      BY <1>5 DEF Construct
    <2> DEFINE u == [Out EXCEPT !.pc = "read", !.base = b]
    <2>2. u \in Host /\ u.pc = "read" /\ u.base = b /\ ~u.owned /\ u.pid = 0
      <3>1. u \in Host
        BY OutIsAHost DEF Host, InEnsure
      <3>2. u.pc = "read" /\ u.base = b /\ ~u.owned /\ u.pid = 0
        BY DEF Out
      <3>3. QED
        BY <3>1, <3>2
    <2> HIDE DEF u
    <2>3. OnlyHost(h) /\ d = u
      BY <1>3, <2>1, <2>2 DEF u
    <2>4. HostRespectsTypes(h)
      BY <1>5, <2>2, <2>3
      DEF Construct, HostRespectsTypes, InEnsure, Failures, Up, Reusing, Starting, Waiting
    <2>5. HostRespectsOrder(h)
      BY <1>5, <2>2, <2>3
      DEF Construct, HostRespectsOrder, Failures, Starting, Waiting
    <2>6. QED
      BY <2>4, <2>5 DEF HostRespects
  <1>6. CASE Read(h)
    <2>1. CASE record # None /\ record.base = c.base
      <3> DEFINE u == [c EXCEPT !.pc = "alive", !.pid = record.pid]
      <3>1. u \in Host /\ u.pc = "alive" /\ u.pid = record.pid /\ u.base = c.base
            /\ u.owned = c.owned
        <4>1. record.pid \in 0..MaxTtyds
          BY <2>1, TtydAssumption DEF TtydTypeOK
        <4>2. QED
          BY <1>4, <4>1 DEF Host, InEnsure
      <3>2. host' = [host EXCEPT ![h] = u]
        BY <1>6, <2>1 DEF Read, TtydTypeOK
      <3> HIDE DEF u
      <3>3. OnlyHost(h) /\ d = u
        BY <1>3, <3>1, <3>2
      <3>4. HostRespectsTypes(h)
        BY <1>6, <2>1, <3>1, <3>3
        DEF Read, HostRespectsTypes, TtydTypeOK, HandsAreFull, BasesAgree, PortsAreHeld,
            At, InEnsure, Up, Reusing, Starting, Waiting
      <3>5. HostRespectsOrder(h)
        BY <1>6, <2>1, <3>1, <3>3 DEF Read, HostRespectsOrder, At, Starting, Waiting
      <3>6. QED
        BY <3>4, <3>5 DEF HostRespects
    <2>2. CASE ~(record # None /\ record.base = c.base)
      <3>1. Went("check") /\ c.pc = "read" /\ UNCHANGED <<listen, overlap, ttyd, name, record>>
        BY <1>2, <1>6, <2>2 DEF Read, At
      <3>2. HostRespectsTypes(h)
        BY <1>4, <3>1
        DEF HostRespectsTypes, TtydTypeOK, HandsAreFull, InEnsure, Up, Reusing, Starting, Waiting
      <3>3. ASSUME Orderly, NEW n \in DOMAIN ttyd, Serving(n), ~Abandoned(n)
            PROVE  ttyd[n].base # c.base
        <4>1. ~(\E g \in Hosts : host[g].pid = n /\ host[g].pc \in Starting)
          BY <3>1, <3>3 DEF Orderly, Turns, InEnsure, Starting, Waiting
        <4>2. record # None /\ record.pid = n
          BY <3>3, <4>1 DEF InOrder
        <4>3. QED
          BY <2>2, <3>3, <4>2 DEF BasesAgree, Serving
      <3>4. Orderly => HostRespectsOrder(h)
        BY <3>1, <3>3 DEF HostRespectsOrder, Starting, Waiting
      <3>5. QED
        BY <3>2, <3>4 DEF HostRespects
    <2>3. QED
      BY <2>1, <2>2
  <1>18. CASE Alive(h)
    <2>1. /\ \/ pid_alive(c.pid) /\ Went("probe")
             \/ /\ ~pid_alive(c.pid) /\ OnlyHost(h) /\ d.pc = "check" /\ d.pid = 0
                /\ d.base = c.base /\ d.owned = c.owned
          /\ c.pc = "alive" /\ UNCHANGED <<listen, overlap, ttyd, name, record>>
      BY <1>2, <1>18, LooksElsewhere DEF Alive, At
    <2>2. HostRespectsTypes(h)
      BY <1>4, <2>1
      DEF HostRespectsTypes, TtydTypeOK, HandsAreFull, BasesAgree, InEnsure, Up, Reusing,
          Starting, Waiting
    <2>3. ASSUME Orderly, ~pid_alive(c.pid), NEW n \in DOMAIN ttyd, Serving(n)
          PROVE  Abandoned(n)
      <3>1. ~(\E g \in Hosts : host[g].pid = n /\ host[g].pc \in Starting)
        BY <2>1, <2>3 DEF Orderly, Turns, InEnsure, Starting, Waiting
      <3>2. record # None /\ record.pid # n
        BY <2>1, <2>3 DEF InOrder, pid_alive, Serving
      <3>3. QED
        BY <2>3, <3>1, <3>2 DEF InOrder
    <2>4. Orderly => HostRespectsOrder(h)
      BY <2>1, <2>3 DEF HostRespectsOrder, Starting, Waiting
    <2>5. QED
      BY <2>2, <2>4 DEF HostRespects
  <1>7. CASE Probe(h)
    <2>1. CASE listening
      <3> DEFINE u == [c EXCEPT !.pc = "up", !.pid = c.pid, !.owned = FALSE]
      <3>1. u \in Host /\ u.pc = "up" /\ u.pid = c.pid /\ u.base = c.base /\ ~u.owned
        BY <1>4 DEF Host, Up
      <3>2. host' = [host EXCEPT ![h] = u]
        BY <1>7, <2>1 DEF Probe, Adopted, TtydTypeOK
      <3> HIDE DEF u
      <3>3. OnlyHost(h) /\ d = u
        BY <1>3, <3>1, <3>2
      <3>4. HostRespectsTypes(h)
        BY <1>7, <2>1, <3>1, <3>3
        DEF Probe, HostRespectsTypes, TtydTypeOK, HandsAreFull, BasesAgree,
            At, InEnsure, Up, Reusing, Starting, Waiting
      <3>5. HostRespectsOrder(h)
        BY <1>7, <2>1, <3>1, <3>3 DEF Probe, HostRespectsOrder, At, Starting, Waiting
      <3>6. QED
        BY <3>4, <3>5 DEF HostRespects
    <2>2. CASE ~listening
      <3>1. /\ OnlyHost(h) /\ d.pc = "check" /\ d.pid = 0 /\ d.base = c.base
            /\ d.owned = c.owned
            /\ c.pc = "probe" /\ UNCHANGED <<listen, overlap, ttyd, name, record>>
        BY <1>7, <2>2, LooksElsewhere DEF Probe, At
      <3>2. HostRespectsTypes(h)
        BY <1>4, <3>1
        DEF HostRespectsTypes, TtydTypeOK, HandsAreFull, InEnsure, Up, Reusing, Starting, Waiting
      <3>3. Orderly => \A n \in DOMAIN ttyd : ~Serving(n)
        BY <2>2 DEF InOrder, listening, Serving, TtydTypeOK
      <3>4. Orderly => HostRespectsOrder(h)
        BY <3>1, <3>3 DEF HostRespectsOrder, Starting, Waiting
      <3>5. QED
        BY <3>2, <3>4 DEF HostRespects
    <2>3. QED
      BY <2>1, <2>2
  <1>8. CASE Check(h)
    <2>1. \/ listening /\ Left("PortInUse")
          \/ ~listening /\ listen = "unix" /\ Went("lexists")
          \/ ~listening /\ listen # "unix" /\ Went("spawn")
      BY <1>1, <1>2, <1>8 DEF Check, Becomes, Raises
    <2>2. HostRespectsTypes(h)
      BY <1>4, <1>8, <2>1
      DEF Check, HostRespectsTypes, TtydTypeOK, HandsAreFull, BasesAgree, OwnersAreParents, At,
          InEnsure, Up, Reusing, Starting, Waiting, Abandoned, pid_alive
    <2>3. Orderly => HostRespectsOrder(h)
      BY <1>4, <1>8, <2>1
      DEF Check, HostRespectsOrder, InOrder, Orderly, Serving, TtydTypeOK, NameIsBound,
          PortsAreHeld, Turns, At, InEnsure, Up, Reusing, Starting, Waiting, Abandoned, listening,
          pid_alive
    <2>4. QED
      BY <2>2, <2>3 DEF HostRespects
  <1>9. CASE LExists(h)
    <2>1. \/ name # 0 /\ Went("unlink")
          \/ name = 0 /\ Went("spawn")
      BY <1>1, <1>2, <1>9 DEF LExists, Becomes, Raises
    <2>2. HostRespectsTypes(h)
      BY <1>4, <1>9, <2>1
      DEF LExists, HostRespectsTypes, TtydTypeOK, HandsAreFull, BasesAgree, OwnersAreParents,
          PortsAreHeld, Turns, At, InEnsure, Up, Reusing, Starting, Waiting, Abandoned, pid_alive
    <2>3. Orderly => HostRespectsOrder(h)
      BY <1>4, <1>9, <2>1
      DEF LExists, HostRespectsOrder, InOrder, Orderly, Serving, TtydTypeOK, NameIsBound,
          PortsAreHeld, Turns, At, InEnsure, Up, Reusing, Starting, Waiting, Abandoned, listening,
          pid_alive
    <2>4. QED
      BY <2>2, <2>3 DEF HostRespects
  <1>10. CASE Unlink(h)
    <2>1. \/ name # 0 /\ Went("spawn")
          \/ name = 0 /\ Left("OSError")
      BY <1>1, <1>2, <1>10 DEF Unlink, Becomes, Raises
    <2>2. HostRespectsTypes(h)
      BY <1>4, <1>10, <2>1
      DEF Unlink, HostRespectsTypes, TtydTypeOK, HandsAreFull, BasesAgree, OwnersAreParents,
          PortsAreHeld, Turns, At, InEnsure, Up, Reusing, Starting, Waiting, Abandoned, pid_alive
    <2>3. Orderly => HostRespectsOrder(h)
      BY <1>4, <1>10, <2>1
      DEF Unlink, HostRespectsOrder, InOrder, Orderly, Serving, TtydTypeOK, NameIsBound,
          PortsAreHeld, Turns, At, InEnsure, Up, Reusing, Starting, Waiting, Abandoned, listening,
          pid_alive
    <2>4. QED
      BY <2>2, <2>3 DEF HostRespects
  <1>11. CASE SpawnFails(h)
    <2>1. Left("OSError")
      BY <1>1, <1>2, <1>11 DEF SpawnFails, Becomes, Raises
    <2>2. HostRespectsTypes(h)
      BY <1>4, <1>11, <2>1
      DEF SpawnFails, HostRespectsTypes, TtydTypeOK, HandsAreFull, BasesAgree, OwnersAreParents,
          At, InEnsure, Up, Reusing, Starting, Waiting, Abandoned, pid_alive
    <2>3. Orderly => HostRespectsOrder(h)
      BY <1>4, <1>11, <2>1
      DEF SpawnFails, HostRespectsOrder, InOrder, Orderly, Serving, TtydTypeOK, NameIsBound,
          PortsAreHeld, Turns, At, InEnsure, Up, Reusing, Starting, Waiting, Abandoned, listening,
          pid_alive
    <2>4. QED
      BY <2>2, <2>3 DEF HostRespects
  <1>12. CASE PopenReturns(h)
    <2>1. Went("wait")
      BY <1>1, <1>2, <1>12 DEF PopenReturns, Becomes, Raises
    <2>2. HostRespectsTypes(h)
      BY <1>4, <1>12, <2>1
      DEF PopenReturns, HostRespectsTypes, TtydTypeOK, HandsAreFull, BasesAgree, OwnersAreParents,
          At, InEnsure, Up, Reusing, Starting, Waiting, Abandoned, pid_alive
    <2>3. Orderly => HostRespectsOrder(h)
      BY <1>4, <1>12, <2>1
      DEF PopenReturns, HostRespectsOrder, InOrder, Orderly, Serving, TtydTypeOK, NameIsBound,
          PortsAreHeld, Turns, At, InEnsure, Up, Reusing, Starting, Waiting, Abandoned, listening,
          pid_alive
    <2>4. QED
      BY <2>2, <2>3 DEF HostRespects
  <1>13. CASE Wait(h)
    <2>1. \/ ~pid_alive(c.pid) /\ Left("TtydFailed")
          \/ pid_alive(c.pid) /\ Went("answer")
      BY <1>1, <1>2, <1>13 DEF Wait
    <2>2. HostRespectsTypes(h)
      BY <1>4, <1>13, <2>1
      DEF Wait, HostRespectsTypes, TtydTypeOK, HandsAreFull, BasesAgree, OwnersAreParents, At,
          InEnsure, Up, Reusing, Starting, Waiting
    <2>3. Orderly => HostRespectsOrder(h)
      BY <1>4, <1>13, <2>1
      DEF Wait, HostRespectsOrder, InOrder, Serving, At, Starting, Waiting, pid_alive
    <2>4. QED
      BY <2>2, <2>3 DEF HostRespects
  <1>19. CASE Answer(h)
    <2>1. \/ listening /\ listen = "unix" /\ Went("chmod")
          \/ listening /\ listen # "unix" /\ Went("write")
          \/ ~listening /\ Went("wait")
      BY <1>2, <1>19 DEF Answer
    <2>2. HostRespectsTypes(h)
      BY <1>4, <1>19, <2>1
      DEF Answer, HostRespectsTypes, TtydTypeOK, HandsAreFull, BasesAgree, OwnersAreParents, At,
          InEnsure, Up, Reusing, Starting, Waiting
    <2>3. ASSUME Orderly, listening
          PROVE  ttyd[c.pid].state \notin {"forked", "starting"}
      <3>1. name = c.pid /\ ttyd[name].state \in {"serving", "stopping"}
        BY <1>19, <2>3 DEF Answer, At, InOrder, listening, Starting, Waiting
      <3>2. QED
        BY <3>1
    <2>4. Orderly => HostRespectsOrder(h)
      BY <1>4, <1>19, <2>1, <2>3
      DEF Answer, HostRespectsOrder, InOrder, Serving, At, Starting, Waiting
    <2>5. QED
      BY <2>2, <2>4 DEF HostRespects
  <1>14. CASE Chmod(h)
    <2>1. \/ name # 0 /\ Went("write")
          \/ name = 0 /\ Left("OSError")
      BY <1>1, <1>2, <1>14 DEF Chmod, Becomes, Raises
    <2>2. HostRespectsTypes(h)
      BY <1>4, <1>14, <2>1
      DEF Chmod, HostRespectsTypes, TtydTypeOK, HandsAreFull, BasesAgree, OwnersAreParents, At,
          InEnsure, Up, Reusing, Starting, Waiting, pid_alive
    <2>3. Orderly => HostRespectsOrder(h)
      BY <1>4, <1>14, <2>1
      DEF Chmod, HostRespectsOrder, InOrder, Orderly, Serving, TtydTypeOK, HandsAreFull,
          BasesAgree, NameIsBound, PortsAreHeld, Turns, At, InEnsure, Up, Reusing, Starting,
          Waiting, listening, pid_alive
    <2>4. QED
      BY <2>2, <2>3 DEF HostRespects
  <1>15. CASE Write(h)
    <2>1. Went("up")
      BY <1>1, <1>2, <1>15 DEF Write, Becomes, Raises
    <2>2. HostRespectsTypes(h)
      BY <1>4, <1>15, <2>1
      DEF Write, HostRespectsTypes, TtydTypeOK, HandsAreFull, BasesAgree, OwnersAreParents, At,
          InEnsure, Up, Reusing, Starting, Waiting, pid_alive
    <2>3. record' # None /\ record'.pid = c.pid /\ c.pid \in DOMAIN ttyd
      <3>1. c.pid \in 1..MaxTtyds /\ c.base \in Bases /\ c.pid \in DOMAIN ttyd
        BY <1>15, TtydAssumption DEF Write, At, HandsAreFull, Starting, InEnsure, TtydTypeOK
      <3>2. QED
        BY <1>15, <3>1, TtydAssumption DEF Write
    <2>4. Orderly => HostRespectsOrder(h)
      BY <1>4, <1>15, <2>1, <2>3
      DEF Write, HostRespectsOrder, InOrder, Orderly, Serving, TtydTypeOK, HandsAreFull,
          BasesAgree, NameIsBound, PortsAreHeld, Turns, At, InEnsure, Up, Reusing, Starting,
          Waiting, listening, pid_alive
    <2>5. QED
      BY <2>2, <2>4 DEF HostRespects
  <1>20. CASE WriteFails(h)
    <2>1. /\ Left("OSError") /\ c.pc = "write"
          /\ UNCHANGED <<listen, overlap, ttyd, name, record>>
      BY <1>1, <1>20 DEF WriteFails, At
    <2>2. HostRespectsTypes(h)
      BY <1>4, <2>1
      DEF HostRespectsTypes, TtydTypeOK, InEnsure, Up, Reusing, Starting, Waiting
    <2>3. Serving(c.pid) => ttyd[c.pid].by = h /\ d.pid # c.pid
      BY <2>1
      DEF OwnersAreParents, HandsAreFull, TtydTypeOK, Serving, Starting, Up
    <2>4. HostRespectsOrder(h)
      BY <2>1, <2>3 DEF HostRespectsOrder, Starting, Waiting
    <2>5. QED
      BY <2>2, <2>4 DEF HostRespects
  <1>16. CASE Stopped(h)
    <2>1. OnlyHost(h) /\ d.pc = "out" /\ d.pid = 0
      <3>1. OnlyHost(h) /\ d = Out
        BY <1>16, Goes DEF Stopped
      <3>2. QED
        BY <3>1 DEF Out
    <2>2. HostRespectsTypes(h)
      BY <1>4, <1>16, <2>1
      DEF Stopped, HostRespectsTypes, TtydTypeOK, HandsAreFull, BasesAgree, OwnersAreParents, At,
          InEnsure, Up, Reusing, Starting, Waiting, pid_alive
    <2>3. Orderly => HostRespectsOrder(h)
      BY <1>4, <1>16, <2>1
      DEF Stopped, HostRespectsOrder, InOrder, Orderly, Serving, TtydTypeOK, NameIsBound,
          PortsAreHeld, Turns, At, InEnsure, Up, Reusing, Starting, Waiting, listening, pid_alive
    <2>4. QED
      BY <2>2, <2>3 DEF HostRespects
  <1>17. QED
    BY <1>5, <1>6, <1>7, <1>8, <1>9, <1>10, <1>11, <1>12, <1>13, <1>14, <1>15, <1>16, <1>18,
       <1>19, <1>20 DEF Quiet

-----------------------------------------------------------------------------
(* Steps in which ttyds change.                                             *)

Bound == {"serving", "stopping", "dead"}

\* What happens to the ttyds in such a step ...
TtydsChange ==
    /\ ttyd' \in Seq(TtydProc) /\ Len(ttyd') = Len(ttyd)
    /\ \A n \in DOMAIN ttyd :
          LET t == ttyd[n]
              v == ttyd'[n] IN
          /\ v.state = "dead" \/ v.base = t.base
          /\ \/ v.state = "dead" \/ v.by = t.by
             \/ \E g \in Hosts : t.by = g /\ host'[g].pc = "out"
          /\ v.state = "dead" => v.by = None
          /\ v.state = "forked" => ~v.armed
          /\ v.state \in {"starting", "serving"} /\ ~v.armed => v.by = None
          /\ t.by = None /\ ~t.armed => v.by = None /\ ~v.armed
          /\ t.state \in Bound => v.state \in Bound
          /\ t.state = "dead" => v.state = "dead"
          /\ v.state \in {"forked", "starting"} => t.state \in {"forked", "starting"}
          /\ v.state = "serving" => t.state \in {"starting", "serving"}
          /\ v.state = "serving" => v.by = t.by \/ (v.by = None /\ ~v.armed)
          /\ v.state = "serving" /\ t.state = "starting" => name' = n
          /\ v.state = "dead" /\ listen = "tcp" => name' # n

\* ... to the name: it goes with its ttyd, or comes with a new one if there was none ...
NameFollows ==
    \/ name' = name
    \/ name # 0 /\ name' = 0 /\ ttyd'[name].state = "dead"
    \/ /\ name = 0 /\ name' \in DOMAIN ttyd
       /\ ttyd[name'].state = "starting" /\ ttyd'[name'].state = "serving"

\* ... and to the hosts: one starts to close, or is out of it with its ttyd stopped.
HostsFollow ==
    /\ host' \in [Hosts -> Host]
    /\ \A g \in Hosts :
          LET c == host[g]
              d == host'[g] IN
          \/ d = c
          \/ /\ c.pc = "up" /\ c.owned
             /\ d.pc = "closing" /\ d.owned /\ d.pid = c.pid /\ d.base = c.base
          \/ /\ d.pc \in {"out", "TtydFailed"} /\ d.pid = 0
             /\ c.pc \in Starting /\ Orderly'
                => ttyd'[c.pid].state \notin {"forked", "starting", "serving"}

TtydRespects == /\ UNCHANGED <<listen, overlap, record>>
                /\ TtydsChange /\ NameFollows /\ HostsFollow

LEMMA RespectfulTtyd ==
    ASSUME TtydInv, TtydRespects
    PROVE  TtydInv'
  <1> USE DEF TtydInv
  <1>1. /\ UNCHANGED <<listen, overlap, record>>
        /\ ttyd \in Seq(TtydProc) /\ ttyd' \in Seq(TtydProc) /\ Len(ttyd') = Len(ttyd)
        /\ DOMAIN ttyd = 1..Len(ttyd) /\ DOMAIN ttyd' = DOMAIN ttyd
        /\ host \in [Hosts -> Host] /\ host' \in [Hosts -> Host]
        /\ name \in 0..Len(ttyd) /\ Len(ttyd) \in Nat
    BY DEF TtydRespects, TtydsChange, HostsFollow, TtydTypeOK
  <1>2. TtydTypeOK'
    BY <1>1 DEF TtydTypeOK, TtydRespects, NameFollows
  <1>3. HandsAreFull'
    BY <1>1 DEF HandsAreFull, TtydRespects, HostsFollow, Up, InEnsure, Reusing,
           Starting, Waiting
  <1>4. OwnersAreParents'
    BY <1>1
    DEF OwnersAreParents, HandsAreFull, TtydRespects, TtydsChange, HostsFollow, Up, Reusing,
        Starting, Waiting
  <1>5. BasesAgree'
    BY <1>1
    DEF BasesAgree, HandsAreFull, TtydTypeOK, TtydRespects, TtydsChange, HostsFollow, Up, Reusing,
        Starting, Waiting
  <1>6. ArmedByParents'
    BY <1>1 DEF ArmedByParents, TtydRespects, TtydsChange
  <1>7. NameIsBound'
    BY <1>1 DEF NameIsBound, TtydRespects, TtydsChange, NameFollows, Bound
  <1>8. PortsAreHeld'
    BY <1>1 DEF PortsAreHeld, Serving, TtydRespects, TtydsChange, NameFollows, HostsFollow
  <1>9. Turns'
    BY <1>1 DEF Turns, TtydRespects, HostsFollow, InEnsure
  <1>10. Orderly' => InOrder'
    <2>1. SUFFICES ASSUME Orderly' PROVE InOrder'
      OBVIOUS
    <2>2. ~overlap /\ InOrder
      BY <1>1, <2>1 DEF Orderly, Escaped, TtydRespects, TtydsChange
    <2>3. ASSUME NEW n \in DOMAIN ttyd, ttyd[n].state \in {"forked", "starting"}
          PROVE  /\ \E g \in Hosts : host[g].pid = n /\ host[g].pc \in Waiting
                 /\ \A h \in Hosts : host[h].pc \in InEnsure =>
                       host[h].pid = n /\ host[h].pc \in Waiting
      BY <2>2, <2>3 DEF InOrder, Turns, InEnsure, Waiting
    <2>8. ASSUME NEW n \in DOMAIN ttyd', ttyd'[n].state = "serving"
          PROVE  Abandoned(n) => Abandoned(n)'
      <3>1. n \in DOMAIN ttyd /\ n # 0 /\ ttyd'[n].by = ttyd[n].by
        BY <1>1, <2>1, <2>8 DEF Orderly, Escaped, TtydRespects, TtydsChange
      <3>2. ASSUME Abandoned(n) PROVE Abandoned(n)'
        <4>1. ttyd[n].by \in Hosts /\ host[ttyd[n].by].pid # n
          <5>1. ttyd[n] \in TtydProc
            BY <1>1, <3>1
          <5>2. ttyd[n].by \in Hosts \cup {None}
            BY <5>1 DEF TtydProc
          <5>3. QED
            BY <3>2, <5>2 DEF Abandoned
        <4>2. host'[ttyd[n].by].pid \in {host[ttyd[n].by].pid, 0}
          BY <4>1 DEF TtydRespects, HostsFollow
        <4>3. QED
          BY <3>1, <3>2, <4>1, <4>2 DEF Abandoned
      <3>3. QED
        BY <3>2
    <2>4. ASSUME NEW n \in DOMAIN ttyd', ttyd'[n].state \in {"forked", "starting"}
          PROVE  \E g \in Hosts : host'[g].pid = n /\ host'[g].pc \in Waiting
      <3>1. ttyd[n].state \in {"forked", "starting"} /\ n \in DOMAIN ttyd
        BY <1>1, <2>4 DEF TtydRespects, TtydsChange
      <3>2. PICK g \in Hosts : host[g].pid = n /\ host[g].pc \in Waiting
        BY <2>3, <3>1
      <3>3. host'[g] = host[g]
        BY <2>1, <2>4, <3>2 DEF TtydRespects, HostsFollow, Starting, Waiting
      <3>4. QED
        BY <3>2, <3>3
    <2>5. ASSUME NEW n \in DOMAIN ttyd', ttyd'[n].state = "serving"
          PROVE  /\ name' = n
                 /\ \/ record # None /\ record.pid = n
                    \/ \E g \in Hosts : host'[g].pid = n /\ host'[g].pc \in Starting
                    \/ Abandoned(n)'
      <3>1. n \in DOMAIN ttyd /\ name' = n /\ ttyd[n].state \in {"starting", "serving"}
        BY <1>1, <2>2, <2>5 DEF TtydRespects, TtydsChange, NameFollows, InOrder, Serving
      <3>2. CASE record # None /\ record.pid = n
        BY <3>1, <3>2
      <3>5. CASE Abandoned(n)
        BY <2>5, <2>8, <3>1, <3>5
      <3>3. CASE ~(record # None /\ record.pid = n) /\ ~Abandoned(n)
        <4>1. PICK g \in Hosts : host[g].pid = n /\ host[g].pc \in Starting
          BY <2>2, <2>3, <3>1, <3>3 DEF InOrder, Serving, Starting, Waiting
        <4>2. host'[g] = host[g]
          BY <2>1, <2>5, <4>1 DEF TtydRespects, HostsFollow, Starting, Waiting
        <4>3. QED
          BY <3>1, <4>1, <4>2
      <3>4. QED
        BY <3>2, <3>3, <3>5
    <2>6. ASSUME NEW g \in Hosts
          PROVE  LET d == host'[g] IN
                 /\ d.pc \in {"lexists", "unlink"} /\ name' # 0 => ttyd'[name'].state = "dead"
                 /\ d.pc = "spawn" => name' = 0
                 /\ d.pc \in Starting => name' \in {0, d.pid}
                 /\ d.pc = "alive" => record # None /\ record.pid = d.pid
                 /\ d.pc = "check" =>
                       \A n \in DOMAIN ttyd' :
                          ttyd'[n].state = "serving"
                          => ttyd'[n].base # d.base \/ Abandoned(n)'
      <3>1. CASE host'[g] = host[g] /\ host[g].pc \in InEnsure
        <4>1. CASE name' = name \/ name' = 0
          BY <1>1, <2>2, <2>3, <2>8, <3>1, <4>1
          DEF TtydRespects, TtydsChange, InOrder, Serving, Waiting, Starting
        <4>2. CASE name' \in DOMAIN ttyd /\ ttyd[name'].state = "starting"
          <5>1. host[g].pid = name' /\ host[g].pc \in Waiting
            BY <2>3, <3>1, <4>2
          <5>2. QED
            BY <2>2, <3>1, <5>1 DEF Starting, Waiting
        <4>3. QED
          BY <4>1, <4>2 DEF TtydRespects, NameFollows
      <3>2. CASE host'[g].pc \notin InEnsure
        BY <3>2 DEF InEnsure, Starting, Waiting
      <3>3. QED
        BY <3>1, <3>2 DEF TtydRespects, HostsFollow, InEnsure
    <2>7. QED
      BY <1>1, <2>4, <2>5, <2>6 DEF InOrder, Serving
  <1>11. QED
    BY <1>2, <1>3, <1>4, <1>5, <1>6, <1>7, <1>8, <1>9, <1>10

\* A change of one ttyd's state, and its end.
LEMMA ChangesOne ==
    ASSUME TtydTypeOK, NEW n \in DOMAIN ttyd, NEW u \in TtydProc, ttyd' = [ttyd EXCEPT ![n] = u]
    PROVE  /\ ttyd' \in Seq(TtydProc) /\ Len(ttyd') = Len(ttyd) /\ ttyd'[n] = u
           /\ \A m \in DOMAIN ttyd : m # n => ttyd'[m] = ttyd[m]
  BY DEF TtydTypeOK

LEMMA StateIsSet ==
    ASSUME TtydTypeOK, NEW n \in DOMAIN ttyd, NEW s \in TtydState, SetState(n, s)
    PROVE  /\ ttyd' \in Seq(TtydProc) /\ Len(ttyd') = Len(ttyd)
           /\ ttyd'[n].state = s /\ ttyd'[n].by = ttyd[n].by
           /\ ttyd'[n].base = ttyd[n].base /\ ttyd'[n].armed = ttyd[n].armed
           /\ \A m \in DOMAIN ttyd : m # n => ttyd'[m] = ttyd[m]
  <1> DEFINE u == [ttyd[n] EXCEPT !.state = s]
  <1>1. ttyd[n] \in TtydProc
    BY DEF TtydTypeOK
  <1>2. u \in TtydProc
    BY <1>1 DEF TtydProc
  <1>3. /\ u.state = s /\ u.by = ttyd[n].by
        /\ u.base = ttyd[n].base /\ u.armed = ttyd[n].armed
    BY <1>1 DEF TtydProc
  <1>4. ttyd' = [ttyd EXCEPT ![n] = u]
    BY DEF SetState
  <1> HIDE DEF u
  <1>5. QED
    BY <1>2, <1>3, <1>4, ChangesOne

LEMMA ItEnds ==
    ASSUME TtydTypeOK, NEW n \in DOMAIN ttyd, Ends(n)
    PROVE  /\ ttyd' \in Seq(TtydProc) /\ Len(ttyd') = Len(ttyd)
           /\ ttyd'[n].state = "dead" /\ ttyd'[n].by = None
           /\ ttyd'[n].armed = ttyd[n].armed
           /\ \A m \in DOMAIN ttyd : m # n => ttyd'[m] = ttyd[m]
  <1> DEFINE u == [ttyd[n] EXCEPT !.by = None, !.base = None, !.state = "dead"]
  <1>1. ttyd[n] \in TtydProc
    BY DEF TtydTypeOK
  <1>2. u \in TtydProc
    BY <1>1 DEF TtydProc, TtydState
  <1>3. u.state = "dead" /\ u.by = None /\ u.armed = ttyd[n].armed
    BY <1>1 DEF TtydProc
  <1>4. ttyd' = [ttyd EXCEPT ![n] = u]
    BY DEF Ends
  <1> HIDE DEF u
  <1>5. QED
    BY <1>2, <1>3, <1>4, ChangesOne

LEMMA TtydSteps ==
    ASSUME TtydInv, NEW n \in DOMAIN ttyd, TtydStep(n)
    PROVE  TtydRespects
  <1> USE DEF TtydInv
  <1>1. CASE Arm(n)
    <2> DEFINE u == [ttyd[n] EXCEPT !.state = "starting", !.armed = ttyd[n].by # None]
    <2>1. ttyd[n] \in TtydProc
      BY DEF TtydTypeOK
    <2>2. u \in TtydProc
      BY <2>1 DEF TtydProc, TtydState
    <2>3. /\ u.state = "starting" /\ u.by = ttyd[n].by /\ u.base = ttyd[n].base
          /\ u.armed <=> ttyd[n].by # None
      BY <2>1 DEF TtydProc
    <2>4. ttyd' = [ttyd EXCEPT ![n] = u]
      BY <1>1, <2>1 DEF Arm, TtydTypeOK
    <2> HIDE DEF u
    <2>5. /\ ttyd' \in Seq(TtydProc) /\ Len(ttyd') = Len(ttyd) /\ ttyd'[n] = u
          /\ \A m \in DOMAIN ttyd : m # n => ttyd'[m] = ttyd[m]
      BY <2>2, <2>4, ChangesOne
    <2>8. /\ ttyd'[n].state = "starting" /\ ttyd'[n].by = ttyd[n].by
          /\ ttyd'[n].base = ttyd[n].base /\ (~ttyd'[n].armed => ttyd[n].by = None)
          /\ (ttyd[n].by = None => ~ttyd'[n].armed)
      BY <2>3, <2>5
    <2>6. TtydsChange
      <3>1. ttyd[n].state = "forked" /\ name' = name
        BY <1>1 DEF Arm
      <3>2. QED
        BY <2>5, <2>8, <3>1
        DEF TtydsChange, TtydTypeOK, ArmedByParents, NameIsBound, PortsAreHeld, Serving, Bound,
            TtydState
    <2>7. QED
      BY <1>1, <2>6 DEF Arm, TtydRespects, NameFollows, HostsFollow, TtydTypeOK
  <1>2. CASE Bind(n) /\ name = 0
    <2>1. ttyd[n].state = "starting" /\ SetState(n, "serving") /\ name' = n
      BY <1>2 DEF Bind
    <2>2. TtydsChange
      BY <1>2, <2>1, StateIsSet
      DEF TtydsChange, TtydTypeOK, ArmedByParents, NameIsBound, PortsAreHeld, Serving, Bound,
          TtydState
    <2>3. ttyd'[n].state = "serving"
      BY <2>1, StateIsSet DEF TtydState
    <2>4. QED
      BY <1>2, <2>1, <2>2, <2>3 DEF Bind, TtydRespects, NameFollows, HostsFollow, TtydTypeOK
  <1>3. CASE Bind(n) /\ name # 0
    <2>1. ttyd[n].state = "starting" /\ Ends(n) /\ name' = name
      BY <1>3 DEF Bind
    <2>2. TtydsChange
      BY <1>3, <2>1, ItEnds
      DEF TtydsChange, TtydTypeOK, ArmedByParents, NameIsBound, PortsAreHeld, Serving, Bound,
          TtydState
    <2>3. QED
      BY <1>3, <2>1, <2>2 DEF Bind, TtydRespects, NameFollows, HostsFollow, TtydTypeOK
  <1>4. CASE Terminate(n)
    <2>1. ttyd[n].state = "stopping" /\ Ends(n) /\ name' = IF name = n THEN 0 ELSE name
      BY <1>4 DEF Terminate
    <2>2. TtydsChange
      BY <1>4, <2>1, ItEnds
      DEF TtydsChange, TtydTypeOK, ArmedByParents, NameIsBound, PortsAreHeld, Serving, Bound,
          TtydState
    <2>3. ttyd'[n].state = "dead"
      BY <2>1, ItEnds
    <2>4. QED
      BY <1>4, <2>1, <2>2, <2>3
      DEF Terminate, NameIsBound, TtydRespects, NameFollows, HostsFollow, TtydTypeOK
  <1>5. CASE TtydKilled(n)
    <2>1. /\ ttyd[n].state \in {"starting", "serving"} /\ Ends(n)
          /\ name' = IF name = n /\ listen = "tcp" THEN 0 ELSE name
      BY <1>5 DEF TtydKilled, Freed
    <2>2. TtydsChange
      BY <1>5, <2>1, ItEnds
      DEF TtydsChange, TtydTypeOK, ArmedByParents, NameIsBound, PortsAreHeld, Serving, Bound,
          TtydState
    <2>3. ttyd'[n].state = "dead"
      BY <2>1, ItEnds
    <2>4. QED
      BY <1>5, <2>1, <2>2, <2>3
      DEF TtydKilled, NameIsBound, TtydRespects, NameFollows, HostsFollow, TtydTypeOK
  <1>6. QED
    BY <1>1, <1>2, <1>3, <1>4, <1>5 DEF TtydStep

LEMMA HostsStopTheirs ==
    ASSUME TtydInv, NEW h \in Hosts,
           \/ StopKills(h) \/ ThreadEnds(h)
           \/ Timeout(h) /\ pid_alive(host[h].pid)
           \/ Stop(h) /\ host[h].owned /\ pid_alive(host[h].pid)
    PROVE  TtydRespects
  <1> DEFINE n == host[h].pid
  <1> USE DEF TtydInv
  <1>1. CASE StopKills(h)
    <2>1. /\ n \in DOMAIN ttyd /\ Ends(n)
          /\ name' = IF name = n /\ listen = "tcp" THEN 0 ELSE name
      BY <1>1 DEF StopKills, Freed, At, HandsAreFull, Up
    <2>2. TtydsChange
      BY <2>1, ItEnds
      DEF TtydsChange, TtydTypeOK, ArmedByParents, NameIsBound, PortsAreHeld, Serving, Bound,
          TtydState
    <2>3. ttyd'[n].state = "dead"
      BY <2>1, ItEnds
    <2>4. QED
      BY <1>1, <2>1, <2>2, <2>3 DEF StopKills, TtydRespects, NameFollows, HostsFollow, TtydTypeOK
  <1>2. CASE ThreadEnds(h)
    <2>1. n \in DOMAIN ttyd /\ SetState(n, "stopping") /\ ttyd[n].state \in {"starting", "serving"}
      BY <1>2 DEF ThreadEnds, At, HandsAreFull, Up
    <2>2. TtydsChange
      BY <1>2, <2>1, StateIsSet
      DEF ThreadEnds, TtydsChange, TtydTypeOK, ArmedByParents, NameIsBound, PortsAreHeld, Serving,
          Bound, TtydState
    <2>3. QED
      BY <1>2, <2>2 DEF ThreadEnds, TtydRespects, NameFollows, HostsFollow, TtydTypeOK
  <1>3. CASE Timeout(h) /\ pid_alive(n)
    <2>1. n \in DOMAIN ttyd /\ SetState(n, "stopping") /\ ttyd[n].state # "dead"
      BY <1>3 DEF Timeout, At, HandsAreFull, Starting, Waiting, pid_alive
    <2>2. OnlyHost(h) /\ host'[h].pc = "TtydFailed" /\ host'[h].pid = 0
      BY <1>3, GivesUp DEF Timeout, Failures
    <2>3. TtydsChange
      BY <1>3, <2>1, StateIsSet
      DEF Timeout, TtydsChange, TtydTypeOK, ArmedByParents, NameIsBound, PortsAreHeld, Serving,
          Bound, TtydState
    <2>4. ttyd'[n].state = "stopping"
      BY <2>1, StateIsSet DEF TtydState
    <2>5. HostsFollow
      BY <2>1, <2>2, <2>4 DEF HostsFollow, OnlyHost, At
    <2>6. QED
      BY <1>3, <2>3, <2>5 DEF Timeout, TtydRespects, NameFollows
  <1>4. CASE Stop(h) /\ host[h].owned /\ pid_alive(n)
    <2>1. n \in DOMAIN ttyd /\ SetState(n, "stopping") /\ ttyd[n].state # "dead" /\ At(h, "up")
      BY <1>4 DEF Stop, At, HandsAreFull, Up, pid_alive
    <2>2. /\ OnlyHost(h)
          /\ host'[h].pc = "closing" /\ host'[h].base = host[h].base
          /\ host'[h].pid = n /\ host'[h].owned = host[h].owned
      BY <1>4, Moves DEF Stop, Steps, Up
    <2>3. TtydsChange
      BY <1>4, <2>1, StateIsSet
      DEF Stop, TtydsChange, TtydTypeOK, ArmedByParents, NameIsBound, PortsAreHeld, Serving,
          Bound, TtydState
    <2>4. HostsFollow
      BY <1>4, <2>1, <2>2 DEF HostsFollow, OnlyHost, At
    <2>5. QED
      BY <1>4, <2>3, <2>4 DEF Stop, TtydRespects, NameFollows
  <1>5. QED
    BY <1>1, <1>2, <1>3, <1>4

LEMMA DeathRespects ==
    ASSUME TtydInv, NEW h \in Hosts, HostDies(h)
    PROVE  TtydRespects
  <1> USE DEF TtydInv
  <1>1. OnlyHost(h) /\ host'[h] = Out
    BY Goes DEF HostDies
  <1>2. ASSUME NEW n \in DOMAIN ttyd
        PROVE  /\ ttyd[n].by # h => ttyd'[n] = ttyd[n]
               /\ ttyd[n].by = h =>
                     /\ ttyd'[n].by = None /\ ttyd'[n].base = ttyd[n].base
                     /\ ttyd'[n].armed = ttyd[n].armed
                     /\ ttyd'[n].state = IF ttyd[n].armed THEN "stopping" ELSE ttyd[n].state
               /\ ttyd'[n] \in TtydProc
    <2> DEFINE s == IF ttyd[n].armed THEN "stopping" ELSE ttyd[n].state
               u == [ttyd[n] EXCEPT !.by = None, !.state = s]
    <2>1. ttyd[n] \in TtydProc
      BY DEF TtydTypeOK
    <2>2. s \in TtydState
      BY <2>1 DEF TtydProc, TtydState
    <2>3. u.by = None /\ u.base = ttyd[n].base /\ u.armed = ttyd[n].armed /\ u.state = s
      BY <2>1 DEF TtydProc
    <2>4. u \in TtydProc
      <3> HIDE DEF s
      <3>1. QED
        BY <2>1, <2>2 DEF TtydProc
    <2>5. ttyd'[n] = IF ttyd[n].by # h THEN ttyd[n] ELSE u
      BY DEF HostDies
    <2> HIDE DEF u
    <2>6. QED
      BY <2>1, <2>3, <2>4, <2>5
  <1>3. /\ DOMAIN ttyd' = DOMAIN ttyd /\ DOMAIN ttyd = 1..Len(ttyd) /\ Len(ttyd) \in Nat
        /\ ttyd' = [n \in DOMAIN ttyd |-> ttyd'[n]]
    <2> DEFINE f(n) == IF ttyd[n].by # h THEN ttyd[n]
                       ELSE [ttyd[n] EXCEPT !.by = None,
                               !.state = IF ttyd[n].armed THEN "stopping" ELSE @]
    <2>1. ttyd' = [n \in DOMAIN ttyd |-> f(n)]
      BY DEF HostDies
    <2> HIDE DEF f
    <2>2. QED
      BY <2>1 DEF TtydTypeOK
  <1>4. ttyd' \in Seq(TtydProc) /\ Len(ttyd') = Len(ttyd)
    BY <1>2, <1>3
  <1>5. TtydsChange
    <2>1. name' = name
      BY DEF HostDies
    <2>2. ASSUME NEW n \in DOMAIN ttyd, ttyd[n].by # h
          PROVE  ttyd'[n] = ttyd[n]
      BY <1>2, <2>2
    <2>3. ASSUME NEW n \in DOMAIN ttyd, ttyd[n].by = h
          PROVE  /\ ttyd[n].state # "dead"
                 /\ ttyd'[n].by = None /\ ttyd'[n].base = ttyd[n].base
                 /\ ttyd'[n].armed = ttyd[n].armed
                 /\ ttyd[n].armed => ttyd'[n].state = "stopping"
                 /\ ~ttyd[n].armed => ttyd'[n].state = ttyd[n].state
      BY <1>2, <2>3, TtydAssumption DEF ArmedByParents
    <2>4. host'[h].pc = "out"
      BY <1>1 DEF Out
    <2>5. QED
      BY <1>4, <2>1, <2>2, <2>3, <2>4
      DEF TtydsChange, TtydTypeOK, ArmedByParents, NameIsBound, PortsAreHeld, Serving, Bound,
          TtydState
  <1>6. ASSUME Orderly', host[h].pc \in Starting
        PROVE  ttyd'[host[h].pid].state \notin {"forked", "starting", "serving"}
    <2> DEFINE n == host[h].pid
    <2>1. n \in DOMAIN ttyd /\ (ttyd[n].state = "dead" \/ ttyd[n].by = h)
      BY <1>6 DEF HandsAreFull, OwnersAreParents, Starting
    <2>2. ~(ttyd'[n].by = None /\ ~ttyd'[n].armed)
      BY <1>3, <1>6, <2>1 DEF Orderly, Escaped
    <2>3. QED
      BY <1>2, <2>1, <2>2, TtydAssumption DEF ArmedByParents
  <1>9. host'[h].pc = "out" /\ host'[h].pid = 0
    BY <1>1 DEF Out
  <1>7. HostsFollow
    BY <1>1, <1>6, <1>9 DEF HostsFollow, OnlyHost
  <1>8. QED
    BY <1>5, <1>7 DEF HostDies, TtydRespects, NameFollows

-----------------------------------------------------------------------------
(* A new ttyd.                                                              *)

LEMMA SpawnKeepsInv ==
    ASSUME TtydInv, NEW h \in Hosts, Spawn(h)
    PROVE  TtydInv'
  <1> DEFINE k == Len(ttyd) + 1
             t == [by |-> h, base |-> host[h].base, state |-> "forked", armed |-> FALSE]
             u == [host[h] EXCEPT !.pc = "popen", !.pid = k, !.owned = TRUE]
  <1> USE DEF TtydInv
  <1>1. /\ ttyd \in Seq(TtydProc) /\ Len(ttyd) \in Nat /\ Len(ttyd) < MaxTtyds /\ MaxTtyds \in Nat
        /\ host \in [Hosts -> Host] /\ host[h] \in Host /\ host[h].pc = "spawn"
        /\ host[h].base \in Bases
        /\ DOMAIN ttyd = 1..Len(ttyd)
        /\ UNCHANGED <<listen, overlap, name, record>>
    BY TtydAssumption DEF Spawn, At, TtydTypeOK, HandsAreFull, InEnsure
  <1>2. t \in TtydProc
    BY <1>1 DEF TtydProc, TtydState
  <1>3. t.by = h /\ t.base = host[h].base /\ t.state = "forked" /\ ~t.armed
    OBVIOUS
  <1>4. u \in Host
    <2>1. k \in 0..MaxTtyds
      BY <1>1
    <2>2. QED
      BY <1>1, <2>1 DEF Host, InEnsure
  <1>5. u.pc = "popen" /\ u.pid = k /\ u.owned /\ u.base = host[h].base
    BY <1>1 DEF Host
  <1>6. ttyd' = Append(ttyd, t) /\ host' = [host EXCEPT ![h] = u]
    BY <1>1 DEF Spawn
  <1> HIDE DEF t, u
  <1>7. /\ ttyd' \in Seq(TtydProc) /\ Len(ttyd') = k /\ DOMAIN ttyd' = 1..k
        /\ ttyd'[k] = t /\ \A n \in DOMAIN ttyd : ttyd'[n] = ttyd[n]
    BY <1>1, <1>2, <1>6
  <1>8. OnlyHost(h) /\ host'[h] = u
    BY <1>4, <1>6, Replaced
  <1>9. \A n \in DOMAIN ttyd' : n # k => n \in DOMAIN ttyd
    BY <1>1, <1>7
  <1>10. TtydTypeOK'
    <2>1. Len(ttyd') <= MaxTtyds /\ name' \in 0..Len(ttyd')
      BY <1>1, <1>7 DEF TtydTypeOK
    <2>2. record' \in [pid : 1..Len(ttyd'), base : Bases] \cup {None}
      BY <1>1, <1>7 DEF TtydTypeOK
    <2>3. QED
      BY <1>1, <1>7, <1>8, <2>1, <2>2 DEF TtydTypeOK, OnlyHost
  <1>11. HandsAreFull'
    BY <1>1, <1>5, <1>7, <1>8 DEF HandsAreFull, OnlyHost, InEnsure, Reusing, Starting, Waiting, Up
  <1>12. OwnersAreParents'
    BY <1>1, <1>3, <1>5, <1>7, <1>8
    DEF OwnersAreParents, HandsAreFull, OnlyHost, Reusing, Starting, Waiting, Up
  <1>13. BasesAgree'
    <2>1. record # None => record.pid \in DOMAIN ttyd
      BY <1>1 DEF TtydTypeOK
    <2>2. QED
      BY <1>1, <1>3, <1>5, <1>7, <1>8, <2>1
      DEF BasesAgree, HandsAreFull, OnlyHost, Reusing, Starting, Waiting, Up
  <1>14. ArmedByParents'
    BY <1>3, <1>7, <1>9 DEF ArmedByParents
  <1>15. NameIsBound'
    BY <1>1, <1>7 DEF NameIsBound, TtydTypeOK
  <1>16. PortsAreHeld'
    BY <1>1, <1>3, <1>5, <1>7, <1>8, <1>9 DEF PortsAreHeld, Serving, TtydTypeOK, OnlyHost
  <1>17. Turns'
    BY <1>1, <1>5, <1>8 DEF Turns, OnlyHost, InEnsure
  <1>18. Orderly' => InOrder'
    <2>1. SUFFICES ASSUME Orderly' PROVE InOrder'
      OBVIOUS
    <2>2. ~overlap /\ InOrder
      BY <1>1, <1>7, <2>1 DEF Orderly, Escaped
    <2>3. \A g \in Hosts : g # h => host[g].pc \notin InEnsure /\ host'[g] = host[g]
      BY <1>1, <1>8, <2>2 DEF Turns, OnlyHost, InEnsure
    <2>4. name = 0
      BY <1>1, <2>2 DEF InOrder
    <2>5. \A n \in DOMAIN ttyd' : ttyd'[n].state \in {"forked", "starting"} => n = k
      BY <1>1, <1>7, <1>9, <2>2, <2>3 DEF InOrder, InEnsure, Waiting
    <2>6. \A n \in DOMAIN ttyd' : ttyd'[n].state # "serving"
      BY <1>1, <1>3, <1>7, <1>9, <2>2, <2>4 DEF InOrder, Serving
    <2>7. QED
      BY <1>1, <1>5, <1>8, <2>3, <2>4, <2>5, <2>6
      DEF InOrder, Serving, Starting, Waiting, InEnsure
  <1>19. QED
    BY <1>10, <1>11, <1>12, <1>13, <1>14, <1>15, <1>16, <1>17, <1>18

-----------------------------------------------------------------------------
(* The theorems.                                                            *)

\* A step either leaves the ttyds alone, or changes some, or starts one.
LEMMA StepsAreThese ==
    ASSUME TtydInv, TtydNext
    PROVE  \/ \E h \in Hosts : HostRespects(h) /\ (host'[h].pc = "PortInUse" => Check(h))
           \/ TtydRespects
           \/ \E h \in Hosts : Spawn(h)
  <1> USE DEF TtydInv
  <1>1. ASSUME NEW n \in DOMAIN ttyd, TtydStep(n)
        PROVE  TtydRespects
    BY <1>1, TtydSteps
  <1>2. ASSUME NEW h \in Hosts, Quiet(h)
        PROVE  HostRespects(h) /\ (host'[h].pc = "PortInUse" => Check(h))
    <2>1. HostRespects(h)
      BY <1>2, HostSteps
    <2>2. host \in [Hosts -> Host] /\ host[h] \in Host
      BY DEF TtydTypeOK
    <2>3. ASSUME host'[h].pc = "PortInUse"
          PROVE  Check(h)
      <3>1. ~(Construct(h))
        <4>1. SUFFICES ASSUME Construct(h) PROVE FALSE
          OBVIOUS
        <4>2. PICK b \in Bases : host' = [host EXCEPT ![h] = [Out EXCEPT !.pc = "read", !.base = b]]
          BY <4>1 DEF Construct
        <4>3. [Out EXCEPT !.pc = "read", !.base = b].pc = "read"
          BY DEF Out
        <4>4. host'[h].pc = "read"
          BY <2>2, <4>2, <4>3
        <4>5. QED
          BY <2>3, <4>4
      <3>2. ~(Read(h))
        BY <2>2, <2>3 DEF Read, Becomes, Host
      <3>9. ~NotThis(h)
        BY <2>1, <2>3, LooksElsewhere
      <3>10. ~(Alive(h) \/ Answer(h) \/ WriteFails(h))
        BY <2>2, <2>3, <3>9 DEF Alive, Answer, WriteFails, Becomes, Raises, Out, Host
      <3>3. ~(Probe(h))
        <4>1. [host[h] EXCEPT !.pc = "up", !.pid = host[h].pid, !.owned = FALSE].pc = "up"
          BY <2>2 DEF Host
        <4>2. Adopted(h, host[h].pid) => host'[h].pc = "up"
          BY <2>2, <4>1 DEF Adopted
        <4>3. QED
          BY <2>3, <3>9, <4>2 DEF Probe
      <3>4. ~(LExists(h) \/ Unlink(h))
        BY <2>2, <2>3 DEF LExists, Unlink, Becomes, Raises, Out, Host
      <3>5. ~(SpawnFails(h) \/ PopenReturns(h))
        BY <2>2, <2>3 DEF SpawnFails, PopenReturns, Becomes, Raises, Out, Host
      <3>6. ~(Wait(h) \/ Chmod(h))
        BY <2>2, <2>3 DEF Wait, Chmod, Becomes, Raises, Out, Host
      <3>7. ~(Write(h) \/ Stopped(h))
        BY <2>2, <2>3 DEF Write, Stopped, Becomes, Out, Host
      <3>8. QED
        BY <1>2, <3>1, <3>2, <3>3, <3>4, <3>5, <3>6, <3>7, <3>10 DEF Quiet
    <2>4. QED
      BY <2>1, <2>3
  <1>3. ASSUME NEW h \in Hosts, Timeout(h) \/ Stop(h)
        PROVE  TtydRespects \/ (HostRespects(h) /\ host'[h].pc # "PortInUse")
    <2>1. CASE \/ Timeout(h) /\ pid_alive(host[h].pid)
               \/ Stop(h) /\ host[h].owned /\ pid_alive(host[h].pid)
      BY <2>1, HostsStopTheirs
    <2>2. CASE Timeout(h) /\ ~pid_alive(host[h].pid)
      <3>1. OnlyHost(h) /\ host'[h].pc = "TtydFailed" /\ ~host'[h].owned /\ host'[h].pid = 0
        BY <2>2, GivesUp DEF Timeout, Failures
      <3>2. HostRespectsTypes(h)
        BY <2>2, <3>1 DEF Timeout, HostRespectsTypes, InEnsure, Up, Reusing, Starting, Waiting
      <3>3. HostRespectsOrder(h)
        BY <2>2, <3>1 DEF Timeout, HostRespectsOrder, Serving, Starting, Waiting, pid_alive, At
      <3>4. QED
        BY <3>1, <3>2, <3>3 DEF HostRespects
    <2>3. CASE Stop(h) /\ ~(host[h].owned /\ pid_alive(host[h].pid))
      <3>1. OnlyHost(h) /\ host'[h] = Out
        BY <2>3, Goes DEF Stop
      <3>2. host'[h].pc = "out" /\ host'[h].pid = 0
        BY <3>1 DEF Out
      <3>3. HostRespectsTypes(h)
        BY <2>3, <3>1, <3>2 DEF Stop, HostRespectsTypes, InEnsure, Up, Reusing, Starting, Waiting
      <3>4. HostRespectsOrder(h)
        BY <2>3, <3>2 DEF Stop, HostRespectsOrder, Serving, Starting, Waiting, At
      <3>5. QED
        BY <3>2, <3>3, <3>4 DEF HostRespects
    <2>4. QED
      BY <1>3, <2>1, <2>2, <2>3
  <1>4. ASSUME NEW h \in Hosts, StopKills(h) \/ ThreadEnds(h) \/ HostDies(h)
        PROVE  TtydRespects
    BY <1>4, HostsStopTheirs, DeathRespects
  <1>5. QED
    BY <1>1, <1>2, <1>3, <1>4 DEF TtydNext, EnsureStep, CloseStep, Quiet

LEMMA TtydInvariant == TtydSpec => []TtydInv
  <1>1. TtydInit => TtydInv
    <2>1. SUFFICES ASSUME TtydInit PROVE TtydInv
      OBVIOUS
    <2>2. host = [h \in Hosts |-> Out] /\ \A h \in Hosts : host[h] = Out /\ host[h].pc = "out"
      BY <2>1 DEF TtydInit, Out
    <2>3. TtydTypeOK
      BY <2>1, <2>2, OutIsAHost, TtydAssumption DEF TtydInit, TtydTypeOK
    <2>4. ttyd = <<>> /\ DOMAIN ttyd = {} /\ name = 0 /\ record = None
      BY <2>1 DEF TtydInit
    <2>5. QED
      BY <2>2, <2>3, <2>4
      DEF TtydInv, HandsAreFull, OwnersAreParents, BasesAgree, ArmedByParents, NameIsBound,
          PortsAreHeld, Turns, InOrder, Serving, Reusing, Starting, Waiting, InEnsure, Up
  <1>2. TtydInv /\ [TtydNext]_ttydVars => TtydInv'
    <2>1. SUFFICES ASSUME TtydInv, [TtydNext]_ttydVars PROVE TtydInv'
      OBVIOUS
    <2>2. CASE TtydNext
      BY <2>1, <2>2, StepsAreThese, RespectfulHost, RespectfulTtyd, SpawnKeepsInv
    <2>3. CASE UNCHANGED ttydVars
      BY <2>1, <2>3
      DEF ttydVars, TtydInv, TtydTypeOK, HandsAreFull, OwnersAreParents, BasesAgree,
          ArmedByParents, NameIsBound, PortsAreHeld, Turns, Orderly, Escaped, InOrder, Serving,
          Abandoned
    <2>4. QED
      BY <2>1, <2>2, <2>3
  <1>3. QED
    BY <1>1, <1>2, PTL DEF TtydSpec

\* Whatever number of hosts, base paths and ttyds: records, handles and the address have
\* their types, and name ttyds that were started.
THEOREM TtydTypeCorrect == TtydSpec => []TtydTypeOK
  BY TtydInvariant, PTL DEF TtydInv

\* A handle leads to the ttyd it promises, always on a port, and on a socket as long as
\* hosts take turns and every child armed itself: a stale record, a dead ttyd's socket and
\* an adopted ttyd included.
THEOREM HandlesAlwaysLeadThereInOrder == TtydSpec => []HandlesLeadThereInOrder
  <1>1. TtydInv => HandlesLeadThereInOrder
    <2>1. SUFFICES ASSUME TtydInv, listen = "tcp" \/ Orderly,
                          NEW h \in Hosts, At(h, "up"), Serving(host[h].pid)
                   PROVE  name = host[h].pid /\ ttyd[host[h].pid].base = host[h].base
      BY DEF HandlesLeadThereInOrder, HandlesLeadToTheirTtyd
    <2>2. host[h].pid \in DOMAIN ttyd /\ ttyd[host[h].pid].base = host[h].base
      BY <2>1 DEF TtydInv, HandsAreFull, BasesAgree, At, Serving, Up
    <2>3. QED
      BY <2>1, <2>2 DEF TtydInv, PortsAreHeld, InOrder
  <1>2. QED
    BY <1>1, TtydInvariant, PTL

\* A construction in order is refused only where a ttyd of another base path answers, or one
\* on its way out, or one whose own construction failed before it was in the record.
THEOREM RefusalsAreAlwaysJustified == TtydSpec => RefusalsAreJustified
  <1> DEFINE P == \A h \in Hosts :
                     Refused(h) /\ Orderly
                     => \/ ttyd[name].base # host[h].base \/ ttyd[name].state = "stopping"
                        \/ Abandoned(name)
  <1>1. TtydInv /\ [TtydNext]_ttydVars => [P]_ttydVars
    <2>1. SUFFICES ASSUME TtydInv, TtydNext, NEW h \in Hosts,
                          host[h].pc # "PortInUse", host'[h].pc = "PortInUse", Orderly
                   PROVE  \/ ttyd[name].base # host[h].base \/ ttyd[name].state = "stopping"
                          \/ Abandoned(name)
      BY DEF Refused, At
    <2>2. ~TtydRespects
      BY <2>1 DEF TtydRespects, HostsFollow
    <2>3. ASSUME NEW g \in Hosts, Spawn(g)
          PROVE  FALSE
      BY <2>1, <2>3 DEF Spawn, TtydInv, TtydTypeOK, Host
    <2>4. Check(h)
      BY <2>1, <2>2, <2>3, StepsAreThese DEF HostRespects, HostRespectsTypes, OnlyHost
    <2>5. listening /\ At(h, "check")
      BY <2>1, <2>4 DEF Check, Becomes, TtydInv, TtydTypeOK, Host
    <2>6. QED
      BY <2>1, <2>5 DEF listening, TtydInv, TtydTypeOK, InOrder, Serving, At
  <1>2. QED
    BY <1>1, TtydInvariant, PTL DEF TtydSpec, RefusalsAreJustified

\* A ttyd is told to go in a step of the process that started it, and in no other's: an
\* adopted one is never stopped by who adopted it.
THEOREM OnlyItsHostEverStopsATtyd == TtydSpec => OnlyItsHostStopsATtyd
  <1> DEFINE Theirs(n) ==
        \E h \in Hosts :
           ttyd[n].by = h /\ (host'[h] # host[h] \/ (At(h, "up") /\ host' = host))
  <1>1. ASSUME TtydInv, TtydNext, NEW n \in DOMAIN ttyd,
               ttyd[n].state # "stopping", ttyd'[n].state = "stopping"
        PROVE  Theirs(n)
    <2> USE DEF TtydInv
    <2>1. \A h \in Hosts : ~HostRespects(h)
      BY <1>1 DEF HostRespects, HostRespectsTypes
    <2>2. ASSUME NEW h \in Hosts, Spawn(h) PROVE FALSE
      BY <1>1, <2>2 DEF Spawn, TtydTypeOK
    <2>3. ASSUME NEW m \in DOMAIN ttyd, TtydStep(m) PROVE FALSE
      <3>1. ttyd'[m].state # "stopping" /\ \A k \in DOMAIN ttyd : k # m => ttyd'[k] = ttyd[k]
        <4>1. CASE Arm(m)
          BY <1>1, <4>1 DEF Arm, TtydTypeOK, TtydProc
        <4>2. CASE Bind(m) /\ name = 0
          BY <1>1, <4>2, StateIsSet DEF Bind, TtydState
        <4>3. CASE (Bind(m) /\ name # 0) \/ Terminate(m) \/ TtydKilled(m)
          BY <1>1, <4>3, ItEnds DEF Bind, Terminate, TtydKilled
        <4>4. QED
          BY <2>3, <4>1, <4>2, <4>3 DEF TtydStep
      <3>2. QED
        BY <1>1, <3>1
    <2>4. ASSUME NEW h \in Hosts, StopKills(h) PROVE FALSE
      <3>1. host[h].pid \in DOMAIN ttyd /\ Ends(host[h].pid)
        BY <1>1, <2>4 DEF StopKills, At, HandsAreFull, Up
      <3>2. QED
        BY <1>1, <3>1, ItEnds
    <2>5. ASSUME NEW h \in Hosts,
                 host[h].pid \in DOMAIN ttyd, SetState(host[h].pid, "stopping"),
                 host[h].pc \in Starting \cup Up, host[h].owned, pid_alive(host[h].pid),
                 host'[h] # host[h] \/ (At(h, "up") /\ host' = host)
          PROVE  Theirs(n)
      <3>1. n = host[h].pid
        BY <1>1, <2>5, StateIsSet DEF TtydState
      <3>2. ttyd[n].by = h
        BY <1>1, <2>5, <3>1 DEF OwnersAreParents, pid_alive
      <3>3. QED
        BY <2>5, <3>2
    <2>6. ASSUME NEW h \in Hosts, Timeout(h)
          PROVE  Theirs(n)
      <3>1. /\ host[h].pc \in {"wait", "answer"}
            /\ host[h].pid \in DOMAIN ttyd /\ host[h].owned
        BY <1>1, <2>6 DEF Timeout, At, HandsAreFull, Starting, Waiting
      <3>2. host'[h].pc = "TtydFailed"
        BY <1>1, <2>6, GivesUp DEF Timeout, Failures
      <3>3. pid_alive(host[h].pid) /\ SetState(host[h].pid, "stopping")
        BY <1>1, <2>6 DEF Timeout
      <3>4. QED
        BY <2>5, <3>1, <3>2, <3>3 DEF At, Starting, Waiting
    <2>7. ASSUME NEW h \in Hosts, Stop(h)
          PROVE  Theirs(n)
      <3>1. At(h, "up") /\ host[h].pid \in DOMAIN ttyd
        BY <1>1, <2>7 DEF Stop, At, HandsAreFull, Up
      <3>2. /\ pid_alive(host[h].pid) /\ SetState(host[h].pid, "stopping")
            /\ host[h].owned /\ Becomes(h, "closing")
        BY <1>1, <2>7 DEF Stop
      <3>3. host'[h].pc = "closing"
        BY <1>1, <3>2, Moves DEF Steps, Up
      <3>4. QED
        BY <2>5, <3>1, <3>2, <3>3 DEF At, Up
    <2>8. ASSUME NEW h \in Hosts, ThreadEnds(h)
          PROVE  Theirs(n)
      <3>1. /\ At(h, "up") /\ host[h].pid \in DOMAIN ttyd /\ host[h].owned
            /\ pid_alive(host[h].pid) /\ SetState(host[h].pid, "stopping") /\ host' = host
        BY <1>1, <2>8 DEF ThreadEnds, At, HandsAreFull, Up, pid_alive
      <3>2. QED
        BY <2>5, <3>1 DEF At, Up
    <2>9. ASSUME NEW h \in Hosts, HostDies(h)
          PROVE  Theirs(n)
      <3>1. ttyd[n].by = h
        BY <1>1, <2>9 DEF HostDies
      <3>2. host'[h] # host[h]
        <4>1. host'[h] = Out /\ host[h].pc # "out"
          BY <1>1, <2>9, Goes DEF HostDies
        <4>2. Out.pc = "out"
          BY DEF Out
        <4>3. QED
          BY <4>1, <4>2
      <3>3. QED
        BY <3>1, <3>2
    <2>10. ASSUME NEW h \in Hosts, Quiet(h)
           PROVE  FALSE
      BY <1>1, <2>1, <2>10, HostSteps
    <2>11. QED
      BY <1>1, <2>2, <2>3, <2>4, <2>6, <2>7, <2>8, <2>9, <2>10
      DEF TtydNext, EnsureStep, CloseStep, Quiet
  <1>2. TtydInv /\ [TtydNext]_ttydVars
        => [\A n \in DOMAIN ttyd :
              ttyd[n].state # "stopping" /\ ttyd'[n].state = "stopping" => Theirs(n)]_ttydVars
    BY <1>1
  <1>3. QED
    BY <1>2, TtydInvariant, PTL DEF TtydSpec, OnlyItsHostStopsATtyd

=============================================================================
