------------------------------ MODULE SetupProofs ------------------------------
(***************************************************************************)
(* Proofs about the installs and the record, with constructors at work on   *)
(* the same machine, for any number of either and any equipment.            *)
(*                                                                         *)
(* SetupInv is the inductive invariant: the types, what an install carries   *)
(* from step to step, that only a copying install has a binary open, the     *)
(* names a record can hold, what one install alone can rely on, and that     *)
(* what an undisturbed install has found works.  A constructor cannot break  *)
(* it because it touches no file that an install looks at (Stock).           *)
(*                                                                         *)
(* DirectoryInv, on top of it, is about the constructors: who has a file of  *)
(* the state directory open, that two of them under way are both marked      *)
(* crowded, and what one that met nobody has laid out so far.                *)
(***************************************************************************)
EXTENDS Setup, TLAPS

-----------------------------------------------------------------------------
(* Types.                                                                   *)

\* A kill and a failing disk stop an install in the same way.
GoesDown(i) == \E end \in {"killed", "broken"} : StopsShort(i, end)

LEMMA KilledOrBroken ==
    ASSUME NEW i \in Installs, Killed(i) \/ Breaks(i)
    PROVE  GoesDown(i)
  BY DEF GoesDown, Killed, Breaks

LEMMA InitTypes == SetupInit => SetupTypeOK
  <1> SUFFICES ASSUME SetupInit PROVE SetupTypeOK
    OBVIOUS
  <1>1. record \in Record
    BY DEF SetupInit, ToolchainInit, NoRecord, Record
  <1>2. disk \in [Files -> Inode]
    BY ToolchainAssumption DEF SetupInit, ToolchainInit, Fresh, Nothing, Inode, Data
  <1>3. install \in [Installs -> Install]
    BY DEF SetupInit, ToolchainInit, NoInstall, NoRecord, Record, Install, Ends
  <1>4. host \in [Hosts -> Host]
    BY DEF SetupInit, NoHost, Host, Resting
  <1>5. mishaps = 0 /\ raced = FALSE /\ disturbed = {} /\ crowded = {} /\ MaxMishaps \in Nat
    BY ToolchainAssumption DEF SetupInit, ToolchainInit
  <1>6. mishaps \in 0..MaxMishaps
    BY <1>5
  <1>7. QED
    BY <1>1, <1>2, <1>3, <1>4, <1>5, <1>6 DEF SetupTypeOK

LEMMA OpenedKeepsTypes ==
    ASSUME disk \in [Files -> Inode], NEW p \in Processes, NEW f \in Files
    PROVE  Opened(p, f) \in [Files -> Inode]
  BY DEF Opened, Inode, Data

LEMMA WrittenKeepsTypes ==
    ASSUME disk \in [Files -> Inode], NEW p \in Processes, NEW f \in Files, NEW data \in Data
    PROVE  Written(p, f, data) \in [Files -> Inode]
  BY ZenonT(40) DEF Written, Inode

LEMMA WithoutKeepsTypes ==
    ASSUME disk \in [Files -> Inode], NEW p \in Processes
    PROVE  Without(p) \in [Files -> Inode]
  BY ZenonT(40) DEF Without, Inode, Data

\* A step of one install leaves the others where they are.
OnlyMoves(i) == /\ install' \in [Installs -> Install]
                /\ \A j \in Installs \ {i} : install'[j] = install[j]

LEMMA InstallsMoveAlone ==
    ASSUME SetupTypeOK, NEW i \in Installs, RunInstall(i) \/ GoesDown(i)
    PROVE  OnlyMoves(i)
  <1> USE DEF SetupTypeOK, OnlyMoves, Install, Ends, NoInstall
  <1>1. ASSUME NEW b \in Binaries, NEW f \in Paths \cup {None}, NEW pc \in {"ttyd", "report"},
               Found(i, b, f, pc)
        PROVE  OnlyMoves(i)
    BY <1>1 DEF Found, Binaries
  <1>2. ASSUME NEW end \in Ends \cup {"killed", "broken"}, Exit(i, end) PROVE OnlyMoves(i)
    BY <1>2 DEF Exit, NoRecord, Record
  <1>3. ASSUME NEW pc, Goto(i, pc),
               pc \in {"package", "ttyd", "download", "check", "bundled", "copy", "check copy",
                       "report", "write"}
        PROVE  OnlyMoves(i)
    BY <1>3 DEF Goto
  <1>4. "tmux" \in Binaries /\ "ttyd" \in Binaries /\ OnPath.tmux \in Paths /\ OnPath.ttyd \in Paths
        /\ Installed \in Paths
    BY DEF Binaries, Paths, OnPath
  <1>5. install[i].recorded \in Record
    OBVIOUS
  <1>6. /\ install[i].recorded.tmux \in Paths \cup {None}
        /\ install[i].recorded.ttyd \in Paths \cup {None}
    BY <1>5, <1>4 DEF Record
  <1> HIDE DEF OnlyMoves, Install, NoInstall
  <1>7. CASE Begin(i)
    BY <1>7 DEF Begin, OnlyMoves, Install, NoInstall, NoRecord
  <1>8. CASE CheckTmux(i)
    BY <1>8, <1>1, <1>2, <1>3, <1>4, <1>6 DEF CheckTmux
  <1>9. CASE PackageManager(i)
    BY <1>9, <1>1, <1>4 DEF PackageManager
  <1>10. CASE NoPackageManager(i)
    BY <1>10, <1>3 DEF NoPackageManager
  <1>11. CASE CheckTtyd(i)
    BY <1>11, <1>1, <1>2, <1>3, <1>4, <1>6 DEF CheckTtyd
  <1>12. CASE Download(i)
    BY <1>12, <1>3 DEF Download
  <1>13. CASE DownloadFails(i)
    BY <1>13, <1>3 DEF DownloadFails
  <1>14. CASE CheckDownload(i) \/ CheckBundled(i)
    BY <1>14, <1>1, <1>2, <1>3, <1>4 DEF CheckDownload, CheckBundled, Check
  <1>15. CASE CopyBundled(i)
    BY <1>15, <1>2, <1>3 DEF CopyBundled
  <1>16. CASE BundledCopied(i)
    BY <1>16, <1>2, <1>3 DEF BundledCopied
  <1>17. CASE ReportTtyd(i)
    BY <1>17, <1>2, <1>3 DEF ReportTtyd
  <1>18. CASE Write(i)
    BY <1>18, <1>2 DEF Write
  <1>19. CASE GoesDown(i)
    BY <1>19, <1>2 DEF GoesDown, StopsShort
  <1>20. QED
    BY <1>7, <1>8, <1>9, <1>10, <1>11, <1>12, <1>13, <1>14, <1>15, <1>16, <1>17, <1>18, <1>19
    DEF RunInstall

\* What a step of an install does to the rest keeps its type.
LEMMA InstallKeepsTypes ==
    ASSUME SetupTypeOK, NEW i \in Installs, RunInstall(i) \/ GoesDown(i),
           UNCHANGED <<host, crowded>>
    PROVE  SetupTypeOK'
  <1> DEFINE Rest == /\ record' \in Record /\ disk' \in [Files -> Inode]
                     /\ disturbed' \subseteq Processes /\ raced' \in BOOLEAN
                     /\ mishaps' \in 0..MaxMishaps
  <1>1. install' \in [Installs -> Install]
    BY InstallsMoveAlone DEF OnlyMoves
  <1>2. Rest
    <2> USE DEF SetupTypeOK
    <2>1. ASSUME Disturbs(i) PROVE disturbed' \subseteq Processes
      BY <2>1 DEF Disturbs
    <2>2. ASSUME NEW f \in Files, NEW data \in {"none", "bad", "good"}
          PROVE  [disk EXCEPT ![f] = Fresh(data)] \in [Files -> Inode]
      BY DEF Fresh, Inode, Data
    <2>3. /\ Installed \in Files /\ OnPath.tmux \in Files /\ Wheel \in Files /\ i \in Processes
          /\ disk[Wheel] \in Inode /\ disk[Wheel].data \in Data
      BY DEF Files, Paths, OnPath, Binaries, Processes, Inode
    <2>4. CASE Begin(i)
      BY <2>4 DEF Begin
    <2>5. CASE \/ CheckTmux(i) \/ CheckTtyd(i) \/ NoPackageManager(i) \/ DownloadFails(i)
               \/ ReportTtyd(i)
      BY <2>5 DEF CheckTmux, CheckTtyd, NoPackageManager, DownloadFails, ReportTtyd
    <2>6. CASE PackageManager(i)
      BY <2>6, <2>1, <2>2, <2>3, ToolchainAssumption DEF PackageManager
    <2>7. CASE Download(i)
      BY <2>7, <2>1, <2>2, <2>3 DEF Download
    <2>8. CASE CheckDownload(i) \/ CheckBundled(i)
      BY <2>8, <2>1, <2>2, <2>3 DEF CheckDownload, CheckBundled, Check, Nothing
    <2>9. CASE CopyBundled(i)
      BY <2>9, <2>1, <2>3, OpenedKeepsTypes DEF CopyBundled
    <2>10. CASE BundledCopied(i)
      BY <2>10, <2>1, <2>3, WrittenKeepsTypes DEF BundledCopied
    <2>11. CASE Write(i)
      <3>1. CASE UNCHANGED record
        BY <2>11, <2>1, <3>1 DEF Write
      <3>2. CASE record' = [b \in Binaries |-> install[i][b]]
        BY <2>11, <2>1, <3>2 DEF Write, Install, Record, Binaries
      <3>3. QED
        BY <2>11, <3>1, <3>2 DEF Write
    <2>12. CASE GoesDown(i)
      <3>1. mishaps' \in 0..MaxMishaps
        BY <2>12, ToolchainAssumption DEF GoesDown, StopsShort, Mishap
      <3>2. QED
        BY <2>12, <2>3, <3>1, WithoutKeepsTypes DEF GoesDown, StopsShort
    <2>13. QED
      BY <2>4, <2>5, <2>6, <2>7, <2>8, <2>9, <2>10, <2>11, <2>12 DEF RunInstall
  <1>3. QED
    BY <1>1, <1>2 DEF SetupTypeOK

LEMMA MeddlingKeepsTypes ==
    ASSUME SetupTypeOK, UNCHANGED <<host, crowded>>,
           \/ \E b \in Binaries : Pin(b) \/ \E data \in {"bad", "good"} : Upgrade(b, data)
           \/ Remove
    PROVE  SetupTypeOK'
  <1> USE DEF SetupTypeOK
  <1>1. Mishap => mishaps' \in 0..MaxMishaps
    BY ToolchainAssumption DEF Mishap
  <1>2. ASSUME NEW b \in Binaries, Pin(b) PROVE SetupTypeOK'
    BY <1>1, <1>2 DEF Pin, Record, Paths
  <1>3. ASSUME NEW b \in Binaries, NEW data \in {"bad", "good"}, Upgrade(b, data) PROVE SetupTypeOK'
    <2>1. OnPath[b] \in Files /\ Fresh(data) \in Inode
      BY DEF Files, Paths, Fresh, Inode, Data
    <2>2. QED
      BY <1>1, <1>3, <2>1 DEF Upgrade
  <1>4. CASE Remove
    BY <1>1, <1>4 DEF Remove, NoRecord, Record
  <1>5. QED
    BY <1>2, <1>3, <1>4

-----------------------------------------------------------------------------
(* Constructors: they keep the types, and touch no file that installs look  *)
(* at.                                                                      *)

Stock == {OnPath.tmux, OnPath.ttyd, Mine.tmux, Mine.ttyd, Installed, Wheel}

SameFile(f) == /\ disk'[f].data = disk[f].data
               /\ disk'[f].open = disk[f].open
               /\ disk'[f].last = disk[f].last
StockStays == \A f \in Stock : SameFile(f)

\* Nothing that p has open for writing is in the stock.
KeepsAway(p) == \A f \in Stock : p \notin disk[f].open /\ disk[f].last # p

Laid == disk' \in [Files -> Inode] /\ StockStays

LEMMA StockIsApart ==
    /\ Stock \subseteq Files
    /\ {Own, Attach, Conf, ConfTmp} \subseteq Files
    /\ Stock \cap {Own, Attach, Conf, ConfTmp} = {}
  BY DEF Stock, Files, Paths, OnPath, Mine, Binaries, Installed, Wheel, Own, Attach, Conf, ConfTmp

\* Opening, filling and giving up the files of a state directory.
LEMMA DirectoryIsApart ==
    ASSUME SetupTypeOK, NEW h \in Hosts, KeepsAway(h), NEW f \in {Own, Attach, ConfTmp},
           NEW data \in Data,
           disk' \in {disk, Opened(h, f), Written(h, f, data), Without(h)}
    PROVE  Laid
  <1>1. disk \in [Files -> Inode] /\ h \in Processes /\ f \in Files
        /\ \A g \in Stock : g \in Files /\ g # f
    BY StockIsApart DEF SetupTypeOK, Processes
  <1>2. disk' \in [Files -> Inode]
    BY <1>1, OpenedKeepsTypes, WrittenKeepsTypes, WithoutKeepsTypes
  <1>3. CASE disk' = disk \/ disk' = Opened(h, f) \/ disk' = Written(h, f, data)
    <2>1. \A g \in Stock : disk'[g] = disk[g]
      BY <1>1, <1>3 DEF Opened, Written
    <2>2. QED
      BY <1>2, <2>1 DEF Laid, StockStays, SameFile
  <1>4. CASE disk' = Without(h)
    <2>1. ASSUME NEW g \in Stock PROVE SameFile(g)
      <3>1. g \in Files /\ disk[g] \in Inode /\ h \notin disk[g].open /\ disk[g].last # h
        BY <1>1 DEF KeepsAway
      <3>2. /\ disk'[g].open = disk[g].open \ {h}
            /\ disk'[g].data = disk[g].data
            /\ disk'[g].last = disk[g].last
        BY <1>4, <3>1 DEF Without, Inode
      <3>3. disk[g].open \ {h} = disk[g].open
        BY <3>1
      <3>4. QED
        BY <3>2, <3>3 DEF SameFile
    <2>2. QED
      BY <1>2, <2>1 DEF Laid, StockStays
  <1>5. QED
    BY <1>3, <1>4

LEMMA HostLeavesStock ==
    ASSUME SetupTypeOK, NEW h \in Hosts, KeepsAway(h), RunHost(h) \/ Close(h) \/ HostKilled(h)
    PROVE  Laid
  <1>1. disk[Wheel].data \in Data /\ "good" \in Data
    BY StockIsApart DEF SetupTypeOK, Inode, Data, Stock
  <1>2. disk' = disk => Laid
    BY <1>1, DirectoryIsApart
  <1>3. CASE Construct(h) \/ FindTmux(h) \/ FindTtyd(h)
    BY <1>2, <1>3 DEF Construct, FindTmux, FindTtyd
  <1>4. CASE OpenConf(h)
    BY <1>1, <1>4, DirectoryIsApart DEF OpenConf
  <1>5. CASE WriteConf(h)
    <2>1. disk' \in [Files -> Inode]
      BY <1>5, ZenonT(40) DEF WriteConf, SetupTypeOK, Inode, Data
    <2>2. ASSUME NEW g \in Stock PROVE disk'[g] = disk[g]
      <3>1. g \in Files /\ h \notin disk[g].open
        BY StockIsApart DEF KeepsAway
      <3>2. QED
        BY <1>5, <3>1 DEF WriteConf
    <2>3. QED
      BY <2>1, <2>2 DEF Laid, StockStays, SameFile
  <1>6. CASE ReplaceConf(h)
    <2>1. CASE exists(ConfTmp)
      <3>1. disk' = [disk EXCEPT ![Conf] = disk[ConfTmp], ![ConfTmp] = Nothing]
        BY <1>6, <2>1 DEF ReplaceConf
      <3>2. Nothing \in Inode
        BY DEF Nothing, Fresh, Inode, Data
      <3>3. disk' \in [Files -> Inode] /\ \A g \in Stock : disk'[g] = disk[g]
        BY <3>1, <3>2, StockIsApart DEF SetupTypeOK
      <3>4. QED
        BY <3>3 DEF Laid, StockStays, SameFile
    <2>2. QED
      BY <1>2, <1>6, <2>1 DEF ReplaceConf
  <1>7. CASE CopyTtyd(h) \/ AttachScript(h)
    BY <1>1, <1>2, <1>7, DirectoryIsApart DEF CopyTtyd, AttachScript
  <1>8. CASE TtydCopied(h) \/ AttachCopied(h)
    BY <1>1, <1>8, DirectoryIsApart DEF TtydCopied, AttachCopied
  <1>9. CASE Ensure(h)
    <2> DEFINE f == host[h].bin
    <2>1. CASE disk' = [disk EXCEPT ![f].run = {h}]
      <3>1. disk' \in [Files -> Inode]
        BY <2>1, ZenonT(40) DEF SetupTypeOK, Inode
      <3>2. \A g \in Stock : SameFile(g)
        BY <2>1, StockIsApart DEF SetupTypeOK, SameFile, Inode
      <3>3. QED
        BY <3>1, <3>2 DEF Laid, StockStays
    <2>2. QED
      BY <1>2, <1>9, <2>1 DEF Ensure
  <1>10. CASE Close(h) \/ HostKilled(h)
    BY <1>1, <1>10, DirectoryIsApart DEF Close, HostKilled
  <1>11. QED
    BY <1>3, <1>4, <1>5, <1>6, <1>7, <1>8, <1>9, <1>10 DEF RunHost

\* All that happens besides installs and edits.
HostStep == \/ \E h \in Hosts : RunHost(h) \/ Close(h) \/ HostKilled(h)
            \/ WheelUpgrade

LEMMA HostMovesRest ==
    ASSUME SetupTypeOK, NEW h \in Hosts, RunHost(h) \/ Close(h) \/ HostKilled(h)
    PROVE  /\ UNCHANGED <<record, install, raced>>
           /\ host' \in [Hosts -> Host]
           /\ disturbed' \in {disturbed, disturbed \ {h}} /\ crowded' \subseteq Hosts
           /\ mishaps' \in 0..MaxMishaps
  <1> USE DEF SetupTypeOK, elsewhere
  <1>1. ASSUME NEW pc, HostGoto(h, pc),
               pc \in {"open conf", "write conf", "replace conf", "find ttyd", "copy ttyd",
                       "copying ttyd", "attach", "copying attach", "ensure", "up"}
        PROVE  host' \in [Hosts -> Host]
    BY <1>1 DEF HostGoto, Host, Resting
  <1>2. Raises(h) => host' \in [Hosts -> Host]
    BY ZenonT(40) DEF Raises, NoHost, Host, Resting
  <1>3. ASSUME NEW f \in Paths, host' = [host EXCEPT ![h] = [pc |-> "attach", bin |-> f]]
        PROVE  host' \in [Hosts -> Host]
    BY <1>3 DEF Host
  <1>4. OnPath.ttyd \in Paths /\ Own \in Paths /\ record.ttyd \in Paths \cup {None}
    BY DEF Paths, OnPath, Binaries, Record
  <1>5. CASE Construct(h)
    BY <1>5 DEF Construct, NoHost, Host
  <1>6. CASE FindTmux(h) \/ OpenConf(h) \/ WriteConf(h) \/ ReplaceConf(h)
    BY <1>1, <1>2, <1>6 DEF FindTmux, OpenConf, WriteConf, ReplaceConf
  <1>7. CASE FindTtyd(h)
    BY <1>1, <1>2, <1>3, <1>4, <1>7 DEF FindTtyd
  <1>8. CASE CopyTtyd(h) \/ TtydCopied(h)
    BY <1>1, <1>2, <1>3, <1>4, <1>8 DEF CopyTtyd, TtydCopied
  <1>9. CASE AttachScript(h) \/ AttachCopied(h) \/ Ensure(h)
    BY <1>1, <1>2, <1>9 DEF AttachScript, AttachCopied, Ensure
  <1>10. CASE Close(h) \/ HostKilled(h)
    <2>1. host' = [host EXCEPT ![h] = NoHost] /\ (mishaps' = mishaps \/ Mishap)
      BY <1>10 DEF Close, HostKilled
    <2>2. host' \in [Hosts -> Host]
      BY <2>1 DEF NoHost, Host, Resting
    <2>3. mishaps' \in 0..MaxMishaps
      BY <2>1, ToolchainAssumption DEF Mishap
    <2>4. QED
      BY <1>10, <2>2, <2>3 DEF Close, HostKilled
  <1>11. QED
    BY <1>5, <1>6, <1>7, <1>8, <1>9, <1>10 DEF RunHost

-----------------------------------------------------------------------------
(* The inductive invariant.                                                 *)

Fetching == {"download", "check", "bundled", "copy", "check copy"}
Settled == {"report", "write"}

\* What an install carries at each step: a key the record had when it began is neither looked
\* for nor replaced, and nothing is carried for ttyd before it is found.
EntriesAreCarried ==
    \A i \in Installs :
        LET c == install[i] IN
        /\ c.pc = "package" => c.recorded.tmux = None
        /\ c.pc \in Fetching => c.recorded.ttyd = None
        /\ c.pc \in {"tmux", "package"} => c.tmux = None
        /\ c.pc \in {"tmux", "package", "ttyd"} \cup Fetching => c.ttyd = None
        /\ c.pc \in {"ttyd"} \cup Fetching \cup Settled /\ c.recorded.tmux # None
              => c.tmux = c.recorded.tmux
        /\ c.pc \in Settled /\ c.recorded.ttyd # None => c.ttyd = c.recorded.ttyd

\* A binary that is being written is the installed ttyd, by an install that copies it; who
\* has emptied it is among the writers.
OnlyCopiesWrite ==
    \A f \in Stock :
        /\ disk[f].last \in disk[f].open \cup {None}
        /\ \A p \in disk[f].open :
              f = Installed /\ p \in Installs /\ install[p].pc = "copy"

\* The names that a record can hold.
Names(b) == {OnPath[b], Mine[b], None} \cup (IF b = "ttyd" THEN {Installed} ELSE {})
NamesAreKnown ==
    \A b \in Binaries :
        /\ record[b] \in Names(b)
        /\ \A i \in Installs : install[i].recorded[b] \in Names(b) /\ install[i][b] \in Names(b)

\* Until two installs run at once: one runs; while it may write the installed ttyd, the record
\* does not name that; and it records it only if it works.
OneAtATime ==
    raced \/
    /\ \A i, j \in Installs : install[i].pc \notin Ends /\ install[j].pc \notin Ends => i = j
    /\ \A i \in Installs :
          LET c == install[i] IN
          /\ c.pc \notin Ends /\ c.recorded.ttyd # Installed => record.ttyd # Installed
          /\ c.pc \in Settled /\ c.ttyd = Installed => is_usable(Installed)
          /\ c.pc \in {"check", "copy", "check copy"} => exists(Installed)
          /\ c.pc = "copy" => exists(Wheel)

\* What an undisturbed install has found works, if only the package manager's tmux does.
TmuxIsNew == Packaged \subseteq {"good"}
FoundWorks ==
    \A i \in Installs \ disturbed :
        LET c == install[i] IN
        /\ TmuxIsNew /\ c.pc \in {"ttyd"} \cup Fetching \cup Settled /\ c.tmux # None
              => is_usable(c.tmux)
        /\ c.pc \in Settled /\ c.ttyd # None => is_usable(c.ttyd)
        /\ c.pc = "report" => c.ttyd # None

SetupInv == /\ SetupTypeOK /\ EntriesAreCarried /\ OnlyCopiesWrite /\ NamesAreKnown
            /\ OneAtATime /\ RecordedInstallRuns
            /\ FoundWorks /\ (TmuxIsNew => InstallDelivers)

-----------------------------------------------------------------------------
(* Steps of an install keep what it carries.                                *)

LEMMA BinariesAre == "tmux" \in Binaries /\ "ttyd" \in Binaries
  BY DEF Binaries

LEMMA FoundFields ==
    ASSUME SetupTypeOK, NEW i \in Installs, NEW b \in Binaries, NEW f, NEW pc, Found(i, b, f, pc)
    PROVE  /\ install'[i].pc = pc /\ install'[i].recorded = install[i].recorded
           /\ b = "tmux" => install'[i].tmux = f /\ install'[i].ttyd = install[i].ttyd
           /\ b = "ttyd" => install'[i].ttyd = f /\ install'[i].tmux = install[i].tmux
  BY DEF SetupTypeOK, Found, Install, Binaries

LEMMA GotoFields ==
    ASSUME SetupTypeOK, NEW i \in Installs, NEW pc, Goto(i, pc)
    PROVE  /\ install'[i].pc = pc /\ install'[i].recorded = install[i].recorded
           /\ install'[i].tmux = install[i].tmux /\ install'[i].ttyd = install[i].ttyd
  BY DEF SetupTypeOK, Goto, Install

LEMMA ExitFields ==
    ASSUME SetupTypeOK, NEW i \in Installs, NEW end, Exit(i, end)
    PROVE  /\ install'[i].pc = end /\ install'[i].recorded = NoRecord
           /\ install'[i].tmux = None /\ install'[i].ttyd = None
  BY DEF SetupTypeOK, Exit, NoInstall, Install

LEMMA StepKeepsEntries ==
    ASSUME SetupTypeOK, EntriesAreCarried, NEW i \in Installs, RunInstall(i) \/ GoesDown(i)
    PROVE  EntriesAreCarried'
  <1> DEFINE c == install[i]
             d == install'[i]
             Carried(e) ==
                 /\ e.pc = "package" => e.recorded.tmux = None
                 /\ e.pc \in Fetching => e.recorded.ttyd = None
                 /\ e.pc \in {"tmux", "package"} => e.tmux = None
                 /\ e.pc \in {"tmux", "package", "ttyd"} \cup Fetching => e.ttyd = None
                 /\ e.pc \in {"ttyd"} \cup Fetching \cup Settled /\ e.recorded.tmux # None
                       => e.tmux = e.recorded.tmux
                 /\ e.pc \in Settled /\ e.recorded.ttyd # None => e.ttyd = e.recorded.ttyd
  <1>1. Carried(c)
    BY DEF EntriesAreCarried
  <1>2. SUFFICES Carried(d)
    BY InstallsMoveAlone DEF OnlyMoves, EntriesAreCarried
  <1> USE DEF Fetching, Settled
  <1>3. CASE Begin(i)
    BY <1>3 DEF Begin, NoInstall, SetupTypeOK, Install
  <1>4. ASSUME NEW end \in Ends, Exit(i, end) PROVE Carried(d)
    BY <1>4, ExitFields DEF Ends
  <1>5. CASE CheckTmux(i)
    <2>1. c.pc = "tmux"
      BY <1>5 DEF CheckTmux, At
    <2>2. CASE Exit(i, "fail")
      BY <1>4, <2>2 DEF Ends
    <2>3. CASE Goto(i, "package") /\ c.recorded.tmux = None
      BY <1>1, <2>1, <2>3 DEF Goto, SetupTypeOK, Install
    <2>4. ASSUME NEW f, Found(i, "tmux", f, "ttyd"), c.recorded.tmux \in {None, f} PROVE Carried(d)
      BY <1>1, <2>1, <2>4 DEF Found, SetupTypeOK, Install
    <2>5. QED
      BY <1>5, <2>2, <2>3, <2>4 DEF CheckTmux
  <1>6. CASE PackageManager(i)
    <2>1. c.pc = "package" /\ Found(i, "tmux", OnPath.tmux, "ttyd")
      BY <1>6 DEF PackageManager, At
    <2>2. QED
      BY <1>1, <2>1 DEF Found, SetupTypeOK, Install
  <1>7. CASE NoPackageManager(i)
    <2>1. c.pc = "package" /\ Goto(i, "ttyd")
      BY <1>7 DEF NoPackageManager, At
    <2>2. QED
      BY <1>1, <2>1 DEF Goto, SetupTypeOK, Install
  <1>8. CASE CheckTtyd(i)
    <2>1. c.pc = "ttyd"
      BY <1>8 DEF CheckTtyd, At
    <2>2. CASE Exit(i, "fail")
      BY <1>4, <2>2 DEF Ends
    <2>3. CASE Goto(i, "download") /\ c.recorded.ttyd = None
      BY <1>1, <2>1, <2>3 DEF Goto, SetupTypeOK, Install
    <2>4. ASSUME NEW f, Found(i, "ttyd", f, "report"), c.recorded.ttyd \in {None, f} PROVE Carried(d)
      BY <1>1, <2>1, <2>4 DEF Found, SetupTypeOK, Install
    <2>5. QED
      BY <1>8, <2>2, <2>3, <2>4 DEF CheckTtyd
  <1>9. CASE Download(i) \/ DownloadFails(i)
    BY <1>1, <1>9, FoundFields, GotoFields, BinariesAre DEF Download, DownloadFails, At
  <1>10. CASE CheckDownload(i) \/ CheckBundled(i)
    <2>1. c.pc \in Fetching
      BY <1>10 DEF CheckDownload, CheckBundled, Check, At
    <2>2. CASE Exit(i, "raised")
      BY <1>4, <2>2 DEF Ends
    <2>3. ASSUME NEW pc \in {"bundled", "write"}, Goto(i, pc) PROVE Carried(d)
      <3>1. d = [c EXCEPT !.pc = pc]
        BY <2>3 DEF Goto, SetupTypeOK, Install
      <3>2. d.pc = pc /\ d.tmux = c.tmux /\ d.ttyd = c.ttyd /\ d.recorded = c.recorded
        BY <2>3 DEF Goto, SetupTypeOK, Install
      <3>3. QED
        BY <1>1, <2>1, <2>3, <3>2
    <2>4. CASE Found(i, "ttyd", Installed, "report")
      BY <1>1, <2>1, <2>4 DEF Found, SetupTypeOK, Install
    <2>5. QED
      BY <1>10, <2>2, <2>3, <2>4 DEF CheckDownload, CheckBundled, Check
  <1>11. CASE CopyBundled(i) \/ BundledCopied(i)
    BY <1>1, <1>4, <1>11, FoundFields, GotoFields, BinariesAre
    DEF CopyBundled, BundledCopied, At, Ends
  <1>12. CASE ReportTtyd(i)
    BY <1>1, <1>4, <1>12, GotoFields DEF ReportTtyd, At, Ends
  <1>13. CASE Write(i) \/ GoesDown(i)
    BY <1>4, <1>13 DEF Write, GoesDown, StopsShort, Ends
  <1>14. QED
    BY <1>3, <1>5, <1>6, <1>7, <1>8, <1>9, <1>10, <1>11, <1>12, <1>13 DEF RunInstall

-----------------------------------------------------------------------------
(* Who writes.                                                              *)

LEMMA OthersKeepAway ==
    ASSUME SetupTypeOK, OnlyCopiesWrite, NEW p \in Processes,
           p \in Hosts \/ (p \in Installs /\ install[p].pc # "copy")
    PROVE  KeepsAway(p)
  BY ToolchainAssumption DEF OnlyCopiesWrite, KeepsAway, Processes

LEMMA FreshFile ==
    ASSUME SetupTypeOK, NEW f \in Files, NEW data, disk' = [disk EXCEPT ![f] = Fresh(data)]
    PROVE  /\ disk'[f].data = data /\ disk'[f].open = {} /\ disk'[f].last = None
           /\ \A g \in Files \ {f} : disk'[g] = disk[g]
  BY DEF SetupTypeOK, Fresh

LEMMA StepKeepsWriters ==
    ASSUME SetupTypeOK, OnlyCopiesWrite, NEW i \in Installs, RunInstall(i) \/ GoesDown(i)
    PROVE  OnlyCopiesWrite'
  <1> DEFINE Good(f) == /\ disk'[f].last \in disk'[f].open \cup {None}
                        /\ \A p \in disk'[f].open :
                              f = Installed /\ p \in Installs /\ install'[p].pc = "copy"
  <1>1. SUFFICES ASSUME NEW f \in Stock PROVE Good(f)
    BY DEF OnlyCopiesWrite
  <1>2. /\ f \in Files /\ disk[f] \in Inode /\ i \in Processes
        /\ disk[f].last \in disk[f].open \cup {None}
        /\ \A p \in disk[f].open : f = Installed /\ p \in Installs /\ install[p].pc = "copy"
    BY StockIsApart DEF OnlyCopiesWrite, SetupTypeOK, Processes
  <1>3. \A p \in Installs : p # i => install'[p] = install[p]
    BY InstallsMoveAlone DEF OnlyMoves
  <1>4. ASSUME install[i].pc # "copy", disk'[f] = disk[f] PROVE Good(f)
    BY <1>2, <1>3, <1>4
  <1>5. ASSUME install[i].pc # "copy", NEW g \in Files, NEW data,
               disk' = [disk EXCEPT ![g] = Fresh(data)]
        PROVE  Good(f)
    BY <1>2, <1>4, <1>5, FreshFile
  <1>6. CASE \/ Begin(i) \/ CheckTmux(i) \/ NoPackageManager(i)
             \/ CheckTtyd(i) \/ DownloadFails(i) \/ ReportTtyd(i) \/ Write(i)
    BY <1>4, <1>6
    DEF Begin, CheckTmux, NoPackageManager, CheckTtyd, DownloadFails, ReportTtyd, Write, At, Ends
  <1>7. CASE PackageManager(i) \/ Download(i) \/ CheckDownload(i) \/ CheckBundled(i)
    <2>1. install[i].pc # "copy" /\ OnPath.tmux \in Files /\ Installed \in Files
      BY <1>7 DEF PackageManager, Download, CheckDownload, CheckBundled, Check, At, Files, Paths,
         OnPath, Binaries
    <2>2. \/ disk' = disk
          \/ \E g \in {OnPath.tmux, Installed}, data \in Data :
                disk' = [disk EXCEPT ![g] = Fresh(data)]
      BY <1>7, ToolchainAssumption DEF PackageManager, Download, CheckDownload, CheckBundled,
         Check, Nothing, Data
    <2>3. QED
      BY <2>1, <2>2, <1>4, <1>5
  <1>8. CASE CopyBundled(i)
    <2>1. install[i].pc # "copy" /\ Installed \in Files
      BY <1>8 DEF CopyBundled, At, Files, Paths
    <2>2. CASE disk' = disk
      BY <1>4, <2>1, <2>2
    <2>3. CASE disk' = Opened(i, Installed) /\ Goto(i, "copy")
      <3>1. install'[i].pc = "copy"
        BY <2>3 DEF Goto, SetupTypeOK, Install
      <3>2. CASE f = Installed
        BY <1>2, <1>3, <2>1, <2>3, <3>1, <3>2 DEF Opened, SetupTypeOK, Inode
      <3>3. CASE f # Installed
        BY <1>2, <1>4, <2>1, <2>3, <3>3 DEF Opened, SetupTypeOK
      <3>4. QED
        BY <3>2, <3>3
    <2>4. QED
      BY <1>8, <2>2, <2>3 DEF CopyBundled
  <1>9. CASE BundledCopied(i)
    <2>1. disk' = Written(i, Installed, disk[Wheel].data) /\ Installed \in Files
      BY <1>9 DEF BundledCopied, Files, Paths
    <2>2. CASE f = Installed
      BY <1>2, <1>3, <2>1, <2>2 DEF Written, SetupTypeOK, Inode
    <2>3. CASE f # Installed
      BY <1>2, <2>1, <2>3 DEF Written, SetupTypeOK
    <2>4. QED
      BY <2>2, <2>3
  <1>10. CASE GoesDown(i)
    <2>1. disk' = Without(i)
      BY <1>10 DEF GoesDown, StopsShort
    <2>2. /\ disk'[f].open = disk[f].open \ {i}
          /\ disk'[f].last = IF disk[f].last = i THEN None ELSE disk[f].last
      BY <1>2, <2>1 DEF Without, Inode
    <2>3. QED
      BY <1>2, <1>3, <2>2
  <1>11. QED
    BY <1>6, <1>7, <1>8, <1>9, <1>10 DEF RunInstall

-----------------------------------------------------------------------------
(* Names.                                                                   *)

LEMMA StepKeepsNames ==
    ASSUME SetupTypeOK, NamesAreKnown, NEW i \in Installs, RunInstall(i) \/ GoesDown(i)
    PROVE  NamesAreKnown'
  <1> DEFINE c == install[i]
             d == install'[i]
             Known(e) == \A b \in Binaries : e.recorded[b] \in Names(b) /\ e[b] \in Names(b)
  <1>1. Known(c) /\ \A b \in Binaries : record[b] \in Names(b) /\ None \in Names(b)
    BY DEF NamesAreKnown, Names
  <1>2. SUFFICES Known(d) /\ \A b \in Binaries : record'[b] \in Names(b)
    BY InstallsMoveAlone DEF OnlyMoves, NamesAreKnown
  <1>3. \A b \in Binaries : NoRecord[b] \in Names(b)
    BY <1>1 DEF NoRecord
  <1>4. ASSUME NEW end, Exit(i, end) PROVE Known(d)
    <2>1. d.recorded = NoRecord /\ d["tmux"] = None /\ d["ttyd"] = None
      BY <1>4 DEF Exit, NoInstall, SetupTypeOK, Install
    <2>2. QED
      BY <1>1, <1>3, <2>1 DEF Binaries
  <1>5. ASSUME NEW pc, Goto(i, pc) PROVE Known(d)
    BY <1>1, <1>5 DEF Goto, SetupTypeOK, Install, Binaries
  <1>6. ASSUME NEW b \in Binaries, NEW f \in Names(b), NEW pc, Found(i, b, f, pc) PROVE Known(d)
    BY <1>1, <1>6 DEF Found, SetupTypeOK, Install, Binaries
  <1>7. /\ "tmux" \in Binaries /\ "ttyd" \in Binaries
        /\ OnPath.tmux \in Names("tmux") /\ OnPath.ttyd \in Names("ttyd")
        /\ Installed \in Names("ttyd")
        /\ c.recorded.tmux \in Names("tmux") /\ c.recorded.ttyd \in Names("ttyd")
    BY <1>1 DEF Binaries, Names
  <1>8. CASE Begin(i)
    <2>1. d.recorded = record /\ d["tmux"] = None /\ d["ttyd"] = None /\ UNCHANGED record
      BY <1>8 DEF Begin, NoInstall, SetupTypeOK, Install
    <2>2. QED
      BY <1>1, <2>1 DEF Binaries
  <1>9. CASE CheckTmux(i) \/ CheckTtyd(i)
    BY <1>1, <1>4, <1>5, <1>6, <1>7, <1>9 DEF CheckTmux, CheckTtyd
  <1>10. CASE PackageManager(i) \/ NoPackageManager(i) \/ Download(i) \/ DownloadFails(i)
    BY <1>1, <1>5, <1>6, <1>7, <1>10 DEF PackageManager, NoPackageManager, Download, DownloadFails
  <1>11. CASE CheckDownload(i) \/ CheckBundled(i)
    BY <1>1, <1>4, <1>5, <1>6, <1>7, <1>11 DEF CheckDownload, CheckBundled, Check
  <1>12. CASE CopyBundled(i) \/ BundledCopied(i) \/ ReportTtyd(i) \/ GoesDown(i)
    BY <1>1, <1>4, <1>5, <1>12 DEF CopyBundled, BundledCopied, ReportTtyd, GoesDown, StopsShort
  <1>13. CASE Write(i)
    <2>1. Known(d)
      BY <1>4, <1>13 DEF Write
    <2>2. record' = record \/ record' = [b \in Binaries |-> c[b]]
      BY <1>13 DEF Write
    <2>3. QED
      BY <1>1, <2>1, <2>2
  <1>14. QED
    BY <1>8, <1>9, <1>10, <1>11, <1>12, <1>13 DEF RunInstall

-----------------------------------------------------------------------------
(* One install at a time.                                                   *)

\* A kill takes no binary that works.
LEMMA WithoutKeepsUsable ==
    ASSUME SetupTypeOK, OnlyCopiesWrite, NEW p \in Processes, NEW f \in Stock,
           disk' = Without(p), is_usable(f)
    PROVE  is_usable(f)'
  <1>1. f \in Files /\ disk[f] \in Inode /\ disk[f].open = {} /\ disk[f].last = None
        /\ p # None
    BY StockIsApart, ToolchainAssumption DEF OnlyCopiesWrite, SetupTypeOK, is_usable, Processes
  <1>2. disk'[f].data = disk[f].data /\ disk'[f].open = {}
    BY <1>1 DEF Without, Inode
  <1>3. QED
    BY <1>2 DEF is_usable

LEMMA RacedStays ==
    ASSUME SetupTypeOK, NEW i \in Installs, RunInstall(i) \/ GoesDown(i)
    PROVE  raced \in BOOLEAN /\ raced' \in BOOLEAN /\ (raced => raced')
  BY DEF RunInstall, Begin, CheckTmux, PackageManager, NoPackageManager, CheckTtyd, Download,
         DownloadFails, CheckDownload, Check, CopyBundled, BundledCopied, CheckBundled, ReportTtyd, Write,
         GoesDown, StopsShort, SetupTypeOK

LEMMA InstalledIsNone == Installed \in Stock /\ Installed \in Files /\ Installed # None
                         /\ Wheel \in Stock /\ Wheel \in Files /\ OnPath.tmux \in Files
                         /\ Installed \notin {OnPath.tmux, OnPath.ttyd, Mine.tmux, Mine.ttyd, Wheel}
                         /\ Wheel \notin {OnPath.tmux, Installed}
                         /\ OnPath.ttyd # None
  BY ToolchainAssumption
  DEF Stock, Files, Paths, OnPath, Mine, Installed, Wheel, Binaries

\* What one step of an install does to the installed ttyd and to the record.
LEMMA StepKeepsInstalled ==
    ASSUME SetupTypeOK, EntriesAreCarried, OnlyCopiesWrite, OneAtATime, RecordedInstallRuns,
           NEW i \in Installs, RunInstall(i) \/ GoesDown(i), ~raced'
    PROVE  OneAtATime' /\ RecordedInstallRuns'
  <1> DEFINE c == install[i]
             d == install'[i]
             Runs1 == record'.ttyd = Installed => is_usable(Installed)'
             Whole == /\ d.pc \notin Ends /\ d.recorded.ttyd # Installed => record'.ttyd # Installed
                      /\ d.pc \in Settled /\ d.ttyd = Installed => is_usable(Installed)'
                      /\ d.pc \in {"check", "copy", "check copy"} => exists(Installed)'
                      /\ d.pc = "copy" => exists(Wheel)'
  <1>1. ~raced
    BY RacedStays
  <1>2. /\ \A j \in Installs : c.pc \notin Ends /\ install[j].pc \notin Ends => i = j
        /\ c.pc \notin Ends /\ c.recorded.ttyd # Installed => record.ttyd # Installed
        /\ c.pc \in Settled /\ c.ttyd = Installed => is_usable(Installed)
        /\ c.pc \in {"check", "copy", "check copy"} => exists(Installed)
        /\ c.pc = "copy" => exists(Wheel)
        /\ record.ttyd = Installed => is_usable(Installed)
        /\ c.pc \in Fetching => c.recorded.ttyd = None
        /\ c.pc \in {"tmux", "package", "ttyd"} \cup Fetching => c.ttyd = None
    BY <1>1 DEF OneAtATime, RecordedInstallRuns, EntriesAreCarried
  <1>3. \A j \in Installs : j # i => install'[j] = install[j] /\ install[j].pc \in Ends
    <2>1. CASE Begin(i)
      BY <2>1, InstallsMoveAlone DEF OnlyMoves, Begin
    <2>2. CASE ~Begin(i)
      <3>1. c.pc \notin Ends
        BY <2>2 DEF RunInstall, CheckTmux, PackageManager, NoPackageManager, CheckTtyd, Download,
           DownloadFails, CheckDownload, Check, CopyBundled, BundledCopied, CheckBundled, ReportTtyd, Write,
           GoesDown, StopsShort, At, Ends
      <3>2. QED
        BY <1>2, <3>1, InstallsMoveAlone DEF OnlyMoves
    <2>3. QED
      BY <2>1, <2>2
  <1>4. SUFFICES Whole /\ Runs1
    BY <1>3 DEF OneAtATime, RecordedInstallRuns, Ends, Settled
  <1> USE DEF Settled
  <1>5. ASSUME NEW end \in Ends, Exit(i, end) PROVE d.pc \in Ends
    BY <1>5 DEF Exit, NoInstall, SetupTypeOK, Install
  <1>6. ASSUME d.pc \in Ends PROVE Whole
    BY <1>6 DEF Ends
  <1>7. CASE Begin(i)
    <2>1. d.pc = "tmux" /\ d.recorded = record /\ UNCHANGED <<record, disk>>
      BY <1>7 DEF Begin, NoInstall, SetupTypeOK, Install
    <2>2. QED
      BY <1>2, <2>1 DEF is_usable, Ends
  <1>8. ASSUME UNCHANGED <<record, disk>>, d.recorded = c.recorded, c.pc \notin Ends,
               d.pc \in {"package", "ttyd", "download", "bundled"} PROVE Whole /\ Runs1
    BY <1>2, <1>8 DEF is_usable, exists
  <1>9. CASE CheckTmux(i) \/ NoPackageManager(i) \/ DownloadFails(i)
    <2>1. UNCHANGED <<record, disk>> /\ c.pc \notin Ends
      BY <1>9 DEF CheckTmux, NoPackageManager, DownloadFails, At, Ends
    <2>2. CASE Exit(i, "fail")
      BY <1>2, <1>5, <1>6, <2>1, <2>2 DEF is_usable, Ends
    <2>3. ASSUME NEW f, Found(i, "tmux", f, "ttyd") PROVE Whole /\ Runs1
      <3>1. d.pc = "ttyd" /\ d.recorded = c.recorded
        BY <2>3 DEF Found, SetupTypeOK, Install
      <3>2. QED
        BY <1>8, <2>1, <3>1
    <2>4. ASSUME NEW pc \in {"package", "ttyd", "bundled"}, Goto(i, pc) PROVE Whole /\ Runs1
      <3>1. d.pc = pc /\ d.recorded = c.recorded
        BY <2>4 DEF Goto, SetupTypeOK, Install
      <3>2. QED
        BY <1>8, <2>1, <3>1
    <2>5. QED
      BY <1>9, <2>2, <2>3, <2>4 DEF CheckTmux, NoPackageManager, DownloadFails
  <1>10. CASE PackageManager(i)
    <2>1. c.pc \notin Ends /\ d.pc = "ttyd" /\ d.recorded = c.recorded /\ UNCHANGED record
      <3>1. c.pc = "package" /\ UNCHANGED record /\ Found(i, "tmux", OnPath.tmux, "ttyd")
        BY <1>10 DEF PackageManager, At
      <3>2. QED
        BY <3>1 DEF Ends, Found, SetupTypeOK, Install
    <2>2. disk'[Installed] = disk[Installed]
      BY <1>10, InstalledIsNone DEF PackageManager, SetupTypeOK
    <2>3. QED
      BY <1>2, <2>1, <2>2 DEF is_usable
  <1>11. CASE CheckTtyd(i)
    <2>1. UNCHANGED <<record, disk>> /\ c.pc \notin Ends
      BY <1>11 DEF CheckTtyd, At, Ends
    <2>2. CASE Exit(i, "fail")
      BY <1>2, <1>5, <1>6, <2>1, <2>2 DEF is_usable, Ends
    <2>3. ASSUME NEW f, Found(i, "ttyd", f, "report"), is_usable(f) PROVE Whole /\ Runs1
      <3>1. d.pc = "report" /\ d.recorded = c.recorded /\ d.ttyd = f
        BY <2>3 DEF Found, SetupTypeOK, Install
      <3>2. QED
        BY <1>2, <2>1, <2>3, <3>1 DEF is_usable
    <2>4. CASE Goto(i, "download")
      <3>1. d.pc = "download" /\ d.recorded = c.recorded
        BY <2>4 DEF Goto, SetupTypeOK, Install
      <3>2. QED
        BY <1>8, <2>1, <3>1
    <2>5. QED
      BY <1>11, <2>2, <2>3, <2>4 DEF CheckTtyd
  <1>12. CASE Download(i)
    <2>1. c.pc = "download" /\ d.pc = "check" /\ d.recorded = c.recorded /\ UNCHANGED record
      BY <1>12 DEF Download, At, Goto, SetupTypeOK, Install
    <2>2. record.ttyd # Installed
      BY <1>2, <2>1, InstalledIsNone DEF Fetching, Ends
    <2>3. disk'[Installed].data # "none"
      BY <1>12, InstalledIsNone DEF Download, SetupTypeOK, Fresh
    <2>4. QED
      BY <2>1, <2>2, <2>3 DEF exists
  <1>13. CASE CheckDownload(i) \/ CheckBundled(i)
    <2>1. c.pc \in Fetching /\ c.pc \notin Ends /\ UNCHANGED record
      BY <1>13 DEF CheckDownload, CheckBundled, Check, At, Fetching, Ends
    <2>2. record.ttyd # Installed
      BY <1>2, <2>1, InstalledIsNone
    <2>3. CASE Exit(i, "raised")
      BY <1>5, <1>6, <2>1, <2>2, <2>3 DEF Ends
    <2>4. CASE is_usable(Installed) /\ Found(i, "ttyd", Installed, "report") /\ UNCHANGED disk
      <3>1. d.pc = "report"
        BY <2>4 DEF Found, SetupTypeOK, Install
      <3>2. QED
        BY <2>1, <2>2, <2>4, <3>1 DEF is_usable
    <2>5. ASSUME NEW pc \in {"bundled", "write"}, Goto(i, pc) PROVE Whole /\ Runs1
      <3>1. d.pc = pc /\ d.recorded = c.recorded /\ d.ttyd = None
        BY <1>2, <2>1, <2>5 DEF Goto, SetupTypeOK, Install
      <3>2. QED
        BY <2>1, <2>2, <3>1, InstalledIsNone
    <2>6. QED
      BY <1>13, <2>3, <2>4, <2>5 DEF CheckDownload, CheckBundled, Check
  <1>14. CASE CopyBundled(i)
    <2>1. c.pc = "bundled" /\ UNCHANGED record
      BY <1>14 DEF CopyBundled, At
    <2>2. record.ttyd # Installed /\ c.ttyd = None
      BY <1>2, <2>1, InstalledIsNone DEF Fetching, Ends
    <2>3. CASE Exit(i, "raised")
      BY <1>5, <1>6, <2>1, <2>2, <2>3 DEF Ends
    <2>4. CASE Goto(i, "write")
      <3>1. d.pc = "write" /\ d.ttyd = None
        BY <2>2, <2>4 DEF Goto, SetupTypeOK, Install
      <3>2. QED
        BY <2>1, <2>2, <3>1, InstalledIsNone
    <2>5. CASE exists(Wheel) /\ Goto(i, "copy") /\ disk' = Opened(i, Installed)
      <3>1. d.pc = "copy"
        BY <2>5 DEF Goto, SetupTypeOK, Install
      <3>2. disk'[Installed].data = "part" /\ disk'[Wheel] = disk[Wheel]
        BY <2>5, InstalledIsNone DEF Opened, SetupTypeOK, Inode
      <3>3. QED
        BY <2>1, <2>2, <2>5, <3>1, <3>2 DEF exists
    <2>6. QED
      BY <1>14, <2>3, <2>4, <2>5 DEF CopyBundled
  <1>15. CASE BundledCopied(i)
    <2>1. c.pc = "copy" /\ UNCHANGED record
      BY <1>15 DEF BundledCopied, At
    <2>2. record.ttyd # Installed /\ exists(Installed) /\ exists(Wheel)
      BY <1>2, <2>1, InstalledIsNone DEF Fetching, Ends
    <2>3. Goto(i, "check copy") /\ disk' = Written(i, Installed, disk[Wheel].data)
      BY <1>15, <2>2 DEF BundledCopied
    <2>4. d.pc = "check copy"
      BY <2>3 DEF Goto, SetupTypeOK, Install
    <2>5. disk'[Installed].data # "none"
      BY <2>2, <2>3, InstalledIsNone DEF Written, exists, SetupTypeOK, Inode
    <2>6. QED
      BY <2>1, <2>2, <2>4, <2>5 DEF exists
  <1>16. CASE ReportTtyd(i)
    <2>1. c.pc = "report" /\ UNCHANGED <<record, disk>>
      BY <1>16 DEF ReportTtyd, At
    <2>2. CASE Exit(i, "raised")
      BY <1>2, <1>5, <1>6, <2>1, <2>2 DEF Ends, is_usable
    <2>3. CASE Goto(i, "write")
      <3>1. d.pc = "write" /\ d.recorded = c.recorded /\ d.ttyd = c.ttyd
        BY <2>3 DEF Goto, SetupTypeOK, Install
      <3>2. QED
        BY <1>2, <2>1, <3>1 DEF Ends, is_usable
    <2>4. QED
      BY <1>16, <2>2, <2>3 DEF ReportTtyd
  <1>17. CASE Write(i)
    <2>1. c.pc = "write" /\ UNCHANGED disk
      BY <1>17 DEF Write, At
    <2>2. d.pc \in Ends
      BY <1>5, <1>17 DEF Write, Ends
    <2>3. record' = record \/ record' = [b \in Binaries |-> c[b]]
      BY <1>17 DEF Write
    <2>4. record'.ttyd = Installed => record.ttyd = Installed \/ c.ttyd = Installed
      BY <2>3 DEF Binaries
    <2>5. QED
      BY <1>2, <1>6, <2>1, <2>2, <2>4 DEF is_usable
  <1>18. CASE GoesDown(i)
    <2>1. d.pc \in Ends /\ disk' = Without(i) /\ UNCHANGED record
      BY <1>5, <1>18 DEF GoesDown, StopsShort, Ends
    <2>2. Runs1
      BY <1>2, <2>1, WithoutKeepsUsable, InstalledIsNone DEF Processes
    <2>3. QED
      BY <1>6, <2>1, <2>2
  <1>19. QED
    BY <1>7, <1>9, <1>10, <1>11, <1>12, <1>13, <1>14, <1>15, <1>16, <1>17, <1>18 DEF RunInstall

-----------------------------------------------------------------------------
(* What an undisturbed install finds and leaves behind.                     *)

\* A step disturbs all others, or leaves the record, and what works, as it is.
LEMMA QuietOrDisturbing ==
    ASSUME SetupTypeOK, NEW i \in Installs, RunInstall(i) \/ GoesDown(i),
           NEW j \in Processes, j # i, j \notin disturbed'
    PROVE  /\ j \notin disturbed
           /\ UNCHANGED record
           /\ disk' = disk \/ disk' = Without(i)
  <1>1. ~Disturbs(i)
    BY DEF Disturbs
  <1>2. CASE RunInstall(i)
    BY <1>1, <1>2 DEF RunInstall, Begin, CheckTmux, PackageManager, NoPackageManager, CheckTtyd,
       Download, DownloadFails, CheckDownload, Check, CopyBundled, BundledCopied, CheckBundled,
       ReportTtyd, Write
  <1>3. CASE GoesDown(i)
    BY <1>3 DEF GoesDown, StopsShort
  <1>4. QED
    BY <1>2, <1>3

LEMMA KnownNames ==
    ASSUME SetupTypeOK, NamesAreKnown, NEW i \in Installs
    PROVE  /\ install[i].tmux \in {OnPath.tmux, Mine.tmux, None}
           /\ install[i].ttyd \in {OnPath.ttyd, Mine.ttyd, Installed, None}
           /\ record.tmux \in {OnPath.tmux, Mine.tmux, None}
           /\ record.ttyd \in {OnPath.ttyd, Mine.ttyd, Installed, None}
  <1>1. \A b \in Binaries : record[b] \in Names(b) /\ install[i][b] \in Names(b)
    BY DEF NamesAreKnown
  <1>2. /\ Names("tmux") = {OnPath.tmux, Mine.tmux, None}
        /\ Names("ttyd") = {OnPath.ttyd, Mine.ttyd, Installed, None}
    BY DEF Names
  <1>3. QED
    BY <1>1, <1>2, BinariesAre

WillRun(f) == disk'[f].data \in {"stale", "good"} /\ disk'[f].open = {}

LEMMA StepKeepsFound ==
    ASSUME SetupTypeOK, EntriesAreCarried, OnlyCopiesWrite, NamesAreKnown, FoundWorks,
           TmuxIsNew => InstallDelivers,
           NEW i \in Installs, RunInstall(i) \/ GoesDown(i)
    PROVE  FoundWorks' /\ (TmuxIsNew => InstallDelivers')
  <1> DEFINE c == install[i]
             d == install'[i]
             Found1(e) == /\ TmuxIsNew /\ e.pc \in {"ttyd"} \cup Fetching \cup Settled
                                /\ e.tmux # None => WillRun(e.tmux)
                          /\ e.pc \in Settled /\ e.ttyd # None => WillRun(e.ttyd)
                          /\ e.pc = "report" => e.ttyd # None
             Delivered == /\ record'.tmux # None /\ WillRun(record'.tmux)
                          /\ record'.ttyd # None /\ WillRun(record'.ttyd)
             Fine(e) == Found1(e) /\ (TmuxIsNew /\ e.pc = "ok" => Delivered)
  <1>1. SUFFICES ASSUME NEW j \in Installs, j \notin disturbed' PROVE Fine(install'[j])
    BY DEF FoundWorks, InstallDelivers, Binaries, is_usable, WillRun, TmuxIsNew
  <1> USE DEF Settled
  <1>2. CASE j # i
    <2>1. /\ j \notin disturbed /\ UNCHANGED record /\ install'[j] = install[j]
          /\ disk' = disk \/ disk' = Without(i)
      BY <1>1, <1>2, QuietOrDisturbing, InstallsMoveAlone DEF OnlyMoves, Processes
    <2>2. \A f \in Stock : is_usable(f) => WillRun(f)
      BY <2>1, WithoutKeepsUsable DEF WillRun, is_usable, Processes
    <2>3. /\ install[j].tmux \in Stock \cup {None} /\ install[j].ttyd \in Stock \cup {None}
          /\ record.tmux \in Stock \cup {None} /\ record.ttyd \in Stock \cup {None}
      BY KnownNames DEF Stock
    <2>4. QED
      BY <2>1, <2>2, <2>3 DEF FoundWorks, InstallDelivers, Binaries
  <1>3. CASE j = i
    <2>1. /\ c.tmux \in {OnPath.tmux, Mine.tmux, None}
          /\ c.ttyd \in {OnPath.ttyd, Mine.ttyd, Installed, None}
          /\ c.pc \in {"tmux", "package", "ttyd"} \cup Fetching => c.ttyd = None
      BY KnownNames DEF EntriesAreCarried
    <2>2. CASE Begin(i)
      <3>1. d.pc = "tmux"
        BY <2>2 DEF Begin, NoInstall, SetupTypeOK, Install
      <3>2. QED
        BY <1>3, <3>1 DEF Fetching
    <2>3. ASSUME NEW end, Exit(i, end), end \in Ends \ {"ok"} PROVE Fine(d)
      <3>1. d.pc = end
        BY <2>3 DEF Exit, NoInstall, SetupTypeOK, Install
      <3>2. QED
        BY <2>3, <3>1 DEF Ends, Fetching
    <2>4. CASE GoesDown(i)
      BY <1>3, <2>3, <2>4 DEF GoesDown, StopsShort, Ends
    <2>5. CASE RunInstall(i) /\ ~Begin(i)
      <3>1. i \notin disturbed
        BY <1>1, <1>3, <2>5 DEF RunInstall, CheckTmux, PackageManager, NoPackageManager, CheckTtyd,
           Download, DownloadFails, CheckDownload, Check, CopyBundled, BundledCopied, CheckBundled,
           ReportTtyd, Write, Disturbs, Processes
      <3>2. /\ TmuxIsNew /\ c.pc \in {"ttyd"} \cup Fetching \cup Settled /\ c.tmux # None
                  => is_usable(c.tmux)
            /\ c.pc \in Settled /\ c.ttyd # None => is_usable(c.ttyd)
        BY <3>1 DEF FoundWorks
      <3>3. CASE CheckTmux(i)
        <4>1. UNCHANGED disk /\ c.ttyd = None
          BY <2>1, <3>3 DEF CheckTmux, At
        <4>2. CASE Exit(i, "fail")
          BY <1>3, <2>3, <4>2 DEF Ends
        <4>3. ASSUME NEW f, Found(i, "tmux", f, "ttyd"), is_usable(f) PROVE Fine(d)
          <5>1. d.pc = "ttyd" /\ d.tmux = f
            BY <4>3 DEF Found, SetupTypeOK, Install
          <5>2. QED
            BY <4>1, <4>3, <5>1 DEF WillRun, is_usable, Fetching
        <4>4. CASE Goto(i, "package")
          <5>1. d.pc = "package"
            BY <4>4 DEF Goto, SetupTypeOK, Install
          <5>2. QED
            BY <1>3, <5>1 DEF Fetching, WillRun
        <4>5. QED
          BY <1>3, <3>3, <4>2, <4>3, <4>4 DEF CheckTmux
      <3>4. CASE PackageManager(i)
        <4>1. Found(i, "tmux", OnPath.tmux, "ttyd")
          BY <3>4 DEF PackageManager
        <4>2. d.pc = "ttyd" /\ d.tmux = OnPath.tmux
          BY <4>1 DEF Found, SetupTypeOK, Install
        <4>3. TmuxIsNew => disk' = [disk EXCEPT ![OnPath.tmux] = Fresh("good")]
          BY <3>4 DEF PackageManager, TmuxIsNew
        <4>4. TmuxIsNew => WillRun(OnPath.tmux)
          BY <4>3, InstalledIsNone DEF SetupTypeOK, WillRun, is_usable, Fresh
        <4>5. QED
          BY <1>3, <4>2, <4>4 DEF Fetching
      <3>5. CASE NoPackageManager(i)
        <4>1. c.tmux = None
          BY <3>5 DEF NoPackageManager, At, EntriesAreCarried
        <4>2. d.pc = "ttyd" /\ d.tmux = None
          BY <3>5, <4>1 DEF NoPackageManager, Goto, SetupTypeOK, Install
        <4>3. QED
          BY <1>3, <4>2 DEF Fetching
      <3>6. CASE CheckTtyd(i)
        <4>1. UNCHANGED disk /\ c.pc = "ttyd"
          BY <3>6 DEF CheckTtyd, At
        <4>2. CASE Exit(i, "fail")
          BY <1>3, <2>3, <4>2 DEF Ends
        <4>3. ASSUME NEW f, f # None, Found(i, "ttyd", f, "report"), is_usable(f) PROVE Fine(d)
          <5>1. d.pc = "report" /\ d.ttyd = f /\ d.tmux = c.tmux
            BY <4>3 DEF Found, SetupTypeOK, Install
          <5>2. QED
            BY <3>2, <4>1, <4>3, <5>1 DEF WillRun, is_usable
        <4>4. CASE Goto(i, "download")
          <5>1. d.pc = "download" /\ d.tmux = c.tmux
            BY <4>4 DEF Goto, SetupTypeOK, Install
          <5>2. QED
            BY <1>3, <3>2, <4>1, <5>1 DEF WillRun, is_usable, Fetching
        <4>5. QED
          BY <1>3, <3>6, <4>2, <4>3, <4>4, InstalledIsNone DEF CheckTtyd
      <3>7. \A f \in {OnPath.tmux, Mine.tmux} : f # Installed /\ f \in Stock /\ f \in Files
        BY InstalledIsNone, StockIsApart DEF Stock
      <3>8. ASSUME NEW pc \in Fetching \cup {"write"}, Goto(i, pc), c.pc \in Fetching,
                   \A f \in {OnPath.tmux, Mine.tmux} : disk'[f] = disk[f]
            PROVE  Fine(d)
        <4>1. d.pc = pc /\ d.tmux = c.tmux /\ d.ttyd = None
          BY <2>1, <3>8 DEF Goto, SetupTypeOK, Install
        <4>2. QED
          BY <2>1, <3>2, <3>8, <4>1 DEF WillRun, is_usable, Fetching
      <3>9. CASE Download(i) \/ DownloadFails(i)
        <4>1. c.pc \in Fetching
          BY <3>9 DEF Download, DownloadFails, At, Fetching
        <4>2. \A f \in {OnPath.tmux, Mine.tmux} : disk'[f] = disk[f]
          BY <3>7, <3>9 DEF Download, DownloadFails, SetupTypeOK
        <4>3. \E pc \in Fetching : Goto(i, pc)
          BY <3>9 DEF Download, DownloadFails, Fetching
        <4>4. QED
          BY <1>3, <3>8, <4>1, <4>2, <4>3
      <3>10. CASE CheckDownload(i) \/ CheckBundled(i)
        <4>1. c.pc \in Fetching
          BY <3>10 DEF CheckDownload, CheckBundled, Check, At, Fetching
        <4>2. \A f \in {OnPath.tmux, Mine.tmux} : disk'[f] = disk[f]
          BY <3>7, <3>10 DEF CheckDownload, CheckBundled, Check, SetupTypeOK
        <4>3. CASE Exit(i, "raised")
          BY <1>3, <2>3, <4>3 DEF Ends
        <4>4. CASE Goto(i, "bundled") \/ Goto(i, "write")
          BY <1>3, <3>8, <4>1, <4>2, <4>4 DEF Fetching
        <4>5. CASE is_usable(Installed) /\ Found(i, "ttyd", Installed, "report") /\ UNCHANGED disk
          <5>1. d.pc = "report" /\ d.ttyd = Installed /\ d.tmux = c.tmux
            BY <4>5 DEF Found, SetupTypeOK, Install
          <5>2. QED
            BY <1>3, <3>2, <4>1, <4>5, <5>1, InstalledIsNone DEF WillRun, is_usable
        <4>6. QED
          BY <3>10, <4>3, <4>4, <4>5 DEF CheckDownload, CheckBundled, Check
      <3>11. CASE CopyBundled(i) \/ BundledCopied(i)
        <4>1. c.pc \in Fetching
          BY <3>11 DEF CopyBundled, BundledCopied, At, Fetching
        <4>2. \A f \in {OnPath.tmux, Mine.tmux} : disk'[f] = disk[f]
          BY <3>7, <3>11 DEF CopyBundled, BundledCopied, Opened, Written, SetupTypeOK
        <4>3. CASE Exit(i, "raised")
          BY <1>3, <2>3, <4>3 DEF Ends
        <4>4. ASSUME NEW pc \in {"write", "copy", "check copy"}, Goto(i, pc) PROVE Fine(d)
          BY <3>8, <4>1, <4>2, <4>4 DEF Fetching
        <4>5. QED
          BY <1>3, <3>11, <4>3, <4>4 DEF CopyBundled, BundledCopied
      <3>12. CASE ReportTtyd(i)
        <4>1. c.pc = "report" /\ UNCHANGED disk
          BY <3>12 DEF ReportTtyd, At
        <4>2. CASE Exit(i, "raised")
          BY <1>3, <2>3, <4>2 DEF Ends
        <4>3. CASE Goto(i, "write")
          <5>1. d.pc = "write" /\ d.ttyd = c.ttyd /\ d.tmux = c.tmux
            BY <4>3 DEF Goto, SetupTypeOK, Install
          <5>2. QED
            BY <1>3, <3>2, <4>1, <5>1 DEF WillRun, is_usable
        <4>4. QED
          BY <3>12, <4>2, <4>3 DEF ReportTtyd
      <3>13. CASE Write(i)
        <4>1. c.pc = "write" /\ UNCHANGED disk
          BY <3>13 DEF Write, At
        <4>2. CASE Exit(i, "fail")
          BY <1>3, <2>3, <4>2 DEF Ends
        <4>3. CASE /\ Exit(i, "ok") /\ record' = [b \in Binaries |-> c[b]]
                   /\ \A b \in Binaries : c[b] # None
          <5>1. record'.tmux = c.tmux /\ record'.ttyd = c.ttyd /\ c.tmux # None /\ c.ttyd # None
            BY <4>3 DEF Binaries
          <5>2. d.pc = "ok"
            BY <4>3 DEF Exit, NoInstall, SetupTypeOK, Install
          <5>3. QED
            BY <1>3, <3>2, <4>1, <5>1, <5>2 DEF WillRun, is_usable, Fetching
        <4>4. QED
          BY <3>13, <4>2, <4>3 DEF Write
      <3>14. QED
        BY <2>5, <3>3, <3>4, <3>5, <3>6, <3>9, <3>10, <3>11, <3>12, <3>13 DEF RunInstall
    <2>6. QED
      BY <2>2, <2>4, <2>5
  <1>4. QED
    BY <1>2, <1>3

-----------------------------------------------------------------------------
(* What happens besides installs.                                           *)

LEMMA InitInv == SetupInit => SetupInv
  <1> SUFFICES ASSUME SetupInit PROVE SetupInv
    OBVIOUS
  <1>1. SetupTypeOK
    BY InitTypes
  <1>2. /\ install = [i \in Installs |-> NoInstall] /\ record = NoRecord /\ raced = FALSE
        /\ \A f \in Files : disk[f].open = {} /\ disk[f].last = None
    BY DEF SetupInit, ToolchainInit, Fresh, Nothing
  <1>3. \A i \in Installs : /\ install[i].pc = "idle" /\ install[i].recorded = NoRecord
                             /\ install[i]["tmux"] = None /\ install[i]["ttyd"] = None
    BY <1>2 DEF NoInstall
  <1>4. EntriesAreCarried /\ FoundWorks /\ InstallDelivers
    BY <1>3 DEF EntriesAreCarried, FoundWorks, InstallDelivers, Fetching, Settled
  <1>5. OnlyCopiesWrite
    BY <1>2, StockIsApart DEF OnlyCopiesWrite
  <1>6. NamesAreKnown
    BY <1>2, <1>3 DEF NamesAreKnown, NoRecord, Names, Binaries
  <1>7. OneAtATime
    BY <1>3 DEF OneAtATime, Ends, Settled
  <1>8. record.ttyd = None
    BY <1>2 DEF NoRecord, Binaries
  <1>9. RecordedInstallRuns
    BY <1>8, InstalledIsNone DEF RecordedInstallRuns
  <1>10. QED
    BY <1>1, <1>4, <1>5, <1>6, <1>7, <1>9 DEF SetupInv

\* All that installs have found stays as it is under a step that leaves the stock alone.
LEMMA StillStockKeepsInv ==
    ASSUME SetupInv, SetupTypeOK', StockStays, UNCHANGED <<record, install, raced>>,
           disturbed \cap Installs \subseteq disturbed'
    PROVE  SetupInv'
  <1> USE DEF SetupInv
  <1>1. EntriesAreCarried' /\ NamesAreKnown'
    BY DEF EntriesAreCarried, NamesAreKnown
  <1>2. OnlyCopiesWrite'
    BY DEF OnlyCopiesWrite, StockStays, SameFile
  <1>3. /\ is_usable(Installed)' <=> is_usable(Installed)
        /\ exists(Installed)' <=> exists(Installed)
        /\ exists(Wheel)' <=> exists(Wheel)
    BY InstalledIsNone DEF StockStays, SameFile, is_usable, exists
  <1>4. OneAtATime' /\ RecordedInstallRuns'
    BY <1>3 DEF OneAtATime, RecordedInstallRuns
  <1>5. ASSUME NEW i \in Installs, i \notin disturbed'
        PROVE  LET c == install'[i] IN
               /\ TmuxIsNew /\ c.pc \in {"ttyd"} \cup Fetching \cup Settled /\ c.tmux # None
                     => WillRun(c.tmux)
               /\ c.pc \in Settled /\ c.ttyd # None => WillRun(c.ttyd)
               /\ c.pc = "report" => c.ttyd # None
               /\ TmuxIsNew /\ c.pc = "ok" => /\ record'.tmux # None /\ WillRun(record'.tmux)
                                              /\ record'.ttyd # None /\ WillRun(record'.ttyd)
    <2>1. \A f \in Stock : is_usable(f) => WillRun(f)
      BY DEF StockStays, SameFile, is_usable, WillRun
    <2>2. /\ install[i].tmux \in Stock \cup {None} /\ install[i].ttyd \in Stock \cup {None}
          /\ record.tmux \in Stock \cup {None} /\ record.ttyd \in Stock \cup {None}
      BY KnownNames DEF Stock
    <2>3. i \notin disturbed
      BY <1>5
    <2>4. QED
      BY <1>5, <2>1, <2>2, <2>3 DEF FoundWorks, InstallDelivers, Binaries
  <1>6. FoundWorks' /\ (TmuxIsNew => InstallDelivers')
    BY <1>5 DEF FoundWorks, InstallDelivers, Binaries, is_usable, WillRun, TmuxIsNew
  <1>7. QED
    BY <1>1, <1>2, <1>4, <1>6

LEMMA HostKeepsInv ==
    ASSUME SetupInv, HostStep
    PROVE  SetupInv'
  <1>1. ASSUME NEW h \in Hosts, RunHost(h) \/ Close(h) \/ HostKilled(h) PROVE SetupInv'
    <2>1. KeepsAway(h) /\ h \in Processes
      BY OthersKeepAway DEF SetupInv, Processes
    <2>2. Laid
      BY <1>1, <2>1, HostLeavesStock DEF SetupInv
    <2>3. /\ UNCHANGED <<record, install, raced>> /\ host' \in [Hosts -> Host]
          /\ disturbed' \in {disturbed, disturbed \ {h}} /\ crowded' \subseteq Hosts
          /\ mishaps' \in 0..MaxMishaps
      BY <1>1, HostMovesRest DEF SetupInv
    <2>4. disturbed' \subseteq Processes /\ disturbed \cap Installs \subseteq disturbed'
      BY <2>3, ToolchainAssumption DEF SetupInv, SetupTypeOK
    <2>5. SetupTypeOK'
      BY <2>2, <2>3, <2>4 DEF SetupInv, SetupTypeOK, Laid
    <2>6. QED
      BY <2>2, <2>3, <2>4, <2>5, StillStockKeepsInv DEF Laid
  <1>2. CASE WheelUpgrade
    <2>1. /\ UNCHANGED <<record, install, raced, crowded, host>> /\ disturbed' = Processes
          /\ mishaps' = mishaps + 1 /\ mishaps < MaxMishaps
      BY <1>2 DEF WheelUpgrade, Mishap
    <2>2. disk' \in [Files -> Inode]
      <3>1. ASSUME NEW f \in Files PROVE disk[f] \in Inode
        BY DEF SetupInv, SetupTypeOK
      <3>2. ASSUME NEW d \in Inode PROVE [d EXCEPT !.data = "stale"] \in Inode
        BY DEF Inode, Data
      <3>3. QED
        BY <1>2, <3>1, <3>2 DEF WheelUpgrade
    <2>3. ASSUME NEW f \in Stock PROVE disk'[f] = disk[f]
      <3>1. f \in Files /\ f \notin {Own, Attach}
        BY StockIsApart
      <3>2. QED
        BY <1>2, <3>1 DEF WheelUpgrade
    <2>4. StockStays
      BY <2>3 DEF StockStays, SameFile
    <2>5. mishaps' \in 0..MaxMishaps
      BY <2>1, ToolchainAssumption DEF SetupInv, SetupTypeOK
    <2>6. SetupTypeOK'
      BY <2>1, <2>2, <2>5 DEF SetupInv, SetupTypeOK
    <2>7. QED
      BY <2>1, <2>4, <2>6, StillStockKeepsInv DEF Processes
  <1>3. QED
    BY <1>1, <1>2 DEF HostStep

LEMMA MeddlingKeepsInv ==
    ASSUME SetupInv, UNCHANGED <<host, crowded>>,
           \/ \E b \in Binaries : Pin(b) \/ \E data \in {"bad", "good"} : Upgrade(b, data)
           \/ Remove
    PROVE  SetupInv'
  <1> USE DEF SetupInv
  <1>1. SetupTypeOK'
    BY MeddlingKeepsTypes
  <1>2. disturbed' = Processes /\ UNCHANGED <<install, raced>>
    BY DEF Pin, Upgrade, Remove
  <1>3. EntriesAreCarried' /\ FoundWorks' /\ InstallDelivers'
    BY <1>2 DEF EntriesAreCarried, FoundWorks, InstallDelivers, Processes
  <1>4. ASSUME UNCHANGED disk, NEW r \in [Binaries -> Paths \cup {None}], record' = r,
               \A b \in Binaries : r[b] \in {record[b], Mine[b], None}
        PROVE  SetupInv'
    <2>1. OnlyCopiesWrite'
      BY <1>2, <1>4 DEF OnlyCopiesWrite
    <2>2. NamesAreKnown'
      BY <1>2, <1>4 DEF NamesAreKnown, Names
    <2>3. record'.ttyd \in {record.ttyd, Mine.ttyd, None}
      BY <1>4, BinariesAre
    <2>4. OneAtATime' /\ RecordedInstallRuns'
      BY <1>2, <1>4, <2>3, InstalledIsNone
      DEF OneAtATime, RecordedInstallRuns, is_usable, exists
    <2>5. QED
      BY <1>1, <1>3, <2>1, <2>2, <2>4
  <1>5. ASSUME NEW b \in Binaries, Pin(b) PROVE SetupInv'
    <2> DEFINE r == [record EXCEPT ![b] = Mine[b]]
    <2>1. r \in [Binaries -> Paths \cup {None}] /\ record' = r /\ UNCHANGED disk
      BY <1>5 DEF Pin, SetupTypeOK, Record, Paths
    <2>2. \A a \in Binaries : r[a] \in {record[a], Mine[a], None}
      BY DEF SetupTypeOK, Record
    <2> HIDE DEF r
    <2>3. QED
      BY <1>4, <2>1, <2>2
  <1>6. CASE Remove
    <2>1. NoRecord \in [Binaries -> Paths \cup {None}] /\ \A b \in Binaries : NoRecord[b] = None
      BY DEF NoRecord
    <2>2. QED
      BY <1>4, <1>6, <2>1 DEF Remove
  <1>7. ASSUME NEW b \in Binaries, NEW data \in {"bad", "good"}, Upgrade(b, data) PROVE SetupInv'
    <2>1. disk' = [disk EXCEPT ![OnPath[b]] = Fresh(data)] /\ UNCHANGED record
      BY <1>7 DEF Upgrade
    <2>2. OnPath[b] \in Files /\ OnPath[b] # Installed /\ OnPath[b] # Wheel
      BY InstalledIsNone DEF Files, Paths, Binaries, OnPath, Wheel
    <2>3. /\ disk'[OnPath[b]].open = {} /\ disk'[OnPath[b]].last = None
          /\ \A g \in Files \ {OnPath[b]} : disk'[g] = disk[g]
      BY <2>1, <2>2, FreshFile
    <2>4. OnlyCopiesWrite'
      <3>1. SUFFICES ASSUME NEW f \in Stock
                     PROVE  /\ disk'[f].last \in disk'[f].open \cup {None}
                            /\ \A p \in disk'[f].open :
                                  f = Installed /\ p \in Installs /\ install'[p].pc = "copy"
        BY DEF OnlyCopiesWrite
      <3>2. QED
        BY <1>2, <2>3, StockIsApart DEF OnlyCopiesWrite
    <2>5. NamesAreKnown'
      BY <1>2, <2>1 DEF NamesAreKnown
    <2>6. OneAtATime' /\ RecordedInstallRuns'
      BY <1>2, <2>1, <2>2, <2>3, InstalledIsNone
      DEF OneAtATime, RecordedInstallRuns, is_usable, exists
    <2>7. QED
      BY <1>1, <1>3, <2>4, <2>5, <2>6
  <1>8. QED
    BY <1>5, <1>6, <1>7

LEMMA InstallKeepsInv ==
    ASSUME SetupInv, UNCHANGED <<host, crowded>>, NEW i \in Installs, RunInstall(i) \/ GoesDown(i)
    PROVE  SetupInv'
  <1> USE DEF SetupInv
  <1>1. SetupTypeOK'
    BY InstallKeepsTypes
  <1>2. EntriesAreCarried'
    BY StepKeepsEntries
  <1>3. OnlyCopiesWrite'
    BY StepKeepsWriters
  <1>4. NamesAreKnown'
    BY StepKeepsNames
  <1>5. OneAtATime' /\ RecordedInstallRuns'
    <2>1. CASE raced'
      BY <2>1 DEF OneAtATime, RecordedInstallRuns
    <2>2. CASE ~raced'
      BY <2>2, StepKeepsInstalled
    <2>3. QED
      BY <2>1, <2>2
  <1>6. FoundWorks' /\ (TmuxIsNew => InstallDelivers)'
    BY StepKeepsFound DEF TmuxIsNew
  <1>7. QED
    BY <1>1, <1>2, <1>3, <1>4, <1>5, <1>6

LEMMA StutterKeepsInv ==
    ASSUME SetupInv, UNCHANGED setupVars
    PROVE  SetupInv'
  <1> USE DEF SetupInv, setupVars, toolchainVars
  <1>1. SetupTypeOK'
    BY DEF SetupTypeOK
  <1>2. EntriesAreCarried' /\ NamesAreKnown'
    BY DEF EntriesAreCarried, NamesAreKnown
  <1>3. OnlyCopiesWrite'
    BY DEF OnlyCopiesWrite
  <1>4. OneAtATime' /\ RecordedInstallRuns'
    BY DEF OneAtATime, RecordedInstallRuns, is_usable, exists
  <1>5. FoundWorks' /\ (TmuxIsNew => InstallDelivers)'
    BY DEF FoundWorks, InstallDelivers, is_usable, TmuxIsNew
  <1>6. QED
    BY <1>1, <1>2, <1>3, <1>4, <1>5

LEMMA StepKeepsInv == SetupInv /\ [SetupNext]_setupVars => SetupInv'
  <1> SUFFICES ASSUME SetupInv, [SetupNext]_setupVars PROVE SetupInv'
    OBVIOUS
  <1>1. ASSUME NEW i \in Installs, RunInstall(i) \/ GoesDown(i), UNCHANGED <<host, crowded>>
        PROVE  SetupInv'
    BY <1>1, InstallKeepsInv
  <1>2. CASE /\ UNCHANGED <<host, crowded>>
             /\ \/ \E b \in Binaries : Pin(b) \/ \E data \in {"bad", "good"} : Upgrade(b, data)
                \/ Remove
    BY <1>2, MeddlingKeepsInv
  <1>3. CASE HostStep
    BY <1>3, HostKeepsInv
  <1>4. CASE UNCHANGED setupVars
    BY <1>4, StutterKeepsInv
  <1>5. QED
    BY <1>1, <1>2, <1>3, <1>4, KilledOrBroken DEF SetupNext, ToolchainNext, HostStep

-----------------------------------------------------------------------------
(* What one step may not do.                                                *)

\* Only a step of the install itself moves it.
LEMMA OnlyItsStep ==
    ASSUME SetupInv, [SetupNext]_setupVars, NEW i \in Installs, install'[i] # install[i]
    PROVE  RunInstall(i) \/ GoesDown(i)
  <1>1. ASSUME NEW j \in Installs, RunInstall(j) \/ GoesDown(j) PROVE i = j
    BY <1>1, InstallsMoveAlone DEF OnlyMoves, SetupInv
  <1>2. ASSUME NEW h \in Hosts, RunHost(h) \/ Close(h) \/ HostKilled(h) PROVE UNCHANGED install
    BY <1>2, HostMovesRest DEF SetupInv
  <1>3. ASSUME NEW b \in Binaries, Pin(b) PROVE UNCHANGED install
    BY <1>3 DEF Pin
  <1>4. ASSUME NEW b \in Binaries, NEW data \in {"bad", "good"}, Upgrade(b, data)
        PROVE  UNCHANGED install
    BY <1>4 DEF Upgrade
  <1>5. Remove \/ WheelUpgrade \/ UNCHANGED setupVars => UNCHANGED install
    BY DEF Remove, WheelUpgrade, setupVars, toolchainVars
  <1>6. QED
    BY <1>1, <1>2, <1>3, <1>4, <1>5, KilledOrBroken DEF SetupNext, ToolchainNext

LEMMA WriteKeepsEntries ==
    ASSUME SetupInv, [SetupNext]_setupVars, NEW i \in Installs, NEW b \in Binaries,
           install[i].pc = "write", install'[i].pc # "write",
           record[b] # None, install[i].recorded[b] = record[b]
    PROVE  record'[b] = record[b]
  <1>1. RunInstall(i) \/ GoesDown(i)
    BY OnlyItsStep
  <1>2. Write(i) \/ GoesDown(i)
    BY <1>1 DEF RunInstall, Begin, CheckTmux, PackageManager, NoPackageManager, CheckTtyd, Download,
       DownloadFails, CheckDownload, Check, CopyBundled, BundledCopied, CheckBundled, ReportTtyd, At, Ends
  <1>3. record' = record \/ record' = [a \in Binaries |-> install[i][a]]
    BY <1>2 DEF Write, GoesDown, StopsShort
  <1>4. install[i][b] = install[i].recorded[b]
    BY DEF SetupInv, EntriesAreCarried, Binaries, Settled
  <1>5. QED
    BY <1>3, <1>4

LEMMA RaisesForAReason ==
    ASSUME SetupInv, [SetupNext]_setupVars, NEW i \in Installs,
           install[i].pc # "raised", install'[i].pc = "raised"
    PROVE  \/ raced
           \/ install[i].pc = "bundled" /\ Busy(Installed)
           \/ install[i].pc = "report" /\ i \in disturbed
  <1>1. RunInstall(i) \/ GoesDown(i)
    BY OnlyItsStep
  <1> USE DEF SetupInv, SetupTypeOK, Install
  <1>2. ASSUME NEW pc, pc # "raised", Goto(i, pc) PROVE FALSE
    BY <1>2 DEF Goto
  <1>3. ASSUME NEW b \in Binaries, NEW f, NEW pc, pc # "raised", Found(i, b, f, pc) PROVE FALSE
    BY <1>3 DEF Found, Binaries
  <1>4. ASSUME NEW end, end # "raised", Exit(i, end) PROVE FALSE
    BY <1>4 DEF Exit, NoInstall
  <1>5. raced \/ (install[i].pc \in {"check", "copy", "check copy"} => exists(Installed))
    BY DEF OneAtATime
  <1>6. ~Begin(i)
    BY DEF Begin, NoInstall
  <1>7. ~CheckTmux(i) /\ ~CheckTtyd(i)
    BY <1>2, <1>3, <1>4, BinariesAre DEF CheckTmux, CheckTtyd
  <1>8. ~PackageManager(i) /\ ~NoPackageManager(i) /\ ~Download(i) /\ ~DownloadFails(i)
    BY <1>2, <1>3, BinariesAre DEF PackageManager, NoPackageManager, Download, DownloadFails
  <1>9. ~Write(i) /\ ~GoesDown(i)
    BY <1>4 DEF Write, GoesDown, StopsShort
  <1>10. CASE CheckDownload(i) \/ CheckBundled(i)
    BY <1>2, <1>3, <1>5, <1>10, BinariesAre DEF CheckDownload, CheckBundled, Check, At
  <1>11. CASE CopyBundled(i)
    BY <1>2, <1>11 DEF CopyBundled, At
  <1>12. CASE BundledCopied(i)
    BY <1>2, <1>5, <1>12 DEF BundledCopied, At
  <1>13. CASE ReportTtyd(i)
    <2>1. install[i].pc = "report" /\ ~is_usable(install[i].ttyd)
      BY <1>2, <1>13 DEF ReportTtyd, At
    <2>2. i \in disturbed
      BY <2>1 DEF FoundWorks, Settled
    <2>3. QED
      BY <2>1, <2>2
  <1>14. QED
    BY <1>1, <1>6, <1>7, <1>8, <1>9, <1>10, <1>11, <1>12, <1>13 DEF RunInstall

-----------------------------------------------------------------------------
(* The state directory: the inductive invariant of its constructors.        *)

Directory == {Own, Attach, Conf, ConfTmp}

\* Where a constructor is while it has a file of the directory open.
WritingAt(f) == IF f = Own THEN "copying ttyd"
                ELSE IF f = Attach THEN "copying attach" ELSE "write conf"

\* Two constructors that are under way know that they are crowded.
OverlapsAreSeen ==
    \A g, h \in Hosts : g # h /\ Constructing(g) /\ Constructing(h) => h \in crowded

\* Only a constructor at the step that fills it has a file of the directory open, who has
\* emptied it is among them, and a file that is partly written has such a writer.
OnlyConstructorsWrite ==
    \A f \in Directory :
        /\ disk[f].last \in disk[f].open \cup {None}
        /\ \A p \in disk[f].open : p \in Hosts /\ HostAt(p, WritingAt(f))
        /\ disk[f].data = "part" => disk[f].last # None

\* A ttyd runs for a host that is up.
OnlyTheUpRun == \A h \in Hosts : Runs(h) => HostAt(h, "up")

\* Nobody writes the wheel, and the attach script comes from nowhere else.
WheelStays ==
    /\ disk[Wheel].data \in {"none", "bad", "good"}
    /\ disk[Attach].data # "bad"
    /\ \A h \in Hosts : host[h].pc \in {"copy ttyd", "copying ttyd"} => exists(Wheel)

\* The ttyd that a constructor has found runs, or is the copy in the directory, and complete.
Fit(h) == \/ host[h].bin = Own /\ disk[Own].data \notin {"none", "part"}
          \/ host[h].bin \in Stock /\ is_usable(host[h].bin)

\* What a constructor that met no other one can rely on: it fills the files it has opened, and
\* what it has laid out, or found in order, stays so.  The last two also need that nobody
\* changed a binary or the wheel since.
InOrder(h) ==
    /\ HostAt(h, "write conf") => disk[ConfTmp].last = h
    /\ HostAt(h, "replace conf") => disk[ConfTmp].data = "good"
    /\ host[h].pc \in {"find ttyd", "copy ttyd", "copying ttyd", "attach", "copying attach",
                       "ensure"}
          => disk[Conf].data = "good"
    /\ HostAt(h, "copying ttyd") => disk[Own].last = h
    /\ HostAt(h, "copying attach") => disk[Attach].last = h
    /\ HostAt(h, "ensure") /\ h \notin disturbed => disk[Attach].data \in {"good", "cut"}
    /\ host[h].pc \in {"attach", "copying attach", "ensure"} /\ h \notin disturbed
          => Fit(h)
AloneIsInOrder == \A h \in Hosts \ crowded : InOrder(h)

DirectoryInv == /\ OverlapsAreSeen /\ OnlyConstructorsWrite /\ OnlyTheUpRun /\ WheelStays
                /\ AloneIsInOrder

-----------------------------------------------------------------------------
(* What the others leave alone.                                             *)

DirectoryStays == \A f \in Directory : SameFile(f)
NobodyStarts == \A h \in Hosts : Runs(h)' => Runs(h)

\* Four files, none of which an install looks at, and neither of them the wheel.
LEMMA DirectoryNames ==
    /\ Directory \subseteq Files
    /\ \A f \in Directory : f \notin Stock
    /\ Own # Attach /\ Own # Conf /\ Own # ConfTmp
    /\ Attach # Conf /\ Attach # ConfTmp /\ Conf # ConfTmp
    /\ Own \in Directory /\ Attach \in Directory /\ Conf \in Directory /\ ConfTmp \in Directory
    /\ Wheel \in Stock
  BY StockIsApart DEF Directory, Stock, Own, Attach, Conf, ConfTmp

\* The end of a process that has no file of a set open changes none of them.
LEMMA WithoutKeepsOthers ==
    ASSUME SetupTypeOK, NEW p \in Processes, NEW f \in Files, disk' = Without(p),
           p \notin disk[f].open, disk[f].last # p
    PROVE  SameFile(f)
  <1>1. disk[f] \in Inode
    BY DEF SetupTypeOK
  <1>2. /\ disk'[f].open = disk[f].open \ {p}
        /\ disk'[f].data = disk[f].data
        /\ disk'[f].last = disk[f].last
    BY <1>1 DEF Without, Inode
  <1>3. disk[f].open \ {p} = disk[f].open
    OBVIOUS
  <1>4. QED
    BY <1>2, <1>3 DEF SameFile

LEMMA WithoutStartsNobody ==
    ASSUME SetupTypeOK, NEW p \in Processes, disk' = Without(p)
    PROVE  NobodyStarts /\ \A f \in Files : p \notin disk'[f].run
  <1>1. ASSUME NEW f \in Files PROVE disk'[f].run = disk[f].run \ {p}
    BY DEF Without, SetupTypeOK, Inode
  <1>2. QED
    BY <1>1 DEF NobodyStarts, Runs

\* Whoever opens and fills one file outside the directory leaves the directory alone.
LEMMA InstallLeavesDirectory ==
    ASSUME SetupTypeOK, OnlyCopiesWrite, OnlyConstructorsWrite,
           NEW i \in Installs, RunInstall(i) \/ GoesDown(i)
    PROVE  DirectoryStays /\ NobodyStarts /\ disk'[Wheel].data = disk[Wheel].data
  <1>1. i \in Processes /\ i \notin Hosts /\ i # None
    BY ToolchainAssumption DEF Processes
  <1>2. ASSUME NEW f \in {OnPath.tmux, Installed},
               \A g \in Files \ {f} : disk'[g] = disk[g], disk'[f].run \subseteq disk[f].run
        PROVE  DirectoryStays /\ NobodyStarts /\ disk'[Wheel].data = disk[Wheel].data
    <2>1. f \in Stock /\ f # Wheel
      BY InstalledIsNone DEF Stock
    <2>2. QED
      BY <1>2, <2>1, DirectoryNames, InstalledIsNone
      DEF DirectoryStays, SameFile, NobodyStarts, Runs
  <1>3. ASSUME NEW f \in {OnPath.tmux, Installed}, NEW data,
               disk' = [disk EXCEPT ![f] = Fresh(data)]
        PROVE  DirectoryStays /\ NobodyStarts /\ disk'[Wheel].data = disk[Wheel].data
    BY <1>2, <1>3, InstalledIsNone DEF SetupTypeOK, Fresh
  <1>4. ASSUME NEW data, disk' \in {Opened(i, Installed), Written(i, Installed, data)}
        PROVE  DirectoryStays /\ NobodyStarts /\ disk'[Wheel].data = disk[Wheel].data
    <2>1. disk[Installed] \in Inode
      BY InstalledIsNone DEF SetupTypeOK
    <2>2. /\ \A g \in Files \ {Installed} : disk'[g] = disk[g]
          /\ disk'[Installed].run = disk[Installed].run
      <3>1. CASE disk' = Opened(i, Installed)
        BY <2>1, <3>1, InstalledIsNone DEF SetupTypeOK, Inode, Opened
      <3>2. CASE disk' = Written(i, Installed, data)
        BY <2>1, <3>2, InstalledIsNone DEF SetupTypeOK, Inode, Written
      <3>3. QED
        BY <1>4, <3>1, <3>2
    <2>3. QED
      BY <1>2, <2>2
  <1>5. disk' = disk => DirectoryStays /\ NobodyStarts /\ disk'[Wheel].data = disk[Wheel].data
    BY DEF DirectoryStays, SameFile, NobodyStarts, Runs
  <1>6. CASE RunInstall(i)
    <2>1. CASE \/ Begin(i) \/ CheckTmux(i) \/ NoPackageManager(i)
               \/ CheckTtyd(i) \/ DownloadFails(i) \/ ReportTtyd(i) \/ Write(i)
      BY <1>5, <2>1
      DEF Begin, CheckTmux, NoPackageManager, CheckTtyd, DownloadFails, ReportTtyd, Write
    <2>2. CASE PackageManager(i) \/ Download(i)
      BY <1>3, <2>2 DEF PackageManager, Download
    <2>3. CASE CheckDownload(i) \/ CheckBundled(i)
      BY <1>3, <1>5, <2>3 DEF CheckDownload, CheckBundled, Check, Nothing
    <2>4. CASE CopyBundled(i)
      BY <1>4, <1>5, <2>4 DEF CopyBundled
    <2>5. CASE BundledCopied(i)
      <3>1. disk' = Written(i, Installed, disk[Wheel].data)
        BY <2>5 DEF BundledCopied
      <3>2. QED
        BY <1>4, <3>1
    <2>6. QED
      BY <1>6, <2>1, <2>2, <2>3, <2>4, <2>5 DEF RunInstall
  <1>7. CASE GoesDown(i)
    <2>1. disk' = Without(i)
      BY <1>7 DEF GoesDown, StopsShort
    <2>2. \A f \in Directory \cup {Wheel} : i \notin disk[f].open /\ disk[f].last # i
      BY <1>1, DirectoryNames, InstalledIsNone DEF OnlyCopiesWrite, OnlyConstructorsWrite
    <2>3. \A f \in Directory \cup {Wheel} : SameFile(f)
      BY <1>1, <2>1, <2>2, WithoutKeepsOthers, DirectoryNames, InstalledIsNone
    <2>4. QED
      BY <1>1, <2>1, <2>3, WithoutStartsNobody DEF DirectoryStays, SameFile
  <1>8. QED
    BY <1>6, <1>7

\* Nor does whoever pins, upgrades or removes a binary.
LEMMA MeddlingLeavesDirectory ==
    ASSUME SetupTypeOK,
           \/ \E b \in Binaries : Pin(b) \/ \E data \in {"bad", "good"} : Upgrade(b, data)
           \/ Remove
    PROVE  DirectoryStays /\ NobodyStarts /\ disk'[Wheel].data = disk[Wheel].data
  <1>1. disk' = disk => DirectoryStays /\ NobodyStarts /\ disk'[Wheel].data = disk[Wheel].data
    BY DEF DirectoryStays, SameFile, NobodyStarts, Runs
  <1>2. ASSUME NEW b \in Binaries, NEW data \in {"bad", "good"}, Upgrade(b, data)
        PROVE  DirectoryStays /\ NobodyStarts /\ disk'[Wheel].data = disk[Wheel].data
    <2>1. OnPath[b] \in Stock /\ OnPath[b] \in Files /\ OnPath[b] # Wheel
      BY DEF Stock, Files, Paths, Binaries, OnPath, Wheel
    <2>2. /\ disk'[OnPath[b]].run = {}
          /\ \A g \in Files \ {OnPath[b]} : disk'[g] = disk[g]
      BY <1>2, <2>1 DEF Upgrade, SetupTypeOK, Fresh
    <2>3. QED
      BY <2>1, <2>2, DirectoryNames, InstalledIsNone
      DEF DirectoryStays, SameFile, NobodyStarts, Runs
  <1>3. QED
    BY <1>1, <1>2 DEF Pin, Remove

-----------------------------------------------------------------------------
(* Steps of a constructor.                                                  *)

LEMMA HostsMoveAlone ==
    ASSUME SetupTypeOK, NEW h \in Hosts, RunHost(h) \/ Close(h) \/ HostKilled(h)
    PROVE  \A g \in Hosts \ {h} : host'[g] = host[g]
  BY DEF SetupTypeOK, RunHost, Construct, FindTmux, OpenConf, WriteConf, ReplaceConf, FindTtyd,
         CopyTtyd, TtydCopied, AttachScript, AttachCopied, Ensure, Close, HostKilled, HostGoto,
         Raises

LEMMA HostFields ==
    ASSUME SetupTypeOK, NEW h \in Hosts
    PROVE  /\ \A pc : HostGoto(h, pc) => host'[h].pc = pc /\ host'[h].bin = host[h].bin
           /\ Raises(h) => host'[h].pc = "raised"
  BY ZenonT(40) DEF SetupTypeOK, HostGoto, Raises, Host, NoHost

\* Where each step of a constructor leads.
LEMMA WhereTo ==
    ASSUME SetupTypeOK, NEW h \in Hosts
    PROVE  /\ Construct(h) => host'[h].pc = "find tmux"
           /\ FindTmux(h) => host'[h].pc \in {"open conf", "raised"}
           /\ OpenConf(h) => host'[h].pc = "write conf"
           /\ WriteConf(h) => host'[h].pc = "replace conf"
           /\ ReplaceConf(h) => host'[h].pc = IF exists(ConfTmp) THEN "find ttyd" ELSE "raised"
           /\ FindTtyd(h) =>
                 \/ host'[h].pc = "raised"
                 \/ host'[h].pc = "copy ttyd" /\ exists(Wheel)
                 \/ /\ host'[h].pc = "attach" /\ is_usable(host'[h].bin)
                    /\ \/ host'[h].bin = record.ttyd /\ record.ttyd # None
                       \/ host'[h].bin = OnPath.ttyd
           /\ CopyTtyd(h) =>
                 \/ host'[h].pc \in {"attach", "copying ttyd"}
                 \/ host'[h].pc = "raised" /\ Busy(Own)
           /\ TtydCopied(h) => host'[h].pc = "attach"
           /\ AttachScript(h) => host'[h].pc \in {"ensure", "copying attach"}
           /\ AttachCopied(h) => host'[h].pc = "ensure"
           /\ Ensure(h) =>
                 \/ host'[h].pc = "up"
                 \/ host'[h].pc = "raised" /\ ~is_usable(host[h].bin)
           /\ Close(h) \/ HostKilled(h) => host'[h].pc = "idle"
  <1>1. ASSUME NEW pc, HostGoto(h, pc) PROVE host'[h].pc = pc
    BY <1>1, HostFields
  <1>2. Raises(h) => host'[h].pc = "raised"
    BY HostFields
  <1>3. Construct(h) => host'[h].pc = "find tmux"
    BY DEF Construct, NoHost, SetupTypeOK
  <1>4. FindTmux(h) => host'[h].pc \in {"open conf", "raised"}
    BY <1>1, <1>2 DEF FindTmux
  <1>5. /\ OpenConf(h) => host'[h].pc = "write conf"
        /\ WriteConf(h) => host'[h].pc = "replace conf"
        /\ AttachCopied(h) => host'[h].pc = "ensure"
    BY <1>1 DEF OpenConf, WriteConf, AttachCopied
  <1>6. ReplaceConf(h) => host'[h].pc = IF exists(ConfTmp) THEN "find ttyd" ELSE "raised"
    BY <1>1, <1>2 DEF ReplaceConf
  <1>7. ASSUME NEW f, host' = [host EXCEPT ![h] = [pc |-> "attach", bin |-> f]]
        PROVE  host'[h].pc = "attach" /\ host'[h].bin = f
    BY <1>7 DEF SetupTypeOK
  <1>8. FindTtyd(h) =>
            \/ host'[h].pc = "raised"
            \/ host'[h].pc = "copy ttyd" /\ exists(Wheel)
            \/ /\ host'[h].pc = "attach" /\ is_usable(host'[h].bin)
               /\ \/ host'[h].bin = record.ttyd /\ record.ttyd # None
                  \/ host'[h].bin = OnPath.ttyd
    <2>1. ASSUME record.ttyd = None, is_usable(OnPath.ttyd),
                 host' = [host EXCEPT ![h] = [pc |-> "attach", bin |-> OnPath.ttyd]]
          PROVE  /\ host'[h].pc = "attach" /\ is_usable(host'[h].bin)
                 /\ host'[h].bin = OnPath.ttyd
      BY <1>7, <2>1
    <2>2. QED
      BY <1>1, <1>2, <1>7, <2>1 DEF FindTtyd
  <1>9. /\ CopyTtyd(h) =>
              \/ host'[h].pc \in {"attach", "copying ttyd"}
              \/ host'[h].pc = "raised" /\ Busy(Own)
        /\ TtydCopied(h) => host'[h].pc = "attach"
    BY <1>1, <1>2, <1>7 DEF CopyTtyd, TtydCopied
  <1>10. AttachScript(h) => host'[h].pc \in {"ensure", "copying attach"}
    BY <1>1 DEF AttachScript
  <1>11. Ensure(h) =>
             \/ host'[h].pc = "up"
             \/ host'[h].pc = "raised" /\ ~is_usable(host[h].bin)
    <2>1. Ensure(h) => HostGoto(h, "up") \/ (Raises(h) /\ ~is_usable(host[h].bin))
      BY DEF Ensure
    <2>2. QED
      BY <1>1, <1>2, <2>1
  <1>12. Close(h) \/ HostKilled(h) => host'[h].pc = "idle"
    BY DEF Close, HostKilled, NoHost, SetupTypeOK
  <1>13. QED
    BY <1>3, <1>4, <1>5, <1>6, <1>8, <1>9, <1>10, <1>11, <1>12

\* What every step of a constructor but the first one leaves as it is, and where it goes.
LEMMA UnderWay ==
    ASSUME SetupTypeOK, NEW h \in Hosts, RunHost(h) \/ Close(h) \/ HostKilled(h), ~Construct(h)
    PROVE  /\ UNCHANGED <<crowded, disturbed>>
           /\ Constructing(h) \/ Close(h)
           /\ \A g \in Hosts : Constructing(g)' => Constructing(g)
  <1>1. UNCHANGED <<crowded, disturbed>>
    BY DEF RunHost, FindTmux, OpenConf, WriteConf, ReplaceConf, FindTtyd, CopyTtyd, TtydCopied,
           AttachScript, AttachCopied, Ensure, Close, HostKilled, elsewhere
  <1>2. Constructing(h) \/ Close(h)
    BY DEF RunHost, FindTmux, OpenConf, WriteConf, ReplaceConf, FindTtyd, CopyTtyd, TtydCopied,
           AttachScript, AttachCopied, Ensure, HostKilled, HostAt, Constructing, Resting
  <1>3. Close(h) => ~Constructing(h)'
    BY DEF Close, SetupTypeOK, NoHost, Constructing, Resting
  <1>4. QED
    BY <1>1, <1>2, <1>3, HostsMoveAlone DEF Constructing

\* A constructor that begins beside others marks them and itself.
LEMMA HostKeepsOverlaps ==
    ASSUME SetupTypeOK, OverlapsAreSeen, NEW h \in Hosts,
           RunHost(h) \/ Close(h) \/ HostKilled(h)
    PROVE  OverlapsAreSeen'
  <1>1. CASE Construct(h)
    <2> DEFINE others == {g \in Hosts \ {h} : Constructing(g)}
    <2>1. crowded' = (crowded \ {h}) \cup others \cup (IF others = {} THEN {} ELSE {h})
      BY <1>1 DEF Construct
    <2>2. \A g \in Hosts \ {h} : Constructing(g)' <=> Constructing(g)
      BY HostsMoveAlone DEF Constructing
    <2>3. QED
      BY <2>1, <2>2 DEF OverlapsAreSeen
  <1>2. CASE ~Construct(h)
    BY <1>2, UnderWay DEF OverlapsAreSeen
  <1>3. QED
    BY <1>1, <1>2

\* It opens a file as it goes to the step that fills it, and lets go of it there or as it dies.
LEMMA HostKeepsWriters ==
    ASSUME SetupTypeOK, OnlyConstructorsWrite, WheelStays, NEW h \in Hosts,
           RunHost(h) \/ Close(h) \/ HostKilled(h)
    PROVE  OnlyConstructorsWrite'
  <1> DEFINE Good(f) == /\ disk'[f].last \in disk'[f].open \cup {None}
                        /\ \A p \in disk'[f].open : p \in Hosts /\ host'[p].pc = WritingAt(f)
                        /\ disk'[f].data = "part" => disk'[f].last # None
  <1>1. SUFFICES ASSUME NEW f \in Directory PROVE Good(f)
    BY DEF OnlyConstructorsWrite, HostAt
  <1>2. /\ f \in Files /\ disk[f] \in Inode /\ h \in Processes /\ h # None
        /\ f \in {Own, Attach, Conf, ConfTmp}
        /\ disk[f].last \in disk[f].open \cup {None}
        /\ \A p \in disk[f].open : p \in Hosts /\ host[p].pc = WritingAt(f)
        /\ disk[f].data = "part" => disk[f].last # None
    BY DirectoryNames, ToolchainAssumption
    DEF OnlyConstructorsWrite, HostAt, SetupTypeOK, Processes, Directory
  <1>3. \A p \in Hosts \ {h} : host'[p] = host[p]
    BY HostsMoveAlone
  <1>4. ASSUME disk'[f] = disk[f], host[h].pc # WritingAt(f) PROVE Good(f)
    BY <1>2, <1>3, <1>4
  <1>5. ASSUME disk' = Opened(h, f), host[h].pc # WritingAt(f), host'[h].pc = WritingAt(f)
        PROVE  Good(f)
    BY <1>2, <1>3, <1>5 DEF Opened, SetupTypeOK, Inode
  <1>6. ASSUME NEW data \in Data \ {"part"}, disk' = Written(h, f, data) PROVE Good(f)
    <2>1. /\ disk'[f].open = disk[f].open \ {h}
          /\ disk'[f].last = IF disk[f].last = h THEN None ELSE disk[f].last
          /\ disk'[f].data = IF disk[f].last = h THEN data ELSE disk[f].data
      BY <1>2, <1>6 DEF Written, SetupTypeOK, Inode
    <2>2. QED
      BY <1>2, <1>3, <1>6, <2>1
  <1>7. ASSUME NEW g \in Directory, g # f, NEW data, host[h].pc # WritingAt(f),
               disk' \in {Opened(h, g), Written(h, g, data)}
        PROVE  Good(f)
    <2>1. disk'[f] = disk[f]
      BY <1>2, <1>7 DEF Opened, Written, SetupTypeOK
    <2>2. QED
      BY <1>4, <1>7, <2>1
  <1>8. CASE Construct(h) \/ FindTmux(h) \/ FindTtyd(h)
    BY <1>4, <1>8 DEF Construct, FindTmux, FindTtyd, HostAt, Resting, WritingAt
  <1>9. CASE OpenConf(h)
    <2>1. host[h].pc = "open conf" /\ disk' = Opened(h, ConfTmp) /\ host'[h].pc = "write conf"
      BY <1>9, HostFields DEF OpenConf, HostAt
    <2>2. CASE f = ConfTmp
      BY <1>5, <2>1, <2>2, DirectoryNames DEF WritingAt
    <2>3. CASE f # ConfTmp
      BY <1>7, <2>1, <2>3, DirectoryNames DEF WritingAt
    <2>4. QED
      BY <2>2, <2>3
  <1>10. CASE WriteConf(h)
    <2>1. CASE h \in disk[f].open
      <3>1. /\ disk'[f].open = disk[f].open \ {h} /\ disk'[f].data = "good"
            /\ disk'[f].last = IF disk[f].last = h THEN None ELSE disk[f].last
        BY <1>2, <1>10, <2>1 DEF WriteConf, Inode
      <3>2. QED
        BY <1>2, <1>3, <3>1
    <2>2. CASE h \notin disk[f].open
      <3>1. disk'[f] = disk[f]
        BY <1>2, <1>10, <2>2 DEF WriteConf
      <3>2. QED
        BY <1>2, <1>3, <2>2, <3>1
    <2>3. QED
      BY <2>1, <2>2
  <1>11. CASE ReplaceConf(h)
    <2>1. host[h].pc = "replace conf"
      BY <1>11 DEF ReplaceConf, HostAt
    <2>2. host[h].pc # WritingAt(f) /\ host[h].pc # WritingAt(ConfTmp)
      BY <2>1 DEF WritingAt
    <2>3. CASE disk' = disk
      BY <1>4, <2>2, <2>3
    <2>4. CASE disk' = [disk EXCEPT ![Conf] = disk[ConfTmp], ![ConfTmp] = Nothing]
      <3>1. CASE f = ConfTmp
        BY <1>2, <2>4, <3>1, DirectoryNames DEF SetupTypeOK, Nothing, Fresh
      <3>2. CASE f = Conf
        <4>1. disk'[f] = disk[ConfTmp] /\ WritingAt(f) = WritingAt(ConfTmp)
          BY <1>2, <2>4, <3>2, DirectoryNames DEF SetupTypeOK, WritingAt
        <4>2. /\ disk[ConfTmp].last \in disk[ConfTmp].open \cup {None}
              /\ \A p \in disk[ConfTmp].open : p \in Hosts /\ host[p].pc = WritingAt(ConfTmp)
              /\ disk[ConfTmp].data = "part" => disk[ConfTmp].last # None
          BY DirectoryNames DEF OnlyConstructorsWrite, HostAt
        <4>3. QED
          BY <1>3, <2>2, <4>1, <4>2
      <3>3. CASE f \notin {Conf, ConfTmp}
        BY <1>2, <1>4, <2>2, <2>4, <3>3 DEF SetupTypeOK
      <3>4. QED
        BY <3>1, <3>2, <3>3
    <2>5. QED
      BY <1>11, <2>3, <2>4 DEF ReplaceConf
  <1>12. CASE CopyTtyd(h)
    <2>1. host[h].pc = "copy ttyd" /\ host[h].pc # WritingAt(f)
      BY <1>12 DEF CopyTtyd, HostAt, WritingAt
    <2>2. CASE disk' = disk
      BY <1>4, <2>1, <2>2
    <2>3. CASE disk' = Opened(h, Own) /\ HostGoto(h, "copying ttyd")
      <3>1. host'[h].pc = "copying ttyd"
        BY <2>3, HostFields
      <3>2. CASE f = Own
        BY <1>5, <2>1, <2>3, <3>1, <3>2 DEF WritingAt
      <3>3. CASE f # Own
        BY <1>7, <2>1, <2>3, <3>3, DirectoryNames
      <3>4. QED
        BY <3>2, <3>3
    <2>4. QED
      BY <1>12, <2>2, <2>3 DEF CopyTtyd
  <1>13. CASE TtydCopied(h)
    <2>1. host[h].pc = "copying ttyd" /\ disk' = Written(h, Own, disk[Wheel].data)
      BY <1>13 DEF TtydCopied, HostAt
    <2>2. CASE f = Own
      <3>1. disk[Wheel].data \in Data \ {"part"}
        BY DEF WheelStays, Data
      <3>2. QED
        BY <1>6, <2>1, <2>2, <3>1
    <2>3. CASE f # Own
      BY <1>7, <2>1, <2>3, DirectoryNames DEF WritingAt
    <2>4. QED
      BY <2>2, <2>3
  <1>14. CASE AttachScript(h)
    <2>1. host[h].pc = "attach" /\ host[h].pc # WritingAt(f)
      BY <1>14 DEF AttachScript, HostAt, WritingAt
    <2>2. CASE disk' = disk
      BY <1>4, <2>1, <2>2
    <2>3. CASE disk' = Opened(h, Attach) /\ HostGoto(h, "copying attach")
      <3>1. host'[h].pc = "copying attach"
        BY <2>3, HostFields
      <3>2. CASE f = Attach
        BY <1>5, <2>1, <2>3, <3>1, <3>2, DirectoryNames DEF WritingAt
      <3>3. CASE f # Attach
        BY <1>7, <2>1, <2>3, <3>3, DirectoryNames
      <3>4. QED
        BY <3>2, <3>3
    <2>4. QED
      BY <1>14, <2>2, <2>3 DEF AttachScript
  <1>15. CASE AttachCopied(h)
    <2>1. host[h].pc = "copying attach" /\ disk' = Written(h, Attach, "good")
      BY <1>15 DEF AttachCopied, HostAt
    <2>2. CASE f = Attach
      BY <1>6, <2>1, <2>2 DEF Data
    <2>3. CASE f # Attach
      BY <1>7, <2>1, <2>3, DirectoryNames DEF WritingAt
    <2>4. QED
      BY <2>2, <2>3
  <1>16. CASE Ensure(h)
    <2>1. host[h].pc = "ensure" /\ host[h].pc # WritingAt(f)
      BY <1>16 DEF Ensure, HostAt, WritingAt
    <2>2. SameFile(f)
      BY <1>2, <1>16 DEF Ensure, SameFile, SetupTypeOK, Inode
    <2>3. QED
      BY <1>2, <1>3, <2>1, <2>2 DEF SameFile
  <1>17. CASE Close(h) \/ HostKilled(h)
    <2>1. disk' = Without(h)
      BY <1>17 DEF Close, HostKilled
    <2>2. /\ disk'[f].open = disk[f].open \ {h}
          /\ disk'[f].last = IF disk[f].last = h THEN None ELSE disk[f].last
          /\ disk'[f].data = IF disk[f].last = h THEN "cut" ELSE disk[f].data
      BY <1>2, <2>1 DEF Without, Inode
    <2>3. QED
      BY <1>2, <1>3, <2>2
  <1>18. QED
    BY <1>8, <1>9, <1>10, <1>11, <1>12, <1>13, <1>14, <1>15, <1>16, <1>17 DEF RunHost

\* A ttyd starts with the last step of a constructor, and ends with its close or its death.
LEMMA HostKeepsRunners ==
    ASSUME SetupTypeOK, OnlyTheUpRun, NEW h \in Hosts,
           RunHost(h) \/ Close(h) \/ HostKilled(h)
    PROVE  OnlyTheUpRun'
  <1> DEFINE RunBy(f) == disk'[f].run
  <1>1. \A g \in Hosts : \A f \in Files : g \in disk[f].run => host[g].pc = "up"
    BY DEF OnlyTheUpRun, Runs, HostAt
  <1>2. \A g \in Hosts \ {h} : host'[g] = host[g]
    BY HostsMoveAlone
  <1>3. SUFFICES \A g \in Hosts : \A f \in Files : g \in RunBy(f) => host'[g].pc = "up"
    BY DEF OnlyTheUpRun, Runs, HostAt
  <1>4. ASSUME host[h].pc # "up",
               \A f \in Files : RunBy(f) \subseteq UNION {disk[e].run : e \in Files}
        PROVE  \A g \in Hosts : \A f \in Files : g \in RunBy(f) => host'[g].pc = "up"
    BY <1>1, <1>2, <1>4
  <1>5. CASE \/ Construct(h) \/ FindTmux(h) \/ OpenConf(h) \/ WriteConf(h) \/ ReplaceConf(h)
             \/ FindTtyd(h) \/ CopyTtyd(h) \/ TtydCopied(h) \/ AttachScript(h)
             \/ AttachCopied(h)
    <2>1. host[h].pc # "up"
      BY <1>5 DEF Construct, FindTmux, OpenConf, WriteConf, ReplaceConf, FindTtyd, CopyTtyd,
         TtydCopied, AttachScript, AttachCopied, HostAt
    <2>2. ASSUME NEW f \in Files, NEW e \in Files, disk'[f].run \subseteq disk[e].run
          PROVE  RunBy(f) \subseteq UNION {disk[k].run : k \in Files}
      BY <2>2
    <2>3. \A f \in Files : \E e \in Files : disk'[f].run \subseteq disk[e].run
      <3>1. CASE Construct(h) \/ FindTmux(h) \/ FindTtyd(h)
        BY <3>1 DEF Construct, FindTmux, FindTtyd
      <3>2. CASE OpenConf(h) \/ CopyTtyd(h) \/ TtydCopied(h) \/ AttachScript(h) \/ AttachCopied(h)
        <4>1. ASSUME NEW g \in Directory, NEW data,
                     disk' \in {disk, Opened(h, g), Written(h, g, data)}
              PROVE  \A f \in Files : disk'[f].run = disk[f].run
          <5>1. CASE disk' = Opened(h, g)
            BY <5>1, DirectoryNames DEF Opened, SetupTypeOK, Inode
          <5>2. CASE disk' = Written(h, g, data)
            BY <5>2, DirectoryNames DEF Written, SetupTypeOK, Inode
          <5>3. QED
            BY <4>1, <5>1, <5>2
        <4>2. \E g \in Directory : \E data \in Data :
                  disk' \in {disk, Opened(h, g), Written(h, g, data)}
          BY <3>2, DirectoryNames, StockIsApart
          DEF OpenConf, CopyTtyd, TtydCopied, AttachScript, AttachCopied, SetupTypeOK, Inode, Data
        <4>3. QED
          BY <4>1, <4>2
      <3>3. CASE WriteConf(h)
        BY <3>3 DEF WriteConf, SetupTypeOK, Inode
      <3>4. CASE ReplaceConf(h)
        <4>1. CASE disk' = [disk EXCEPT ![Conf] = disk[ConfTmp], ![ConfTmp] = Nothing]
          <5>1. /\ disk'[Conf] = disk[ConfTmp] /\ disk'[ConfTmp].run = {}
                /\ \A f \in Files \ {Conf, ConfTmp} : disk'[f] = disk[f]
            BY <4>1, DirectoryNames DEF SetupTypeOK, Nothing, Fresh
          <5>2. QED
            BY <5>1, DirectoryNames
        <4>2. QED
          BY <3>4, <4>1 DEF ReplaceConf
      <3>5. QED
        BY <1>5, <3>1, <3>2, <3>3, <3>4
    <2>4. QED
      BY <1>4, <2>1, <2>2, <2>3
  <1>6. CASE Ensure(h)
    <2>1. CASE disk' = disk
      <3>1. host[h].pc # "up"
        BY <1>6 DEF Ensure, HostAt
      <3>2. QED
        BY <1>4, <2>1, <3>1
    <2>2. CASE host'[h].pc = "up" /\ disk' = [disk EXCEPT ![host[h].bin].run = {h}]
      <3>1. \A f \in Files : RunBy(f) \subseteq disk[f].run \cup {h}
        BY <2>2 DEF SetupTypeOK, Inode
      <3>2. QED
        BY <1>1, <1>2, <2>2, <3>1
    <2>3. QED
      BY <1>6, <2>1, <2>2, HostFields DEF Ensure
  <1>7. CASE Close(h) \/ HostKilled(h)
    <2>1. disk' = Without(h)
      BY <1>7 DEF Close, HostKilled
    <2>2. \A f \in Files : RunBy(f) = disk[f].run \ {h}
      BY <2>1 DEF Without, SetupTypeOK, Inode
    <2>3. QED
      BY <1>1, <1>2, <2>2
  <1>8. QED
    BY <1>5, <1>6, <1>7 DEF RunHost

\* The wheel is read, never written, and the attach script is copied out of it.
LEMMA HostKeepsWheel ==
    ASSUME SetupTypeOK, OnlyConstructorsWrite, WheelStays, StockStays, NEW h \in Hosts,
           RunHost(h) \/ Close(h) \/ HostKilled(h)
    PROVE  WheelStays'
  <1>1. disk'[Wheel].data = disk[Wheel].data
    BY InstalledIsNone DEF StockStays, SameFile
  <1>2. ASSUME NEW g \in Hosts, host'[g].pc \in {"copy ttyd", "copying ttyd"} PROVE exists(Wheel)
    <2>1. CASE g # h
      BY <1>2, <2>1, HostsMoveAlone DEF WheelStays
    <2>2. CASE g = h
      <3>1. FindTtyd(h) \/ CopyTtyd(h)
        BY <1>2, <2>2, WhereTo DEF RunHost
      <3>2. CopyTtyd(h) => exists(Wheel)
        BY DEF CopyTtyd, HostAt, WheelStays
      <3>3. QED
        BY <1>2, <2>2, <3>1, <3>2, WhereTo
    <2>3. QED
      BY <2>1, <2>2
  <1>3. disk'[Attach].data # "bad"
    <2>1. Attach \in Files /\ disk[Attach] \in Inode /\ disk[Attach].data # "bad"
      BY DirectoryNames DEF WheelStays, SetupTypeOK
    <2>2. disk' = disk => disk'[Attach].data # "bad"
      BY <2>1
    <2>3. CASE Construct(h) \/ FindTmux(h) \/ FindTtyd(h)
      BY <2>2, <2>3 DEF Construct, FindTmux, FindTtyd
    <2>4. CASE OpenConf(h) \/ CopyTtyd(h) \/ TtydCopied(h) \/ ReplaceConf(h)
      BY <2>1, <2>4, DirectoryNames
      DEF OpenConf, CopyTtyd, TtydCopied, ReplaceConf, Opened, Written, SetupTypeOK
    <2>5. CASE WriteConf(h)
      BY <2>1, <2>5 DEF WriteConf, Inode
    <2>6. CASE AttachScript(h) \/ AttachCopied(h)
      BY <2>1, <2>6, ZenonT(40)
      DEF AttachScript, AttachCopied, Opened, Written, SetupTypeOK, Inode
    <2>7. CASE Ensure(h)
      BY <2>1, <2>7 DEF Ensure, SetupTypeOK, Inode
    <2>8. CASE Close(h) \/ HostKilled(h)
      BY <2>1, <2>8, ZenonT(40) DEF Close, HostKilled, Without, Inode
    <2>9. QED
      BY <2>3, <2>4, <2>5, <2>6, <2>7, <2>8 DEF RunHost
  <1>4. QED
    BY <1>1, <1>2, <1>3 DEF WheelStays, exists

-----------------------------------------------------------------------------
(* A constructor alone.                                                     *)

\* Nobody else is under way, and it has only the file open that it is about to fill.
LEMMA AloneIsTheWriter ==
    ASSUME SetupTypeOK, OverlapsAreSeen, OnlyConstructorsWrite,
           NEW h \in Hosts \ crowded, Constructing(h), NEW f \in Directory
    PROVE  /\ \A g \in Hosts \ {h} : ~Constructing(g)
           /\ disk[f].open \subseteq {h}
           /\ disk[f].last # None => disk[f].last = h
           /\ host[h].pc # WritingAt(f) => disk[f].open = {} /\ disk[f].data # "part"
           /\ disk[f].last = h => h \in disk[f].open
  <1>1. \A g \in Hosts \ {h} : ~Constructing(g)
    BY DEF OverlapsAreSeen
  <1>2. WritingAt(f) \notin Resting
    BY DEF WritingAt, Resting
  <1>3. \A p \in disk[f].open : p \in Hosts /\ host[p].pc = WritingAt(f)
    BY DEF OnlyConstructorsWrite, HostAt
  <1>4. disk[f].open \subseteq {h}
    BY <1>1, <1>2, <1>3 DEF Constructing
  <1>5. /\ disk[f].last \in disk[f].open \cup {None} /\ h # None
        /\ disk[f].data = "part" => disk[f].last # None
    BY ToolchainAssumption DEF OnlyConstructorsWrite, Processes
  <1>6. QED
    BY <1>1, <1>3, <1>4, <1>5

\* A constructor that does not move stays in order while its files do, and its ttyd runs.
LEMMA OrderStays ==
    ASSUME SetupTypeOK, NEW h \in Hosts, InOrder(h), DirectoryStays, host'[h] = host[h],
           h \notin disturbed' => /\ h \notin disturbed
                                  /\ \A f \in Stock : is_usable(f) => is_usable(f)'
    PROVE  InOrder(h)'
  <1>1. \A f \in Directory : disk'[f].data = disk[f].data /\ disk'[f].last = disk[f].last
    BY DEF DirectoryStays, SameFile
  <1>2. h \notin disturbed' /\ Fit(h) => Fit(h)'
    BY <1>1, DirectoryNames DEF Fit, is_usable
  <1>3. QED
    BY <1>1, <1>2, DirectoryNames DEF InOrder, HostAt

\* Step by step, a constructor that met nobody lays out what the later ones rely on.
LEMMA StepKeepsItsOrder ==
    ASSUME SetupTypeOK, NamesAreKnown, DirectoryInv, StockStays,
           NEW h \in Hosts, RunHost(h) \/ Close(h) \/ HostKilled(h), h \notin crowded'
    PROVE  InOrder(h)'
  <1>1. ASSUME host'[h].pc \in Resting \cup {"find tmux", "open conf"} PROVE InOrder(h)'
    BY <1>1 DEF InOrder, HostAt, Resting
  <1>2. CASE Construct(h) \/ FindTmux(h) \/ Close(h) \/ HostKilled(h)
    BY <1>1, <1>2, WhereTo DEF Resting
  <1>3. CASE Ensure(h)
    BY <1>1, <1>3, WhereTo DEF Resting
  <1>4. CASE RunHost(h) /\ ~Construct(h)
    <2>1. /\ disturbed' = disturbed /\ h \in Hosts \ crowded /\ Constructing(h)
      BY <1>4, UnderWay DEF Close, HostAt, RunHost, Constructing, Resting, FindTmux, OpenConf,
         WriteConf, ReplaceConf, FindTtyd, CopyTtyd, TtydCopied, AttachScript, AttachCopied, Ensure
    <2>2. InOrder(h)
      BY <2>1 DEF DirectoryInv, AloneIsInOrder
    <2>3. \A f \in Directory :
             /\ host[h].pc # WritingAt(f) => disk[f].data # "part"
             /\ disk[f].last = h => h \in disk[f].open
      BY <2>1, AloneIsTheWriter DEF DirectoryInv
    <2>4. \A f \in Stock : is_usable(f) => is_usable(f)'
      BY DEF StockStays, SameFile, is_usable
    <2>5. \A f \in Directory : f \in Files /\ disk[f] \in Inode
      BY DirectoryNames DEF SetupTypeOK
    <2>6. CASE OpenConf(h)
      <3>1. host'[h].pc = "write conf" /\ disk'[ConfTmp].last = h
        BY <2>5, <2>6, HostFields, DirectoryNames DEF OpenConf, Opened, SetupTypeOK, Inode
      <3>2. QED
        BY <3>1 DEF InOrder, HostAt
    <2>7. CASE WriteConf(h)
      <3>1. h \in disk[ConfTmp].open
        BY <2>2, <2>3, <2>7, DirectoryNames DEF InOrder, WriteConf, HostAt
      <3>2. host'[h].pc = "replace conf" /\ disk'[ConfTmp].data = "good"
        BY <2>5, <2>7, <3>1, HostFields, DirectoryNames DEF WriteConf, Inode
      <3>3. QED
        BY <3>2 DEF InOrder, HostAt
    <2>8. CASE ReplaceConf(h)
      <3>1. disk[ConfTmp].data = "good"
        BY <2>2, <2>8 DEF InOrder, ReplaceConf
      <3>2. host'[h].pc = "find ttyd" /\ disk'[Conf].data = "good"
        BY <2>8, <3>1, HostFields, DirectoryNames DEF ReplaceConf, exists, SetupTypeOK
      <3>3. QED
        BY <3>2 DEF InOrder, HostAt
    <2>9. CASE FindTtyd(h)
      <3>1. disk[Conf].data = "good" /\ disk' = disk
        BY <2>2, <2>9 DEF InOrder, FindTtyd, HostAt
      <3>2. record.ttyd \in Stock \cup {None} /\ OnPath.ttyd \in Stock
        BY BinariesAre DEF NamesAreKnown, Names, Stock
      <3>3. \/ host'[h].pc \in {"raised", "copy ttyd"}
            \/ host'[h].pc = "attach" /\ host'[h].bin \in Stock /\ is_usable(host'[h].bin)
        BY <2>9, <3>2, WhereTo
      <3>4. QED
        BY <3>1, <3>3 DEF InOrder, HostAt, Fit, is_usable
    <2>10. CASE CopyTtyd(h)
      <3>1. disk[Conf].data = "good" /\ host[h].pc = "copy ttyd"
        BY <2>2, <2>10 DEF InOrder, CopyTtyd, HostAt
      <3>2. CASE Raises(h)
        BY <1>1, <3>2, HostFields DEF Resting
      <3>3. CASE /\ Current(Own) /\ disk' = disk
                 /\ host' = [host EXCEPT ![h] = [pc |-> "attach", bin |-> Own]]
        <4>1. disk[Own].data \notin {"none", "part"}
          BY <2>3, <3>1, <3>3, DirectoryNames DEF Current, exists, WritingAt
        <4>2. host'[h].pc = "attach" /\ host'[h].bin = Own
          BY <3>3 DEF SetupTypeOK
        <4>3. QED
          BY <3>1, <3>3, <4>1, <4>2 DEF InOrder, HostAt, Fit
      <3>4. CASE disk' = Opened(h, Own) /\ HostGoto(h, "copying ttyd")
        <4>1. /\ host'[h].pc = "copying ttyd" /\ disk'[Own].last = h
              /\ disk'[Conf] = disk[Conf]
          BY <2>5, <3>4, HostFields, DirectoryNames DEF Opened, SetupTypeOK, Inode
        <4>2. QED
          BY <3>1, <4>1 DEF InOrder, HostAt
      <3>5. QED
        BY <2>10, <3>2, <3>3, <3>4 DEF CopyTtyd
    <2>11. CASE TtydCopied(h)
      <3>1. disk[Conf].data = "good" /\ disk[Own].last = h /\ host[h].pc = "copying ttyd"
        BY <2>2, <2>11 DEF InOrder, TtydCopied, HostAt
      <3>2. disk[Wheel].data \in {"bad", "good"}
        BY <3>1 DEF DirectoryInv, WheelStays, exists
      <3>3. /\ host'[h].pc = "attach" /\ host'[h].bin = Own
            /\ disk'[Own].data = disk[Wheel].data /\ disk'[Conf] = disk[Conf]
        BY <2>5, <2>11, <3>1, DirectoryNames DEF TtydCopied, Written, SetupTypeOK, Inode
      <3>4. QED
        BY <3>1, <3>2, <3>3 DEF InOrder, HostAt, Fit
    <2>12. CASE AttachScript(h)
      <3>1. /\ disk[Conf].data = "good" /\ host[h].pc = "attach"
            /\ h \notin disturbed => Fit(h)
        BY <2>2, <2>12 DEF InOrder, AttachScript, HostAt
      <3>2. CASE Current(Attach) /\ HostGoto(h, "ensure") /\ disk' = disk
        <4>1. disk[Attach].data \in {"good", "cut"}
          BY <2>3, <2>5, <3>1, <3>2, DirectoryNames
          DEF Current, exists, WritingAt, DirectoryInv, WheelStays, Inode, Data
        <4>2. host'[h].pc = "ensure" /\ host'[h].bin = host[h].bin
          BY <3>2, HostFields
        <4>3. QED
          BY <2>1, <3>1, <3>2, <4>1, <4>2 DEF InOrder, HostAt, Fit, is_usable
      <3>3. CASE HostGoto(h, "copying attach") /\ disk' = Opened(h, Attach)
        <4>1. host'[h].pc = "copying attach" /\ host'[h].bin = host[h].bin
          BY <3>3, HostFields
        <4>2. /\ disk'[Attach].last = h
              /\ disk'[Conf] = disk[Conf] /\ disk'[Own] = disk[Own]
          BY <2>5, <3>3, DirectoryNames DEF Opened, SetupTypeOK, Inode
        <4>3. h \notin disturbed => Fit(h)'
          BY <2>4, <3>1, <4>1, <4>2 DEF Fit, is_usable
        <4>4. QED
          BY <2>1, <3>1, <4>1, <4>2, <4>3 DEF InOrder, HostAt
      <3>4. QED
        BY <2>12, <3>2, <3>3 DEF AttachScript
    <2>13. CASE AttachCopied(h)
      <3>1. /\ disk[Conf].data = "good" /\ disk[Attach].last = h
            /\ h \notin disturbed => Fit(h)
        BY <2>2, <2>13 DEF InOrder, AttachCopied, HostAt
      <3>2. host'[h].pc = "ensure" /\ host'[h].bin = host[h].bin
        BY <2>13, HostFields DEF AttachCopied
      <3>3. /\ disk'[Attach].data = "good"
            /\ disk'[Conf] = disk[Conf] /\ disk'[Own] = disk[Own]
        BY <2>5, <2>13, <3>1, DirectoryNames DEF AttachCopied, Written, SetupTypeOK, Inode
      <3>4. h \notin disturbed => Fit(h)'
        BY <2>4, <3>1, <3>2, <3>3 DEF Fit, is_usable
      <3>5. QED
        BY <2>1, <3>1, <3>2, <3>3, <3>4 DEF InOrder, HostAt
    <2>14. QED
      BY <1>2, <1>3, <1>4, <2>6, <2>7, <2>8, <2>9, <2>10, <2>11, <2>12, <2>13 DEF RunHost
  <1>5. QED
    BY <1>2, <1>4

LEMMA HostKeepsOrder ==
    ASSUME SetupTypeOK, NamesAreKnown, DirectoryInv, StockStays,
           NEW h \in Hosts, RunHost(h) \/ Close(h) \/ HostKilled(h)
    PROVE  AloneIsInOrder'
  <1> SUFFICES ASSUME NEW k \in Hosts, k \notin crowded' PROVE InOrder(k)'
    BY DEF AloneIsInOrder
  <1>1. CASE k = h
    BY <1>1, StepKeepsItsOrder
  <1>2. CASE k # h /\ ~Constructing(k)
    BY <1>2, HostsMoveAlone DEF InOrder, HostAt, Constructing, Resting
  <1>3. CASE k # h /\ Constructing(k)
    <2>1. ~Construct(h)
      BY <1>3 DEF Construct
    <2>2. k \in Hosts \ crowded /\ disturbed' = disturbed
      BY <2>1, UnderWay
    <2>3. Close(h)
      BY <1>3, <2>1, <2>2, UnderWay DEF DirectoryInv, OverlapsAreSeen
    <2>4. disk' = Without(h) /\ host[h].pc = "up" /\ h \in Processes /\ h # None
      BY <2>3, ToolchainAssumption DEF Close, HostAt, Processes
    <2>5. \A f \in Directory : f \in Files /\ h \notin disk[f].open /\ disk[f].last # h
      BY <2>4, DirectoryNames DEF DirectoryInv, OnlyConstructorsWrite, HostAt, WritingAt
    <2>6. DirectoryStays
      BY <2>4, <2>5, WithoutKeepsOthers DEF DirectoryStays
    <2>7. InOrder(k)
      BY <2>2 DEF DirectoryInv, AloneIsInOrder
    <2>8. \A f \in Stock : is_usable(f) => is_usable(f)'
      BY DEF StockStays, SameFile, is_usable
    <2>9. host'[k] = host[k]
      BY <1>3, HostsMoveAlone
    <2>10. QED
      BY <2>2, <2>6, <2>7, <2>8, <2>9, OrderStays
  <1>4. QED
    BY <1>1, <1>2, <1>3

-----------------------------------------------------------------------------
(* The invariant of the directory.                                          *)

LEMMA DirectoryInit == SetupInit => DirectoryInv
  <1> SUFFICES ASSUME SetupInit PROVE DirectoryInv
    OBVIOUS
  <1>1. \A h \in Hosts : host[h].pc = "idle"
    BY DEF SetupInit, NoHost
  <1>2. PICK have \in Equipment :
           disk = [f \in Files |-> IF f \in DOMAIN have THEN Fresh(have[f]) ELSE Nothing]
    BY DEF SetupInit, ToolchainInit
  <1>3. \A f \in Files : /\ disk[f].open = {} /\ disk[f].last = None /\ disk[f].run = {}
                          /\ disk[f].data \in {"none", "bad", "good"}
    BY <1>2, ToolchainAssumption DEF Fresh, Nothing
  <1>4. Attach \notin DOMAIN have
    BY <1>2, ToolchainAssumption
    DEF Paths, Binaries, OnPath, Mine, Installed, Own, Wheel, Attach
  <1>5. disk[Attach].data = "none"
    BY <1>2, <1>4, DirectoryNames DEF Fresh, Nothing
  <1>6. OverlapsAreSeen
    BY <1>1 DEF OverlapsAreSeen, Constructing, Resting
  <1>7. OnlyConstructorsWrite
    BY <1>3, DirectoryNames DEF OnlyConstructorsWrite
  <1>8. OnlyTheUpRun
    BY <1>3 DEF OnlyTheUpRun, Runs
  <1>9. WheelStays
    BY <1>1, <1>3, <1>5, InstalledIsNone DEF WheelStays
  <1>10. AloneIsInOrder
    BY <1>1 DEF AloneIsInOrder, InOrder, HostAt
  <1>11. QED
    BY <1>6, <1>7, <1>8, <1>9, <1>10 DEF DirectoryInv

\* A step that moves no constructor and no file of the directory.
LEMMA ElsewhereKeepsDirectory ==
    ASSUME SetupTypeOK, DirectoryInv, UNCHANGED <<host, crowded>>,
           DirectoryStays, NobodyStarts, disk'[Wheel].data = disk[Wheel].data,
           \A h \in Hosts : h \notin disturbed' =>
               /\ h \notin disturbed
               /\ \A f \in Stock : is_usable(f) => is_usable(f)'
    PROVE  DirectoryInv'
  <1> USE DEF DirectoryInv
  <1>1. OverlapsAreSeen'
    BY DEF OverlapsAreSeen, Constructing
  <1>2. OnlyConstructorsWrite'
    BY DEF OnlyConstructorsWrite, DirectoryStays, SameFile, HostAt
  <1>3. OnlyTheUpRun'
    BY DEF OnlyTheUpRun, NobodyStarts, HostAt
  <1>4. WheelStays'
    BY DirectoryNames DEF WheelStays, DirectoryStays, SameFile, exists
  <1>5. ASSUME NEW h \in Hosts \ crowded PROVE InOrder(h)'
    BY OrderStays DEF AloneIsInOrder
  <1>6. AloneIsInOrder'
    BY <1>5 DEF AloneIsInOrder
  <1>7. QED
    BY <1>1, <1>2, <1>3, <1>4, <1>6

LEMMA UpgradeKeepsDirectory ==
    ASSUME SetupTypeOK, DirectoryInv, WheelUpgrade
    PROVE  DirectoryInv'
  <1> USE DEF DirectoryInv
  <1>1. /\ UNCHANGED <<host, crowded>> /\ disturbed' = Processes
        /\ \A f \in Files : disk[f].open = {}
    BY DEF WheelUpgrade
  <1>2. ASSUME NEW f \in Files
        PROVE  /\ disk'[f].open = {} /\ disk'[f].last = disk[f].last
               /\ disk'[f].run = disk[f].run
               /\ disk'[f].data = IF f \in {Own, Attach} /\ exists(f) THEN "stale"
                                  ELSE disk[f].data
    BY <1>1 DEF WheelUpgrade, SetupTypeOK, Inode
  <1>3. ASSUME NEW f \in Directory
        PROVE  /\ f \in Files /\ disk'[f].open = {} /\ disk'[f].last = None
               /\ disk[f].last = None /\ disk'[f].data # "part"
    <2>1. f \in Files /\ disk[f].last = None /\ disk[f].data # "part"
      BY <1>1, DirectoryNames DEF OnlyConstructorsWrite
    <2>2. QED
      BY <1>2, <2>1
  <1>4. OverlapsAreSeen'
    BY <1>1 DEF OverlapsAreSeen, Constructing
  <1>5. OnlyConstructorsWrite'
    BY <1>3 DEF OnlyConstructorsWrite
  <1>6. OnlyTheUpRun'
    BY <1>1, <1>2 DEF OnlyTheUpRun, Runs, HostAt
  <1>7. disk'[Wheel].data = disk[Wheel].data
    BY <1>2, StockIsApart, InstalledIsNone
  <1>8. WheelStays'
    BY <1>1, <1>2, <1>7, DirectoryNames DEF WheelStays, exists
  <1>9. /\ disk'[Conf].data = disk[Conf].data /\ disk'[ConfTmp].data = disk[ConfTmp].data
    BY <1>2, DirectoryNames
  <1>10. ASSUME NEW h \in Hosts \ crowded PROVE InOrder(h)'
    <2>1. h \in disturbed' /\ InOrder(h) /\ h # None
      BY <1>1, ToolchainAssumption DEF AloneIsInOrder, Processes
    <2>2. QED
      BY <1>1, <1>3, <1>9, <2>1, DirectoryNames DEF InOrder, HostAt
  <1>11. AloneIsInOrder'
    BY <1>1, <1>10 DEF AloneIsInOrder
  <1>12. QED
    BY <1>4, <1>5, <1>6, <1>8, <1>11

LEMMA StepKeepsDirectory == SetupInv /\ DirectoryInv /\ [SetupNext]_setupVars => DirectoryInv'
  <1> SUFFICES ASSUME SetupInv, DirectoryInv, [SetupNext]_setupVars PROVE DirectoryInv'
    OBVIOUS
  <1> USE DEF SetupInv
  <1>1. ASSUME NEW i \in Installs, RunInstall(i) \/ GoesDown(i), UNCHANGED <<host, crowded>>
        PROVE  DirectoryInv'
    <2>1. DirectoryStays /\ NobodyStarts /\ disk'[Wheel].data = disk[Wheel].data
      BY <1>1, InstallLeavesDirectory DEF DirectoryInv
    <2>2. ASSUME NEW h \in Hosts, h \notin disturbed'
          PROVE  h \notin disturbed /\ \A f \in Stock : is_usable(f) => is_usable(f)'
      <3>1. h # i /\ h \in Processes /\ i \in Processes
        BY ToolchainAssumption DEF Processes
      <3>2. h \notin disturbed /\ (disk' = disk \/ disk' = Without(i))
        BY <1>1, <2>2, <3>1, QuietOrDisturbing
      <3>3. QED
        BY <3>1, <3>2, WithoutKeepsUsable DEF is_usable
    <2>3. QED
      BY <1>1, <2>1, <2>2, ElsewhereKeepsDirectory
  <1>2. CASE /\ UNCHANGED <<host, crowded>>
             /\ \/ \E b \in Binaries : Pin(b) \/ \E data \in {"bad", "good"} : Upgrade(b, data)
                \/ Remove
    <2>1. disturbed' = Processes
      BY <1>2 DEF Pin, Upgrade, Remove
    <2>2. QED
      BY <1>2, <2>1, MeddlingLeavesDirectory, ElsewhereKeepsDirectory DEF Processes
  <1>3. ASSUME NEW h \in Hosts, RunHost(h) \/ Close(h) \/ HostKilled(h) PROVE DirectoryInv'
    <2>1. KeepsAway(h)
      BY OthersKeepAway DEF Processes
    <2>2. StockStays
      BY <1>3, <2>1, HostLeavesStock DEF Laid
    <2>3. QED
      BY <1>3, <2>2, HostKeepsOverlaps, HostKeepsWriters, HostKeepsRunners, HostKeepsWheel,
         HostKeepsOrder DEF DirectoryInv
  <1>4. CASE WheelUpgrade
    BY <1>4, UpgradeKeepsDirectory
  <1>5. CASE UNCHANGED setupVars
    BY <1>5 DEF setupVars, toolchainVars, DirectoryInv, OverlapsAreSeen, Constructing,
       OnlyConstructorsWrite, HostAt, OnlyTheUpRun, Runs, WheelStays, exists, AloneIsInOrder,
       InOrder, Fit, is_usable
  <1>6. QED
    BY <1>1, <1>2, <1>3, <1>4, <1>5, KilledOrBroken DEF SetupNext, ToolchainNext

-----------------------------------------------------------------------------
(* How a constructor ends.                                                  *)

\* Nobody else moves a constructor.
LEMMA OnlyItsOwnStep ==
    ASSUME SetupInv, [SetupNext]_setupVars, NEW h \in Hosts, host'[h] # host[h]
    PROVE  RunHost(h) \/ Close(h) \/ HostKilled(h)
  <1>1. ASSUME NEW g \in Hosts, RunHost(g) \/ Close(g) \/ HostKilled(g) PROVE g = h
    BY <1>1, HostsMoveAlone DEF SetupInv
  <1>2. ~WheelUpgrade /\ ~UNCHANGED host
    BY DEF WheelUpgrade
  <1>3. QED
    BY <1>1, <1>2 DEF SetupNext, setupVars

\* At its last step, a constructor that is not disturbed and met nobody has a ttyd that runs, or
\* a copy that was cut short or never did.
LEMMA FoundTtyd ==
    ASSUME SetupInv, DirectoryInv, NEW h \in Hosts, HostAt(h, "ensure"),
           h \notin crowded \cup disturbed, ~is_usable(host[h].bin)
    PROVE  host[h].bin = Own /\ disk[Own].data \in {"cut", "bad"}
  <1>1. h \in Hosts \ crowded /\ Constructing(h)
    BY DEF HostAt, Constructing, Resting
  <1>2. Fit(h)
    BY <1>1 DEF DirectoryInv, AloneIsInOrder, InOrder, HostAt
  <1>3. host[h].bin = Own /\ disk[Own].data \notin {"none", "part"}
    BY <1>2 DEF Fit
  <1>4. disk[Own].open = {}
    BY <1>1, AloneIsTheWriter, DirectoryNames
    DEF SetupInv, DirectoryInv, HostAt, WritingAt
  <1>5. disk[Own].data \in Data
    BY DirectoryNames DEF SetupInv, SetupTypeOK, Inode
  <1>6. QED
    BY <1>3, <1>4, <1>5 DEF is_usable, Data

\* At its last step the conf and the script are what it laid out.
LEMMA ComesUpWithItsFiles ==
    ASSUME SetupInv, DirectoryInv, NEW h \in Hosts, host[h].pc = "ensure",
           h \notin crowded \cup disturbed
    PROVE  disk[Conf].data = "good" /\ disk[Attach].data \in {"good", "cut"}
  BY DEF DirectoryInv, AloneIsInOrder, InOrder, HostAt

\* Only three of its steps raise once it is under way, each for a cause of its own.
LEMMA RaisesForACause ==
    ASSUME SetupInv, DirectoryInv, [SetupNext]_setupVars, NEW h \in Hosts,
           host[h].pc # "raised", host'[h].pc = "raised"
    PROVE  /\ host[h].pc = "replace conf" => h \in crowded
           /\ host[h].pc = "copy ttyd" => \E g \in Hosts \ {h} : host[g].pc = "up"
           /\ host[h].pc = "ensure" =>
                 \/ h \in crowded \cup disturbed
                 \/ host[h].bin = Own /\ disk[Own].data \in {"cut", "bad"}
  <1>1. RunHost(h)
    BY OnlyItsOwnStep DEF Close, HostKilled, NoHost, SetupInv, SetupTypeOK
  <1>2. ASSUME host[h].pc = "replace conf", h \notin crowded PROVE FALSE
    <2>1. disk[ConfTmp].data = "good"
      BY <1>2 DEF DirectoryInv, AloneIsInOrder, InOrder, HostAt
    <2>2. ReplaceConf(h)
      BY <1>1, <1>2
      DEF RunHost, Construct, FindTmux, OpenConf, WriteConf, FindTtyd, CopyTtyd, TtydCopied,
          AttachScript, AttachCopied, Ensure, HostAt, Resting
    <2>3. QED
      BY <2>1, <2>2, WhereTo DEF exists, SetupInv
  <1>3. ASSUME host[h].pc = "copy ttyd" PROVE \E g \in Hosts \ {h} : host[g].pc = "up"
    <2>1. CopyTtyd(h)
      BY <1>1, <1>3
      DEF RunHost, Construct, FindTmux, OpenConf, WriteConf, ReplaceConf, FindTtyd, TtydCopied,
          AttachScript, AttachCopied, Ensure, HostAt, Resting
    <2>2. Busy(Own)
      BY <2>1, WhereTo DEF SetupInv
    <2>3. PICK g \in Hosts : g \in disk[Own].run
      BY <2>2, DirectoryNames DEF Busy, SetupInv, SetupTypeOK, Inode
    <2>4. host[g].pc = "up"
      BY <2>3, DirectoryNames DEF DirectoryInv, OnlyTheUpRun, Runs, HostAt
    <2>5. QED
      BY <1>3, <2>4
  <1>4. ASSUME host[h].pc = "ensure", h \notin crowded \cup disturbed
        PROVE  host[h].bin = Own /\ disk[Own].data \in {"cut", "bad"}
    <2>1. Ensure(h)
      BY <1>1, <1>4
      DEF RunHost, Construct, FindTmux, OpenConf, WriteConf, ReplaceConf, FindTtyd, CopyTtyd,
          TtydCopied, AttachScript, AttachCopied, HostAt, Resting
    <2>2. ~is_usable(host[h].bin)
      BY <2>1, WhereTo DEF SetupInv
    <2>3. QED
      BY <1>4, <2>2, FoundTtyd DEF HostAt
  <1>5. QED
    BY <1>2, <1>3, <1>4

-----------------------------------------------------------------------------
(* Theorems.                                                                *)

\* The invariant holds in every state of every behaviour.
THEOREM SetupInvariant == SetupSpec => []SetupInv
  <1>1. SetupInit => SetupInv
    BY InitInv
  <1>2. SetupInv /\ [SetupNext]_setupVars => SetupInv'
    BY StepKeepsInv
  <1>3. QED
    BY <1>1, <1>2, PTL DEF SetupSpec

\* tmuxd.json, the files, the installs and the constructors keep their types.
THEOREM SetupTypeCorrect == SetupSpec => []SetupTypeOK
  <1>1. SetupInv => SetupTypeOK
    BY DEF SetupInv
  <1>2. QED
    BY <1>1, SetupInvariant, PTL

\* While tmuxd.json names the ttyd that tmuxd install put under ~/.tmuxd, that ttyd runs, however
\* many installs were killed or failed, unless two of them were under way at once: install_bundled
\* only overwrites it while the record does not name it.
THEOREM RecordedInstallAlwaysRuns == SetupSpec => []RecordedInstallRuns
  <1>1. SetupInv => RecordedInstallRuns
    BY DEF SetupInv
  <1>2. QED
    BY <1>1, SetupInvariant, PTL

\* Where the package manager's tmux is new enough, an install that exits with 0 leaves a record
\* whose two binaries run, until somebody else changes something.
THEOREM InstallAlwaysDelivers ==
    ASSUME Packaged \subseteq {"good"}
    PROVE  SetupSpec => []InstallDelivers
  <1>1. SetupInv => InstallDelivers
    BY DEF SetupInv, TmuxIsNew
  <1>2. QED
    BY <1>1, SetupInvariant, PTL

\* cmd_install writes back what the record said when it began: an entry is never replaced.
THEOREM EntriesAreNeverOverruled == SetupSpec => EntriesAreNotOverruled
  <1> DEFINE Kept == \A i \in Installs, b \in Binaries :
                         install[i].pc = "write" /\ install'[i].pc # "write"
                             /\ record[b] # None /\ install[i].recorded[b] = record[b]
                         => record'[b] = record[b]
  <1>1. SetupInv /\ [SetupNext]_setupVars => [Kept]_toolchainVars
    BY WriteKeepsEntries
  <1>2. QED
    BY <1>1, SetupInvariant, PTL DEF SetupSpec, EntriesAreNotOverruled

\* As long as its disk and its downloads work, an install ends with a traceback only because of
\* a second install (unlink, chmod), of a ttyd that runs the file install_bundled copies to, or
\* of somebody who replaced the ttyd it had found before version_of ran that again: an install
\* left alone gets through all of them.
THEOREM InstallNeverRaisesWithoutReason == SetupSpec => InstallRaisesForAReason
  <1> DEFINE Caused == \A i \in Installs :
                           install[i].pc # "raised" /\ install'[i].pc = "raised"
                           => \/ raced
                              \/ install[i].pc = "bundled" /\ Busy(Installed)
                              \/ install[i].pc = "report" /\ i \in disturbed
  <1>1. SetupInv /\ [SetupNext]_setupVars => [Caused]_toolchainVars
    BY RaisesForAReason
  <1>2. QED
    BY <1>1, SetupInvariant, PTL DEF SetupSpec, InstallRaisesForAReason

\* The state directory's invariant holds in every state of every behaviour.
THEOREM DirectoryInvariant == SetupSpec => []DirectoryInv
  <1>1. SetupInit => DirectoryInv
    BY DirectoryInit
  <1>2. SetupInv /\ DirectoryInv /\ [SetupNext]_setupVars => DirectoryInv'
    BY StepKeepsDirectory
  <1>3. QED
    BY <1>1, <1>2, SetupInvariant, PTL DEF SetupSpec

\* A constructor that met no other one hands out a tmux.conf and an attach script that are whole
\* and of this wheel, however many constructors were killed on the directory before: what
\* _render_conf and _attach_script leave half done, the next one does again, except for a file
\* that a kill cut short.
THEOREM AlwaysComesUpInOrder == SetupSpec => ComesUpInOrder
  <1> DEFINE Ordered == \A h \in Hosts :
                 host[h].pc = "ensure" /\ host'[h].pc = "up" /\ h \notin crowded \cup disturbed
                 => disk[Conf].data = "good" /\ disk[Attach].data \in {"good", "cut"}
  <1>1. SetupInv /\ DirectoryInv => [Ordered]_setupVars
    BY ComesUpWithItsFiles
  <1>2. QED
    BY <1>1, SetupInvariant, DirectoryInvariant, PTL DEF SetupSpec, ComesUpInOrder

\* A constructor that raises in the middle was overtaken by another one, found the old copy of
\* ttyd running, or has a ttyd that was changed, is being copied, was cut short or never ran.
THEOREM FailuresAlwaysHaveTheirCauses == SetupSpec => FailuresHaveTheirCauses
  <1> DEFINE Caused == \A h \in Hosts : host[h].pc # "raised" /\ host'[h].pc = "raised" =>
                 /\ host[h].pc = "replace conf" => h \in crowded
                 /\ host[h].pc = "copy ttyd" => \E g \in Hosts \ {h} : host[g].pc = "up"
                 /\ host[h].pc = "ensure" =>
                       \/ h \in crowded \cup disturbed
                       \/ host[h].bin = Own /\ disk[Own].data \in {"cut", "bad"}
  <1>1. SetupInv /\ DirectoryInv /\ [SetupNext]_setupVars => [Caused]_setupVars
    BY RaisesForACause
  <1>2. QED
    BY <1>1, SetupInvariant, DirectoryInvariant, PTL DEF SetupSpec, FailuresHaveTheirCauses

==============================================================================
