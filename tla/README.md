# A TLA+ model of tmuxd

tmuxd keeps tmux sessions for other programs: a Python library (`Tmuxd`), a control API over
it, a daemon with a command line, an installer for the binaries it needs, and a ttyd that shows
the sessions in a browser. There is no central process. Several processes, and several threads
of each, work on one tmux server, one state directory and one ttyd, and each call is a sequence
of tmux commands and file accesses with nothing held across it. That is what this directory
models.

- `*.tla` without prefix: the modules that model code. `MC*.tla` and `*.cfg`: instances for TLC.
  `*Proofs.tla`: theorems, checked by TLAPS.
- `PROJECT.json`: the runs, the source lines behind each definition (`map`), the hazards, the
  findings, and for each property a mutation of the model that breaks it. The operators whose
  comment begins with `slip:` are those mutations: what the code would do with a plausible
  mistake in it. No next-state relation uses them.

## 1. Inventory

| Part | Source | State | Operations |
|---|---|---|---|
| record store | `state.py` | one JSON file per session id, its mtime; `.lock` | write, touch_attached (locked); read, all, age, delete (unlocked) |
| session pool | `core.py`, `session.py`, `tmux.py` | the tmux server's sessions (tmux is the truth), the records | session, create, get, kill, sessions, kill_tmux_server, send, send_key |
| constructor, state directory | `core.py`, `ttyd.py`, `tmux.py` | `tmux.conf`, `attach.sh`, `bin/ttyd` of one state directory | finding tmux and ttyd, rendering, copying |
| ttyd supervisor | `ttyd.py`, `core.py` | the ttyd process, its address, a state record | ensure (adopt or start), stop |
| control API | `server.py` | the Idempotency-Key memory | POST sessions, POST keys, GET, DELETE |
| daemon | `cli.py` | `daemon.json`, the process, its ports | serve, start, stop |
| one-shot commands | `cli.py` | what they read of `daemon.json` | status, and new, ls, send and the others, each one HTTP request |
| relay | `asgi.py` | per connection: two tasks | HTTP and WebSocket between browser and ttyd |
| installer, toolchain record | `install.py`, `toolchain.py`, `cli.py` | `tmuxd.json`, `~/.tmuxd/bin/ttyd` | install: check, package manager, download, copy, record |
| the rest | `errors.py`, `data/attach.sh`, `scripts/` | none | |

How they interact: the pool calls tmux as subprocesses and the store as functions; the control
API calls the pool from FastAPI's thread pool; the daemon constructs a pool (and with it a ttyd)
and serves the control API; commands find the daemon through `daemon.json`; a constructor finds
its binaries through `tmuxd.json`, which installs and people edit; the relay connects a browser
to the ttyd the pool has. Processes meet only in tmux, in the files, on an address and by
signals.

What is hard, and what makes each part correct:

- **Record store.** Read-modify-write by many processes, killed at any point, with deletes that
  take no lock. It should look like one map of complete records; the lock must exclude and must
  come back.
- **Session pool.** Check-then-act against tmux, ids that are used again, sweeps by stale lists.
  Records must never be made up; live sessions must be left alone; a sweep must not take the
  record of a session it knew to be alive; calls must return.
- **Constructor.** Shared names in a shared directory, copies in place that a kill cuts short, a
  record somebody edits between two looks. A constructor that comes up must have laid out what
  its sessions need; one that raises must have met something it cannot help.
- **ttyd.** Looks at a record, a process table and an address that other hosts change between
  the looks; death signals, by thread; stale sockets. A handle must lead to its own ttyd; nobody
  stops another's; a refusal must have a reason; no call hangs.
- **Control API.** Check and act around slow work in threads; partial failure; retries; keys
  that two requests share. A 2xx answer must be true and final.
- **Daemon and commands.** A file as a rendezvous, pids that are used again, signals at any
  step, commands that go by what they read earlier. The file must lead to the daemon; nobody may
  be fooled by a stale one, or overlook a daemon that runs.
- **Relay.** Two tasks of which the first to end takes the other along.
- **Installer.** A sequence of fallbacks over files others run, without a lock. What it records
  must run, and what a person recorded must stay.

The hazards are listed one by one, at their lines, in `PROJECT.json`.

## 2. Modules

`AtomicRecords` <- `RecordStore` <- `SessionPool` is one stack: `RecordStore` instantiates the
abstract `AtomicRecords`, `SessionPool` extends `RecordStore` and composes its steps with those
of tmux. `Setup` extends `Toolchain`: constructors and installs on the files of one machine.
`Ttyd`, `ControlApi`, `Daemon` and `Relay` stand alone: they share no state with the others but
through calls whose effect they model (a session that is there or not, a Tmuxd that constructs
or raises, a ttyd that runs or does not).

### RecordStore, AtomicRecords (`state.py`)

`disk[i]` is the complete record in `i`'s file, `stale` the ids whose mtime is further back
than `gc_ttl`, `lock` the holder of the flock, `call[p]` the store call `p` is in. One action is
one system call another process can see: the flock (`Acquire`), open-and-read (`ReadForTouch`),
`os.replace` (`Replace`), unlock (`Release`), unlink (`Delete`). The steps of `_write_atomic`
before the replace touch only a temporary file nobody reads, so they are one step with it, or
fail with it (`WriteError`). A SIGKILL drops the lock (`StoreCrash`). Of a record the model
keeps `created_at` (which stands for the creation it was written for), `cmd`, and whether
`last_attached` is set.

`AtomicRecords` is what callers are promised: one map, changed by a whole record at a time, by
a stamp that changes nothing else, or by a deletion. One action admits what the unlocked delete
does to that promise: an attach in progress puts a deleted record back (`Restore`).

### SessionPool (`core.py`, `session.py`, `tmux.py`)

`live[i]` is the creation the tmux session `i` stems from (0: none), `born` every creation ever,
with its command and its creator (`None`: a shell). `pc[p]`, `req[p]`, `view[p]`, `seen[p]` are
the step, arguments, ids in hand and record in hand of `p`'s call. One action is one tmux
command or one store access; `_generate_id` is two (`GenerateList`, `GeneratePick`), `sessions()`
is one plus one per record (`ListLive`, `ListAll`, `ListAge`, `ListDelete`). `kill()`'s
has-session and client count are one step: the count only ends up in the result. Around it:
sessions end (`Exit`), are made at a shell (`Bypass`), records age (`Lapse`), callers are killed
(`Crash`). Ids are numbers, as `_generate_id` makes them, and a name given by the caller is one
of them: names collide or they do not.

`MCPoolOrderly` restricts the callers: `manner` is `"alone"` (one caller makes any call) or
`"together"` (all of them open, create and get, and are killed). It leaves one gap out, which
the code has by construction: a session whose record could not be written, because the caller
was killed or the write failed just after new-session.

### Toolchain (`toolchain.py`, `install.py`, `cmd_install`)

A file is an inode under a name: `disk[f]` says who writes it (`open`, `last`), which host's
ttyd runs from it (`run`) and whether its bytes make a binary that runs and is new enough
(`data`). So a copy in place, a replace, an unlink under a running program and a writer that is
killed half way are what they are on a file system, with "text file busy" in both directions.
`record` is `tmuxd.json`. `install[i]` is one `tmuxd install`: the record it read at the start,
what it has found, and its step in the chain of `cmd_install`, `install_tmux`, `install_ttyd`,
`download_ttyd`, `install_bundled` and `toolchain.write`. Between the look at the ttyd and the
write, `cmd_install` runs it a second time for its version (`ReportTtyd`), and nothing catches
what that raises. Three ways out are told apart: `raised` is a traceback that the steps of other
programs bring about, `broken` one of a disk or a download that fails (`Breaks`), `killed` a
signal. Around it: the person who pins a
binary or removes the file (`Pin`, `Remove`), the distribution (`Upgrade`), a kill.

`disturbed`, `raced` and Setup's `crowded` are not the code's: they remember for the properties
who was interfered with.

### Setup (`core.py`, `ttyd.find_binary`, `tmux.find_binary`)

`host[h]` is the step of `Tmuxd.__init__`: `FindTmux`, the three steps of `_render_conf` on the
temporary name all processes share (`OpenConf`, `WriteConf`, `ReplaceConf`), `FindTtyd`,
`_runnable_copy` (`CopyTtyd`, `TtydCopied`), `_attach_script` (`AttachScript`, `AttachCopied`)
and `Ensure`, which starts a ttyd from the file found or uses the one that is there. The hosts
have the same arguments; `pip install -U` (`WheelUpgrade`) makes the copies stale, and happens
while nobody copies. A binary that is gone from the PATH is a bad one: both make the code go on.

### Ttyd (`ttyd.py`)

`ttyd` is the sequence of every ttyd started: host, base path, state, and whether it asked for the
death signal. `name` is the ttyd the address leads to; on a socket a dead one can stay there.
`record` is the state record, `host[h]` the step of `ensure()` or `close()`. Every look of
`ensure()` is an action: the record, its pid and the address (`Read`, `Alive`, `Probe`), and in a
round of the startup loop the child and the address (`Wait`, `Answer`). So are fork and exec
(`Spawn`, `Arm`, `PopenReturns`), because the host can die between them; Popen can also raise
(`SpawnFails`). What comes after the startup can raise too, at the chmod of the socket (`Chmod`)
or at the version and the record (`WriteFails`); both leave the child behind. `ThreadEnds` is the
end of the thread that constructed, which the kernel takes for the end of the parent. `listen`
chooses a socket or a port; `overlap` says whether hosts construct at the same time.

### ControlApi (`server.py`, `session.py`)

One session, some requests, each sent up to `Attempts` times. `key[r]` is the request's
Idempotency-Key; `Keyings` are the ways clients give them out, to two requests too.
`try[r][n]` is how far the n-th attempt is and how much of its work is `done`; `seen` the
remembered keys, `old` those past the window. `_Replays.get` and `put` are three steps each
(collect the old keys, delete them, look up or store), since threads interleave and deleting
twice raises. The work is the sequence of tmux commands in `Script(r)`, each of which finds the
session or not, and can fail for reasons of its own (`TmuxGone`), the opening of a session
included. The statuses of what fails, and what is refused before any work, are one error.

### Daemon (`cli.py`)

`file` is `daemon.json`, `proc[p]` what the process with pid `p` is and how far its `cmd_serve`
has come, `cli[u]` the command typed at shell `u`. Every command begins with `Settings`, which
copies the file into the command's `record`; `Connect` asks the control port in it, `Reply` is the
answer or what else can come of the request, and what a command does next depends on which it is
(`Unanswered`, `Answered`). `met` is the daemon that served when the file was read, which the code
does not know. A stranger, one at a time, may get any free pid, and listen at any free port: also
those in a stale file (`Foreign`). Whatever answers HTTP at the recorded port then passes for the
daemon. `misled` is not the code's: it remembers that a start, while it waited for its daemon, was
answered by such a program. `AfterMisled` FALSE bounds a run there. `Caught` says where a SIGTERM
reaches the cleanup; elsewhere it ends the process where it stands. `Onlookers` are shells that
only ask. `Slow` and `Signals` switch on slow shutdowns, and ctrl-C or SIGKILL.

### Relay (`asgi.py`)

One request or one WebSocket. The two tasks run from await to await: `UpTakes` and `DownTakes`
take a message and write it, `UpDrains` and `DownDrains` wait for the peer to keep up.
`FirstCompleted` cancels both. `_http` is the chain `ReadBody`, `Open`, `ReadHead`, `ReadPiece`;
`framing` says how the response's end is told, `whole` whether ttyd got that far. A connection
that was reset (`Reset`), or a send after the browser has left, raises out of `ReadHead` and
`ReadPiece` (`Breaks`), through the `finally` that closes ttyd's side. The send of the accept
(`Accept`) can raise as well, but stands before the `try`: nobody closes ttyd's side then.

## 3. Runs

| Run | Bounds | What it shows |
|---|---|---|
| `pool_concurrent` | 2 callers, 1 id, 2 creations, every call and every fault | PoolTypeOK; LockHeld; TouchKeepsRecord (no lost update); RecordsAreReal; SweepSparesListedSessions; ImplementsAtomicRecords; LiveSessionsAreLeftAlone |
| `pool_orderly` | 1 caller with any call, or 2 that open and get; 2 ids, 4 creations (2 by callers together) | RecordsTellTheTruth; OneCallerIsRefused; OneCallerGetsANewId; OneCallerSeesNoExternals; CallsReturn; LockIsGivenBack |
| `ttyd` | 2 hosts, 2 base paths, 2 ttyds, socket and port | TtydTypeOK; HandlesLeadThereInOrder; OnlyItsHostStopsATtyd; RefusalsAreJustified; CallsEnd |
| `control_api` | 3 requests, 2 attempts each, 2 keys or a shared one | ApiTypeOK; OkMeansDone; AcknowledgedIsFinal |
| `daemon` | one ruling shell, one that asks; 2 pids, 2 ports, a stranger that may listen; no further command once a start was misled | DaemonTypeOK; OneDaemonOneFile; StopRemovesTheFile; StartIsNotFooled; NobodyIsOverlooked; CommandsEnd |
| `setup` | any two of 2 installs and 2 hosts; 6 machines; 2 mishaps | SetupTypeOK; InstallDelivers; RecordedInstallRuns; EntriesAreNotOverruled; InstallRaisesForAReason; ComesUpInOrder; FailuresHaveTheirCauses |
| `relay` | 3 frames from either side | RelayTypeOK; InOrder; LastWordsArrive; ResponseIsWhole; BothEndsClose |

Why the bounds are enough.

- Calls of the pool on different ids meet only in the lock and in `sessions()`, which looks at
  one record after the other, so one id shows every conflict. Two callers show each pair of
  overlapping calls. Two creations give a session and its successor of the same name. The second
  id, and the further creations, of `pool_orderly` are for the search for a free number and for
  long sequences of calls. What `pool_concurrent` checks is proved for any instance besides.
- Two ttyds are one and its successor; the safety properties of `ttyd` also passed with three,
  and are proved.
- Two attempts are a request and its retry; the third request stands for all traffic that is
  about another matter: it has no key, so it sweeps nothing, but it works on the same session.
- Two pids are a daemon and the stranger or successor that gets its pid or another.
- Two processes out of installs and hosts show each pair of overlapping steps; two mishaps are a
  kill and an edit, or a kill before and one after. A machine has a usable tmux on its PATH or
  not, and a wheel with a bundled ttyd that runs here, does not run here, or is not there.

What only holds in part, and how the properties say it:

- `RecordsTellTheTruth`, `OneCallerIsRefused`, `OneCallerGetsANewId` and
  `OneCallerSeesNoExternals` hold for calls that do not overlap (and the first for overlapping
  calls that delete nothing). The docs promise them without that condition; `create_race` below
  is one case where overlap breaks them. Under overlap the properties of `pool_concurrent`
  remain. Both are proved.
- `HandlesLeadThereInOrder` asks, on a socket, that hosts take turns and that no child slipped
  away between fork and `prctl`. On a port it asks nothing: the kernel lets one ttyd bind.
- `control_api` has clients that wait for an answer before they retry (`Patient`).
  `replay_twice` drops the waiting. With one key for two requests, `OkMeansDone` says that one
  of the two was done: the memory cannot tell them apart, and an answer to one is replayed to
  the other.
- `daemon` has one shell that starts and stops, and start and stop are not given up while the
  daemon is still on its way (`Slow` is FALSE): no doc claims a bound on startup or shutdown.
- `StopRemovesTheFile` excepts a daemon that had ended without its cleanup: by a SIGKILL, or by
  a ctrl-C outside its try block. Then a stranger may have the pid, and stop ends the stranger.
- `StartIsNotFooled` excepts another program that listens at the very port a stale file names.
  The comment "A live pid is not proof" (cli.py:279) is true of pids; of ports it is not proof
  either. Such a program answers for the daemon: by itself to `status`, to which any HTTP is a
  sign of life (cli.py:357-364), and to `start` if another program has the pid too
  (cli.py:281-285). Nothing in the code could tell the two apart, and no doc says that it does.
- Worse, such a program can mislead a start while it waits: the start reads the stale file before
  its daemon has replaced it, is answered by the program, and returns with its daemon half way
  up. The next stop or start then meets a daemon on its way. `OneDaemonOneFile`,
  `StopRemovesTheFile` and `NobodyIsOverlooked` hold until that has happened (`misled`); the run
  types no further commands then.
- `InstallDelivers` is about an install under which nobody else changes anything
  (`disturbed`), and needs that the package manager has a tmux that works: `install_old_tmux`.
- `RecordedInstallRuns` excepts installs that overlapped (`raced`). `InstallRaisesForAReason`
  lists what makes an install raise: such an overlap, a ttyd that runs from the file to be
  copied to, and a ttyd that was found and then removed or replaced before its version was
  asked. It does not speak of failing input and output, which ends an install as `broken`: a
  download that breaks off raises `IncompleteRead`, which `_fetch` does not catch
  (install.py:172), and so does a directory or a disk that takes no file. `InstallDelivers` and
  `RecordedInstallRuns` hold after those as well.
- `RefusalsAreJustified` has a case of the code's own making: a construction that raised after
  its ttyd was up (`Abandoned`) leaves a ttyd no record names, which refuses everybody until its
  host ends.
- `ComesUpInOrder` says of the attach script only that it is whole or was cut short by a kill:
  the code keeps a cut copy, as its date is new. The same file rule makes `FailuresHaveTheirCauses`
  list a cut ttyd among the causes.
- `LastWordsArrive` leaves out a browser that left, and one that sent something into a
  connection ttyd had closed: there the failing send ends the relay, and what ttyd said last
  may be lost.
- `ResponseIsWhole` is about responses ttyd completed. One it breaks off is passed on as far
  as it came, with a regular end. A reset may lose the rest of one it had completed.
- `BothEndsClose` excepts the accept that never got through: its send is outside the
  `try ... finally` (asgi.py:214, 249-255), so when it raises because the browser has left, the
  connection to ttyd stays, a client of the session.
- Parts of a hazard that no property covers are in its note in `PROJECT.json`.

Five runs end in a violation. Each checks a sentence of the code's comments or docs:

- `create_race`: `create()` "refuses to attach to an existing id" (core.py:295). Two concurrent
  calls both find nothing, both go on to `session()`, and the second attaches.
- `ttyd_steal`: unlinking a dead socket "disconnects no one" (ttyd.py:311). Between the look
  and the unlink another host's ttyd has bound the name.
- `replay_twice`: "A retried POST must not type a command twice" (server.py:55). A retry that
  overlaps the first attempt finds nothing remembered yet.
- `daemon_twice`: "One daemon, one file" (cli.py:84). Two shells type `tmuxd start`; both find
  nobody. The second daemon takes its ports from the file of the first, overwrites the file,
  cannot bind, and unlinks it. The first daemon serves on, unnamed.
- `install_old_tmux`: a tmux that is too old is an error (docs/v1/works/07-install.md:212). What
  the package manager put on the PATH is recorded without a look at its version: install
  exits 0, and no Tmuxd constructs.

## 4. Fairness

- Store: a caller between flock and release keeps running (`StoreFairness`: weak fairness of
  read, replace, release). Nothing makes a caller start a call.
- Pool: weak fairness of the steps of a call that has begun, and strong fairness of `Acquire`:
  `flock(LOCK_EX)` sleeps in the kernel, which wakes the waiters at each release, so a caller
  for whom the lock is free again and again gets it. The environment is not fair.
- ttyd: weak fairness of a host's steps inside `ensure()` and `close()`, and of a forked child
  reaching exec. Its clock runs too (`Timeout`): of the rounds of the startup loop, one finds the
  deadline behind it. Of ttyd nothing is assumed, so `CallsEnd` covers one
  that hangs and one that ignores SIGTERM.
- Daemon: weak fairness of every process on its way up or down and of every command. start
  looks at the daemon and at its clock in turn, so the clock's step is enabled only now and
  then: strong fairness of `StartGivesUp`. The stranger and the signals are not fair.
- Relay: weak fairness of the coroutine and of each task: the event loop runs what can run, and
  a peer that has not gone reads what it is sent. ttyd and browser need not say anything.
- `ControlApi` and `Setup` are checked for safety only: every handler and every constructor is a
  bounded sequence of steps without a wait.

## 5. Proofs

All theorems hold for any values of the constants that satisfy the named assumptions, which say
no more than that bounds are numbers, that `None` is nothing else, that somebody calls, and that
the sets of values are what the code has. Of a machine they say that each binary there runs or
does not, and that a new state directory has neither a `tmux.conf` nor an attach script.

| Theorem | Statement |
|---|---|
| StoreTypeCorrect, LockExcludes, TouchLosesNoWrite | `StoreSpec => []StoreTypeOK`, `[]LockHeld`, `[]TouchKeepsRecord` |
| StoreImplementsAtomicRecords | `StoreSpec => ImplementsAtomicRecords` |
| PoolTypeCorrect, RecordsStayReal, SweepSparesLive | `Spec => []PoolTypeOK`, `[]RecordsAreReal`, `[]SweepSparesListedSessions` |
| PoolKeepsStoreDiscipline | `Spec => [](LockHeld /\ TouchKeepsRecord)` |
| SessionsAreLeftAlone | `Spec => LiveSessionsAreLeftAlone` |
| PoolImplementsAtomicRecords | `Spec => ImplementsAtomicRecords` |
| RecordsAreTruthful | `OrderlySpec => []RecordsTellTheTruth` |
| OneCreatorIsRefused, OneCallersIdIsNew, OneCallerHasNoExternals | `OrderlySpec => []OneCallerIsRefused`, `[]OneCallerGetsANewId`, `[]OneCallerSeesNoExternals` |
| TtydTypeCorrect, HandlesAlwaysLeadThereInOrder | `TtydSpec => []TtydTypeOK`, `[]HandlesLeadThereInOrder` |
| RefusalsAreAlwaysJustified, OnlyItsHostEverStopsATtyd | `TtydSpec => RefusalsAreJustified`, `OnlyItsHostStopsATtyd` |
| ApiTypeCorrect, OkAlwaysMeansDone, AcknowledgedStaysFinal | `ApiSpec => []ApiTypeOK`, `[]OkMeansDone`, `[]AcknowledgedIsFinal` |
| DaemonTypeCorrect | `DaemonSpec => []DaemonTypeOK` |
| OneDaemonAlwaysHasOneFile | for one ruling shell, `DaemonSpec => []OneDaemonOneFile` |
| StopAlwaysRemovesTheFile, StartIsNeverFooled, NobodyIsEverOverlooked | for one ruling shell, `DaemonSpec => StopRemovesTheFile`, `StartIsNotFooled`, `NobodyIsOverlooked` |
| RelayTypeCorrect, RelayedInOrder, LastWordsAlwaysArrive, ResponsesAreWhole | `RelaySpec => []RelayTypeOK`, `[]InOrder`, `[]LastWordsArrive`, `[]ResponseIsWhole` |
| SetupTypeCorrect, RecordedInstallAlwaysRuns | `SetupSpec => []SetupTypeOK`, `[]RecordedInstallRuns` |
| InstallAlwaysDelivers | `Packaged \subseteq {"good"}`: `SetupSpec => []InstallDelivers` |
| EntriesAreNeverOverruled, InstallNeverRaisesWithoutReason | `SetupSpec => EntriesAreNotOverruled`, `InstallRaisesForAReason` |
| AlwaysComesUpInOrder, FailuresAlwaysHaveTheirCauses | `SetupSpec => ComesUpInOrder`, `FailuresHaveTheirCauses` |

TLC finds every inductive invariant below to hold on the instance of its component's run.

**The store.** `LockHeld` alone is inductive, `TouchKeepsRecord` is not: that
the record in a touch's hand still matches the disk needs that nobody else is in the section
(`LockHeld`) and that every replacer is in it, and a lemma about what a call carries at each
step (`CallsCarryArguments`). `StoreInv` is their conjunction with the types. A delete, which
takes no lock, can only remove the record, which `TouchKeepsRecord` allows for. Refinement
follows: only a replace and an unlink change `disk`; a replace is a `Put`, a `Stamp` if the
record is there (then `TouchKeepsRecord` says nothing else changes), or a `Restore`.

**The pool.** `RecordsAreReal` speaks of the disk; a record gets there from a
store call, and there from `NewSession` or from a read of the disk, so `PoolInv` adds that
carried records are real too (`CarriedRecordsAreReal`) and that `born` only grows
(`DescribesIsStable`). `SweepSparesListedSessions` speaks of the moment before the unlink;
`SweepKnowsTheDead` carries it from the list of live sessions to that moment: what is in the
sweep's hand is dead, or was created after the list. `StoreInv` is carried along through the
lemmas of the store, one per kind of step.

**Orderly callers** (`PoolOrderlyProofs`). The four properties of `pool_orderly` fail under
overlap, so the theorems are about `OrderlySpec`: one caller with any call, or any number that
open and get. `OrderlyInv` is `PoolInv` and `GoodOrder`. `LiveAreRecorded` says where the record
of a live session is: on disk, or about to be put there; so a touch never replaces what is not
there (`TouchesFindRecords`), and what is on its way to a file is the live session's
(`WritesCarryLive`). `OneKnows` is the other half, for the caller alone: what it has seen stays
true until it acts on it, since sessions end and records expire under it but none begins. Its
list still has all live sessions when it picks a number (`PickKnows`), a name it found free is
free when it makes the session (`CreateKnows`, `GeneratedKnows`), what it deletes is dead
(`DeleteKnows`), and what it attaches to has a record (`AttachKnows`). Callers together only look
(`OnlyLook`), and nobody deletes.

**ttyd.** `HandlesLeadThereInOrder` speaks of handles; what makes it true is who can have which
ttyd in hand. `TtydInv` says that a host owns its own children only, that what it or the record
names serves the base path written beside it, and, on a port, that who serves holds it. In order
it says more (`InOrder`): a ttyd on its way up belongs to the one host that is constructing, the
name that host found free stays free, and the one that serves is in the record or about to be,
or its construction failed on the way.
Every step leaves the ttyds alone (`HostRespects`), changes some (`TtydRespects`) or starts one,
and each kind keeps the invariant once and for all.

**The control API.** An answer given from the memory is true because the key got there from a
handler that had done its work (`PutsAreDone`, `SeenIsDone`); it is final because nothing is old,
or in the hands of a sweep, before it lapsed (`OnlyLapsedGo`), so that an attempt sent after the
answer finds the key when it looks (`AckedAreSeen`, `LateOnesWait`). None of it needs that
clients are patient.

**The daemon.** The properties fail with two shells that start daemons (`daemon_twice`), so the
theorems assume that one shell `r` rules, and that a daemon is not slower than a command waits
(`OneRules(r)`); onlookers, signals and strangers are unrestricted, at ports as well. What is
inductive is `misled \/ DaemonInv`: once a start was misled nothing is claimed any more.
`DaemonInv` says that there is one daemon at most, that it is in the file from its write to its
cleanup, that a file without a daemon is orphaned, and what the ruling shell may rely on at each
step of its command (`Knows`): when it is about to spawn there is no daemon, and what its start or
stop has read still names the daemon there is. `Sane` carries from `Settings` to `Connect` that
the record read is the daemon that was met.

**The relay.** `LastWordsArrive` and `ResponseIsWhole` speak of the end; `RelayInv` says what has
been sent at each step before it (`SentSoFar`): nothing before the accept or the start, then a
stream of frames that ttyd did say, and when the task from ttyd has ended, all of them and the
close, or the browser has left. `SentAtLast` keeps that once a task has ended the relay, with
the other excuse, a frame that came too late. It needs that ttyd says nothing after its close
(`TtydSpeaks`) and that the tasks start with the relay (`TasksWait`). That a stream with one more
frame is a longer stream is a lemma about sequences (`Longer`), so the sequence is never taken
apart again.

**Installs.** `SetupInv` adds to the types what an install carries from step to step
(`EntriesAreCarried`), that only a copying install has a binary open (`OnlyCopiesWrite`), which
names the record can hold (`NamesAreKnown`), what a lone install can rely on (`OneAtATime`), and
that what an undisturbed install has found works (`FoundWorks`). Constructors cannot break it
because none of their steps touches a file that an install looks at (`Stock`); that is one lemma
for all of them.

**Constructors.** `DirectoryInv`, on top of `SetupInv`, is about the directory they share. Two
that are under way are both marked crowded (`OverlapsAreSeen`). A file of the directory is open
only at the step of a constructor that fills it, and one that is partly written has such a
writer (`OnlyConstructorsWrite`): that speaks of inodes, so it holds across the replace that
takes an open file, with its writer, from one name to the other. A ttyd runs for hosts that are
up only (`OnlyTheUpRun`), and nobody writes the wheel (`WheelStays`). Hence a constructor that
met nobody is the only writer, and what it has laid out stays until its last step
(`AloneIsInOrder`, `InOrder`), whatever was killed on the directory before it; the ttyd it found
runs, or is the copy, and complete (`Fit`), unless somebody changed it. `ComesUpInOrder` reads
that off at the last step. The causes of `FailuresHaveTheirCauses` are what is left when a step
raises that `InOrder` would have let pass.

Model-checked only: LockIsGivenBack, CallsReturn, CallsEnd, CommandsEnd, BothEndsClose. They are
liveness properties, whose proofs need fairness and ENABLED, which this prover does not reason
about. Every other property of a passing run is a theorem.

## 6. What is not modelled

- attach.sh: a has-session and an exec of attach, which change nothing. The wheel scripts: file
  handling at build time, by one process.
- Validation of ids, quoting, URLs, headers, what `tmux.conf` says, printing: data, on which no
  property depends. The GET handlers change nothing of their own.
- `Store.rename`: nothing calls it.
- Binaries named by an argument or by the environment, which bypass `tmuxd.json`; hosts with
  different arguments on one state directory.
- A wheel that is upgraded under a copy in progress.
- A recorded pid that has become that of another ttyd: `_is_ttyd` looks for the name of the
  program and would take it.
- A server that shuts down and cancels the relay's coroutines.
- A full disk, or a directory that takes no file, under a constructor. Under an install and under
  the supervisor they are in the model (`Breaks`, `WriteFails`).
- `send()` types the text and then Enter with two tmux commands; that a session re-created in
  between gets the Enter is not stated: one session of the control API is there or not.
- `kill()` of a session that ends between its has-session and its kill-session raises. The step
  is in the model; docs/v1/sdk/errors.md:100 calls kill quiet without saying that it means this
  case, so no run claims it.
- Threads of one process as such: a flock on a descriptor of its own excludes threads like
  processes, and the pool keeps nothing in memory between calls. The one exception, the death
  signal of ttyd, is in Ttyd (`ThreadEnds`).

## 7. What could come next

1. Two ruling shells that never start at the same time, and a daemon slower than stop waits
   (`Slow`), with what then remains of the properties.
2. Two sessions in the control API, killed and re-created under a request.
3. The safety half of the liveness properties as theorems: that a call in progress always has a
   next step, unless it waits for the lock.
