# tsession in TLA+

`tsession` lists the sessions of coding agents (Copilot CLI, pi) on this machine
and on remotes, resumes them in tmux, announces their state changes, and shows
them in a browser.  One Go program plays all parts: short-lived commands
(`list`, `browse`, `resume`, `rename`), a background watcher, a web server and a
small GUI around it.  The parts share files under `~/.tsession`, one tmux server,
and, in the web server, the maps behind a few mutexes.  That sharing is what
these modules are about: most operations are simple alone, and all of them can
be interleaved, cut off, or repeated.

Contents: [inventory](#inventory), [what is hard](#what-is-hard-here),
[modules](#modules-and-the-code), [abstract specifications](#abstract-specifications),
[runs](#runs), [fairness](#fairness), [proofs](#proofs),
[where code and words disagree](#where-code-and-words-disagree),
[not modelled](#what-is-not-modelled), [plan](#plan).

## Running

    tlc -workers 2 -config MCNotify.cfg MCNotify      # any MC<name>.cfg with its module
    tlapm NotifyProofs.tla                            # any <name>Proofs.tla

A configuration with a suffix (`MCServers_reap.cfg`) is meant to report a violation;
the others pass.  `PROJECT.json` ties each definition
to the lines it models, each property to a plausible bug that would break it,
and each hazard to the properties that watch it.

## Inventory

| part | state it keeps | operations | talks to |
|---|---|---|---|
| Code server registry, `internal/codeserver` | map key -> instance under `r.mu`; per instance status, process, timer, port, tunnel teardown under `in.mu` | Start, Stop, Get, Status, Shutdown; goroutines `readLoop`, `waitLoop`, start timer, close | `code serve-web` child, tunnel process on the remote, the web UI |
| Code view, `internal/webui/code.go` | known URL keys and one cached transport per key under `codeKeysMu` | start, status, stop and proxy requests | registry, browser |
| Session cache, `internal/webui/sessioncache.go` | last list, its error and age, `refreshing` | Get, background refresh, PatchName | every web handler, the session provider, `names.json` |
| Notifications, `internal/notify` | `notify.json`, `notify-web.json`, the lock file beside them; an observer's in-memory snapshot | gather, compare and update under `flock`, fire | watcher, `list` processes, `/api/events`, desktop |
| Terminals, `internal/webterm` | map key -> terminal under `r.mu`; per terminal ring buffer, subscribers, `closed`, `exited` | Attach, Live, Subscribe, Close, Shutdown; `readLoop`, `waitLoop` | a PTY running tmux attach, WebSockets |
| Terminal handlers, `internal/webui/terminal.go`, `localterm.go` | `localTermMu` | open, bridge, leave | terminals, session cache, tmux web sessions |
| Done markers, `internal/donestate`, `sessions.Merge` | `runtime.json` | Merge (load, compute, save), Clear | state directories, every list, `resume` |
| Repository aliases, `internal/reponames` | `repo-names.json`, its temporary file and lock file | Set, Load | `rename-repo`, web server, every list |
| Session names, `internal/names` | `names.json` | Set, Load | `rename`, web server, `Merge` |
| Remote bridges, `internal/tmux/bridge.go`, `cmd/remote_bridge.go` | options and panes of tmux sessions | EnsureBridge, createBridge, alternate name | tmux server, `resume` |
| Watch daemon, `cmd/watch.go` | `watch.pid` | `watch`, `watch --daemon`, `stop-watch` | processes and signals |
| Snapshot cache, `internal/cache`, `cmd/watch.go`, `cmd/list.go` | `cache.json`, stamped | a watcher's refresh, `loadAll` and its live fallback, `loadAllWithRemotes` | watcher, every list |
| Discovery and classification, `internal/sessions` | none: reads database, lock files, event logs, open files | LoadRecent, DiscoverLiveSessions, classifyFromEvents, LockedSet | the agent, which writes them |
| Pane matching, `internal/sessions`, `internal/tmux` | what a load has read of tmux and `ps` | ResolveTmuxByPID, Merge's directory match, ResolveRemotePanes | tmux, ps, `resume`, `rename`, `new` |
| Remote discovery, `internal/remote` | the gathered lists and warnings of one fetch | FetchAll, EnsureDaemonAndSnapshot | ssh, docker, codespaces |
| Remote installer, `internal/remote/installer.go`, `update_state.go` | an update record per remote; the tarball and the binary over there | look-up, installation script, SaveUpdateState | ssh, network |
| Server life cycle, `cmd/serve.go`, `gui/` | port, grouped tmux sessions, the registry's terminals | probe, reap, listen, attach, shut down | tmux server, browsers |
| Front end, `internal/webui/static` | panes with a cap, sockets | open, evict, reconnect | web server |
| pi extension and sessions | a file per session | written whole and renamed; read whole | pi |
| Commands, config, rendering | none of their own | | fzf, git, tmux |

What makes each part correct, in a sentence:

* *Code server*: one live server per session; a tunnel is undone exactly once;
  whatever races, an instance that failed or was stopped stays so, one that is
  running is not failed by its own start timer, and a start comes to an end.
* *Code view*: a proxied request reaches a server of its own session.
* *Session cache*: one refresh at a time, stored in the order they read; the
  list catches up with the sessions and their names.
* *Notifications*: each transition into done or waiting is announced once.
* *Terminals*: an open terminal can be found to be closed; a teardown does not
  hit the successor; a browser sees output in order, and the exit; nobody waits
  for ever.
* *Done markers*: done means that a turn ended and nobody has resumed since.
* *Aliases and names*: what was stored is there, for readers without a lock too.
* *Bridges*: a resume gets a bridge to its own session, and only one is made.
* *Watcher*: one watcher; `stop-watch` tells the truth; `--daemon` leaves one running.
* *Snapshot cache*: a list has each source once, and comes to show what is.
* *Discovery*: a list says of a session something it has been while it was loaded.
* *Panes*: resume shows the pane of the session's own agent; `new` ends up in its own
  directory; no pane belongs to two sessions.
* *Remotes*: each is listed or warned about; what is run there is a whole binary.
* *Servers*: while one server runs, grouped tmux sessions are of terminals it will tear down.

## What is hard here

* **Work done with the lock released.**  `PortReady` opens a tunnel while Stop,
  the timer or the child's exit may close the instance.  `sessionCache.Get`
  releases its mutex between looking and deciding, and again while loading.
* **Views pieced together.**  A load reads database, lock file, log and open files of a
  session one after the other, and panes, processes and command lines; the agent
  and the user go on meanwhile.
* **Work that outlives its client.**  The script that installs on a remote
  goes on after ssh was cut off; a second one may start beside it.
* **Locks taken after the data was read.**  An observer gathers sessions first
  and takes the `flock` second; a Merge reads state directories, then markers.
* **Read-modify-write of whole files** by processes of their own: `runtime.json`
  and `names.json` have no lock across processes, the other stores have one.
* **Death in the middle**: temporary files left behind, a truncated file, a
  bridge without its tags, a pidfile of a process that is gone.
* **Names that outlive their owner**: pids, tmux session names, the one name of
  the temporary file, the URL key of a code view.
* **Nested locks with a blocking write inside**: `broadcast` writes to a
  WebSocket under `t.mu`; `isClosed` waits for `t.mu` under `r.mu`.

`PROJECT.json` lists these at their lines under `hazards`.

## Modules and the code

Each component has a module.  Components without common state are put side by side by
`Commands`, `Servers`, `Stores` and `Discovery`.  `<name>Proofs` extends a module with
theorems; `MC<name>` gives its constants values for TLC.  An action is one critical
section, or one effect outside of any: a file operation, a tmux command, a blocking call.  A handler that
releases a lock is as many actions as it has critical sections.

**CodeServer** (registry.go, process.go, tunnel.go).  `instances` is the map,
`status`, `timer`, `dialTeardown` are the fields of an instance; `reader` says
where `readLoop` is (scanning, in PortReady, holding its answer, done), `closer`
where the one goroutine is that took the instance out of the map, with the two
locals `close` remembers from its critical section.  A launch consumes an element of
`Instance`, so that an instance that was replaced can still act.  The child may
exit at any time and may never print a port; a tunnel may fail or never come up.
Lines of output are left out but for the one that names a port.

**CodeSlots** is the registry as its callers see it; see below.

**CodeProxy** (webui/code.go) is written on top of CodeSlots: four kinds of
request, each a sequence of critical sections of `r.mu` and `codeKeysMu`.  A
transport is the instance its dial function captured.  A session and its URL key
are one value, so the hash is taken to be injective.

**SessionCache** (webui/sessioncache.go, mutations.go).  The list is one
session with a state and a name, both version numbers.  A provider call reads
them in one step and delivers later.  `age` counts ticks up to `TTL`.  A
rename stores first, then patches.

**NotifyStore**, **Notify** (notify.go).  A batch is, per source, what it says of
each session; `Recorded` and `Announced` are the loop of `diffAndUpdateStore` over it.
Observers are desktop ones or `/api/events` handlers (`Web`), which keep a
snapshot in memory as well and drop their events when the save failed.  A
source may fail, answer from a cache, or lose a session.

**TermStream** (webterm.go): what one terminal sends its browsers.  Output is
numbered chunks; the ring holds `Capacity` of them; `Marker` is "[process
exited]".  Ring and subscribers have locks of their own and the steps follow them.

**WebTerm** (webterm.go, reap.go's names, terminal.go, localterm.go, serve.go):
registry, handlers, the tmux session behind each key, and shutdown.  Locks are
variables where somebody waits for them.  A browser may stop reading: then
its terminal's `t.mu` stays held.  A launch consumes an element of `Terminal`.

**DoneState** (donestate.go, merge.go).  Loading the directories, loading the
file, and saving are steps of a process.  A Merge that cannot read the file goes on
from an empty one, and saves it (`MergeBlind`).  `earned` remembers what really
happened, `overlap` whether two processes have been at it at once, `late` who holds
contents to save that another's save has overtaken, and `blind` in a process that it has
merged into nothing.

**NameStore**, **RepoNames** (reponames.go).  Files are inodes under two names,
so that renaming over a file somebody has open is what it is.  `os.WriteFile` is
open-and-truncate, then write; each may fail and a process may die anywhere.

**Names** (names.go): the same operations without the file lock, and without
the temporary file.

**Bridge** (tmux/bridge.go, cmd/remote_bridge.go).  Each tmux command is a step
of the server.  A target given with `-t` matches an exact name or else the one
name it is a prefix of (`Target`); an alternate name is longer than its primary,
so it is such a match.  It is the primary with a hash of fixed length after it, so two
sessions with one alternate name have one primary name: `BridgeAssumption` says so.
Panes die, users kill sessions, resumes are interrupted.

**WatchDaemon** (cmd/watch.go).  Pids are reused; a pidfile is truncated, then
written; a SIGTERM waits in its channel until the watcher looks at it.

**EventLog** (statedir.go, filter.go, store.go, lsofutil).  An agent (external)
runs turns, in them tools, questions and permissions side by side, and logs what
it does; `tail` is the end of the log a reader gets, from which any number
of old events may have dropped out with each new one.  `Walk` is the code's loop
from the last event back, a function of the position; `classifyFromEvents` looks at what it
has come to at the beginning.  A load is its four reads in their order.
Times are kept only as the one tie that matters: a turn that starts in the moment the last
one ended.

**Panes** (tmuxmatch.go, merge.go, resume.go, rename.go, mutations.go, new.go,
worktree.go).  tmux sessions with a pane and a directory each, agents with a
process so far below it, and the user who opens, closes, renames.  A load reads lock files,
sessions, panes, processes in this order; `name` is the directory's
guess, `target` the process's trace; `resume` prefers the second, `rename` the
first.  `new` lists, chooses, creates, switches.

**RemotePanes** (remotematch.go).  Panes connected to remotes, with titles.  That
a title resembles a summary, or a pattern occurs in a command line, is a relation
between model values (`Alike`, `Matches`).  A load gives one session after the other a pane;
the order, that of a map and of what remotes print, is any.

**Remotes** (remote.go, client.go, installer.go, github.go, update_state.go).  Each
fetch is, per remote, a sequence of remote commands under one deadline; the
installation script is a process of its own on the host, command by command,
with the tarball and the binary it reads and writes.

**ServerLife** (serve.go, gui/app.go, reap.go, and of webterm.go what concerns several
servers).  Processes that probe, reap, listen, serve and stop, and the grouped tmux
sessions they share by name.  A terminal is in its server's registry (`warm`) until the
server takes it out, whether its tmux session exists or not: its script makes that later,
or fails (`scripts`, `EnsureWeb`), and nothing is taken out when it ends (`Ends`).  A
terminal taken out (`torn`) has its session killed after that, and the kill may fail.
While a server shuts down, handlers of earlier requests still attach (`Handling`).

**Snapshot** (cache.go, watch.go, list.go).  Sources with a version that counts
their changes, the file with a saturating age, refreshes that stamp last, and the
three ways a load is used: with remotes, local, and to find one session.

*Compositions.*  `Stores` (DoneState, Snapshot), `Servers` (WebTerm, ServerLife,
WatchDaemon), `Commands` (RepoNames, Bridge, Panes, Names) and `Discovery` (TermStream,
EventLog, RemotePanes, Remotes) each put modules side by side that share no variable: the
initial state picks a part, and from then on only its steps are taken while the others
rest.  A behaviour is one of one part; the state space is the sum of theirs.  A composition
extends its first module, instantiates the others, and assumes of its instances what their
modules assume.  Its properties are those of the parts under their own names, so that runs
and theorems speak of the same formula.  Parts with liveness keep their fairness, conjoined
with the choice.  `MCWebServer` composes SessionCache and WebTerm in the same way, and `MCServers` adds CodeProxy to
`Servers`; the assumption on CodeProxy's constants is made there, where it is instantiated, and is a
hypothesis of its theorems.

**History variables.**  Several promises hold until something happens that the
code does not provide for.  The modules record what has happened (`odd`, `harm`,
`flaws`, `overtaken`, `overlap`, `late`, `orphans`, `others`), and each property names the events it does not
survive.  This is stronger than forbidding them: the properties say
which events are harmless, and the runs contain all of them.

## Abstract specifications

* **CodeSlots**: per session one slot, whose instance moves starting ->
  running -> failed -> stopped and never back, and leaves the slot before it is
  stopped.  `CodeServer` implements it (`ImplementsSlots`: TLC in `codeserver`,
  theorem `Refinement`); `CodeProxy` is built on it, so what is shown of the proxy
  holds over the real registry.
* **NotifyStore**: comparing a batch with the snapshot, recording it and learning
  what to announce is one step.  `Notify` implements it with a lock file and a
  file that is replaced (`ImplementsStore`).
* **NameStore**: each Set changes its own alias in one step and answers, or
  answers an error and has changed nothing.  `RepoNames` implements it whatever
  fails and whoever dies (`ImplementsStore`).  `Names` does not, and is
  not claimed to.

## Runs

All bounds are constants in the `.cfg`.

| run | instance | what it shows |
|---|---|---|
| `codeserver` | one tunnelled key, one local, two launches | `ActiveReachable`: a live server is in its slot or on its way out. `ClosedHasNoTunnel`, `TeardownsOnce`: a tunnel opened while the instance was being closed is still undone, once. `RunningFailsByDeath`: a timer that could not be stopped does not fail a server that came up. `LeftBehind`: once the registry is empty and all goroutines are done, nothing is left but what two kinds of failed instance leave. `ImplementsSlots`. `StartResolves`, `StopReleases`: liveness. |
| `codeproxy_stale` | one session, two launches, one request | violation, see below. |
| `stores` | the markers: two processes, two sessions, two moves, deaths | `DoneIsEarned` until processes overlap; `FinishedIsMarked` unless a process is about to save over another's save, or has merged without having read the file; `MarkersSettle` (`Settles` where that part runs) whatever happens. |
| | the watchers' file: two watchers, a reader, one remote, a tolerance of one tick, one change per source | `ListedOnce`; `ListsSettle`. |
| `webserver` | the cache: two handlers, two refreshes, TTL 2, two state changes, two renames, failing loads | `RefreshesInOrder`, `CatchesUp`. |
| | the terminals: the local one and a session's, two requests, one launch; browsers read on | `RequestsServed`: the nesting of `localTermMu`, `r.mu`, `t.mu` leaves nobody waiting. |
| `notify` | two observers of one source that fails, lags, and loses its session; crashes, failed saves; two moves | `AtMostOnceInOrder`, `ImplementsStore`, `DoneIsAnnounced`. |
| `notify_observers` | two observers, nothing fails | violation, see below. |
| `servers` | the local terminal and one session, two requests, two launches | `OpenIsRegistered`, `TeardownSparesSuccessor`. |
| | a server and a GUI, the local terminal and a session, three starts; scripts come late or fail, listing and killing may fail | `SoleServerOwnsAll`: a server that has run alone from its start has every grouped session that exists in its registry, or is about to kill it, except those tmux did not list or kill and those the script of a terminal that is gone has made. |
| | one shell, watchers under three pids | `OneWatcher`, `WatcherEnsured`. |
| | CodeProxy: two sessions, two launches, two requests | `DialsOwnServer`: a proxied request reaches its own session's server. |
| `servers_reap` | two servers and a GUI | violation, see below. |
| `servers_daemon` | two shells, three pids | violation, see below. |
| `commands` | the aliases: one writer in the server, one command, two keys, two inodes; everything fails | `ImplementsStore`. |
| | two resumes whose bridges collide, three oddities | `GivenIsOwn`: who is given a bridge has its own session's, and nobody else's is made over. `AliveIsLeftAlone`: whether resumes overlap and are cut off, or take turns and fail while the user kills bridges, only the user takes a running bridge down, and only an overlapping resume of the same session starts its connection again. |
| | one agent, two directories of one name, three panes, two pids | `ResumeReachesAgent`: the traced pane wins over a session of the same directory or name. `NewLandsInPlace`. |
| | three name writers in two processes | `NamesPersist`; and `TypesHold` for the four. |
| `commands_rename` | the panes of `commands` | violation, see below. |
| `discovery` | the stream: two clients, four chunks, a ring of two | `SeamOnly`: in order; a chunk is lost or repeated only where replay meets live output. `ExitShown`. |
| | logs of up to four events, two things open | `LogTells`: a log that reaches back to the turn's start tells waiting from working. `ReportIsTrue`: a load reports something the session has been since it began. |
| | two panes, three sessions, two of them alike, on two remotes, of which one resembles the other | `RemotePanesAreOwn`. |
| | two fetches from two remotes, one without a binary; one record grows old | `EveryRemoteAccounted`, `RunsWholeBinary` unless installations overlap; and `TypesHold` for the four. |

*Why these bounds are enough to be interesting.*  Every race in this code is one
between two parties about one object: two launches of one key (one is
replaced while its goroutines run on), two observers of one file, two writers,
two resumes, two installations.  A second key or session is there where a mistake
would cross from one to the other (`DialsOwnServer`, a Merge that saves somebody
else's old record, colliding bridge names, alike titles).  `MaxMoves = 2` allows a turn to
end, and something to happen after it; deaths use the same budget, so that "in
the end" is not bought with a run in which a process dies for ever.  `TTL = 2`
separates fresh, stale and newly stale; for the file, `Tolerance = 1` separates
fresh, about to be stale, and stale.  A ring of two and four chunks let the ring
forget something before, during and after a Subscribe.  `MaxTrouble = 3` allows two oddities
of different kinds and one more; three pids let a watcher that is about to leave,
a new one and a stranger exist together; two inodes are the file and its
replacement.  Four events are a turn's start, two things that begin and one that
ends: enough for two open questions, one answered, and a window that has
lost its beginning; of longer logs the theorems speak.  Two panes and three
sessions leave one session without a pane.  Three starts let a server
crash, another clean up after it, and a third run beside that; that the first and the third
are one process started again, as in `servers`, loses nothing, since a process
that is off has nothing but its scripts.

*What the instances leave to the theorems.*  `notify` uses one source and no
`/api/events` observer; the refinement theorem has any number of both, and a
session that two sources report.  The alias part uses one writer per process, so
the in-process mutex is never contended in it; the theorem has any number.
`SingleFlight`, that one refresh at a time is under way, is left to its theorem.
Bridges have theorems for any number of resumes and sessions, of which the run has two;
watchers for any number of shells and pids; servers and GUIs for any number of processes;
fetches for any number of processes and remotes; streams for any number of clients, any
amount of output and a ring of any size; panes for any number of them; logs and windows of
any length, with any number of things open.

*Symmetry* is declared in the configurations of `MCCommands` (the two resumes) and
`MCServers` (launches, requests, servers), whose properties are invariants or speak of single
steps, and which treat these values alike.

*Deadlock* is checked with `MCCodeProxy` (one session), `MCStores`, `MCNotify` and `MCCommands`.  It is
off with `MCCodeServer` (the pool of launches runs out), `MCServers` and
`MCWebServer` (a server has been shut down, the starts or pids are used up) and
`MCDiscovery` (the process in the terminal has exited).

## Fairness

Fairness stands for the scheduler and for calls that are bounded by their own
documentation, never for users, children, remotes or sources.

* *CodeServer*: weak fairness of `readLoop`'s steps, of the return of PortReady
  ("must not block indefinitely", registry.go; the tunnel has a timeout of its own),
  of the timer's firing, `waitLoop` and the closer.  None for a child to print a
  port, to exit by itself, or for anybody to call Start or Stop.
* *SessionCache*: handlers, refreshes and the clock.  `CatchesUp` needs a page
  that keeps asking, as the front end's poll does.
* *Notify*: an observer that lives polls again and goes on; strong fairness for
  the lock, since another observer takes it over and over, and for a source to
  answer again after failing, and for a cache to be refreshed.
* *WebTerm*: handlers, shutdown and the terminals' loops, strong for those that
  wait for a lock.  `ReadingSpec` adds that a browser reads or disconnects,
  which the code does not enforce: without a write deadline the promise depends on it.
* *DoneState*: processes that list go on listing (strong for observing, as a
  watcher or a page does), weak for the rest of a Merge or Clear.
* *Snapshot*: time passes, and a refresh or load that has begun gets on.  Nobody
  has to begin one: without watchers the file grows stale, and a load goes
  to the source.
* *CodeProxy, RepoNames, TermStream, Bridge, Panes, Names, WatchDaemon, EventLog, RemotePanes,
  Remotes, ServerLife*: none in their runs; only safety is claimed of them.

## Proofs

TLAPS proves these for every value of the constants that satisfies the named
assumption of the module (`CodeServerAssumption`, `NotifyAssumption`, ...).
Those say little: None is not an element of the other sets, bounds are naturals,
a ring has room for one chunk.  They are proved of the component's specification;
`CommandsAreTheirs`, `ServersAreTheirs`, `StoresAreTheirs` and `DiscoveryIsTheirs`
(each behaviour of a composition is one of each of its parts) carry them to the
specifications the runs check.

| module | theorem | from |
|---|---|---|
| CodeServerProofs | `TypeCorrect`, `Inductive` | |
| | `OneServerPerSession`, `NoTunnelAfterClose`, `NoDoubleTeardown` | `IInv`: map, status, closer, reader and tunnel agree |
| | `FailedStaysDown`, `RunningServerSpared` | the same, step by step |
| | `FewLeftBehind` | `Fates`: a process that lives although its instance failed or was stopped is about to be killed, or was refused a tunnel |
| | `Refinement` | the same: each step is a step or a stutter of CodeSlots |
| CodeProxyProofs | `TypeCorrect`, `NoCrossSessionDial` | `IInv`: a slot, a cached transport and what a handler holds belong to the key they are filed under |
| SessionCacheProofs | `Inductive`, `OneRefresh`, `OrderedRefreshes` | `IInv`: one refresh in flight while `refreshing`, and it read no earlier than what a refresh has stored |
| NotifyProofs | `Inductive`, `Refinement` | `IInv`: the holder of the lock has read what the file holds |
| | `NeverTwice` | `InOrder`: of each session, what was announced, what observers have claimed, and what a current batch and then the present would announce, together are no more than happened |
| StoresProofs | `Inductive`, `MarksAreEarned` | `IInv` of DoneState: while processes take turns, file and what a Merge or Clear holds agree with what the sessions have done |
| | `ShownOnce` | `IInv` of Snapshot: what watchers and readers hold, and a fresh file, have each source once and the local one; what remotes will be added to has no other |
| ServersProofs | `Inductive`, `NoneLost`, `SuccessorSpared` | `IInv` of WebTerm: locks are held by who is where they are needed, a terminal is closed before it leaves or after its launch, and the open ones are registered |
| | `SoleServerOwns` | `IInv` of ServerLife: while a server is alone, what is left of others is what it has listed and not killed yet (`Alone`); who does not reap or serve holds nothing (`Holds`) |
| | `WatcherIsOne`, `WatcherIsEnsured` | `IInv` of WatchDaemon: a watcher on its way up has its shell waiting and one that is up has its pid in the file; it leaves for a signal only, whose sender sees it through |
| CommandsProofs | `Inductive`, `Refinement` | `IInv` of RepoNames: one writer past the lock, the file whole, and the writer's next content is the store with its own alias changed |
| | `NamesArePersisted` | `IInv` of Names: while processes take turns, one writer is past its read, and what it read is what is stored |
| | `ResumeShowsAgent`, `NewIsInPlace` | `IInv` of Panes: panes and pids are numbered and not reused, so what was traced, or chosen, stays what it was |
| | `BridgeIsOwn`, `RunningBridgeSpared` | `IInv` of Bridge: a bridge gets its id last, what a resume found it goes on finding or finds nothing (`Sound`); with overlaps or without, for different reasons (`Overlapping`, `Alternating`); what a failed resume takes down again is not running yet (`RunningNotRolledBack`) |
| | `TypesAreKept` | all of these |
| DiscoveryProofs | `ExitIsShown` | `IInv` of TermStream: who joined before the exit is either still owed the broadcast or has it |
| | `GapsAreSeams` | `Sequenced`: the ring ends with the last chunk written to it, live output with the last one broadcast |
| | `LogIsTold`, `ReportsAreTrue` | `LogInv` of EventLog: the log since the turn's start accounts for what the agent holds (`Shows`), and what a load has read so far was so since it began (`Loaded`) |
| | `PanesAreOwn` | `IInv` of RemotePanes: panes are given only when the remotes are known, to sessions that have had their turn |
| | `EveryRemoteIsAccounted`, `WholeBinary` | `IInv` of Remotes: a result says of each remote what its goroutine has come to; without an overlap one script at most is at work on a host, and nobody is on a binary that is trusted |
| | `TypesAreKept` | all of these |

Why strengthenings are needed, by examples.  `ActiveReachable` alone is not
inductive: it has to be known that a slot's instance was launched for that key
and has no closer yet (`MapAgrees`), and that an instance leaves "queued" only by
becoming stopped (`StatusAgrees`).  For the tunnel, `OneOwner` says in whose hands
it is: the reader's, the instance's, then the closer's.  `ImplementsStore` of Notify maps
`store` to the snapshot file; a save is the abstract step only if the snapshot compared
with is still what the file says, which is `HolderReadsLast`, and that is kept
because nobody else writes without the lock.  The same shape returns in RepoNames,
where it must also survive that a writer died and left its temporary file, and
that the file has been renamed under a reader.

`AtMostOnceInOrder` counts.  An announcement is made some steps after its
observer has claimed it, and claimed when the batch is compared, which was gathered
before; so the budget that an event brings (`entered`) has to be traced through all
three.  `Claims` makes the claims of all observers a finite set, so that a claim
made or announced adds or removes elements; `Coming` is what a batch would still
announce, followed by the present, and it is bounded for each batch that no save has
overtaken.  `SeamOnly` is about sequences of which only the last element is known to
the step that extends them, hence `EndsWith`: what follows is the successor of the
last chunk that is not a marker.

`GivenIsOwn` of Bridge holds for two reasons.  When resumes overlap and nothing else
goes wrong, what one has found stays (`Overlapping`).  When they take turns, the user
may kill bridges and a resume may be cut off; then what one has read is so or is gone
(`Alternating`), and a killed bridge leaves a name under which tmux finds
at most one other, whose id was read as well (`Meant`).

`LogTells` relates counters of a walk from the end of the log to what the agent has
begun and ended from the other side.  They meet in an account (`Account`): a sequence of what
was held after each event since the turn's start, from nothing to what is held now,
each the one before changed by its event (`Follows`).  The invariant says that there
is one, if the window still shows that start (`TurnLogged`); a new event extends it, and a
window that moves shifts it.  Against such an account the walk can be followed back:
at each event, `Agrees` bounds what is counted by what was held there and is held in the end,
so at the start of the turn, where nothing was held, it says which questions are open
(`WalkAgrees`, `TurnClassified`).  `Agrees` is an inequality, not an equation: a completion does not
say whose it is, which is why a question answered beside a running tool is one of the exceptions.
Where the agent rests, the last event is a turn's end or its own, and the walk ends at once
(`IdleClassified`).  `ReportIsTrue` needs of this only that a sound reading is the
truth of that moment (`SoundReading`); the rest is which of the four reads was when.

The library's induction theorems cannot be used here.  Where a least or a last element is
needed (`LastPosition` of NotifyProofs, `FirstPane` of DiscoveryProofs), it comes
from the well-foundedness of the order of the naturals, and so does induction over the
positions of a log (`DownTo`): the set of positions of which something holds contains the last one,
and with each the one before.  That the recursive function of `Walk` exists and satisfies its
equation (`WalkIs`) is shown the same way.

Each `IInv` was model-checked before it was proved; the runs do not repeat what
the theorems show for every instance, unless the property is in the table above.

*Only model-checked*: every liveness property (`StartResolves`, `StopReleases`,
`CatchesUp`, `DoneIsAnnounced`, `RequestsServed`,
`FinishedIsMarked`, `MarkersSettle`, `ListsSettle`), since fairness is out of the prover's
reach.  Every safety property that a passing run checks has a theorem.  `Shows` is the one invariant
that no run evaluates, as an account is a function into an infinite set; TLC checked
its other parts, and the properties themselves.

## Where code and words disagree

Five are shown by a run of their own.

* `codeproxy_stale`: `registerCodeKey` is documented (code.go:257-259) to drop
  the cached transport of a key, so that a restarted instance gets a fresh one.
  It writes `codeKeys` only.  After a server has died and been started again, requests
  under its URL dial the dead one until somebody stops it.
* `notify_observers`: a transition is documented to fire exactly once however
  many observers run (notify.go:191-194).  The batch is gathered before the lock is taken:
  an observer that gathered before a transition and compares after the other has
  recorded it sets the snapshot back, and the next poll fires again.
  `AtMostOnceInOrder` says what holds instead.
* `commands_rename`: a session has two answers to where it runs, the tmux session of its directory
  (`Merge`, merge.go:37) and the pane its process was traced to (tmuxmatch.go:63),
  which fills in the name only when there is none.  `rename` and the web UI
  rename by name (rename.go:46, mutations.go:57): if the agent runs elsewhere, they
  rename a stranger's session.  README.md:168-169 calls the directory "a fallback".
  `resume` prefers the trace; `ResumeReachesAgent` holds.
* `servers_reap`: a server kills all grouped sessions before it listens (serve.go:47, then
  :52), "at that point no grouped session can legitimately still be in use"
  (reap.go:7-9).  A second `tsession serve` kills the first one's terminals and then fails
  for the port.  A GUI whose probe is not answered in time kills them too, on another port.
  `SoleServerOwnsAll` says what reaping is good for.
* `servers_daemon`: when a `watch --daemon` has returned, a watcher need not run, nor be the one the
  pidfile names, though discovery "Ensures `tsession watch --daemon` is running" (README.md:420), and the
  launch waits for the pidfile "so a subsequent `tsession stop-watch` finds it" (watch.go:315-316).
  `stop-watch` waits for three seconds, while a watcher looks at its signals between refreshes only: a launch
  after it finds the old one alive (watch.go:41), starts none, and the old one leaves.  This is the shortest
  trace.  Two launches at once break the property too: both find no watcher, both start one, and the pidfile
  names the last (240).  `DaemonEnsured` holds if neither happens; `OneWatcher` and
  `WatcherEnsured` say what holds whatever else does.

Others the models exhibit; properties are stated with these cases excepted, by
name, rather than left to hold by a smaller model.

* *Code server*: the start timeout does not run `Spec.Teardown` (registry.go:290; doc at 78-80).
  An instance that ran, failed and was replaced by a Start is in no map any more (387), and its tunnel is
  torn down by nobody, though serve.go:102-104 says that Shutdown tears down every instance.  An
  instance whose PortReady failed (279) leaves its process, which close does not kill.  `LeftBehind` says that
  these two are all.
* *Session cache*: a rename can be overwritten for a while by a refresh that read before
  it (sessioncache.go:94; 101-103).  A failed load replaces the list and counts
  as fresh (84; 20-21).
* *Notify*: two sources that disagree about one id make it fire at every poll
  (notify.go:297; 194-195).  A session missing from one batch is forgotten, so
  its next state is a silent first sighting (312; 191-193).
* *Terminal stream*: a chunk that is broadcast between the ring snapshot and the
  joining is lost (webterm.go:265), which is the one gap `SeamOnly` allows; see
  docs/superpowers/specs/2026-09-11-web-session-ui-design.md:161-162.
* *Terminals*: a browser that does not read blocks `broadcast` under `t.mu`, and
  with it `Live`, `Attach` and Shutdown (webterm.go:246; 149-151).  `Live` may hand
  out a terminal whose process has exited (129; 121-122).  A handler may attach
  after Shutdown took its list (serve.go:84; 102-104).  A terminal killed while its script
  is about to make the tmux session leaves that session behind (terminal.go:96-100), as does a
  kill that fails; the next server that starts reaps it.
* *Done markers*: a Merge that loaded before a Clear saves the mark again (merge.go:75,
  donestate.go:103), though `done` is "cleared when the pane is selected" (README.md:472).  Of
  two Merges the one with the older view may save last, so that a session's "working" is
  forgotten and the end of its turn marked by nobody.  `DoneIsEarned` and `FinishedIsMarked`
  except the two, `MarkersSettle` covers them.  A Merge that cannot read `runtime.json`, or not parse it, starts from an empty
  one and saves that over the marks and states of all sessions (merge.go:21; donestate.go:61-63).
* *Names*: two processes that set names at once lose one of them (names.go:56), though the package
  "persists user-defined session display names" (1).  A Load can see the truncated file, as no names (names.go:76); a Set that cannot read
  the file starts from none.
* *Bridges*: of two resumes of one session that both read that its pane is dead (bridge.go:69), the second kills
  the connection that the first has started (77), though a live bridge is to be reused "without starting a second
  connection" (docs/superpowers/specs/2026-07-15-remote-session-local-bridge-design.md:185-186);
  `AliveIsLeftAlone` says that it takes two such resumes.  A second resume may find the first one's bridge before it is tagged
  and make another under the alternate name (bridge.go:65); a resume cut off before the start leaves a tagged bridge with
  a shell in it (102); with overlapping resumes a rollback, which kills by
  name, may hit another's bridge.
* *Watcher*: `stop-watch` may say "not running" while another shell's has
  just started (77); the pid in the file may be somebody else's by now (87).
* *Classification*: a question that was answered still counts as open while
  another tool of the turn runs, and a turn that starts in the very moment the
  last one ended is no turn; after a kill the log goes on saying what it said.
  `LogTells` and `ReportIsTrue` except the three by name, and logs of which the
  window shows a shutdown before the present run.
* *Installation*: two at once may leave a partial binary that passes `test -x`; an
  update record that was cut off while it was written makes its remote a warning
  until somebody removes it (update_state.go:87).
* *Snapshot cache*: README.md:508-510 says that reads of a fresh cache query no
  remote; `list`, `browse` and the web server drop the remotes' sessions from the file and
  fetch all remotes again (list.go:221-250).  When the file is stale, the fallback
  of commands that look for one session (`rename`, `vscode`) finds local sessions only.

## What is not modelled

* *Front end* (JavaScript): panes with a least-recently-used cap and sockets that reconnect,
  in one browser thread; of the server it uses what CodeProxy, WebTerm and the
  caches already offer to any request.
* *pi extension and sessions*: one writer per session, a file that is
  renamed into place, a reader that takes it whole.  Only the reuse of a pid could mislead it, which
  EventLog and Panes have for the other agent.
* *Desktop delivery, configuration, rendering, the rest of the commands*: one call
  to the system, straight-line code, or layout of text; nothing concurrent or remembered.
* *Code without a caller outside of tests*: in remote.go the fetch of single
  files (`Fetch`, `ParseGatherOutput`, `ToSessions` and its own classifier), in client.go
  `RequestSnapshot` and the RPC server it asks, in statedir.go `preliminaryState`,
  `tailLastEvent`, `LoadAllStateDirs`.
* *Bytes*: the relay of dial_devcontainer.go copies both ways, and its Wait
  (117) may close the pipe while the proxy still reads; this is inside `os/exec`, of
  which the repository shows only the call.
* *Differences of flags*: every watcher and reader of Snapshot has one maximal age
  and one interval; a list made by a watcher with a shorter `--max-age` lacks
  older sessions.  Temporary files a killed watcher leaves are never read.
* *Inside what is modelled*: message texts, log buffers, argv, response bodies,
  sizes and contents of terminal output, time (a timeout is an event that may happen at any moment
  after it was armed), and the semantics of the file system beyond what is
  stated (rename is atomic, a write is not, an open file keeps its inode).

## Plan

Done, in this order, by how much of the program rests on it: CodeServer and
CodeSlots, CodeProxy; SessionCache; NotifyStore, Notify; TermStream, WebTerm;
DoneState; NameStore, RepoNames; Names, Bridge, WatchDaemon; EventLog; Panes,
RemotePanes; Remotes; ServerLife; Snapshot.

All safety properties have theorems.  What would be worth adding:

1. **WebTerm**: that locks are taken in one order, as an invariant; `RequestsServed` itself
   stays with TLC.
2. **SessionCache**, **DoneState**: the safety half of `CatchesUp` and `FinishedIsMarked`: what is
   stored was true when it was read.
