# devproxy: TLA+ models, model checking and proofs

devproxy is a macOS daemon that watches Docker, gives every published container
a hostname such as `api.acme.test`, answers DNS for that suffix, proxies HTTP and
HTTPS to the container and issues certificates with `mkcert`.  This directory
models the parts of it that keep state and that several goroutines, processes or
failures touch, checks them with TLC on small instances and proves with TLAPS, for
every instance, their safety properties.

## Inventory

| Component (`internal/...`) | State | Operations | Talks to | Hard because |
|---|---|---|---|---|
| watcher (`daemon/app.go`, `events.go`) | Connected flag, issue log, position of the loop | start-up ping and scan, connect, resync, handle event, retry, stop | reconciler, Docker, certificates | events and scans race; failures at every step |
| reconciler (`daemon/reconciler.go`, `registry`) | snapshot, sequence number, paused flag | `RebuildSnapshot`, `HandleEvent`, pause | called by the loop and by admin requests | scan and installation are not one critical section |
| docker commands (`daemon/docker_runtime.go`) | event stream, reader goroutine | ping, scan, events | `docker` processes | late subscription, blocked reader |
| certificates (`daemon/network.go`, `certs`, `proxy/https.go`) | records, files, listener map, readiness | inventory, issue, replace, commit | snapshot, `mkcert` | concurrent refreshes, failure after files were written |
| network runtime (`daemon/network.go`) | DNS, HTTP, HTTPS listeners and their health | `Start`, `Close` | proxy, DNS | shutdown races with start |
| life cycle (`daemon/app.go`, `adminapi/server.go`) | socket, server, dashboard | `Start`, `Close` | a successor daemon | `Close` twice, socket of somebody else |
| installer (`install`) | resolver file, backup, property lists, launchd, binaries | install, uninstall, start, stop, startup toggle | launchd, the user | any step fails or is interrupted, then is repeated |
| routing, discovery | none (pure) | domains, overrides, conflicts, ports, eligibility | reconciler | order and duplicates |
| request path (`dns`, `proxy`) | none of its own | answer, choose certificate, look up, check pause, forward | snapshot, paused flag, listener map | state read at different moments |
| admin API, read models, dashboard | none of their own | status, routes, refresh, pause, resume, startup | everything above | one answer from several reads |
| menu bar (`menubar`) | items, slots, last state | poll, click | admin API | two goroutines without a lock, pointers into a slice |
| doctor, configuration, commands | none | probe, decode, print | | |

What makes each correct: the watcher must not forget a change silently and must
recover from every failure; the reconciler must not go back to older states; the
certificates must cover what is routed whenever they are reported ready; the
installer must leave the machine as it found it; the life cycle must release what
it took and leave other daemons alone; routing must give each hostname one winner;
a request, a page or a click must act on a state that was true while it lasted.

## Modules

* `Watcher` models start-up, `watchDockerEvents` and `Refresh`.  Docker's
  containers are a revision number; a scan is the revision at which it began.
  The loop and every refresh request are actors whose program counter stops
  wherever the code leaves a critical section: after the scan (`ScanOk`), before
  the snapshot is installed (`Install`), before Connected is set
  (`MarkConnected`).  `blind`, `gap`, `failed`, `rolled` and `overtaken` are
  history: no action reads them.  `blind` holds the changes made before a
  `docker events` process, the first or a later one, had subscribed; `gap` those
  made while a stream was broken; `failed` those whose event was received but whose
  scan failed; `rolled` those an older scan undid.
* `Certificates` models `RefreshCertificates`, the inventory, `mkcert` and the
  listener's map.  A hostname is reduced to its project, its depth and its
  alphabetical rank, which is all the inventory looks at.  Some have no project: the
  inventory skips a name for which `projectRoot` finds no root, the suffix itself and every
  name under a managed suffix of several labels.  `mkcert` writes the
  certificate and the key as two steps and each pair has a number, so that files
  of two runs can be told apart.  The listener's map is made without its lock (`Load`) and
  put in place under it (`Swap`).  `overlapped` (history) tells whether two refreshes
  ever ran at once: `ReadyCovers`, `RecordsMatchListener` and
  `ReissueOnlyUncovered` are claimed only as long as none did and none failed.
* `Installer` models the install, uninstall, start and stop commands and the
  startup toggle as sequences of steps.  Each step may fail; the process may be
  killed between steps; `os.WriteFile` may leave a torn file, and a staged program may
  be in place although its step failed (`StageFails`).  `launchctl` is
  external: what it answers is modelled by the cases the code tells apart.
* `EventStream` is `DefaultDockerEvents` in detail: the process, the pipe, the reader
  goroutine, the unbuffered `Events`, the `Errors` channel of one place, the context,
  and the consumer as far as it receives and gives up.  A line is an event, one
  without an action, one that is not JSON or one beyond the scanner's limit.
  `EventSource` is the abstract specification: events in order, none left out, the end
  reported only after the last.  Its queue is mapped to the events written before the
  first fatal line and not yet received, which the history variable `due` tells, and
  what it has delivered to what the consumer got.  `Watcher` relies on exactly this.
* `Routing` is `RebuildSnapshot` with `discovery`, `routing` and the lookup of
  `internal/dns`, as operators: a hostname is the sequence of its labels, an optional
  preference a sequence of at most one value.  What the code collects in a list and
  filters is a function on the places the entries come from: the routes of a listing
  are indexed by container and domain, and `sort.SliceStable` puts each claim where the
  number of claims ahead of it says, with the place as the last criterion.  Warnings are a
  set.  Names are generated under `Suffix` (`domain_suffix`) and looked up under
  `ManagedSuffix` (`serving.managed_suffix`).  The lookup trims outer dots and spaces and
  lowers the case, the routes keep names as they were written.  The single action replaces
  the listing by one with a container more, at any place, or less.
* `Lifecycle` is `App.Start`, `App.Run` and both calls of `App.Close` for several
  daemons that share the ports and the socket's path.  Serving goroutines are steps of
  their own, so that `Shutdown` may come before `Serve`.  The issue log keeps the newest
  `IssueLimit` entries (25 in the code), and `OtherIssue` stands for the entries of the
  watcher and of refreshes; `lost` (history) tells what has been pushed out.  The socket's
  path is looked at and removed in two steps, either of which may fail.  The dashboard, which shares
  nothing but its port, is bound and released with the step that starts or cancels it.
* `Serving` composes what clients read with what the daemon writes: a DNS query, a TLS
  handshake and a proxied request, and a dashboard page made of `/status` and `/routes`,
  each read piece by piece as `stateSnapshot` does, against installation of snapshots,
  replacement of certificates, readiness, pause and resume.  A snapshot is its version
  and each host's upstream, and one of its hosts may be without a project root
  (`Rootless`), which certificates never cover.  `routesSeen` and `flagsSeen` are history,
  as is `mixed`: the listener's certificates were loaded after a refresh had failed.
* `Menubar` is `refreshMenu` and the two goroutines that call it, with Go's slices as
  arrays of fixed capacity and pointers into them.  A poll writes the URL of a slot and then
  the title of its item, and a click reaches its goroutine before that reads the URL, all
  without a lock and so in steps of their own.  The startup item behaves like the
  pause item and is left out.
* `WatcherProofs`, `EventStreamProofs`, `RoutingProofs`, `ServingProofs`,
  `LifecycleProofs`, `CertificatesProofs`, `InstallerProofs` and `MenubarProofs` hold the
  theorems about the module they are named after.  The `MC` modules instantiate the specifications for TLC.

How they fit together: `EventStream` implements `EventSource`, which is what `Watcher`
takes a stream for; `Watcher` tells when a snapshot is installed, `Routing` what is in
it, `Certificates` what a refresh after it does, and `Serving` what clients see of all
three, for one watch loop.

Operators whose comment begins with "Mutant of" are plausible mistakes in the
definition they name; putting one in its place makes TLC report the property that
`PROJECT.json` pairs it with.

## Runs

| Run | Instance | Distinct states | Result |
|---|---|---|---|
| `watcher_loop` | loop alone, 3 revisions, 2 faults, log of 2 | 48 thousand | passes, with liveness |
| `watcher_refresh` | loop and 2 refreshers, 2 revisions, 1 fault, 2 requests | 1.1 million | passes |
| `watcher_settled` | loop and 1 refresher, no fault | | `SettledIsFresh` fails |
| `eventstream` | 2 actions, 4 lines of output | 158 thousand | passes, with refinement and liveness |
| `routing` | listings of up to 3 of the catalogue's containers | 1.5 thousand | passes |
| `routing_enable` | the same | | `DisabledHasNoRoute` fails |
| `certificates` | 2 goroutines, 8 snapshots of 6 hostnames, 2 rebuilds, 1 fault | 279 thousand | passes |
| `lifecycle` | 2 daemons, 1 fault, log of 2, requests of the admin and HTTPS servers | 227 thousand | passes, with liveness |
| `serving` | 3 managed hosts (1 without root), 2 upstreams, 3 snapshots, 2 flips, 1 fault, 1 client | 3.0 million | passes |
| `menubar` | 2 hosts, 1 tick, 2 clicks, 2 changes, 1 fault | 6.2 million | passes |
| `installer` | 3 commands, 2 startup requests, 2 faults, torn write, edit | 1.9 million | passes |
| `installer_retry` | 3 commands, 1 fault | | `OnlyManagedRemoved` fails |

The three failing runs are disagreements between the code and what its tests and
docs say; `PROJECT.json` quotes them:

* `watcher_settled`: a refresh scans, a container changes, its event is handled and
  installed, then the refresh installs its older scan.
* `routing_enable`: `enable: false` is merged with the other preferences and then never
  passed to `IsEligible`.
* `installer_retry`: an uninstall without a backup removes whatever file is there.

What the passing runs leave open is in the guards of their properties.  Weakening a
guard, or an instance, shows it:

* `Clients = {c1}` and `MaxRefreshes = 1` in `watcher_loop` break `ReconnectResyncs`: the
  stream breaks, a refresh sets Connected, a container changes, and the reconnect takes
  Connected to mean that nothing was missed.
* Without `~overlapped` two refreshes commit in the opposite order of their
  replacements (`RecordsMatchListener`); without `faults = 0` a dropped refresh has
  rewritten files whose old records are reused (`ReadyCovers`).
* A routed hostname without a project root is never certified: with the runtime ready its
  page offers `https://` and every handshake is refused.  `ReadyCovers`, `StartsCovered`,
  `OfferedIsServed` and `RefusedOnlyBehind` except these hosts, and but for `OfferedIsServed` they
  also say that these never have a certificate.
* Certificates loaded after a failed refresh may lack a routed host (`mixed` in `Serving`): the
  failure has rewritten files whose old records are reused.
* `ReissueOnlyUncovered` excepts a project whose certificate is filed under another name
  than its root: a hostname that sorts before the root gives the files and the record its
  name, the inventory looks under the root, and the certificate is issued anew at every refresh.
* A port that could not be bound is told in the issue log until newer issues have filled
  it; `DegradedIsRecorded` says no more.
* `launchctl bootout` that fails with exit status 5 is reported by `StopService` when
  `launchctl print` has found the service still loaded, and taken by `Uninstall` for a service
  that is gone: the command succeeds and launchd keeps the daemon, which docs/cli.md:14 ("Remove
  launchd integration and local artifacts") does not say.  `UninstallFinal` without its `stuck`
  shows this.  It confines the case to histories with a failed step or a torn write.
* Without `torn = 0` a torn backup is kept (`ManagedHasBackup`); without `toggles = 0` a
  disable removes the list of a service just enabled (`LoadedIsInstalled`).
* A running daemon's socket file can disappear in `lifecycle`: the second `Close` of a
  predecessor comes after the successor, which found the ports free, made its own.
* Without `~raced` overlapping polls in `menubar` leave items nobody clears.  Also without
  them, an item bound before `append` moved the array opens nothing or an older URL, a click
  between the two writes of a poll opens the route whose title the item is about to get,
  and after a failed poll the item says "Pause Routing" while a click resumes.
* In `routing`, an active name with outer dots or spaces, or with upper-case letters, is never
  found, and neither is one generated outside the managed suffix; `ActiveIsServed`
  claims the rest.
* In `serving`, a request may be forwarded by a route and a paused flag that were never
  true together: `RouteIsCurrent` and `PauseIsCurrent` hold each for itself.

### Bounds

Two revisions are enough for one snapshot to roll back another, three for a loss
next to a delivered event.  Two faults let a resync fail after a broken stream.
Two refreshers are the least that interfere with each other as well as with the
loop.  An issue limit of one or two is exceeded within the fault budget.  Four lines
leave events before, between and after a line that is skipped and one that is fatal.
The catalogue has containers that share a hostname with equal and with different
priority, repeat one, ask for a published and an unpublished port, publish UDP, and name
public, unmanaged and upper-case domains and domains with an outer dot or space; names are
generated under `dev.test` and looked up under `test`; three of them at once give a conflict with two
losers.  Two projects, one with a deep host that sorts after its root and one with a deep
host that sorts before it, and a name without a root give each branch of the inventory;
the snapshots are chosen of one project, of both and of none.  An issue log of two is filled
by the two listeners that can be missing or by other issues.  Two daemons are the least that share a socket path; a fault is a foreign
program on a port, a failed step or a kill.  Three snapshots let two calls of one page
lie on either side of an installation; requests and pages do not touch each other, so
one client at a time is enough.  Two hosts make `append` reallocate once, and the first
poll, one tick and two clicks give every overlap of two polls.  Three commands allow
install, uninstall and a repetition.  In `MCScopes` the log directory stands for the
clean-ups that do not touch the backup.  The user edits the resolver file only while no
command is running.  Symmetry is used in the safety runs `watcher_refresh`, `serving`
and `menubar`, over sets whose members the models never tell apart.

### Fairness

* `Watcher`: the loop's goroutine runs and a docker command it waits for returns,
  `docker events` subscribes unless it ends, and a done context is not ignored forever by
  a `select` that chooses at random.
* `EventStream`: the reader and the consumer run, and a process whose context is done is
  killed.  A send to a consumer that is gone is not enabled, so fairness does not free it.
* `Lifecycle`: the main goroutine of each process runs.  `Shutdown` has no deadline and
  nothing makes a request end, so `StopWaitsOnlyForRequests` excepts one that stays for good.

Nothing is assumed of Docker's changes, of faults, of requests or of the signal that
stops a daemon.  The other specifications check safety only.

## Proofs

All theorems hold for every value of the constants, from the assumptions the modules name:
bounds are natural numbers, a special value is not one of the ordinary ones, and
what is said below.  But for `Clients = {}` in some theorems about `Watcher`, none assumes a
particular number of hosts, processes, requests or faults.  They rest on inductive
invariants, proved action by action, of which `TypeOK` is the first part (in `MenubarProofs`,
a consequence).  The main invariant of each module was first checked by TLC on the instance
of the module's run.

`WatcherProofs` (the loop is not a refresh request; the issue log has room for one):

* `Invariance`: `IInv`, which adds to `EveryChangeAccounted` and `VersionsUnique`
  that a scan begun for an event covers that event (`ScanCoversEvent`), that a scan
  nobody overtook is at least as new as the snapshot (`NotOvertakenIsNewest`) and that
  nothing is installed before the ping (`PingFirst`).  `ChangesAccounted` and
  `VersionsDistinct` follow, and `RollBackIsOvertaken` is the action property that
  `NotOvertakenIsNewest` gives.  `SettledUnlessRolledBack` says what is left of
  `SettledIsFresh` with refresh requests: whatever the settled daemon lacks was in an earlier
  snapshot, which an overtaken scan replaced.
* Under `Clients = {}`: `AloneInvariance`, with the places a stream can be in
  (`StreamPlaces`), a closed stream means disconnected (`ClosedIsDisconnected`), the
  loop's scan covers what was lost (`LoopScanCoversLoss`) and Connected is about to be
  set only over the installed scan (`MarkIsInstalled`).  `LossSurfaced`,
  `ReconnectIsResync` and `SettledFresh` follow.  The hypothesis is needed: with one
  refresh request `watcher_settled` refutes the last, and a variant above the second.

`EventStreamProofs` (an action is not one of the other kinds of lines): `Implements`, the
refinement `ImplementsSource`.  That the initial states and the steps map needs to know
where the reader is in the output.  `PipeInv` says that the pipe is the rest of what was
written, `DueInv` that `due` names exactly the events before the first fatal line, in
order, `GotInv` that the consumer got a prefix of them.  `ReaderInv` counts: between two
lines the reader is past exactly the events received, and while it sends past one more,
which is the one in its hand.  `EndInv` says that the end is known only once everything
due is received, or to a consumer that is gone or going.  The write of an event then maps
to `Publish`, a receipt to `Receive`, the first fatal line or the exit of the process
to `End`, the receipt of the error to `Fail`, the consumer's leaving to `Close`, and the rest to stuttering.

`ServingProofs` (managed and foreign hosts differ; any of the managed ones may be without a
root):

* `RequestInv`: the history of a request in flight ends with the route and the flag of
  now, and what `HandleHTTP` has decided rests on something in it.  `RouteCurrent` and
  `PauseCurrent` follow.
* `DaemonInv`: from the replacement of certificates to the next installation they cover
  what is routed and has a root, unless they were loaded after a failed refresh, and never
  a host without one.  `CallInv` carries this, with the order of versions, through a call
  that is being answered, and `AnswerInv` to the page.  `OfferedServed`, `PageForward`
  and the action property `RefusedBehind` follow.

`LifecycleProofs` (only servers with requests can be busy; the log has room for one), for any number of daemons:

* `PortInv` (a port is held exactly as long as the listener exists), `IdleInv`, `UpInv`
  `RecordedInv` and `LogInv` (an issue is lost only while the log is full) give
  `DegradedRecorded`; `ReleasedInv` gives `DNSReleased`.
* `DNSInv`: from `BindDNS` to `StopDNS` a process has the DNS listener.  Since one process
  at a time does, it is the lock under which `AloneInv` is inductive: beside a daemon
  that started alone no other comes as far as the socket.  `FirstUndisturbed` and the action
  property `SocketLost` follow.

`CertificatesProofs` (the goroutine of `App.Start` is a refresher; every project has a root
that is not deep, hostnames may be of no project, no two hostnames have the same rank, and
snapshots are sets of hostnames):

* `OwnInv`: whatever is recorded, prepared, served or on disk under a name is for that
  name and of its project alone.  `OwnName` follows, without any condition on overlaps.
* `PreparedInv` says what a refresh has ready at each point, `SoleInv` that refreshes which
  do not overlap work one at a time on the current snapshot, `FaultInv` that an error is a
  fault, `DiskInv` that files and records agree and `ServedInv` that listener and
  records do, undisturbed.  `Ready`, `RecordsMatch`, `StartCovered` and, for every order of
  the names, `ReissueUncovered` follow.

`InstallerProofs` (the CLI is not a startup request; the user's files are neither ours nor
torn):

* The lemmas about plans say that the steps of every command form a chain (`Shaped`), in
  which each step is one the command may take and fits the one before it, and that a
  plan stays one when a step is taken or a part is skipped.  `ShapeInv` says so of the plans under
  way.
* `FileInv` relates resolver file, backup and the file that was displaced while no write
  was torn and nobody edited; `HeadInv` says what the steps before the next have made true;
  `BackupKept` follows.  `ServiceInv` gives `LoadedInstalled`.
* `InstallInv` and `UninstallInv` say of every result that it is there or its step is
  still to come.  At the end of a command nothing is to come: the action property
  `InstalledInPlace` follows.  The menu bar is part of the results of an uninstall
  that asked for it, or when no step has ever failed (`Whole`).  `CleanInv` says that, as long as
  no step has failed and no write was torn, no bootout of a service that only the CLI has
  touched left it loaded; with `UninstallInv` it gives `UninstalledStays`.

`MenubarProofs` (finitely many hosts):

* While no two polls have overlapped: `LiveInv` (the slice in use has a slot for every
  item, in order), `PointerInv` (a click reads its own slot, in this array or one left
  behind), `ClickedInv` (what a click took away was in that slot), `ProgressInv` (how far a
  poll has come), `ShownInv` and `TitleInv`.
  `ShownPolled`, `ClickOpens` and `TitleAction` follow.
* Overlaps included: `SlotsHeld`, no index the code uses is outside its slice or array, and
  every slot has an item.  `TypeCorrect` follows.

`RoutingProofs` (names are unique in the catalogue, preferences and ports have the types
the decoders give them, `domain_suffix` is not empty):

* `RankIsPlace`: in a finite set that `Ahead` orders, the numbers of claims ahead of each
  are 1 to the size of the set, once each.  `Sorted` says that `SortClaims` lists every claim
  once, in order, and `Resolved` what that makes of winners, losers and ties.
* `BuiltRoutes` and `BuiltConflicts` turn this from places into containers: each hostname
  that is claimed has the route of the claimant that outranks the others, and is reported
  exactly when a second claim exists, of another container or of the same.
  `SelectedIsPublished` and `GeneratedAreManaged` are about one container.
* `RoutingInv`: the containers listed are distinct and the snapshot is what `Build` makes of
  them.  With the lemmas it gives `WinnerIsByPriority`, `ConflictsAreExact`,
  `UpstreamAlwaysPublished` and `ActiveNamesAreServed`.
* `RoutesAreKept`, about steps: a container that stays listed loses a hostname only to a newly
  listed one that claims and outranks it.  `OrderIndependent`, about `Build` itself: two
  listings of the same containers give equal snapshots, since the claims to a
  hostname are ordered alike in both (`SameClaims`).

Only model-checked are the liveness properties `StreamRepaired`, `EventsReachSnapshot`,
`LoopStops`, `EndReported`, `EndReaped`, `ReaderEndsOrHolds` and `StopWaitsOnlyForRequests`:
they need fairness and ENABLED, which the installed provers do not handle.

## Not modelled

The text of property lists, HTML, JSON and log messages; the doctor's probes, which keep
no state and do not depend on each other; the configuration file, read once; file
ownership; the systray library.  The dashboard's other pages make one call each and
format its answer; `/doctor`, `/logs` and `/issues` format what `stateSnapshot` read.
Of the menu bar's items those that open a fixed URL, run the doctor or quit are left out.

## Plan

Every component with state of its own is modelled, and every safety property a passing run
checks is proved, those of `Watcher` that refresh requests would break under the hypothesis
that there are none.  What would be next:

1. `Watcher` with refresh requests: `LossIsSurfaced` and `ReconnectResyncs` as long as no
   refresh has set Connected while the loop had no stream, which needs a history variable.
2. Shorter proofs of the plans in `InstallerProofs`.
