# A formal model of tailnet-bridge

tailnet-bridge lets the devices of a personal tailnet reach services on other
communities' tailnets. An *orchestrator* (Go) polls each community's
*directory server*, turns the directories into one Caddy configuration and
POSTs it to the admin API of a Caddy process it supervises. The repository has
two variants: `wildcard/` (one listener and one wildcard certificate per
community, plus a DNS plugin) and `caddy/` (one listener node per service,
named by the community's prefix; called the *prefix variant* here).

The modules state what both orchestrators and the DNS plugin promise, TLC
checks it on small instances, and TLAPS proves the most important parts for any
number of communities. `PROJECT.json` maps every definition to source lines and lists
the runs, the mutants that show each property can fail, the findings, the
hazards and the theorems.

```
tlc -workers 2 -config WildcardPollerSync.cfg MCWildcardPoller
tlapm WildcardPollerProofs.tla
```

Contents: 1 inventory, 2 modules and their correspondence to the code, 3 runs,
bounds and fairness, 4 findings and limits, 5 proofs, 6 what is not modelled,
7 plan.

## 1. Inventory

`wo` is `src/wildcard/orchestrator/internal`, `co` is
`src/caddy/orchestrator/internal`.

| component | state | operations | talks to | what makes it correct |
|---|---|---|---|---|
| poller (`wo/poller/poller.go`, `co/poller/poller.go`) | `regenMu`, `lastHash`/`haveHash`, `certs` (wildcard), trigger channels of capacity 1 | `Start`, `pollOnce`, `checkCerts` (wildcard), `regenerate`, `TriggerAll` | directory server, Health, Build, Caddy's `/load`, status | Caddy runs the document for what is held; updates, signals and failed POSTs are not lost; the goroutines end |
| caddyconfig | none (pure) | `Build` | called by `regenerate` under `regenMu` | the document is closed under its own references; hostnames are unique; missing certificates fall back |
| cert (`wo/cert`) | file hashes (`Watcher`) | `Load`, `ValidateWithRoots`, `Watcher.Run`, `Trigger` | certificate files | only a pair that loads and is valid is used |
| directory | none | `Fetch` (If-None-Match, 304, 200), `Validate` | directory server | an ETag stands for the directory it came with |
| health | one snapshot per community under a lock, the domains and their reverse map | one setter per field, `RecordDNSResult`, `SetDomain`, `CommunityIDForHost` | poller, dnscheck, status | fields that are read together belong together |
| status | prefix map (prefix variant) | `/__bridge_error`, `/__bridge_status`, `SetPrefixMap` | Caddy proxies to it | a failing host is attributed to its community, with a diagnosis that fits its state |
| dnscheck (`wo/dnscheck`) | last verdict per name | `Run`, `runOnce`, `probe`, `dispatch` | public resolver, Health, log | a leak is shown while it lasts and not after; errors are no evidence |
| fallbackcert (`wo/fallbackcert`) | two files | `Ensure`, `reusable`, `generate` | main at start-up, Caddy | the pair handed out matches and is valid, after any interrupted start |
| adminclient | none | `Load` (POST, timeout) | Caddy | an error never counts as applied |
| main | `caddyDone`, contexts, signal channel | start-up order, SIGHUP, `shutdown` | everything | no orphan, no hang, no lost signal |
| caddyproc | child process, two pipes | `Start`, `Wait`, `Terminate` | Caddy | the exit is reported once, output is drained |
| tsnetfetcher | one tsnet node per community | join, `Fetch`, `Close` | tailscale | joined nodes are closed; a node that never joined only fails its own community |
| config, dnsutil | none | `Load`, validation | main, directory | ids and domains identify communities; no domain is inside another |
| bridgedns (`src/wildcard/caddy-plugin`) | DNS servers of the running app | `Provision`, `Start`, `Stop`, `handle` | Caddy, tsnet | one answerer per listener through a reload |

How they interact: main starts Caddy with a bootstrap document, then the poller
and (wildcard) the DNS check. Every poller, the certificate watcher and `Start`
itself call `regenerate`, which reads Health and the certificates piece by
piece, builds, compares hashes and POSTs, all under `regenMu`. SIGHUP goes
through `TriggerAll` to one channel per goroutine. The status server reads
Health at any time. Every POST that Caddy accepts makes a new `bridgedns` app,
which is started before the old one is stopped. main itself waits for Caddy,
signals and the status server, and shuts everything down.

What is hard: directories and certificates change under a `regenerate` that has
read part of them; POSTs and fetches fail or are answered too late; a 304 and
an equal hash are early returns that must only skip what need not be done;
signals coalesce; shutdown cancels goroutines anywhere; the two files of a pair
are never replaced together; two probes share one status field; clocks make a
checked certificate stale; a shutdown races with Caddy's own exit, the grace
period and more signals; two generations of DNS servers share nodes; five pieces
of code decide independently which community a name belongs to. `PROJECT.json` has each of these at its line.

## 2. Modules

| module | models | uses |
|---|---|---|
| `ConfigSync` | the abstract specification of both pollers: sources that change, processes that owe a regenerate, and the document that is applied | |
| `WildcardConfig` | `caddyconfig.Build`, wildcard: the document as a record of node names, certificate tags, servers with routes, and DNS zones | |
| `WildcardPoller` | `poller.Runner`, wildcard, with Health's fields, the error page's diagnosis, the directory servers, certificate files, the clock and Caddy around it | `WildcardConfig`, `ConfigSync` |
| `PrefixConfig` | `caddyconfig.Build`, prefix: pairs, hostnames and their collision, node names | |
| `PrefixPoller` | `poller.Runner`, prefix, with the status server's prefix map | `PrefixConfig`, `ConfigSync` |
| `FallbackCert` | `fallbackcert.Ensure` over many starts of the process | |
| `DnsLeak` | `dnscheck.Checker` and `health.Store.RecordDNSResult` | |
| `Lifecycle` | `run()` of both mains, `caddyproc`, the life of the status server, the join and close of the tailnet nodes | |
| `BridgeNames` | names as sequences of labels: `config.Load`, `dnsutil`, `directory.Validate`, `cert.sansCover`, `bridgedns.handle`, the domain maps of Health | |
| `BridgeDNS` | `bridgedns.App` over many reloads of Caddy, composed with what decides about names | `BridgeNames` |
| `MC*` | constants for TLC | the module of that name |
| `*Proofs` | theorems and proofs | the module of that name |

**ConfigSync.** A *source* is what the document is built from (a directory, the
certificates). Changing one makes a regenerate of its process due. A regenerate
that returns nil leaves a *confirmed* document in which only sources may be
outdated whose own regenerate is still due. One that is refused leaves everything
alone. One that is given up without an answer (`Lose`) adds its document to
`unanswered`; Caddy may load it at any later time (`Late`), until it answers
another. So Caddy runs the confirmed document or one it was given since. The
specification does not say in which order anything is read, nor when a POST is
skipped. The refinement mapping is at the end of each poller module: `due` are the
goroutines that wait for `regenMu` or hold it, and the watcher once its check has
found a change; `confirmed` is `lastHash` and `applied` what Caddy runs.

**Pollers.** A process is a goroutine: `1..N` are the communities' pollers,
`Main` is `N+1`, the wildcard variant's certificate watcher is `0`. `pc` says
where each is:

| `pc` | code |
|---|---|
| `reload`, `wait` | `Start`: `reloadAllCerts`, `waitFirstPoll` |
| `serve` | main's select on signals |
| `select` | the select of `runCommunity` or `runCertWatcher` |
| `fetch`, `answered` | `pollOnce` before and after `Fetch` |
| `check`, `drop`, `clear` | `checkCerts`: the load and the first write for a community; before its second write, after an error (`drop`) and after a new pair (`clear`) |
| `lock`, `read`, `post` | `regenerate`: `regenMu.Lock`, the loop over communities, the POST |
| `sink` | `regenerate`, prefix variant: `SetPrefixMap` |

A step ends where another goroutine can see or disturb the next access. So
reading one community's directory is a step, copying all certificates (one lock
in the code) with the build and the hash comparison is a step, and POST and
answer are one step with three outcomes: loaded and confirmed, refused, and
given up (by the timeout or by the shutdown, which cancels the request). What
becomes of the last is Caddy's affair: `LateLoad` may load the document at any
time, also before anything else happens, or never, until Caddy answers a later
POST, since it handles one at a time. A check writes in two steps: an error is
reported in Health before the certificate is taken out of `Runner.certs`
(`CheckReports`, `CheckDrops`), and a new pair is stored there before the report is
cleared (`CheckKeeps`, `CheckClears`), each under its own lock, with any
`regenerate` in between. The locals of `regenerate` exist once because `regenMu` makes
them so (`LockInv`). The prefix variant splits the end of `regenerate` in two
steps since the status server may read the map between POST and `SetPrefixMap`.

The surroundings are what the code sees of them. A directory server hands out
one of a few directories. A certificate file holds a version with a validity
period, or an unusable pair (half-written or mismatched). Caddy loads a
document only if it can read every file named in it, and keeps the certificate
contents it read at that moment (`loaded`). The tickers fire at any time: the
intervals are configuration, and no property depends on their length.

**FallbackCert.** A pair has a number; a file holds a number or is absent. Each
rename is a step, so a crash can fall between the two.

**DnsLeak.** Each pass starts one goroutine per name (the domain, and a canary
under it), each of which looks up, records, updates its transition state and
logs, in separate steps.

**Lifecycle.** One module for both variants; `variant` selects the two
differences that matter (the wildcard main starts the goroutine that waits for
Caddy at once and closes a channel when it returns, the prefix main starts it
after the pollers and passes the result through a channel of capacity 1).
`main` says where `run()` is:

| `main` | code |
|---|---|
| `spawn`, `admin`, `abort` | `caddyproc.Start`, `waitForAdmin`, the wait after it gave up |
| `join` | `NewTsnetFetcher` and `poller.Start`, until `signal.Notify` |
| `loop` | the select on signals, Caddy's exit and the status server |
| `grace`, `killed` | `shutdown`, before and after SIGKILL |
| `return`, `gone` | the deferred calls, after the exit |

What may return errors before Caddy is spawned has nothing to clean up and is
left out. Caddy obeys SIGTERM or not, and may exit at any time.

**BridgeNames and BridgeDNS.** `BridgeNames` has the six pure functions that
decide about a name, each translated from its own package. `BridgeDNS` puts them
to work: it loads a file, registers its domains in order, takes directories and
certificates at any time, and reloads. An *app* is a generation of the plugin; its
servers start in any order, each with a goroutine that enters `ActivateAndServe`
in its own time. Caddy either switches and stops the old app, or, when the app's
own `Start` or another app fails, keeps the old one.

History variables (`outcome`, `hupOwed`, `lost`, `logged`, `latest`, `asked`,
`failed`, `missed`) are read by
properties and by no guard.

## 3. Runs

All bounds are in the cfg files: the numbers of communities, directories,
certificates, clock values, signals and apps, and `Events`, the disturbances
allowed. `MaxClock`, `MaxPairs`, `MaxSignals` and `MaxApps` bound counters, and
`MaxUnanswered` the documents given up between two answers; the other state is
finite.

| run | result | what it shows |
|---|---|---|
| `WildcardPollerSync` | pass | Two communities: one publishes directories (one without services) through a server with ETags, the certificate of the other expires, is half-written and is replaced by a newer version, at any time; POSTs of a document that names an unusable file fail. `ImplementsConfigSync`: every step is one of `ConfigSync`. `StatusAgreesWithCaddy`: once settled, the status page reports an error for exactly the communities whose certificate Caddy does not load. `DiagnosisAgrees`: the error page then blames exactly those, and not by the error or the dates of an earlier certificate. Both leave out the one community of which a check has reported an error and not dropped the certificate yet. `RunningIsClosed`, `ETagNamesDirectory`. |
| `WildcardPollerSignals` | pass | One community, with SIGHUP, rotation, and a shutdown that cuts POSTs off: `InSync` (when the last `regenerate` succeeded and none is due, the confirmed document is the one for what is held, and Caddy runs it or one given up since), `NoLostHup`, `HupAnswered`, `Converges`, `Quiesces`. |
| `PrefixPollerMerge` | pass | Two communities that may come to collide, one of which publishes empty directories, changes their prefix and then lists a service; POSTs that are refused, or given up and loaded late, nodes that do not join, SIGHUPs, a shutdown: `ImplementsConfigSync`, `InSync`, `HostsUnique`, `AttributionCurrent`, `NoLostHup`. |
| `PrefixPollerConverges` | pass | The same without ETags, under fairness: `Converges`, `FailedApplyRetried`. |
| `FallbackCertRestarts` | pass | Up to four pairs generated, interrupted anywhere. |
| `DnsLeakPasses` | pass | Changing names; lookups that fail, temporarily or not: `LeakIsCurrent`, `LeakShown`, `LeakSurfaces` of the status page, and `LoggedIsCurrent`: between two passes the log names a leak only if the last answer found it, and every leak the pass found. |
| `LifecycleEnds` | pass | Both variants, two nodes, five signals: `NothingLeft` (no Caddy, pump or node after an exit of its own), `ExitNeverLost` (wherever main waits for Caddy, the exit can still arrive), `Ends` (every shutdown), `Starts`. |
| `BridgeDNSReloads` | pass | Five configurations (siblings, one domain twice, a domain that is the base of another, one id twice, a malformed domain), two apps: `AnswersLeadHome`, `ServicesReachable`, `ProbesFindTheirCommunity`, `NeverWithoutDNS`, `LeftoversExplained`. |
| four more | violation | Findings, section 4. |

*Why two communities are enough.* What can go wrong between goroutines is that
one stores while another is between two of its reads. With two communities a
`regenerate` has a position before, between and after the reads; a third
community adds positions of the same kinds. Hostname and prefix clashes are
between two. For everything but the liveness properties the theorems remove the
bound. One document given up at a time (`MaxUnanswered = 1`) is enough for Caddy to
run another document than the confirmed one; more of them are more of the same.
A lost answer and a fetch that fails are disturbances of one goroutine, and the
runs leave them out where something else matters: `WildcardPollerSync` has refused
POSTs only, `WildcardPollerSignals` and `PrefixPollerMerge` let fetches fail after
the shutdown, which cancels them. The theorems have every event at any time.
`WildcardPollerSync` starts where every certificate is good and lets one
community publish and the other rotate: what they disturb in each other is the
`regenerate` they share, and the roles do not depend on the order in which it
reads, as every goroutine may be anywhere when it starts. Its certificate files
go from the older version over a half-written pair to the newer one and not back
(`RotateForward`, an action constraint): the newer one outlives the older, which expires at the clock's
first step, so that both the error and the dates of the first could survive it.
In `PrefixPollerMerge` the community with empty directories publishes in a fixed
order, and the other only after it lists a service (`PublishesInTurn`, another): the
equal document that skips `SetPrefixMap` needs the empty ones, and the wrong
attribution that could follow needs the other's prefix to change later.
`WildcardPollerSignals` has one community: the signal's channel, poller, watcher
and main goroutine are three parties already, and no channel is shared between
communities. Two directories suffice for "old, new, and back again". `MaxPairs =
4` leaves room for a first pair, two interrupted regenerations and a completed
one. `DnsLeak` runs with one community: its two names share a slot and different
communities share only locks. `MaxSignals = 5` is one more than `sigCh` holds. A
third app would meet what the second meets, as Caddy reloads one at a time: the
running one, and those that left sockets behind.

*Deadlock* is checked except in the runs with a shutdown, after which the
system stops on purpose; there `Quiesces` says that it stops completely.

*Fairness*, used by the liveness properties only:
- weak fairness of each goroutine's next step: goroutines are scheduled, and
  each call they make is bounded by a timeout (30 s for a fetch and for a POST);
- strong fairness of `Acquire`: a `sync.Mutex` goes into starvation mode after
  1 ms and hands over to the longest waiter;
- strong fairness of `Exit`: a select picks at random among its ready cases, so
  `ctx.Done()` is not passed over for ever;
- strong fairness of a good fetch answer and of a confirmed POST: neither a
  directory server nor Caddy fails for ever. This is an assumption about the
  surroundings, without which nothing can converge;
- `FallbackCert`: the supervisor restarts the process (SPEC 10), and it is not
  killed each time at the same point;
- `DnsLeak`: the ticker fires, a probe ends by its timeout, and the resolver
  answers in the end;
- `Lifecycle`: main, the waiting goroutine and the joins (which have a timeout)
  proceed; a Caddy that obeys SIGTERM exits, and SIGKILL ends any; strong
  fairness of the three cases of main's select. Nothing is assumed of a Caddy
  that ignores SIGTERM.

## 4. Findings and limits

Found while modelling, each the counterexample of a run:

1. **A rotated certificate is not reloaded** (`RotationServed`). `checkCerts`
   notices it and calls `regenerate`, but the document has only paths, so the
   hash is the last one and nothing is POSTed. The wildcard SPEC and README say
   that Caddy is told to reload.
2. **A failed apply is not retried** when the directory server uses ETags
   (`FailedApplyRetried`, prefix variant; the wildcard code has the same early
   return): the ETag was stored with the directory, so the next polls get a 304
   and never reach `regenerate`.
3. **A fallback certificate with another one's key** (`EnsuredPairMatches`):
   after a crash between the two renames of a *re*generation, `reusable` accepts
   the new certificate with the old key. `MatchesUnlessLost` shows, and
   `PairMatches` proves, that this needs an earlier expiry or deletion.
4. **A SIGTERM during the start does not shut down Caddy** (`SigtermStopsCaddy`):
   signals are caught only after the nodes have joined and the first polls are
   over, which takes up to the join timeout. Before that SIGTERM ends the
   orchestrator and leaves Caddy running, and so does a SIGHUP. In the container
   the end of the main process takes Caddy with it; elsewhere it is an orphan.

**Disagreements without a run of their own.** More places where the code and what
is written about it differ. No property or theorem hides them: each is stated
where a property stops short of the document.

- **A shared prefix is not refused.** `Build` compares hostnames only
  (`caddyconfig.go:80`), so two communities with one prefix and different
  services are merged, while `src/caddy/SPEC.md:459` says that such a
  configuration is not applied. Hosts stay unique (`HostsUnique`);
  `AttributionCurrent` is stated for distinct prefixes, as the prefix map has room
  for one of the two.
- **A temporary DNS error ends a leak.** It sets neither `Err` nor `Violation`
  (`dnscheck.go:195`) and is taken for a healthy answer, although the comment in
  `dispatch` (`dnscheck.go:140`) says that errors do not flip the state. The model
  has such errors, and `latest`, the last answer of a name, follows real answers
  only. What the comment says of the log is `LogAgrees` in `DnsLeakProofs`: it
  fails as soon as a leak is followed by a temporary error, and `LogKeepsUp`
  proves it where there is none. The run checks `LoggedIsCurrent`, which asks
  nothing of a name of which the pass had no answer.
- **A Caddy that exits with 0** without having been asked makes both
  orchestrators exit with 0. `src/caddy/SPEC.md:414` and the comments on top of
  both `caddyproc.go` (lines 8-10) promise a non-zero code for every unexpected
  exit. No run checks an exit code; `ExitCodeTells` in `LifecycleProofs` gives the
  exact extent: an exit with 0 was asked for by a SIGTERM, or is this one.
- **The prefix map after an equal document.** `status.go:37` and `poller.go:51`
  (prefix variant) say that the map is stored after every successful merge. A
  merge with an equal document returns before (`poller.go:278`). A directory
  without services, which `src/caddy/SPEC.md:213` allows, puts nothing into the
  document. If it shared the prefix of another community and changes it, the
  document stays as it was and the map may go on naming the community of the
  empty directory for the other's hosts. `AttributionCurrent` is therefore stated
  for states in which every directory held lists a service, while those before
  may have been empty; the next directory with a service brings the map up to date.

Limits of what passes, which are conditions on the runs and theorems:

- **Lost replies.** `lastHash` is the last document *confirmed*. If Caddy loads a
  document whose answer is lost, and the directory goes back to the one before,
  the hash comparison skips the POST, and Caddy keeps running the document that
  was given up. `InSync`, `ConfigSync` and the theorems say so: what Caddy runs is
  the confirmed document or one of `unanswered`, and nothing else. What is stated
  of the documents *served* (`AttributionCurrent`, `EveryServiceIsServed`,
  `StatusAgreesWithCaddy`, `DiagnosisAgrees`) is stated for states with no answer missing, and
  `Converges` is checked without lost answers before the shutdown.
- **A full signal channel.** `sigCh` has four places. A SIGTERM that arrives
  while four SIGHUPs are unread is dropped; `Ends` speaks of signals in the
  channel.
- **A start that fails** waits for Caddy without a timer and without SIGKILL. If
  the admin endpoint does not come up and Caddy ignores SIGTERM, the process
  waits for ever (`Starts` says so).
- **Last lines of Caddy's log.** `Wait` calls `cmd.Wait` first, which closes the
  pipes under the pumps: they return (`NothingLeft`), but lines not read yet are
  lost, although the comment of `Wait` says that they drain. SIGINT is passed on
  as SIGTERM.
- **DNS sockets that stay.** When `App.Start` fails for a node, Caddy does not
  call `Stop` on this app, and the servers of the nodes before it keep answering.
  When `Stop` meets a server whose goroutine is not in `ActivateAndServe` yet,
  `Shutdown` returns an error and the socket stays. `LeftoversExplained` shows
  that there are no others, and `AnswersLeadHome` that their answers are right:
  they hand out the node's own address.
- **One domain twice.** `config.Load` accepts two communities with one domain.
  Their nodes answer the same names; the error page and the leak check attribute
  both to the later of them.
- **Dashes, prefix variant.** Node names join community id and service name with
  a dash. If both may contain dashes, two pairs can have one node name and the
  later replaces the earlier (`LastPair` models it). `IdsTellNodesApart` proves
  that this needs an id that is the beginning of another; the instances use ids
  without dashes.
- **Two locks.** Between the two writes of a check, Health and `Runner.certs`
  disagree about one community, and a `regenerate` of a poller may fall in
  between: Caddy can be given a certificate that is already reported, or one whose
  report is not yet cleared. The watcher's own `regenerate` follows.
  `StatusAgreesWithCaddy` and `DiagnosisAgrees` speak of the communities whose
  report is not being written.
- **Expiry between checks.** Validity is tested by the watcher, not before a
  POST: a document posted after a poll may name a certificate that expired since
  the last check.
- **DNS slot.** The slot holds one leak. When the other name was found leaking
  before and its lookup of this pass fails, a healthy result clears the slot,
  and it stays empty until that lookup works. `LeakShown` therefore speaks of
  what *this* pass found.

## 5. Proofs

Every theorem is about `Spec`, without fairness, for every value of the
constants that the named assumptions admit (`ConfigAssumption`,
`PollerAssumption`, `PrefixConfigAssumption`, `PrefixPollerAssumption`,
`FallbackCertAssumption`, `DnsLeakAssumption`, `LifecycleAssumption`,
`DNSAssumption`). These say that the "none" values differ from the real ones,
that bounds are naturals, and that a configuration is a sequence of entries; TLC
evaluates them in every run. A few theorems assume more, and say so in their
ASSUME: functions on the sources (`SyncKeepsCurrent`), what `AttributionIsCurrent`
and `EveryServiceIsServed` of the prefix variant need of directories and names,
and that names are sequences over some alphabet. No theorem excludes lost answers,
late loads or the shutdown.

**`WildcardPollerProofs`.** `TypeCorrect`; `CaddyInSync` (`InSync`);
`PollerImplementsConfigSync`; `SighupNotLost`; `ETagIsOfDirectory`;
`StatusTellsWhatCaddyServes`; `DiagnosisIsRight`; `RunningDocumentIsClosed`;
`CommunitiesAreSeparate`; `EveryServiceIsServed`;
`NotModifiedMeansCurrent`; `RegenerateIsExclusive`.

`InSync` is not inductive: it speaks of quiet states, and what makes them right
happens in busy ones. The invariant is `SyncInv`. While somebody reads, every
directory read so far is either still current (`rdirs[c] = dir[c]`) or its
poller is at `lock` and will regenerate after this one (`DirFresh`); the same
holds of the copied certificates and the watcher (`CertsFresh`); Caddy runs
`lastHash` or a document of `unanswered`; and when the lock is free after a
success, `lastHash` is the document for what was read. A poll that stores a directory makes `DirFresh(c)` true by its second
disjunct, and only `Acquire`, which restarts the reading at 1, gives that
disjunct up. `LockInv` is needed so that the holder's locals are nobody else's,
`StartInv` because the stores of `reloadAllCerts` are not followed by a
`regenerate` of their own and must precede every reader. In a settled state
nobody is at `lock`, so the second disjuncts are false and `SyncInv` gives
`InSync`. `StatusAgreesWithCaddy` joins it with `CertInv`: an error is reported if
and only if there is no certificate, except for communities that the start-up loop
has not come to and for the one between the two writes of a check (`Writing`).
`SettledFacts` carries this to the document that Caddy runs; a new pair whose
report is not cleared yet is a change that still owes a regenerate, so that state
is not settled. `DiagnosisAgrees` needs `DatesInv` in addition: the dates in Health
are those of the certificate held, with the same exception. `RunningIsClosed` is a lemma
about `Build` (`BuildIsClosed`, the only place where `Build` is expanded) with
`RunningInv`: what Caddy runs was built, and Caddy read the files it names.

The refinement rests on the same invariant: `DirFresh` and `CertsFresh` are
exactly what `ConfigSync` allows a document to be outdated in, with `Due` for the
second disjuncts. Each action of the poller is a step of `ConfigSync` (a poll or
a check that stores is `Change`, `Begin` is a first regenerate or a check that
ends, `ApplyOK` and the skipped POST are `Succeed`, a refused one is `Fail`, one
given up `Lose`, and `LateLoad` is `Late`) or leaves its variables alone.

`CommunitiesAreSeparate` is about `Build` alone: the server, certificate, routes
and DNS zone of a community depend on its own directory and certificate, so that
no community can change how another is served. With `InSync` it turns "Caddy runs
the right document" into what users see: `EveryServiceIsServed` (no service is
lost between Health and Caddy, no other appears). `NotModifiedMeansCurrent`
is an action property: after an answer of a server, 304 or 200, the poller has the
directory served at that moment; it follows from `ETagNamesDirectory`.

**`PrefixPollerProofs`.** `PrefixTypeCorrect`, proved with `LockInv` since
`running` only has its type because nothing that `Build` refused is POSTed;
`MergeInSync` and `PrefixImplementsConfigSync` by the same argument, with the
additional place `sink`, where the document is loaded but the regenerate not over
(`Load` of `ConfigSync`); `PrefixRegenerateExclusive`; `PrefixSighupNotLost`;
`HostsAreUnique` from `MergedDocuments`: whatever was given to Caddy, confirmed or
given up, is a document of `Build` and has no collision. `AttributionIsCurrent`
rests on `MapInv`: outside `sink`, the prefix map was made with *some* directories
that give the document last applied, not necessarily with those now held, since an
equal document skips the POST and with it `SetPrefixMap`. Those directories may
have been empty or shared a prefix. `MapAttributes` shows that the map is right all
the same, if the directories *now* held list a service each and have distinct
prefixes, and no two pairs have one node name (`NodeNamesDiffer`): equal documents
have the same pairs with the same prefixes, so a community that had the prefix
then has it now. It must still have a directory for that, which is `ReadIsHeld`:
nothing takes one away. Without these conditions it is not so, see section 4.

Four theorems say when merging goes well. A host is the prefix and the name of the
service, joined; `DistinctPrefixesDoNotCollide` shows that distinct prefixes are
enough, as `src/caddy/SPEC.md:459` claims, and `OnlySharedPrefixesAreRefused` that
the poller therefore refuses a merge only for a shared prefix, whatever mixture of
older and newer directories a regenerate has read. A node name joins "personal",
the id and the name without escaping; `IdsTellNodesApart` shows that this is
unambiguous if no id is the beginning of another (`ConcatBegins`, `ConcatCancels`).
`EveryServiceIsServed` concludes that Caddy then listens for every service held
and for nothing else.

**`ConfigSyncProofs`.** `SyncKeepsCurrent`: the abstract specification implies
`Current`, if what is held are functions on the sources. The strengthening is
`SyncedUpToDue`: after a success the document is outdated at most in sources that
are due.

**`DnsLeakProofs`.** `DnsLeakTypeOK`; `ShownLeakIsCurrent`, which is inductive;
`LogIsCurrent` from `LogInv`, which says for each place of a probe's goroutine where
the last answer, the state and the log may differ; `LogKeepsUp`, the stronger
`LogAgrees` where no error is temporary (`SteadyInv`); `FoundLeakIsShown` from
`ShownInv`: if a name recorded in this pass leaks, then the name in its
community's slot is one that has been recorded in this pass, too, so that no probe
still to come can be the one that clears the slot.

**`FallbackCertProofs`.** `FallbackTypeOK`, `EnsuredIsUnexpired`, `GoodPairIsKept`, `PairMatches`.
`GenerateInv` says that what is being written is new, unexpired, and replaces no
reusable pair; `MatchInv` that, until something is lost, a key is only ever
there with its own certificate, because the key is written last.

**`LifecycleProofs`.** `LifecycleTypeOK`; `LifecycleNothingLeft` and
`LifecycleExitCode` from one inductive invariant `Ended`. `WaitKnows` says what
the stages of `Wait` imply (once it returned, Caddy is gone and both pumps have
ended); `ReturnKnows` that main returns only after it, and that no node is still
joining outside `join`; `ErrKnows` that SIGTERM reaches Caddy only when the loop
is left, and that a return without an error was asked for or had Caddy's 0.
`LifecycleExitNeverLost` is the safety half of `Ends`: wherever main waits for
Caddy's exit, somebody waits for Caddy or the exit has been announced and is still
there (`HeldUntilTaken`), although the loop and `shutdown` both receive it from a
channel that holds it once, and `shutdown` waits without a timer after the kill.

**`BridgeDNSProofs`.** `DNSTypesOK`. `NamesNeverShared` is about names alone: in a
configuration that `Load` accepts, all domains have equal length and one base, so
a name one label below one domain is neither another domain nor one label below
it. `DNSNeverWithout` and `DNSLeftovers` follow from `Sockets`: from its first
configuration on, the running app has a socket for every community and is never
the victim, since Caddy stops an app only after the switch to another, and every
other open socket is of an app being started or stopped, or in `failed` or
`missed`. `DNSEveryAnswerLeadsHome`, for every name and every type of query, and
its instance `DNSAnswersLeadHome`, for the names the run asks for, add `NamesKnow` (the reverse map is the file's
domains, and a certificate in use has the wildcard of its community), and
`DNSServicesReachable` adds `ContentsKnow` (a directory in use, also in the
configuration that runs or is being loaded, is of its community's domain with
services of one label), and that a name one label below one domain is matched by
the wildcard of no other (`WildcardMatchesNoOther`). `DNSProbesFindTheirCommunity` follows from `NamesKnow`: by
`NamesNeverShared` a canary is no registered domain, so the longest registered
suffix is the domain it was made from (`LongestSuffix`).

**Only model-checked:** the liveness properties (`Converges`, `HupAnswered`,
`Quiesces`, `FailedApplyRetried`, `Serves`, `LeakSurfaces`, `Ends`, `Starts`), which
rest on fairness and are out of TLAPS's reach, and that the four findings are
reachable, which needs a trace and not a proof. Every invariant, action property
and refinement of the passing runs is also proved. The theorems without a property
of a run (those about `Build` and names, and the consequences of `InSync` named
above) speak of definitions in the proof modules.

## 6. Abstractions and what is not modelled

- Strings: paths and hosts are model values or tuples, and names in `BridgeNames`
  sequences of labels in lower case without a trailing dot, the form that every
  one of the functions brings them into. Their alphabet and lengths are left out.
  In the pollers the validity rules of directories and of the configuration file
  are assumptions on the constants. `Build`'s JSON details that are equal in all
  documents are left out.
- The hash of a document is the document; a collision of the hash is ignored.
- Time stamps in Health, log lines and HTML are left out, except for the log
  lines that `LoggedIsCurrent` is about and the dates that the diagnosis reads.
- A validity check and the load of the pair are one step. The file may change
  between check and POST, and does in the model.
- In `BridgeDNS` every community is in the document, because main always passes a
  fallback certificate, and a `Listen` may succeed or fail. Caddy, the tailnet
  and the DNS library are modelled as the plugin meets them.
- Not modelled: `cert.Watcher`, which nothing in the program uses; of
  `config.Load` and `directory.Validate` the rules for single fields (required,
  ranges, lengths, URLs, upstream hosts) and the sources of auth keys; parsing of
  PEM files and the verification of chains, whose outcome is an input. Shell
  scripts, Docker files and the bootstrap documents have no state of the bridge.

## 7. Plan

Done: the two pollers with their configurations and the abstract specification
they implement, `FallbackCert`, `DnsLeak`, `Lifecycle`, `BridgeNames` and
`BridgeDNS`.

What is left, in order:

1. `CertWatcher`: `Run` and `Trigger`, should the program come to use them.
2. The repaired code: with a hash that is forgotten before the POST, `InSync` with
   `running = lastHash` once settled, and `Converges` with lost answers.
