# A TLA+ model of VanForm

VanForm links the sites of a Skupper *VAN* through HashiCorp Vault. Each site
runs one `vanform` process. Every minute, for every namespace that has a
`skupper-van-form` ConfigMap, it publishes to Vault the tokens (a Link and the
Secret it names) with which other sites can link to this one, and turns the
tokens other sites have published for its zones into Links and Secrets of its
own. This directory holds TLA+ modules of that program, configurations with
which TLC checks them, and proofs checked by TLAPS.

File names without a directory are under `src/internal/van/` or
`src/internal/client/`; `kube/` and `system/` are the two platforms.

## 1. Inventory

| Component | Source | State | Operations | Interacts with |
|---|---|---|---|---|
| Consuming pass | `common/vanform.go:128-200`, `vault.go:69-125`, `kube/token.go`, `system/token.go` (Load, Save, Delete) | the namespace's Links and Secrets; the lists of one pass | load, list and get, compare, delete, save | Vault (calls), API server or input directory (calls) |
| Publishing pass | `common/vanform.go:60-126`, `vault.go:127-201`, `kube/token.go:78-140, 191-257`, `system/token.go:83-164` | certificates; the site's entries in Vault; the lists of one pass | generate, get published, compare, put | Vault, Skupper (which issues Secrets and writes Site status) |
| Reconcile pass | `common/vanform.go:25-58` | none of its own | load config, log in, publish, then consume | the two passes, AppRole |
| Kubernetes controller | `kube/controller.go`, `kube/vanform.go` | map of VanForm instances; one channel and one goroutine per instance | ConfigMap added, deleted; start, stop; shutdown | informer callbacks, closed channels |
| System controller | `system/controller.go`, `system/vanformer.go` | map of namespaces; one watcher, handler and VanForm per namespace | OnCreate, OnRemove, Filter; shutdown; file lock | file watcher callbacks, closed channels |
| File watcher | `src/internal/filesystem/file_watcher.go` | handler map, two unbuffered channels, three locks | Add, Start, monitorPaths, processEvents, dispatchTriggers | fsnotify, callbacks |
| AppRole login | `approle.go` | token, context of the renewal goroutine; one of each per pass | login, renew | Vault |
| Process | `src/main.go` | stopCh, doneCh | signal, graceful shutdown, timeout | the controller (channels) |
| Client construction, serialisation, manifests | `kube/client.go`, `types.go:115-177`, `src/deployments`, `src/example` | none that changes | | |

**Where it is hard.** A pass is a long sequence of remote calls on three stores
(Vault, Links, Secrets) with no transaction. Each call may fail, the process
may die between any two, and other sites change Vault while a pass reads it
key by key. Two Links may share a Secret. Two callbacks and a goroutine share a
channel field, one of them without the lock. The file watcher sends on
unbuffered channels while it holds locks.

**What makes each component correct.**

- *Consuming pass*: no Link without its Secret; nothing deleted or created that
  the zones do not call for; no Secret left behind; convergence to what is on
  offer.
- *Publishing pass*: what is generated gets published; nothing newer is replaced
  by something older; convergence, and silence after it.
- *Controllers*: one VanForm per namespace with a ConfigMap, never two in
  control, none that cannot be stopped, a stop that takes effect, a shutdown that
  ends everything.
- *File watcher*: no deadlock; every file announced, removals not overtaken.
- *The VAN as a whole*: every zone that is reachable comes to be linked with the
  publisher's present certificate, and never goes back to an older one.

`PROJECT.json` lists the hazards one by one, each at its line, with the property
that would catch it or the reason why there is none yet.

## 2. Plan

| | Module | What | Status |
|---|---|---|---|
| 1 | `VanTokens`, `KubeTokens`, `SystemTokens` | tokens, names, the stores of the two platforms | done |
| 2 | `Consume`, `MCConsume` | the consuming pass | done |
| 3 | `ConsumeProofs` | types; Links keep their Secrets | done |
| 4 | `Publish`, `MCPublish` | the publishing pass | done |
| 5 | `KubeController` | controller, VanForm loop, shutdown | done |
| 6 | `FileWatcher`, `MCFileWatcher` | goroutines, locks and channels of the watcher | done |
| 7 | `SystemController` | the namespaces of a host, their handlers and VanForms, over abstract watchers | done |
| 8 | `Mesh`, `Van`, `MCVan` | whole passes of several sites over one Vault; the abstract promise they implement | done |
| 9 | `ConsumePassProofs`, `CommonLemmas` | passes are sound; no Secret is left behind | done |
| 10 | `PublishProofs` | types; no downgrade; a pass that ended has published | done |
| 11 | `KubeControllerProofs` | types; no second stop; none forgotten | done |
| 12 | `VanProofs` | types; `Van` keeps the safety half of `Mesh`; up-to-date links stay | done |
| 13 | `SystemControllerProofs` | types and all six safety invariants | done |
| 14 | `FileWatcherProofs` | types, with the lock discipline; `Announced` and `Withdrawn` | done |

## 3. The modules

### VanTokens, KubeTokens, SystemTokens

A token is a record: its three labels, the link's name, an endpoint list, the
name of the Secret and its data. Names are the sequences of the parts the
program joins with `-`, so two names collide here exactly when they do in the
program. `Equals` and `EqualsPanics` are `Token.Equals`, the latter where it
dereferences a nil Secret. `KubeTokens` and `SystemTokens` hold the Links and
Secrets of a namespace and the effect of each *single* call of Load, Save and
Delete. The order of the calls, and what happens when one fails, is in `Consume`.

### Consume

One action per call. `pc` says where the pass is:

| `pc` | code | actions |
|---|---|---|
| `idle` | waiting in the loop's select | `Begin` takes the configuration |
| `load` | `vanform.go:138` | `Load`, `LoadFails` |
| `fetch` | `vault.go:71-123` | `List`, `ListFails`, `GetToken`, `GetFails`, then `Plan` or `PlanPanics` (`vanform.go:148-180`) |
| `delete` | `vanform.go:181-198` | `KubeDelete`, `KubeDeleteFails`, `SystemDelete`, `SystemDeletePanics`; when `dels` is empty `SaveFirst`, `SaveFails`; then `End` |
| `deleteSecret` | second call of Delete | `KubeDeleteSecret`, `SystemDeleteSecret` |
| `save` | second call of Save | `SaveSecond` |
| `panicked` | the process has died | `Restart` |

`deleteList` is the set `dels`; `createList` is two sets of indices into
`available`, those that replace a link and those that are new, saved in that
order. The order in which Load lists links is left open. `Crash` may end a pass
anywhere. `Publish`, `Withdraw`, `Destroy` and `Reconfigure` are what the
others do: a KV version 2 store keeps the key of a token whose version was deleted
(`Deleted`, which the code skips) and loses one whose metadata was (`Absent`,
which makes a Get fail). `failed` and `touched` are history: the zones whose List
failed and the link names whose tokens changed during the pass.

### Publish

`platform` is chosen initially. A *slot* is a zone of the configuration and one of
its `ReachableFrom`. On Kubernetes the pass finds the site (`GetSite`), then zone by
zone creates the Certificate and waits for its Secret; on a System site it reads
a token file per slot. Then it gets what is published, slot by slot, compares,
and puts. Secret contents are numbered by age, 0 standing for one that is not
complete. `Issue`, `SetEndpoints` and `SetFile` are Skupper's doing.

### KubeController

The informer is a queue of events handled one at a time. A `VanForm` object has a
channel (`closed`) and the field that holds it (`field`); Stop closes the one and
then sets the other to nil, two steps, and the goroutine may evaluate its select
between them. `waits[v]` is what it saw. A deletion the watch has missed comes as
a tombstone, whose type assertion panics; the restarted process lists the
ConfigMaps again. Shutdown follows `main.go`, `informer.Run` (which returns when
the handler at work has) and `handleShutdown`. The pass itself is one step here,
`Process`.

### FileWatcher

One monitored directory with files in it, the handlers of it, and the three
goroutines of the watcher. `monitor`, `events` and `dispatcher` say where each is:

| variable | values | code (`file_watcher.go`) |
|---|---|---|
| `monitor` | `select`, then `manage`, `add`, `read`, `send`, `unlock` | `monitorPaths` 173-193; the steps of `manageWatchers` 195-262 |
| `events` | `select`, then `filter`, `send`, `refresh` | `processEvents` 94-140 |
| `dispatcher` | `select`, `wait` | `dispatchTriggers` 142-168 |

`handlerLock` is `readers` (how many read locks each goroutine has) and `writer`;
as with Go's RWMutex a reader waits behind a writer that waits. The channels
`triggerCh` and `refresh` are unbuffered: a send is one step of both ends (`Send`,
`Refresh`, `AddUnlocks`). `Add` is three steps, for the lock it waits for and the send
it makes under it. fsnotify and the kernel are external: `attached` is the kernel's
watch, which dies with the directory, `watched` the entry in fsnotify's WatchList,
which lives until the event is read (`ReadInotify`), `inotify` and `unread` the events
under way. A callback that takes longer than 100 ms moves from `job` to `late` and
finishes any time later. `known` is what the callbacks have told a handler. The handlers
of a path are a set: in which order a trigger goes to them is left open, only
`OnBasePathAdded` comes before the `OnCreate` calls of the same handler. A handler has `Add` to
wait for before it is there; `Announced` speaks of those added before Start, since a
directory that is watched already is not announced to a later one.

### SystemController

Built on what `FileWatcher` shows a watcher does: it announces what is in a
directory beside the events that arrive from then on (`scan` and `queue`, `hscan` and
`hqueue`), each of its two senders waits for the dispatcher with one trigger in hand
(`found`, `event`, `hevent`), callbacks come one at a time (`job`). A ConfigMapHandler
watches the directory of its namespace's runtime state (`controller.go:145-146`), which
comes and goes within the namespace (`MakeRuntime`, `RemoveRuntime`) and has the
ConfigMap in it. The watch is lost with that directory (`hwatch = "lost"`) until
fsnotify reads of it (`HForget`) or the tick finds out (`HDrop`, which discards unread
events, all but the one fsnotify may be sending). Where `monitorPaths` is, is apart from
that (`hscan`): it adds the watch, reads the directory and sends what it found (`HAttach`,
`HRead`, `HScan`), whatever becomes of the watch meanwhile, and looks at its paths again
only then. Callbacks are taken to be faster than 100 ms.

`OnCreate` makes a handler and puts it into the map; it may not get a watcher. `OnRemove`
takes the entry out and then closes the channel: two steps, because
`handleShutdown` walks the map without the lock (`ShutdownTakes`, `ShutdownCloses`) and
may have the same channel in hand (`OnRemovePanics`, `ShutdownPanics`). Where two
goroutines use the map at once the Go runtime may abort the process
(`FilterRaces`, `CallbackRaces`). `HOnCreate` and `HOnRemove` are the callbacks of a
ConfigMapHandler; a VanForm ends when its channel is closed (`LoopEnds`), which it
cannot miss, for unlike that of Kubernetes the channel is an argument of `run`.

Four variables are history. `overwritten` are the handlers replaced in the map.
`unnoticed` are the namespaces whose `OnCreate` came when they had gone and no removal was
on its way any more. `misled` are the handlers that were not told of the removal of
their ConfigMap, or told too early: it was dropped with the watch, came before the
announcement, or came while the directory, back again, was not watched yet. `outrun` are
the handlers whose last announcement reached OnCreate while a removal was still to come to
OnRemove with no creation behind it (`RemovalLast`): `OnCreate` finds the VanForm already
running (`controller.go:157-160`), then `OnRemove` stops it (179-180). That takes a directory
that goes and comes back with its ConfigMap while `processEvents` holds the removal. The
next creation under the watch, or the next announcement, ends it. Handlers and VanForms
are used once, so that their sets are bounds: `OnCreate` and `StartVanForm` need a fresh one.

### Mesh and Van

`Mesh` is the promise: certificates are renewed, the wanted pairs change, links are
made (only for pairs that were wanted, with a certificate of the publisher that is not
older than the link before) and cut, and in the end (`<>[]Meshed`) every wanted pair
has a link with the present certificate.

`Van` is `Process` for every site at once over one Vault: `Begin` (`getSite`), `LoadConfig`,
`Login`, then the calls of publishing and consuming in order. It is coarser than
`Publish` and `Consume` where those have been checked in full: a site is in one zone
(several sites may share it), a token is the age of its certificate, a Link and its
Secret are one, a zone has one endpoint group. It keeps every call to Vault, what each
failure skips or ends, and the reading of keys one by one while other sites write.
Vault still holds the tokens of zones a site is no longer reachable from, as the
code leaves them there. The refinement mapping is `link <- links` and `wanted <-` the
pairs the configurations ask for; `ever` and `last` are history variables of `Mesh`
that `Van` keeps too.

## 4. The runs

| Run | Checks | Bounds |
|---|---|---|
| `consume_kube` | `TypeOK`, `LinkHasSecret`, `PassSound`, `NoOrphanSecret`, `Converges` | 4 changes, 1 fault |
| `consume_system` | `TypeOK`, `PassSound`, `Converges` | 4 changes, 1 fault |
| `consume_list_error` | `NoNeedlessDelete` is violated | 2 changes, 1 fault |
| `system_panic` | `NoPanic` is violated | 3 changes, no fault |
| `publish` | `TypeOK`, `PassPublishes`, `NoDowngrade`, `Converges`, `Quiesces` | 3 changes, 1 fault, 2 issues per Certificate |
| `publish_groups` | `PassPublishes` is violated with two endpoint groups | 3 changes, no fault |
| `kube_controller` | `TypeOK`, `StopOnce`, `NoneForgotten`, `Served`, `ShutdownCompletes` | 2 namespaces, 4 changes, 1 missed deletion |
| `kube_lost_stop` | `StopTakesEffect` is violated | 1 namespace, 2 changes |
| `file_watcher` | `TypeOK`, `Announced`, `Withdrawn`, `Settles`, `Silent` | 1 handler, 1 file, 4 changes, 1 slow callback |
| `watcher_late_add` | `AddReturns` is violated | 2 handlers, 1 change |
| `system_controller` | `TypeOK`, `NoneForgotten`, `OneServes`, `ClosedOnce`, `Served`, `RemovalStops`, `Released`, `Settles`, `ShutdownCompletes` | 1 namespace, 3 directories or files made, of which 1 before a shutdown |
| `van` | `TypeOK`, `Steadfast`, `MeshKept`, `Meshes` | 2 sites, 2 certificates each, 1 change, 1 fault |

**Why the bounds are enough.** In `MCConsume` one remote site has two endpoint
groups, hence two Links with one Secret, on offer in two zones, with two
generations of the certificate, and one link on offer in both zones; the site's own
token is in Vault too, and the configuration has one zone or two. Four changes
let both Links appear, one be withdrawn or renewed and the configuration
change; one fault then falls on any call. In `MCPublish` a site has two zones and
three slots, with one zone that nobody reaches in the other configuration; three
changes are a ready site, a withdrawn token and a new configuration. In
`KubeController` four changes add, delete and add a ConfigMap again beside that of
another namespace; three VanForm objects suffice for them. Longer runs repeat:
a pass starts from the stores alone. In `FileWatcher` four changes let the directory
go and come back around a file that is created and removed; files and handlers
do not interact otherwise than by order. In `SystemController` what is made is
counted, not what is removed: three let a ConfigMap, its directory and its namespace, all
there at first, go and come back, or the directory alone come back with its ConfigMap,
in any order with the goroutines, and there are more handlers and VanForms (four
and six) than come about. Namespaces share only the map, and with it the walk of
`handleShutdown`, which one entry is enough to race. A shutdown comes before the second
is made (`StopBy`), from any of the four initial states, and ends all changes; those already
reported are still delivered. In `MCVan` one site is reachable from the other's zone
or not, the other from both zones, its own included, so that a site finds its own
token in its zone; the certificate is renewed once while any step of either site is
under way.

**Fairness.** A pass is straight-line code in one goroutine, its calls time out,
and the ticker starts another every minute: weak fairness of the pass. Faults,
changes and signals are not fair, nor is the restart after a panic in the modules of the
passes. In `KubeController` it is, for Kubernetes restarts the container (`Restart` is part of
`Controller`);
`select` picks at random among ready channels, so a closed channel that is
ready at every select is picked some time: strong fairness of `LoopEnds`. In
`FileWatcher` each goroutine goes on when it can; a sender on `refresh` meets a `monitorPaths`
that comes back to its select every second, and Go queues waiting senders: strong
fairness of `Refresh`. The tick is part of `monitorPaths`. Changes, slow callbacks
and the stop are not fair. In `SystemController` every goroutine runs out of things to do,
so weak fairness of all of them together is enough. In `Van` each site's pass is
weakly fair, and so is the issue of a first Secret for a Certificate; renewals are not.

**What the passing runs show.** On Kubernetes the order of the calls in Save and
Delete never leaves a Link without a Secret, and no fault stops the links from
converging to what is on offer, as long as tokens that name one Secret agree on
it. A System site converges too *unless* a Link loses its Secret file, which the
premise of `Converges` says. Without faults nothing is left behind. Publishing
converges and falls silent with one endpoint group and distinct targets. Every
VanForm that was not told to stop is in the map, and closing the controller's
channel ends every loop, also those that missed their own stop.

The file watcher, with handlers added before Start as the program does, never comes to
a standstill, and finds a directory again that left and came back unnoticed. What is
in a directory is announced however its creation races with the watch. What has
left is withdrawn, *unless* it was there when the watch was added (its OnCreate may
come last), was renamed, or the directory itself went or a callback was slow: each of
these premises is needed, the run fails without any one of them.

On a System site every ConfigMap is served once all is quiet, if its handler has a
watcher, *unless* an announcement outran a removal: then the ConfigMap is there and
watched, and no VanForm runs until the next change (`Served`). What the invariants also say is
what is left behind, and each exception does occur in the run: a namespace announced twice
has two handlers, one of them out of reach, and two VanForms (`OneServes`, `NoneForgotten`),
so that its passes overlap, which `Publish` and `Consume` take not to happen; a VanForm whose
handler was stopped with its namespace before it saw the ConfigMap go runs for ever
(`RemovalStops`); a removal that comes while OnCreate is under way leaves the entry
(`Released`); a shutdown may panic or be aborted in its walk, but the process ends
(`ClosedOnce`, `ShutdownCompletes`).

`van` shows that the sites implement `Mesh` (`Meshes`; `MeshKept` is the half of it that
is safety) and that the two halves of a pass, checked separately, fit: a site whose own token cannot be
made consumes nothing in that pass (`vanform.go:51`), yet in the end all wanted pairs
are linked; between whole passes that overlap, no link goes back to an older
certificate, and none that is up to date is cut but for a failed List or a withdrawn token.

**What the violations show.**

- `consume_list_error`: `GetAvailableTokens` skips a zone whose List fails
  (`vault.go:76-79`) and the pass takes the rest for everything, so the links of
  that zone go, traffic with them, until the next pass. A Get that fails ends the
  pass instead, which is what `PassSound` relies on.
- `system_panic`: `system/token.go:126` removes the Secret file of a link whether or not
  another link names it. That link is loaded with a nil Secret, and `Equals`
  dereferences it (`types.go:189`) in every pass that follows.
- `publish_groups`: `kube/token.go:102` makes a Link per endpoint group, the path in
  Vault (`vault.go:195-201`) has no group in it, and the groups overwrite one another.
- `kube_lost_stop`: a Stop during a pass sets to nil the field the loop looks at next
  (`kube/vanform.go:77, 114`). The VanForm never ends; if the ConfigMap comes back, the
  namespace has two of them.
- `watcher_late_add`: `Add` on a running watcher sends on `refresh` with the lock held, while
  the receiver waits for that lock; or waits for the lock between the two read locks of
  `monitorPaths`. The program itself adds before Start; the test (`file_watcher_test.go:78-82`)
  does not, and passes when the timing is kind.

## 5. The proofs

What follows is proved for every value of the constants: any sites, zones, tokens,
namespaces, handlers and files, and any bounds. The assumptions are those the modules
name beside their constants. They say that tokens and configurations are well formed, that a
listing order ranks the paths, that bounds are naturals, and that `None` and its like are
none of the other values, records included. Where a theorem needs more it says so in an
`ASSUME`, and the reason is given below. TLC has checked every invariant below, the auxiliary
ones included, on a small instance before it was proved.

| Module | Theorem | Property |
|---|---|---|
| `ConsumeProofs` | `TypeCorrect` | `TypeOK` |
| | `LinksKeepTheirSecrets` | `LinkHasSecret` |
| `ConsumePassProofs` | `PassesAreSound` | `PassSound` |
| | `NoSecretIsLeft` | `NoOrphanSecret`, on Kubernetes, with `LinkFixesSecret` |
| `PublishProofs` | `TypeCorrect` | `TypeOK` |
| | `NoCertificateIsDowngraded` | `NoDowngrade` |
| | `EndedPassHasPublished` | `PassPublishes`, with `OneGroup` and `DistinctPaths` |
| `KubeControllerProofs` | `TypeCorrect` | `TypeOK` |
| | `EveryStopIsFirst` | `StopOnce` |
| | `EveryLoopIsKnown` | `NoneForgotten` |
| `SystemControllerProofs` | `TypeCorrect` | `TypeOK` |
| | `NothingIsForgotten` | `NoneForgotten` |
| | `AtMostOneServes` | `OneServes` |
| | `ClosedTwiceOnlyInShutdown` | `ClosedOnce` |
| | `TheGoneAreReleased` | `Released` |
| | `ARemovalStops` | `RemovalStops` |
| | `EveryConfigMapIsServed` | `Served` |
| `FileWatcherProofs` | `TypeCorrect` | `TypeOK` |
| | `FilesAreAnnounced` | `Announced` |
| | `FilesAreWithdrawn` | `Withdrawn` |
| `VanProofs` | `TypeCorrect` | `TypeOK` |
| | `SitesKeepMesh` | `MeshKept` |
| | `LinksAreSteadfast` | `Steadfast` |

`CommonLemmas` holds what several of them need. Least elements: where the program takes
the first of a list, the modules `CHOOSE` a least index, rank or slot, which exists because
the naturals are well founded. Queues (`EmptyQueue`, `TakeFirst`, `AddLast`): what one holds, and
what is in it behind what, when its first is taken or one is added.

**ConsumeProofs.** `LinkHasSecret` is not inductive. The second call of Delete removes a
Secret on the strength of a look at the Links taken before the first; the second call of
Save stores a Link on the strength of a Secret created by the first. `MidCallInv`
carries both facts across the gap: while `pc = "deleteSecret"` no stored Link
names the Secret, while `pc = "save"` the Secret is there. For the first,
`LinksNamed` is needed, since `SharedSecret` compares the names of links. `PhaseInv`
says that the lists are empty outside their phases.

**ConsumePassProofs.** For `PassSound` the invariant ties what a pass has collected to what
Vault holds now: every token in `available` is still on offer or was touched
(`AvailableInv`), and, the other way round, every offer in a zone the pass has come past is
collected, still to be got, in a zone whose List failed, or touched (`CoverInv`). The plan then
has cause for what it deletes and saves. For `NoOrphanSecret` every Secret is named by a Link,
or is the one of the Delete or Save at work (`UsedInv`), as long as nothing has failed. It takes
`LinkFixesSecret`: tokens with one link name have one Secret, as those of `Generate` do. Delete
removes the Link of a name and the Secret of a token, Save creates a Secret beside a Link that may
be there already; with other names they would not belong together.

**PublishProofs.** For `NoDowngrade` a token yet to be put is no older than the one in Vault that
it will replace (`FreshInv`). A configuration may name a zone twice, so that two tokens of one pass
have one path: they are made and put in the order of the slots, the later one no older
(`OrderInv`, `LoopInv`), and the path tells the zone (`PathTellsZone`, from `NameAssumption`: names are
sequences of strings). `PassPublishes` follows the comparison token by token: one that is not to be put
any more is in Vault or was withdrawn (`PutInv`), because what was read is still there
(`ReadInv`) and, with one group, `Equals` leaves no difference (`EqualsIsSame`). With two groups, or a zone
named twice, two tokens have one path and the last put stays; `publish_groups` shows it for groups.

**KubeControllerProofs.** `StopOnce` and `NoneForgotten` are inductive together with `MapInv` (the map
holds a VanForm under its own namespace, what was never started has nothing open or closed) and
`StopInv`: between its two halves a Stop has closed the channel of a VanForm that is still
in the map.

**SystemControllerProofs.** The steps are classified by what they leave alone (`Steps` and the
`...Leaves` lemmas), then each invariant is followed through the classes that touch it.

- `FormInv` and `KnownInv` give `NoneForgotten` and `OneServes`: the VanForm in a field is the one of that
  handler that still runs, and a handler that was not replaced is in the map until it is
  stopped, since `OnRemove` closes the channel of what it took out before there is
  another callback.
- `CloseInv` gives `ClosedOnce`: what the walk has still to close is not closed yet, and what it
  holds is not, unless it is out of the map.
- `ReleasedInv` gives `Released`: a namespace in the map that has gone has a removal in the queue,
  past the Filter or at work. It rests on `DueStays`: what is in the map passes Filter.
- `ToldInv` gives `RemovalStops`: as long as the ConfigMap is there and watched its removal will be
  queued, otherwise a removal is queued behind every creation (`Followed`). Misled handlers are
  excepted, and stay so while the event that fsnotify kept from a dropped queue is a creation
  still to come (`HDeliver`).
- `ServedInv` gives `Served`, and is the same idea twice, for namespaces and for ConfigMaps: what
  takes a thing away is followed in the queue by what brings it back (`Arrives`, `Attends`). For
  ConfigMaps that is so while the watch is on and its announcements have been sent, except for the
  handlers in `outrun`; a watch that was lost begins with announcements again.

**FileWatcherProofs.** That a watched directory is there (`TypeOK`) needs the place in the queue of the
event that says it went: it is the last, and until it is read there is no new watch
(`WatchTypes`). `Announced` and `Withdrawn` look at an idle watcher and are not inductive; what is
is the order in which a file's events travel through `inotify`, `unread`, `event`, `found` and
`job`. `Chain` says that behind every pending event of one kind there is one of the other:
behind a removal a creation, if the file is there, behind a creation a removal, if it is not. The
announcements of `monitorPaths` are outside that order, since they meet processEvents at the dispatcher
only. They do no harm to a file that is there (`AnnounceInv`), and those of files that are not
are the exception `unsure` (`WithdrawInv`). `QuietInv` says that nothing is under way before the watch, and
`PipeSteps` reduces each step of the four goroutines, the kernel and fsnotify to one of nine moves in
the pipes. One lemma (`ChainStep`) then serves both kinds.

**VanProofs.** That a site keeps `Mesh` needs the ages of a token everywhere it is at one time in
order (`AgeInv`, `OrderInv`): a link is no newer than the offer it is compared with, that no newer than
what is in Vault, that no newer than the publisher's certificate; what was withdrawn by an
operator is excepted, for Vault then forgets. `EverInv` says that nothing is on its way to a zone
that was never wanted. `Steadfast` needs `PlanInv` as well: what is in `deleteList` differs from the
offer.

**Only model-checked.** All liveness, which is out of the provers' reach: the second half of `Mesh`
(`Meshes`), `Converges` of both passes, `Quiesces`, `Served` and `ShutdownCompletes` of the Kubernetes
controller, `ShutdownCompletes` of the System controller, `Settles` and `Silent` of the file
watcher: that none of its goroutines waits for ever. The proofs say where its lock is held,
not that it is given back.

## 6. Not modelled

- The renewal goroutines of `approle.go`. A pass makes its own client and AppRole, so that
  the context `Login` would cancel (58) is always nil; the goroutines outlive their pass,
  one more every minute, until their token's maximum lifetime. They share nothing with
  later passes. Logging in, and failing to, are steps of `Van`.
- Errors before a pass gets to Vault are steps of `Van` (`LoadConfigFails`, `LoginFails`); in
  `Publish` and `Consume` they are passes that do not begin. A site that is not ready has
  none.
- The overlapping passes of two VanForms in one namespace, which the controllers allow
  (`kube_lost_stop`, `OneServes`): `Publish`, `Consume` and `Van` have one pass per site.
- The file lock of `ensureSingleInstance` (released when stopCh is closed, while passes may
  go on), several monitored directories in one watcher (the program has one each), an
  overflow of inotify's queue, errors of fsnotify other than a path that is gone.
- The YAML of tokens, flags, logging, client construction, manifests and scripts: no
  property is about them.
- Revocation: a token is never removed from Vault by its site (`vanform.go:79-80` says so
  in a TODO), so a zone that is no longer reachable stays on offer. The model does the same.
- Links and Secrets changed by users of the namespace. A System site overwrites a file of
  the same name, Kubernetes keeps what is there.
