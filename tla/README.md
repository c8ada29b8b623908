# azemu in TLA+

A verification project for azemu, the local Azure emulator: TLA+ modules of the
parts in which steps of several requests, failures and restarts meet, the TLC
runs that check them on small instances, and proofs of what matters most for
every instance. `src/...` below is the repository's path from its root.

Modules are checked with `tlc -config X.cfg M` and proofs with `tlapm M.tla`.
`PROJECT.json` lists components, runs, mutants, findings, hazards and theorems,
and maps each definition that stands for code to the lines it stands for.

## 1. Inventory

azemu is one Go process. `net/http` serves every request in a goroutine of its
own; almost all state is one map of resources that the goroutines share.
**The store's mutex covers one store call, never a handler**, so the handlers
interleave between their calls. That one fact is behind most of the project.

| component | state | operations | hard because | correct when |
|---|---|---|---|---|
| Resource store (`internal/store/memory.go`) | `map[string]Resource` under an RWMutex | Put, Get, List, Delete (cascades on the prefix `id + "/"`), Export, Import, Reset | shallow copies; a nil map after importing `null` | each call is a function from a map to a map |
| File persistence (`internal/store/file.go`) | the map, the file, `file.tmp` | mutation, then `persist`: Export, WriteFile, Rename | `persist` holds no lock; crashes, failing system calls | a restart finds what the store held |
| Generic ARM handlers (`internal/arm/*.go`, 20 resource types) | none of their own | PUT (201/200), PATCH (merge), DELETE (202/404), GET, list | several store calls for a request | the tree of resources stays a tree; status codes and merges are exact |
| State API (`cmd/azemu/serve.go`) | none | export, import, reset | replaces the map under running handlers | as the tree |
| Load balancer (`lb.go`) | its children in the store | PUT with inline arrays, children's PUT and DELETE | a PUT is up to dozens of store calls | children match the array |
| Key Vault (`keyvault*.go`) | versions and pointers in the store, outside the ARM tree | PUT/create/import, PATCH, GET, DELETE of items, vaults, groups | version and pointer are two entries | no half items; current is the latest |
| CDN and Front Door data plane (`cdn_dataplane.go`, `cdn_frontdoor_dataplane.go`) | none | host to endpoint, route, origin, account | three Lists without a lock; picks from a Go map's order | an answer was right at some moment; only ties vary |
| Key Vault host routing (`router.go`) | none | host to vault | picks from a Go map's order | names a vault that has the item |
| DNS zones (`dns.go`) | zone and record sets | PUT of a zone seeds SOA and NS | three Puts, any can fail | a zone has its SOA and NS |
| Storage accounts (`storage_account.go`) | accounts, containers | PUT with a uniqueness scan, DELETE in two parts | scan and Put are apart | a name belongs to one account |
| CDN and Front Door resources (`cdn.go`, `cdn_frontdoor.go`) | nested resources | PUT, PATCH, DELETE below a profile | each looks at another parent; host names are computed from ids | what the data plane finds |
| Managed identities and credentials (`identity.go`, `federated_identity_credential.go`) | identities, credentials below them | PUT, PATCH, DELETE | check of the identity and Put are apart; PATCH has no finalise hook | a credential belongs to an identity |
| Request log (`middleware/request_log.go`) | a ring, a set of channels | record, Recent, SSE subscription | fan-out after the unlock; channels closed under senders | no duplicates, no unexplained gap, no waiting |
| Request normalisation (`middleware/pathcase.go`, headers, api-version) | a counter | rewrites the path | - | idempotent, names left alone |
| Token service (`internal/auth`, `cmd/azemu/ficresolver.go`) | keys | three grants; an assertion is resolved by two kinds of List | writes between the Lists | a token only for whom a credential granted it, a refusal only when none did |
| TLS bundle (`internal/auth/tls.go`) | files | load or generate | written in place, two servers at once | both ends trust one certificate |
| Azure DevOps (`internal/ado`) | endpoints, runs | endpoint CRUD, queue a run, ask for its build | check and store under two locks; a status is a function of the clock | a deleted endpoint stays deleted; a build never goes back |
| Metadata, operation results, configuration | none | documents | - | - |
| Server lifecycle (`serve.go`) | five listeners | start, one error channel, shutdown | one deadline for five shutdowns | all stop |
| Launcher (`adapter.go`, `tf.go`, ...) | a child process | probe, start, wait, give up; resolve the certificate | two launchers, a 30 s deadline | one server, which the client trusts |
| Web console | browser | proxy | I/O | - |

How they interact: the five listeners (ARM, metadata, token, Key Vault and CDN
hosts, console) share one store, one request log and one key pair. The ARM
routes and the Key Vault data plane call the store directly; the state API
calls it from outside the handlers; the log's middleware wraps every ARM
request. A pipeline carries its token from the DevOps emulation to the token
service. The launcher sees the server through its health endpoint and the TLS
files only.

## 2. Modules

```
MemoryStore ------ FileStore ---------- FileStoreProofs
  (operators)  \     | implements DurableMap
                \--- ResourceHandlers -- ResourceHandlersProofs
                |    | implements ResourceTree
                |--- LoadBalancer ------ LoadBalancerProofs
                |--- CompoundHandlers -- CompoundHandlersProofs
                |--- ContentRouting ---- ContentRoutingProofs
                \--- FederatedTokens --\
                               DevOps --- OidcFlow --- OidcFlowProofs

KeyVault ---------- KeyVaultProofs
RequestRecorder --\
ServerProcess ----- ServerProofs
```

`MemoryStore` has no variables: it defines the store's calls as functions on a
map, one application for each locked section. The modules that hold such a map
in a variable apply these functions. An id is the sequence of the segments of
its path, so the code's "`k` has the prefix `id + "/"`" is "`id` is a strict
prefix of `k`".

**`FileStore`** - `internal/store/file.go` at the granularity of system calls.
The mutation of the map is one step (it is under the mutex); `persist` is four:
Export (read lock), the open of `file.tmp` with `O_TRUNC`, the write, the
rename. `tmp` and `file` are the two names of the directory and refer to inodes,
because a request that opened `file.tmp` keeps writing to that inode after
another request has renamed it. `Blank` and `Torn` are contents that do not
load. `PersistFails` is any of the system calls failing; Put and Import report
it, Delete and Reset drop it. `Crash` loses everything but the disk;
`NewFileStore` loads or refuses. `DurableMap` is what it promises: a live map, a
saved one, saves of the whole, crashes that fall back to the last save.

**`ResourceHandlers`** - the shape that the generic handlers share, with one
action for each store call: PUT of a top-level resource (`CheckExists`,
`StoreResource`), of a nested one (`CheckParent` first; the ids in `Rereads`
read the parent a second time and dereference nil when it is gone), PATCH
(`ReadForPatch`, `StorePatch`), cascading DELETE, and import and reset of the
state API. `ResourceTree` is what they promise: a tree on which each request
acts at once.

**`LoadBalancer`** - a PUT of a load balancer stores it and then takes the
inline arrays it carries one by one, in the order of `Inline` (`at` is the place
it has come to): an upsert for each listed child, a List, a Delete for each
child the array lacks. Array order is the client's, map order is Go's, so both
loops take any order. `Present` is the code's test for an array that the body
has: an absent one is skipped, an empty one deletes all children.

**`KeyVault`** - the entries of an item (one for each version and the pointer
`current`), the vault resources, and the three shapes of DELETE. The maps that a
PATCH of a key writes through without a Put (`MergeTags`) are the `tags` of the
version, kept apart from `entries` because the store's copy shares them. A request
names its vault by its host; if it does not, the first vault of a scan that has
such an item is taken. Either way any vault may be meant, so `Receive` leaves it
open, and `WithoutVault` is the scan that finds none.

**`CompoundHandlers`** - the handlers of one request and several writes, or of a
decision that scans the store. The PUT of a DNS zone stores the zone, then the
SOA and the NS record set when the zone is new; the PUT of a storage account
looks through all accounts for its name and then stores; its DELETE cascades,
lists what is below the id once more and deletes that too. Record contents are
two bodies, `Seed` and `User`.

**`RequestRecorder`** - the ring with its index arithmetic, the copy of the
client set taken under the mutex, the sends after it, `unsubscribe` and the
close that follows it.

**`ContentRouting`** - both sides of CDN and Front Door. On the ARM side, the
writes of profiles, endpoints, origin groups, origins and routes, each behind
`Normalize` (the literal segments of the path are folded, names are kept) and
the parents it looks at. On the data plane, the walk from a Host header to an
account, one action for each List: `ServeCDNContent` is one, Front Door takes
`ServeAFDContent`, `FollowRoute`, `ServeOrigin`. Where the code sorts, the model
sorts (`Rank`); where it takes what a Go map gives first, any order is possible.
`RightAnswers` is the abstract specification: the answers that one configuration
allows for a host.

**`FederatedTokens`** - identities and their credentials, and the three grants.
An exchange first checks its assertion (`ReceiveExchange`), then lists the
identities (`ListIdentities`), then the credentials of one candidate after
another (`TryIdentity`), and ends with a token or with `NoMatch`. `PatchIdentity`
merges what was sent over what was read, the client id included, as the code
does. Signatures are left out: the code verifies none of an assertion, and access
tokens are only told apart by whom they name.

**`DevOps`** - service connections, whose update looks under one lock
(`CheckEndpoint`) and stores under another (`StoreEndpoint`), and pipeline runs,
whose status is a function of their age (`StatusFor`). **`OidcFlow`** composes the
two services: they share no state, and meet in the token that a pipeline carries
(`OidcToken`).

**`ServerProcess`** - servers, launchers and the certificate files. A server loads
or generates its certificate, writes it in two system calls (`Truncate`, `Save`),
then binds its ports one by one (`Listen`). `Loadable` is what `tryLoadBundle` asks
of a bundle: whole, with its key, within its validity and for every host; `Lacking`
are those left from before, say by an older version, that lack something of it.
`FailToLoad` is a good bundle that cannot be read, which the code takes for none.
A port may be held by the other server or by a program that is none (`Occupy`,
`Vacate`), and a listener may fail for any other reason (`ListenerFails`); each
ends the server (`Fatal`), however long after its health port has answered.
`Fatal` and `Signal` are the two ends of the select in `runServe`; `Shutdown` takes
the listeners one after another under one deadline (`late`). `Crash` may come at any
moment. A launcher probes, starts, polls, gives up; it takes whatever answers for a
server (`HearHealthy`), and a probe may always fail. With no path set a server
writes `azemu-cert.pem` to `os.TempDir()` (`tempDir`, which `$TMPDIR` moves), while
the launcher's list of files (`ResolvedCertFile`) has a literal `/tmp`. `certPath` and
`tempDir` are the environment, the same for servers and launchers.

The MC modules give the constants; each cfg is one run.

### History variables

Several properties say *when* a bad state may occur: "an orphan comes only from
a write that a DELETE overtook". The causes are history variables that no
guard reads: `raced` (a delete at or above a request's id landed since it came
in), `strays` (ids that a raced request stored), `swept` (ids that an
undisturbed DELETE emptied), `hit`, `disturbed`, `fresh`, `lone`, `past`,
`overlap` and so on. Each is set at the step that is the cause and never from
the bad state itself, so a model with a further cause violates the property.

## 3. Runs

| run | question | instance |
|---|---|---|
| `file_single` | With one mutation at a time: does the file always load (`Loadable`), does it hold the map when nothing is under way and no persist was lost (`QuietIsSaved`), does the store implement the abstract one (`ImplementsDurableMap`)? | 1 goroutine, 2 ids, 2 inodes, failing calls, 2 crashes |
| `file_concurrent` | With two: is what a restart loads always one whole earlier state (`RestartsToPast`), is a persist that nothing overlapped exact (`LonePersistIsExact`)? | 2 goroutines, 3 inodes, failing calls, 1 crash |
| `file_torn` | persist's comment says that partial writes cannot corrupt the store. **Violated**: two persists share `file.tmp` | no failing call, no crash needed |
| `handlers_single` | One request at a time: does the facade implement the tree (`ImplementsTree`), are 200/201 (`StatusIsExact`) and PATCH (`PatchTouchesOnlySent`) exact? | 4 ids, 2 fields, 2 values, imports and resets |
| `handlers_races` | Three requests: where do orphans come from (`OrphansAreStrays`), what does a DELETE leave (`SweptIsEmpty`), when does a handler panic (`OnlyRacesPanic`)? | 3 requests, a resource and two nested ones, any import |
| `lb` | What does an undisturbed PUT leave, after any failures and races before it (`LonePutMatches`)? May a child disappear that neither a DELETE nor an array drops (`ListedChildrenStay`)? | 2 requests, 2 arrays of one name each, 2 bodies, failing Puts |
| `compound` | Why may a zone lack its SOA or NS (`ZonesAreSeeded`), a client's record be overwritten (`SeedsKeepRecords`), two accounts have one name (`DuplicatesAreRaces`)? Does the second look of a DELETE take anything older than itself (`DeletesTakeTheirOwn`)? | 2 requests, a zone, 2 accounts with a container each |
| `log` | No duplicates (`NeverBoth`), no unexplained gap (`MissesAreKnown`), order (`RealTimeOrder`), the ring's index arithmetic (`RecentIsTheLast`), and no console holds up a request (`RecordEnds`) | 2 writers, 2 consoles, ring of 2, channels of 1, 3 entries |
| `vault` | Why may an item be half there (`HalfItemsAreRaces`)? Does the current version go back (`LatestNeverReverts`)? What does an undisturbed DELETE leave (`SweptIsEmpty`)? | 2 requests, a key, a secret, 1 vault, 1 group, 2 versions, failing Puts |
| `routing` | Is a content request answered what was right at some moment of it (`AnswersWereRight`)? May a host's answer change with no write in between (`OnlyTiesVary`)? | 1 content request and up to 2 writes, 2 profiles and a twin of one whose name differs in case alone, 2 endpoints of one name but for its case, 3 routes, 4 origins, 3 classic endpoints |
| `oidc` | May a token name whom nobody granted (`TokensWereGranted`), an exchange be refused that was granted throughout (`RefusalsWereRight`), a deleted service connection come back (`EndpointsStayDeleted`), a build go back (`BuildsProgress`)? | 3 requests, 2 identities with a credential each, 2 DevOps clients, 1 connection, 1 run |
| `launch` | Does the client trust the server that answers (`TrustIsServed`)? Is a launcher that is told ready right (`ReadyIsServed`)? What replaces a good bundle (`BundlesStay`)? Where does a launch lead (`LaunchIsServed`), does a server that is stopped end (`ServersEnd`)? | 2 servers, 1 launcher, 2 ports, another program on one of them, `$TMPDIR` set or not, crashes, failing reads, writes and listeners, 2 old certificates of which one lacks a host |

Every property of a passing run has a mutant: a definition changed as a
plausible bug would, under which TLC finds the property violated. The runs of
`lb`, `compound`, `log`, `vault` and `launch` do not check `TypeOK`: it is proved
(section 4).

### What the model shows about the code

Where a comment or document of the repository says otherwise:

- `file.go:78` says that partial writes do not corrupt the store: run
  `file_torn` refutes it.
- `patch.go:25` says that keys which a PATCH does not carry keep their stored
  values. A PATCH stores the whole of what it read (`patch.go:122`), so it
  reverts what another request stored in between; `PatchTouchesOnlySent` holds
  for one request at a time only.
- `request_log.go:84` says of an entry "never neither". `unsubscribe` may close a
  channel that a writer still has in its copy of the client set; the writer
  panics, and the consoles that it has not reached get nothing. This is `broken`
  in `MissesAreKnown`.
- `memory.go:68` says that a caller cannot mutate stored state. The copy is
  shallow, and the PATCH of a key writes into the shared maps before its Put
  (`keyvault_key.go:427`; `MergeTags`).
- `config.go:20` says that a server without a certificate path writes its
  certificate to `/tmp/azemu-cert.pem`. It writes to
  `os.TempDir()` (`tls.go:182`), as `docs/SETUP.md:262` has it. The launcher hands its
  client the literal `/tmp/azemu-cert.pem` (`adapter.go:136`), so that where `$TMPDIR` is
  set, as on macOS, the client of a server that runs alone is given a file that is
  missing or stale. That is an exception of `TrustIsServed`.
- A classic CDN endpoint whose name has a capital letter is stored and never
  served: the host is folded and the stored name is not (`docs/PARITY.md:38`
  promises the host name). In `ContentRouting` `FindCDNEndpoint` compares them so.

What else the lack of a lock over a handler, or of one process over the files,
does, as the exact-cause properties describe it:

- a nested PUT overtaken by a DELETE of its parent leaves an orphan, which the
  next DELETE at or above it removes (`OrphansAreStrays`, `SweptIsEmpty`);
- two PUTs of a new resource can both be answered 201, and a PATCH overtaken by
  a DELETE creates the resource again (`StatusIsExact` and `ImplementsTree` hold
  for one request at a time only);
- two renames can land in the other order than the map changed, and the file
  lacks the later change until the next mutation (`QuietIsSaved` holds with one
  mutation at a time only);
- two PUTs of a load balancer that overlap can leave children that match
  neither array (`LonePutMatches` is about undisturbed PUTs);
- a zone whose creation failed half-way is never seeded by the retry, which
  finds the zone (`ZonesAreSeeded`);
- two groups can create storage accounts of one name (`DuplicatesAreRaces`);
- the entries of a secret are siblings, `.../{version}` and `.../current`, so the
  cascade that `keyvault_secret.go:18` relies on removes nothing: the handlers
  delete version by version, and a DELETE that a PUT overlaps leaves a version
  without a pointer (`HalfItemsAreRaces`);
- deleting a resource group removes its vaults' resources and leaves their
  secrets and keys, which lie outside the group's id;
- a request whose host names no vault reaches any of the vaults that have an item
  of that name, a PUT and a DELETE as well as a GET (`FindVaultForItem`);
- a Front Door request that two writes overlap can follow the route of one
  configuration to the origins of the other; one write cannot make it, except
  that a DELETE may show as an origin that does not resolve (`AnswersWereRight`);
- origins are found by a prefix compared in lower case, ids are kept as they were
  sent: of two profiles whose names differ in case alone, each can be served
  origins of the other. A DELETE of one of them then leaves a walk that has its route with
  the other's origins, which no configuration allowed: one write suffices
  (`parted`). The proof attempt of `AnswersWereRight` found this case; with such
  a pair in the instance TLC finds it too;
- a PATCH may change the client id and the principal id of an identity, and give
  two identities one client id: then a token may name an identity whose client id
  has moved away, and an exchange may be refused though each moment had somebody
  to grant it (`moved` and `shared` in `TokensWereGranted`, `RefusalsWereRight`);
- an update of a service connection brings back one that was deleted between its
  two locks (`EndpointsStayDeleted`);
- the answer to queueing a run says `inProgress`, and the first report of the
  build then says `notStarted`: `BuildsProgress` is about the reports;
- two servers started together bind what ports each gets; a launcher that
  probes the one which is about to end is told that it is ready. With no
  certificate path each writes the temporary file, the losing server last if it
  comes to that, and a bundle in the working directory hides both
  (`TrustIsServed`, `ReadyIsServed`, `LaunchIsServed`);
- the health port is one of five and answers before the others are bound: if
  another program holds one of those, or its listener fails for any reason, the
  launcher has been told that it is ready and the server ends (`spoiled`);
- a bundle that cannot be read at the moment, or that lacks a host, a key or its
  validity, is replaced, and the trust in it lost; any other is not but for a
  server that starts beside (`BundlesStay`);
- an import whose save fails is answered 400, and stands (`ReplaceState`);
- a launcher that gives up releases the process before it kills it, so the kill
  fails and the server it reports as failed may still come up (`GiveUp` leaves
  the server alone);
- the five shutdowns share one deadline: an open stream in the first uses up the
  time of all (`late` is set once), yet every server ends (`ServersEnd`).

### Bounds, and why they are enough

- *Requests at a time*: two for everything that is about a pair (a check and the
  write that overtakes it); three where a third request could hide or repair
  what two did (`handlers_races`), or where two writes meet an exchange. One
  where the property is about requests that do not overlap.
- *Inodes*: one more than goroutines. Each goroutine has at most one open, and
  `file` names one more; a new `file.tmp` always finds a free inode.
- `MaxCrashes`, 2 with one goroutine: a crash, and a crash during what the first
  one left. `MaxEntries` 3 over a ring of 2 wraps it. `MaxVersions` 2: one
  version that another replaces; `LatestNeverReverts` needs no more.
- *Ids*: a group, a resource, nested resources: the cascade meets every depth.
- `lb`: two arrays, so that one may be absent, of one name each. Several names
  for an array and the children that no PUT carries (backend pools) are covered
  by the proof, which is for any arrays and names.
- `compound` explores zones and accounts apart (constraint `OneFamily`): they
  share no id, and a group's DELETE treats each id alone.
- `routing`: `MaxChanges` 2, as the property speaks of one write and of two; the
  stores it starts from (`MCLoaded`) hold what more writes would build.
  `OneContentRequest`: content requests write nothing, so that one of them sees
  all there is to see.
- `oidc`: `OneService` explores the token service, the endpoints and the runs
  apart, which share no variable. `TwoBusy` is two requests in several steps and
  a third of one step, at most one of them an exchange. `Lifetime` 0, `MaxTime` 1:
  a token that is valid and one that is not; the clock matters to the first step
  of an exchange alone (`LateQuiet`). `MaxSecond` 5 takes a build to its last
  phase. `VIEW WithoutAnswers` leaves out the answer and the token of the step
  before, on which no guard depends; the properties read them in their primed
  form, which is that of the step itself.
- `launch`: the servers start in order (`InOrder`), being alike; two of the five
  ports, as the property is about the first, the others, and a deadline that the
  first has used up. A launcher that failed leaves its server as one started by
  hand (`NoFailedLauncher`). `LateRequests` and `Leftovers` keep the requests to a
  server that shuts down and the left-over files to those that matter; `Intruders`
  is one other program at a time, and failed listeners with one set of files, as
  ports and files meet only in a server that ends early, which a crash does with
  every set of files. The cfg's
  constraints name states that are not extended, so a behaviour that needs one
  of them is not among those on which the liveness properties are checked.
- *Symmetry* over requests (and inodes, writers, consoles) only where a run
  checks no liveness and no property names one of them.
- Where the code really may stop (consoles gone, entries used up, a server that
  refuses to start, all servers gone) the cfg says `CHECK_DEADLOCK FALSE`.

### Fairness

`RecordEnds` needs weak fairness of `Sending(w)` for each writer, that is, a
goroutine that can run is run, which Go's scheduler gives. No console has to
read or to leave, and no request has to arrive.

`LaunchIsServed` and `ServersEnd` need weak fairness of `ServerStep(s)` and of
`LauncherStep(l)`: a process that can take a step takes one. `ServerStep` has the
steps of the program text and the passing of the shutdown's deadline, which is a
timer. It has none of what comes from outside: requests, and their ends, signals,
crashes, failing system calls and listeners, starts by hand and what other programs
do to the ports may happen or not.
`LauncherStep` has the 30 seconds of `waitForHealth` (`GiveUp`), a timer too.

## 4. Proofs

Eight modules prove for every value of the constants what the runs check on one
instance. Assumptions are those of the modules (`StoreAssumption`,
`FileStoreAssumption`, `HandlerAssumption`, `LoadBalancerAssumption`,
`CompoundAssumption`, `KeyVaultAssumption`, `DevOpsAssumption`, `ServerAssumption`, the
`PathAssumption`, `NameAssumption` and `BodyAssumption` of `ContentRouting`, and so on, which
TLC evaluates in each run) and, where a theorem says so, one goroutine or request
at a time (`OneWriter`, `OneRequest`).

| theorem | statement | argument |
|---|---|---|
| `FileStoreProofs!TypeCorrect` | `Spec => []TypeOK` | directly inductive |
| `RestartsToPastHolds` | `Spec => []RestartsToPast` | `PastInv`: every inode, export and the map hold a past state or do not load; an export copies the map under the lock, so nothing is pieced together |
| `LonePersistIsExactHolds` | `Spec => []LonePersistIsExact` | `LoneInv`: while a request is lone its export is the map, and the inode it writes is the one `file.tmp` names, truncated, so that the write is exact |
| `SingleWriterLoadable` | `OneWriter => (Spec => []Loadable)` | `SingleInv`: the file's inode is never the one being written |
| `SingleWriterDurable` | `OneWriter => (Spec => ImplementsDurableMap)` | step simulation from `SingleInv`: the rename is the save, every other step of persist stutters |
| `SingleWriterQuiet` | `OneWriter => (Spec => []QuietIsSaved)` | with `SingleInv`: a persist either renames the live map or is noted as lost |
| `ResourceHandlersProofs!TypeCorrect` | `Spec => []TypeOK` | with `InStep`: a request's next call fits its operation |
| `OrphansAreStraysHolds` | `Spec => []OrphansAreStrays` | `TreeInv`: a request past its parent check either is raced or the parent is there |
| `SweptIsEmptyHolds` | `Spec => []SweptIsEmpty` | `SweptInv`: no request under way writes at or below a swept id |
| `OnlyRacesPanicHolds` | `Spec => []OnlyRacesPanic` | inductive once `TreeInv` is known: at the second read an undisturbed request's parent is there |
| `OneAtATimeTree`, `OneAtATimeStatus`, `OneAtATimePatch` | `OneRequest => (Spec => ImplementsTree)`, `... => StatusIsExact`, `... => PatchTouchesOnlySent` | `Undisturbed`: what the one request has read is still so |
| `LoadBalancerProofs!TypeCorrect` | `Spec => []TypeOK` | `Form`: the place and the sets of a request fit its step |
| `LonePutMatchesHolds` | `Spec => []LonePutMatches` | `Alone` (requests under way that overlap know it) and `Work`: of an undisturbed PUT, the arrays it has passed match, and of the present one what is listed and not `todo` is stored, what is not listed is `doomed` or gone |
| `ListedChildrenStayHolds` | `Spec => [][...]` | from `Form`: what is doomed is not listed, and its array is present |
| `CompoundHandlersProofs!TypeCorrect` | `Spec => []TypeOK` | `Form` |
| `DuplicatesAreRacesHolds` | `Spec => []DuplicatesAreRaces` | `Rivalling`, `Clear`: a PUT past its scan that knows no rival has no account of its name beside it |
| `ZonesAreSeededHolds` | `Spec => []ZonesAreSeeded` | `Live`, `Seeded`: what a zone lacks is with a request that is seeding, or is noted |
| `SeedsKeepRecordsHolds` | `Spec => [][...]` | `OrphansStray`, `Exposed`: a record set that is there before its zone is a stray, and one that came later is fresh |
| `DeletesTakeTheirOwnHolds` | `Spec => [][...]` | `Emptied`: below the id of a DELETE that has cascaded, all there is is fresh |
| `KeyVaultProofs!TypeCorrect` | `Spec => []TypeOK` | `Form` |
| `SweptIsEmptyHolds` | `Spec => []SweptIsEmpty` | `AllListed` (an undisturbed DELETE has listed every entry that is left), `SweptQuiet` (nobody writes to what is swept) |
| `HalfItemsAreRacesHolds` | `Spec => []HalfItemsAreRaces` | `Known` (a write and a DELETE of one item that overlap know it), `OwnItems`, `Unmoved`, `ListedOrMarked`, `HalvesMarked` |
| `LatestNeverRevertsHolds` | `Spec => [][...]` | `Drawn`: what is earlier than a version had ended before that was drawn, so that no request works on it |
| `ServerProofs!LogTypeCorrect` | `LogSpec => []LogTypeOK` | directly inductive |
| `RecentIsTheLastHolds` | `LogSpec => []RecentIsTheLast` | `Recording`: going back from the head, the ring holds the last entries |
| `NeverBothHolds` | `LogSpec => []NeverBoth` | `Apart` (each entry has one writer) and `Delivered` (no console was given an entry that is still to be sent to it) |
| `MissesAreKnownHolds` | `LogSpec => []MissesAreKnown` | inductive with `Apart`: an entry owed is given, pending, dropped or broken |
| `RealTimeOrderHolds` | `LogSpec => []RealTimeOrder` | `Apart`: an entry in flight overlaps all that are recorded after it |
| `OidcFlowProofs!TypeCorrect` | `Spec => []TypeOK` | `RequestForm`, `HistoryForm`, `DevOpsInv` |
| `TokensWereGrantedHolds`, `RefusalsWereRightHolds` | `Spec => [][...]` | `Noted` (the histories hold what is so now), `Orphaned` (a credential without its identity is a stray), `Walk` (of an exchange that is neither denied nor shared, the one who can grant it is still a candidate) |
| `EndpointsStayDeletedHolds`, `BuildsProgressHolds` | `Spec => [][...]` | `DevOpsInv`: an update that was not overtaken has its endpoint; what was told of a run is at most the phase of its age |
| `ServerProofs!TypeCorrect` | `Spec => []TypeOK` | with `Shape`: a port that was closed is not bound again |
| `TrustIsServedHolds` | `Spec => []TrustIsServed` | `TrustInv`: who has a neighbour that generates is astray (`Neighbours`); what others serve is in the file (`ServedIsKept`), and who generates finds no good bundle there unless it could not read it (`NoneIsLost`) |
| `BundlesStayHolds` | `Spec => [][...]` | from `NoneIsLost` |
| `ReadyIsServedHolds` | `Spec => []ReadyIsServed` | `LoneInv`: while nothing is spoiled one server is alive at most, it has found no port taken, each of its ports is its own or still to be asked for, and who was told ready finds the health port bound |
| `ContentRoutingProofs!ScanIsForemost` | the answers of `PreferredOrigin` are the foremost origins of the group | for every order of the scan; by a least counterexample over the length of what was scanned |
| `TypeCorrect` | `Spec => []TypeOK` | `Form` (`InStep`, `HeldOK`: what a request holds fits its step; `Fit`: every stored resource carries what its kind needs) and `HistoryForm` |
| `AnswersWereRightHolds` | `Spec => [][...]` | `RoutingInv`: for a walk that no write has met, what it holds is what the first choice allows now; after one write, what its remaining Lists can answer was right before or is right after (`WalkOK`) |
| `OnlyTiesVaryHolds` | `Spec => [][...]` | `Lasting`: what a host was last answered is right until the next write; without a tie there is one right answer |

None of the main invariants is inductive alone. `RestartsToPast` says nothing of
the inodes that are not named `file` now and may be after the next rename;
`OrphansAreStrays` says nothing of the request that has passed its parent check
and not stored yet; `HalfItemsAreRaces` nothing of the entries that a DELETE has
listed and will delete. What is added each time is what a request under way has
read and not used yet.

Only model-checked: the liveness properties `RecordEnds`, `LaunchIsServed` and
`ServersEnd`. `ReadyIsServed` is the part of `LaunchIsServed` that is a safety
property, and it is proved. `Loadable`, `QuietIsSaved`, `StatusIsExact`,
`PatchTouchesOnlySent` and the two refinements are proved for one writer, or one
request, and do not hold beyond it.

Out of the prover's reach, and left to TLC: liveness under fairness and anything
with `ENABLED`. The library's induction theorems take a predicate as a parameter,
which the installed provers cannot instantiate; where `ContentRoutingProofs` needs
an induction (a scan is a fold) it takes the least of the set of counterexamples
instead (`LeastNatural`). No module with a theorem, and none it uses, declares a
RECURSIVE operator.

## 5. Not modelled, and why

- *Response shapes, default values, names and ids of each resource type, error
  texts*: layout. The handlers' control is in `ResourceHandlers` and the modules
  beside it; what a type adds to it is data that no property tells apart.
  `aks.go`, `appgw.go` and `public_ip.go` are instances of the generic shape, and so
  is `redis_cache.go` but for the check of its SKU, which is a `Refuse`.
- *Listings, GETs of a list, signing and key operations of Key Vault*: they write
  nothing.
- *Snapshot files of the CLI* (`snapshot.go`): a client of the state API.
- *Metadata documents, operation results, configuration*: constant documents
  and reads of the environment, without a state of their own.
- *The console* and the clients that the launcher starts (terraform, pulumi,
  python, kubectl): a proxy, a browser, other programs.
- *Signing and verifying tokens*: cryptography of the standard library.
- *HTTP framing, JSON*: the library's. A body is the set of fields it carries; a
  body that does not decode is a `Refuse`.
- *Import of `null`*: it leaves a nil map, on which the next Put panics
  (`memory.go:123`). A map of the model is never nil: the state would be one more
  value of every store and one more outcome of every Put.
- *A request whose handler panics*: `request_log.go:113` does not defer its
  record. `RequestRecorder` starts where `record` is called.
- *Memory below a locked section*: the calls of the store take its mutex, so each
  is one step. The exception is the shared maps inside a `Resource`, of which
  `KeyVault` models the one that a handler writes through; the tier that
  `storage_account.go:315` writes into a stored SKU is another of the kind. That Go
  ends a process which reads and writes a map concurrently is below the model.

## 6. Plan

Done, in the order of importance: the store and its file, the generic handlers,
the load balancer, Key Vault, the compound handlers, the request log, content
routing, tokens and the DevOps emulation, servers and launchers; and the proofs
of all of them: every safety property that a
passing run checks is a theorem, some for one writer or one request at a time.

Next, in this order:

1. **`MemoryStore` after `null`**, and the panic it leads to, as a state of
   `ResourceHandlers`; with it the entry that the recorder does not log.
2. **Larger instances** of `routing`: three writes, and a second content request of
   another host.

The number of runs is kept at twelve so that one pass over the project stays
short; a new question joins the run of a neighbour.
