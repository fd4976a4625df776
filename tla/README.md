# hcloud-fs in TLA+

hcloud-fs mounts the resources of a Hetzner Cloud project as a file system.
Each FUSE request runs in a goroutine of its own; the requests meet in TTL
caches, in generated files and in handles, and the kernel keeps names on top
of all that. This directory models those parts in TLA+, model-checks them with
TLC on small instances, and proves the most important results with TLAPS for
every value of the constants.

All paths are relative to the repository. `PROJECT.json` maps each definition
to the lines it stands for, and lists runs, mutants, hazards and theorems.

## 1. The system

| Component | Source | State | Operations | Modules |
|---|---|---|---|---|
| TTL cache of listings | `helpers.go:69-112` `cache[T]` | `mu`, `data`, `fetched`, `ttl` | `get`, `find` | `ReadThrough`, `Cache`, `CacheProofs`; `CacheCalls` |
| Resource directories | `helpers.go:225-314` | a cache per directory; an item per file inode | Readdir, Lookup on two levels | `ResourceTree`, `ResourceTreeProofs` |
| Resource tables | `servers.go`, `volumes.go`, ... | none | files of each kind, write functions | `Tables`, `Edits`, `EditsProofs` |
| Read-only file | `helpers.go:18-66` `dynamicFile` | content of one open | Open, Read, Getattr | `ResourceTree`, `Edits`, `Buffer` |
| Writable file | `helpers.go:114-223` | `data`, `dirty` per handle, `mtime` per file | Open, Read, Write, Setattr, Flush, Getattr | `WritableFile`, `Buffer`, `WritableFileProofs`, `Edits`, `EditsProofs` |
| Root and mount | `main.go`, `root.go` | the mount, the process, fixed children | mount, signal, unmount, exit | `Lifecycle`, `WritableFileProofs` |
| by-name, by-label | `by_name.go`, `by_label.go` | a cache per node, a node per Lookup | Readdir, Lookup (links; filtered listings) | `Views`, `ViewsProofs` |
| Actions | `actions.go` | a 1 s cache per `actions` directory | Readdir, Lookup, open of `command`, `status`, `finished`, `error`, ... | `Actions`, `ActionsProofs` |
| Prometheus file | `prometheus.go:30-91` | `cached`, `fetched`, `mu` | Open (generates), Read | `PromFile`, `PrometheusProofs` |
| Metrics generation | `prometheus.go:93-259` | `results`, a WaitGroup | one goroutine per resource, rendering | `MetricsFanout`, `PrometheusProofs` |
| DNS zones and records | `dns.go` | zones' cache, `recordCaches` and its lock, a zone per inode | Readdir, Lookup, `zone_file`, `records` | `Dns`, `DnsProofs` |
| go-fuse and the kernel | external | names, inodes, descriptors | requests | in the modules that rely on it |
| hcloud-go and the API | external | the resources | list, get, update | in the modules that rely on it |

How they interact:

- The kernel sends a request; go-fuse runs it in a goroutine. Readdir and
  Lookup of a directory call `get()` of the directory's cache, which asks the
  API when the listing is older than the TTL and holds its lock meanwhile.
- A Lookup makes a new inode. A resource's file is bound to the item of that
  Lookup, an action's file searches the cache again at each open, a zone's
  directory keeps the zone of its Lookup and shares the zone's records' cache,
  a node of a view gets a new cache.
- The kernel keeps a name for the entry timeout of its Lookup: `cacheTTL` for
  the files of a resource, zones and by-name/by-label directories, and none
  elsewhere (`main.go` passes `fs.Options` without a timeout).
- A name in `by-name/<type>` is a link into `<type>`: read in one cache and
  followed, later, through another.
- Closing a descriptor sends FLUSH, and a dirty handle calls its write
  function, which calls the API. No cache is told.
- Opening a metrics file generates it when it is too old, outside the lock of
  the file, with one goroutine per resource.
- A signal unmounts, successfully or not, and ends the process under whatever
  requests are under way.

Hard to test, and what correctness means there:

- *TTL cache*: many goroutines find a listing expired together, calls fail.
  Refreshes a TTL apart, answers never go back, failures neither blank nor
  extend what is stored, everybody returns.
- *Resource directories*: two layers of ages, the listing's and the name's,
  and inodes that outlive their listing. Ages add up but are bounded; nobody
  sees a file go back, or come back after its deletion.
- *Views*: any node ever made may be in use, each with its own cache. A
  resource that keeps its name or label is found; what is found had it.
- *Writable file*: a handle without a lock shared by processes; FLUSH runs
  beside Write. No completed Write is forgotten; a hung API call holds up only
  its own close; nothing is lost silently when the process ends.
- *Contents*: `h.data` is resliced and appended to while replies alias it. It
  behaves as a file; replies hold bytes that the file had.
- *Edits*: a read-modify-write over an item that may be old, and write
  functions that check, translate or drop what they are given. What others
  have settled is not undone; a close that returns 0 has done what was asked.
- *Actions*: Readdir, Lookup and open each decide which files there are. A
  name that was promised is there, with content, as long as the action is.
- *Prometheus file*: generations overlap and end in any order. Content is
  young enough, goes back only through an overlap, and a hung call holds up
  only its own open.
- *Metrics generation*: results are read only when complete; exactly one,
  the latest, sample per resource and metric, whatever fails.
- *DNS*: old and new directories of a zone in use at once, zones deleted
  under a process's feet. One records' cache per zone, records that never go
  back, path walks that find recent zones.

## 2. Modules and the code

**`ReadThrough`** is the abstract specification: a register that is answered
from in one instant, with what is stored or with something the API really had
during the call. `Forward` says whether the stored version may go back.

**`Cache`** is `cache.get`. `pc` is where a goroutine is: `Call` enters,
`Hit`/`Miss` take the lock and do the TTL test, `ApiAnswers` is the instant at
which the API reads its state, `FetchOK`/`FetchErr` are the return of
`fetchFn`. The lock is held throughout, so nothing else is visible between.
A listing is the version of the API's state that it shows. `taken` and `asked`
are auxiliary: when the API produced the data, and its version at the call.

**`CacheCalls`** is the same cache as a value, for the modules in which several
caches work together, are made while the system runs or are shared: `Edits`,
`Views` and `Dns` extend it. `Expired`/`Asking` is the lock taken and `fetchFn`
entered, `Waiting`/`Answered` the instant at which the API reads its state,
`Stored` and `Unlocked` the two ways `fetchFn` returns. As in `Cache` the stamp
comes when the call has returned, up to `FetchMax` after the API's answer, and
the lock is held from the first of these steps to the last. What `Cache` tells
apart and this does not is who waits for the lock: a request is answered by any
of the `Returns` that are possible now, those of a call under way included, and
whose call that was is left open.

**`PromFile`** is `prometheusFile.get` under Open: `ServeCached`/`StartGen` is
the first critical section, `GenOK`/`GenErr` the second, with `genFn` between
them outside the lock. `Hung` is a set of readers whose calls never return.

**`MetricsFanout`** is one generation: `ListOK`/`ListErr`, `Spawn` per
resource, `Wait`, then for each metric `StartMetric`, a `WriteSample` per
resource and `EndMetric`, and `Finish`; `GetMetrics`, `StoreResult`, `WgDone`
in each goroutine. `phase` is where the generating goroutine is, `row` the
resource whose sample it writes next. `LatestMetricVal` says which of the
points its loop ends with, the last that parses; the texts of a sample are
left out.

**`WritableFile`** is one handle. `WriteBegins`, `WriteCopied`, `WriteMarks`
cut `Write` at the accesses to the handle's fields; `FlushClean`/`FlushDirty`,
`Snapshot`, `ApiApplies`, `WriteFnOK`/`WriteFnErr`, `FlushClears` cut `Flush`.
The content is a count of changes, odd while a Write is copying, so that a
torn content is told from every whole one.

**`Lifecycle`** EXTENDS `WritableFile` and composes it with `main`: `Signal`,
`Unmount` (the kernel refuses it while the file is open, and the error is
ignored), `Exit`, `WaitReturns`, `Kill`. While the process is up the handle's
steps are those of `WritableFile`, split by what a close tells its caller
(`closed`); when it has ended the kernel ends each request (`Abort`), and an
API call that was sent may still be applied (`ApiAppliesLate`). `Release` is
the last close of the descriptor.

**`Buffer`** is `h.data` as the slice it is: `array` is the backing array,
`size` the length. `WriteInside`, `WriteAppends`, `WriteGrows` and
`WritePanics` are the cases of `copy` and `append(h.data[:off], ...)`. A reply
of `Read` is a range of the array, or of an older one, until go-fuse has
copied it (`Replied`). `SetattrSize` is the truncation in `Setattr`.

**`Tables`** is the fourteen tables of resources: the files every item has,
those some items have, the writable ones, the subdirectories, and what the
write functions check (`Calls`), leave out of the request (`LeftOut`) and make
of the API's state (`Outcomes`).

**`Edits`** EXTENDS `Tables` and `CacheCalls` with one file of one resource:
the listing, which any request may have asked for (`Ask`, `Look`), the inode
that captured its item, an open handle with what its user has read, decided on
and written, and the close. `OthersChange` and `OthersRemove` are what
everybody else does at the API, power actions that end included.

**`ResourceTree`** EXTENDS `Cache`: each request is a call of `get()` with all
its interleavings, and what the request does with the listing happens when the
call returns (`Reply`). `dentry` is the kernel's name cache below a directory
inode. It follows one resource, which changes and may be deleted.

**`Views`** EXTENDS `CacheCalls`: it is `by-name/<type>` and
`by-label/<selector>/<type>` beside `<type>`. `heap` holds the caches of all
nodes ever made (`MakeNode`), the first of them that of `<type>`; `FindLink`
and `FollowLink` are the two lookups of a walk by name, `FindLabelled` that of
a walk by label. `reply` is what the last step has answered, and when the walk
had its first answer (`first`); `past` remembers the API's states.

**`Actions`** EXTENDS `Cache` in the same way with one action, which
progresses, finishes and is dropped from the listing.

**`Dns`** EXTENDS `CacheCalls`: it is `zonesNode` with its `recordCaches`, the
`zoneNode`s the kernel and the users hold, and the record caches in a heap, so
that a second cache of a zone would be visible. `ReadRecords` is a read of
`zone_file` or of the directory `records`, `EnterSet` the Lookup of
`records/<set>`, which captures its values in a `staticDir` (`held`), and
`ReadSet` a read of these, which asks no cache. `OthersRead` are the requests
of everybody who is not a user.

## 3. What the runs check

Every module has one type invariant; it also says how the variables belong
together. Each property of a passing run is violated by a mutant, a definition
in which a plausible mistake has been made (`MissUnlocked` is the cache
without its lock, `FetchErrStamps` a failed refresh that restarts the TTL, and
so on): `PROJECT.json` pairs them.

| Run | Question | Bounds | States |
|---|---|---|---|
| `MCCache` | spaced refreshes, fresh hits, answers in order, implements `ReadThrough`, every `get()` returns | 3 goroutines, TTL 2, the clock from 2 to 6: three expiries; calls of up to one tick; two changes; failures without end | 158 thousand |
| `MCPromFile` | fresh content, going back only by overlap, implements `ReadThrough` that may go back, a hung generation holds up nobody else | 3 readers, one of them hung, TTL 1, generations of up to 2 ticks: longer than the TTL | 359 thousand |
| `MCMetricsFanout` | results complete, samples right, the generation ends | up to 3 resources, answers with and without series, text that does not parse | 10 thousand |
| `MCLifecycle` | a Write is lost only by overlap, never silently without one; a hung close holds up nobody else; a signal ends everything | 3 processes on one handle, the API calls of one of them hang, 2 changes; signal, unmount or kill at any moment | 182 thousand |
| `MCWritableFileLost` | *violated*: Writes are saved on close | 2 processes | |
| `MCBuffer` | the content is that of a file, replies were in it | arrays of up to 3 bytes of two values, one of them that of fresh memory; a read whose reply is on its way | 2 thousand |
| `MCBufferPanic` | *violated*: no Write ends the program | as `MCBuffer` | |
| `MCEdits` | edits undo nothing settled; a close that returns 0 has done what was asked | a file of each of six sorts, a label, 2 names, two changes, four ticks, calls of up to one tick | 2.7 million |
| `MCResourceTree` | opens are recent and never go back | 2 processes, 1 file, 4 ticks, change and deletion | 2.9 million |
| `MCViews` | stable names resolve; walks are truthful | 2 resources, a name, two changes, 2 nodes, 3 ticks, calls of up to one tick | 1.5 million |
| `MCActions` | promised names stay; opens refresh every TTL | 2 processes, a file of each kind, 3 versions: running, finished, gone | 1.5 million |
| `MCDns` | one cache per zone, records in order, calls spaced; walks recent | a user beside the requests of others, a zone, TTL 2, the clock from 2 to 7, calls of up to one tick, two changes and deletion | 2.3 million |

Why the bounds are enough: each hazard needs two or three actors, one or two
expiries, and two states of the API that differ; every run has that, and
where proofs exist (section 5) they remove the bounds. In particular:

- `MCEdits` has one user, because the others may make any change that a second
  user's close could make, at any moment; labels meet nowhere, and one
  suffices, which the user edits or leaves alone while somebody else sets or
  removes it. The six sorts are the files that the write functions treat
  differently: labels, labels whose nil map is sent, status, name, a text that
  some items lack, a name that cannot be written.
- `MCViews` has one user, because users meet only in the caches, and
  `Readdir` by anybody refreshes any cache. A second node is the old node of a
  view beside `<type>`, or a second view. Two resources may swap a name.
- `MCDns` has one zone, because zones share nothing but their listing, and one
  user, because what others do to the caches is in `ListZones`, `LookupZone`
  and `OthersRead`.
- `MCBuffer` reaches each relation between offset, length, old length and
  capacity with three bytes.
- Symmetry is used only in runs without liveness: among processes, names
  and ids, none of which any definition tells apart.
- Deadlock is not checked where the system may stop: in `MCMetricsFanout` a
  generation ends, in `MCLifecycle` the process does, and in the two runs of
  `Buffer` a panic ends the program.

### Where the code does not do what it or its documentation says

- `MCWritableFileLost` (`helpers.go:202`): Flush clears `dirty` after the API
  call, also when a Write has changed `data` meanwhile. That Write is never
  sent, although "writes accumulate in the handle and call WriteFn on close"
  (`helpers.go:121`). It takes a descriptor shared by two processes; with one
  process, and whenever no Write falls into a Flush, nothing is lost (proved).
- `MCBufferPanic` (`helpers.go:172`): a Write at an offset beyond the capacity
  of `h.data`, after a seek, makes `h.data[:off]` panic, and with it the
  process. Below the capacity, the gap shows what the array held there: zeros,
  or bytes of an earlier, longer content (`ContentIsOfAFile` leaves a gap
  open for that reason).

Smaller ones, which the bounds and exceptions in the properties tell of:

- "Resources refresh every 10 seconds" (`README.md:78`): the age of the
  listing and the age of the name add up to almost twice that for a process
  that stays inside a directory; `OpensAreRecent` has the bound that holds.
- A zone's directory keeps the zone of its Lookup for good (`dns.go:76`); only
  path walks refresh it, records aside. `WalksAreRecent` is about walks, and
  has `2 * TTL + FetchMax` where the README has 10 seconds.
- The directory of a record set keeps the values of its Lookup
  (`dns.go:171-177`, `187-207`): who stays in it while `zone_file` moves on
  reads older values after newer ones. `RecordsNeverRegress` says how far back.
- After a failed refresh each request asks the API again (`helpers.go:92-96`);
  `RecordRefreshesSpaced` counts from the last answer that was stored.
- A metrics file is "cached for TTL duration" (`prometheus.go:47`), but
  readers that find it expired together all generate and all store, so content
  is replaced sooner, possibly by an older state: `RegressesOnlyOnOverlap`.
- An empty name and labels that are `null` are accepted by a close and not
  sent (`LeftOut`); for primary IPs the nil map is sent.
- Ctrl-C unmounts (`README.md:20`) only when nothing in the mount is open:
  `Unmount` may leave the mount `attached`, and the process exits all the same.

## 4. Assumptions about the environment

*The API.* Its state only moves on; a call reads it, or applies a change, at
one instant between its start and its end, and fails before or after that.
That a later call never shows an older state is an assumption: the program
could not give its users order without it. Ids are not used again.

*Time* is counted in ticks. `FetchMax` and `GenMax` bound how long a call
takes. The code sets no deadline (`context.Background()`), so the bounds are
assumptions of the freshness properties, which name them: a listing is stamped
when its call returns (`helpers.go:99`), so that what it shows is older than
its stamp by up to `FetchMax`. The runs with a `Hung` reader or process show
what happens without such a bound where the code promises something (metrics
files and closes). A cache promises nothing: its lock is held during the call,
and a listing whose call never returns blocks its directory.

*go-fuse and the kernel*, modelled from how the code relies on them: one
goroutine per request; Write and Setattr of a file are serialised by the
kernel's inode lock, Flush and Read are not; every close of a duplicated
descriptor sends a FLUSH; a name is not looked up again below the same
directory inode before its entry timeout; a mount with an open file is not
unmounted; requests of a server that has died end with an error.

*Fairness* is only on the program's own steps and on the kernel's ending of
dead requests, never on the clock, the users or the API's changes. `Cache`:
strong fairness on `Acquire`, as Go's mutex hands itself over to a waiter of
more than a millisecond (starvation mode), and weak fairness on `FetchStep`,
that calls end: `GetReturns` says nothing of a call that hangs. `PromFile`:
weak fairness per goroutine, except the API calls of `Hung`; no lock is held
while time passes, so weak fairness is enough. `Lifecycle`: weak fairness on
the signal goroutine (`Unmount`, `Exit`), on each request in the handle
(`ServeWrite`, `ServeFlush`; the calls of `Hung` never end) and on `Abort`;
none on `Signal`, on new requests or on `Kill`. `MetricsFanout`: weak fairness
on the generating goroutine and on each goroutine it starts: the scheduler
runs them and calls end.

## 5. What is proved

Each `...Proofs` module holds, for all constants that satisfy the named
assumptions (a positive TTL, bounds in Nat, ...), an inductive invariant: the
initial states satisfy it, every step keeps it, and the results follow from
it. All type invariants of the modules it covers are proved too.

- **`CacheProofs`**: all safety properties of `Cache`, the refinement of
  `ReadThrough` included, and that at most one goroutine is in `fetchFn`
  (`OneFetch`). `IInv` adds to the type invariant that the lock is held by
  exactly the goroutine in `fetchFn`, that a fetch began after the data
  expired and its answer is at least as new as the data, and how old the data
  was when stamped. The second is what makes answers go forward: it holds
  because nobody stores between an answer and its store.
- **`PrometheusProofs`**: all safety properties of `PromFile`, TTL zero and
  hung readers included. `FileInv` dates each generation and its answer, and
  says that an answer older than the stored content belongs to a generation
  that was under way at the last store. And those of `MetricsFanout`:
  `FanoutInv` has the WaitGroup count the unfinished goroutines (with the
  library's theorems on cardinality), so that rendering sees all results; with
  it `RenderInv`, that each group written so far shows the rows written so
  far, gives `EverySampleOnce` for any number of resources, metrics and points.
- **`WritableFileProofs`** (over `Lifecycle` and `Buffer`):
  `SavedUnlessOverlapped`; that only a Write makes a Flush send anything
  (`OnlyWritersSave`); and `WritesSavedOnClose` for a single process. `IInv`
  adds what each Flush carries while it waits: without an overlap its payload,
  and once applied the API, covers every Write that has ended or is about to
  set `dirty`. `LifecycleImplementsFile`: a process that may be signalled,
  unmounted or killed at any moment handles its file as `WritableFile` says,
  so all that carries over. On top of it `ClosedSaved`, that a close which has
  told success without an overlap has left the API with the last Write, is
  inductive, and `NoSilentLoss` follows. Of `Buffer`, for any capacity, bytes
  and readers: offsets stay within the arrays, each byte of a reply was in the
  file since its Read (`RepliesWereInFile` is inductive with the types,
  `BufferInv`), and Writes, truncations and reads do to the slice what they do
  to a file (`ContentIsOfAFile`).
- **`EditsProofs`**: `ClosedMeansDone` and `SavesKeepWhatIsSettled`, for every
  kind of resource and file, any users, labels, names and TTL. What a save
  undoes is judged long after the content was read, so `EInv` follows it from
  the API through the listing, the inode and the handle: wherever the API has
  something else now, it has changed since the content was listed (`SeenAt`),
  and each of the two caches adds less than a TTL to its age, and the list
  call `FetchMax` at most, unless a refresh has failed; a draft is a text of
  the user's, or what was read with some labels changed. The proof rests on
  `Tables` (`WritableFiles`): labels, names and, of servers alone, the status
  are all that can be written.
- **`ResourceTreeProofs`**: the directory uses its cache only through `get()`
  (`TreeUsesCache`: its behaviours are behaviours of `Cache`, so the theorems
  of `CacheProofs` hold of it), inodes expire in time, and an open shows what
  its inode shows; hence `OpensAreRecent` and `OpensNeverRegress`.
  `TreeTypeOK` needs, besides, that only who is inside looks up a file.
- **`ViewsProofs`**: all properties of `MCViews`, for any number of users,
  resources, names and nodes. The invariant says that each cache shows a state
  that the API had `FetchMax` before its stamp or later, and that a link not
  yet followed is to a resource that had the name; an answer is then dated by
  the older of the two caches that it came through.
- **`ActionsProofs`**: `ActionsUseCache` as above; what a process knows comes
  from a listing up to the stored one, and an action's names only grow while
  it is listed; hence `KnownNamesStay`, `ActionsRefreshEveryTTL` and
  `ActionsTypeOK`.
- **`DnsProofs`**: all properties of `MCDns`. The map gives each zone one
  cache for good, every node of the zone points to it, and its content only
  moves forward, since nobody stores between an answer and its store; the
  values in a `staticDir` are those its user had read last, or newer; and the
  age of a name is that of the listing, of the call and of the name itself.

The assumptions on the constants are those that each module names. Bounds are
in Nat and the TTL of a cache is positive; `NoProc`, `NoCaller`, `NoValue`
stand for no process, caller and value; a fresh byte (`Zero`) is a byte; label
keys are neither `null` nor malformed texts (`LabelsAssumption`); a table of
metrics and a time series are lists (`KeysAssumption`, `TimeSeriesAssumption`).
TLC evaluates them in each run.

The library's induction theorems take an operator as a parameter, which the
installed provers cannot instantiate. `PrometheusProofs` does without: what
the last point of a series is, and where a sample has its place in a group,
follow from a set of numbers having a least or a greatest element
(`HasLeast`, `HasGreatest`, from the well-foundedness of `<`), and the loops
are steps of the model, so that an invariant carries what they have done.

Only model-checked are the liveness properties, `GetReturns`,
`ReadsDontBlock`, `ClosesDontBlock`, `ExitsOnSignal` and `GenerationEnds`:
fairness is stated by ENABLED, which the provers do not reach. Every other
property of a passing run is stated by a theorem. The two properties that runs
show violated, `WritesSavedOnClose` and `NeverPanics`, have none; of the
first, `OneProcessSaves` proves the part that is true.

## 6. Not modelled

- Getattr changes nothing and is left out. Texts, JSON, units and HELP lines
  carry no property here.
- The characters of `rrsetDirName` (`dns.go:143`), which gives one name to two
  ids that differ only in "/" and "_".
- `Buffer` takes each handler in one step. What a Read makes of a slice header
  that a Write beside it is changing is left to Go's memory model;
  `WritableFile` cuts Write and Flush, which the API sees, more finely.
- Three losses in a handle that no property catches. A truncation during a
  Flush may be forgotten like a Write, but `SavedUnlessOverlapped` and
  `NoSilentLoss` count Writes only. A Flush that reads `data` during a Write
  may send a torn content: the two properties excuse it as an overlap. The gap
  that a Write beyond the end leaves may show bytes of an older content:
  `ContentIsOfAFile` leaves the gap open.
- What becomes of a power action that the API has accepted: `ClosedMeansDone`
  takes one that was started as done.
- The API's own rules (names it refuses, quotas, rate limits), beyond failing.
- Vendored libraries, except as the code relies on them. `root.go` and the
  `OnAdd` handlers add fixed children once. The release workflow builds
  binaries.
- What grows without a bound in the program: new caches below `actions` and
  the views, generations while the API is slow. The models bound them.

## 7. What is left

1. Two record sets with one name (`rrsetDirName`) in `Dns`.
2. `Cache` and `CacheCalls` are two models of `cache.get`, with its goroutines
   and without; that they allow the same answers at the same times is argued
   in section 2, and not proved.
3. A property of truncations like `SavedUnlessOverlapped`.
