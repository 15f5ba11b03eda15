# Formal model of the file index server

The repository is a Linux file search server in Go (`src/main`). It scans the
configured roots, keeps every file and directory in memory, follows the disk
with inotify, answers keyword searches over HTTP through an n-gram index and a
result cache, and persists the index as a snapshot plus a write-behind log.
This directory holds TLA+ modules for its core, the TLC runs that check them on
small instances, and proofs checked by TLAPS.

## 1. Inventory

| Part | State | Operations | Where |
|---|---|---|---|
| In-memory index | `Nodes`, `PathMap`+`PathHashIdMap`, `TreeMap`, `ChildTreeMap`, `lastID` | `Upsert`, `UpsertDir`, `Remove`, `RenameNode`, `saveName`, `deleteInvalid` | file_entity.go, file_watcher.go, main.go |
| N-gram index | 256 shards of bitmaps, one lock each | `AddToIndex`, `RemoveFromIndex`, `Search` | file_index.go |
| Search cache | `cache`, `idToKeys`, `lastClean` | `Get`, `Set`, `cleanExpired`, `InvalidateByID`, `InvalidateByNewFile` | file_index.go |
| Persistence | channel, 32KB buffer, `index.wal`, `index.db` | writer goroutine, `CheckAndCheckpoint`, `SaveSnapshot`, `LoadSnapshot`, `ReplayWAL` | file_save.go, file_task.go |
| Watcher | inotify queue, `pendingMoves`, `WdMap`, `PathToWd` | `runEventLoop`, `handleMoveEvent`, 110 ms timers, `scanDirectory` | file_watcher.go |
| Initial scan | task queue, result channel, wait group | `ParallelBFSScan`, `doProcess`, `setupWatches` | file_watcher.go |
| String store | byte block, offsets that serve as keys | `PutName`, `PutPath`, `Get`, `Compact` | file_string_store.go |
| Paging and sorting | none | `sortResults`, `paginate`, `FileSystemIndex.Search` | file_index.go, file_search.go |
| HTTP, auth, config, logs, page | none that the index depends on | | main.go, auth, logger, static |

How they interact. One lock, `mu`, guards the index: event loop, timers,
scanners and HTTP handlers each hold it from their first read of the index to
their last write. While they hold it they call the n-gram shards and the cache,
which have locks of their own and which a search takes *without* `mu`, and they
submit log entries to a channel. The writer goroutine empties that channel; the
persistence goroutine takes snapshots and removes the log, and takes `mu` at no
point.

What is hard: events, timers and scans reach the index in any order and speak
of a disk that has moved on; a rename or removal rewrites seven maps for a whole
subtree, with early returns between the writes; searches interleave with
handlers lock by lock; the log lags memory, may end in a torn entry, and is
removed while it is in use; a replay runs the same code as the handlers, its
side effects included.

What makes each part correct:

* index: a path leads to a live node that carries it; parent fields, the map of
  parents, child sets and paths do not contradict each other; sizes add up; a
  removal destroys nothing outside the subtree it was asked for;
* n-grams: an id is in exactly the bitmaps of its present name;
* cache: a cached result is what a fresh search would find; an invalidation
  finds every result that holds an id; a search returns;
* persistence: snapshot and log rebuild what memory held; replaying is
  idempotent over a newer snapshot;
* watcher: once the disk is still and all events are handled, index and disk
  agree, and every directory is watched under its present path; scan: it ends,
  and indexes everything below the roots;
* string store: whatever was appended, moved and compacted, an offset spells the
  path its holder means, so that from outside the store cannot be seen at all;
* paging: the pages of a result are the result, in its order, once each.

`PROJECT.json` lists every hazard at its line with the properties that cover it.

## 2. Modules

| Module | Models |
|---|---|
| `Maps` | Go maps as functions with a changing domain |
| `IndexOps` | the index as a value and every critical section on it as an operator |
| `FileIndex` | those operators under an arbitrary caller |
| `SearchCache` | searches, bitmaps and cache against the handlers, lock by lock |
| `ColdScan` | the initial scan around `IndexOps`: worker pool, indexers, watches, a changing disk |
| `Recovery` | log pipeline, writer, checkpoint, crash and restart around `IndexOps` |
| `FsWatcher` | a changing disk, the inotify queue, the event loop, timers, directory scans, watch tables and a restart around `IndexOps` |
| `StringStore` | the handlers on offsets, `Compact` and the lock-free event loop; implements `FileIndex` |
| `Paging` | `paginate`, `sortResults` and the reply as operators |
| `SearchPage` | a user who turns pages while handlers run, around `Paging` |
| `MCFileIndex`, `MCSearchCache`, `MCRecovery`, `MCColdScan`, `MCFsWatcher`, `MCStringStore`, `MCSearchPage` | the instances TLC checks |
| `IndexOpsProofs` | what every operator of `IndexOps` preserves |
| `StoreOpsProofs` | what the handlers of `StringStore` do to the watch tables and to the index that is seen through the offsets |
| `FileIndexProofs`, `SearchCacheProofs`, `ColdScanProofs`, `PagingProofs`, `RecoveryProofs`, `StringStoreProofs` | the theorems |

`IndexOps` is the shared core: `FileIndex`, `Recovery`, `ColdScan` and `FsWatcher`
each run its operators, the first under any caller, the others under the callers
the program has. `FileIndex` is in turn the abstract specification of
`StringStore`.

### IndexOps and FileIndex

An index is a record of `nodes`, `lookup`, `tree`, `child`, `grams` and
`lastID`. `lookup` stands for `PathHashIdMap` followed by `PathMap`: outside
`Compact` the two are written and deleted together. A path is a sequence of
names, so `filepath.Dir` drops its last element and the code's slicing
`oldPath[oldPathLen:]` keeps what is behind a prefix. An id is a number with the
directory bit (`IsDirMask`) beside it; 0 is `NoId`, and the code's habit of
writing `Nodes[0]` when a parent is missing is kept.

Each handler is one step, because `mu` is held throughout. Its arguments are
arbitrary, as the events they come from may be stale, with two exceptions that
`FileIndex` names: a path only ever shows up with one of its `KindsOf`, and
neither path of a rename is a prefix of the other (rename(2) refuses that).
`RenameNode` has several outcomes where the order of a Go map decides who owns a
path, and none where the code panics or climbs a parent cycle for ever; then
`up` becomes FALSE and nothing happens any more (so these runs do not check
deadlock).

### SearchCache

A handler changes `Nodes` under `mu`, but takes the shard locks and the cache
lock one after the other, and searches come in between. So a handler is a list,
`todo`, of what it still does under those locks, in the code's order. A search is
`Miss`, one `Read` per keyword, `Split` under `mu`, `Store`, `Page`. Results are
sets of ids. `raced` marks a cached result whose search overlapped an
invalidation; `renamed` and `cut` are history variables that name the two other
reasons for a stale result that the code has (a rename does not invalidate the
keys of its new name; a rename to an unindexed parent invalidates nothing).

Fairness: handlers run to their end, searches take their steps (weak fairness),
and a search waiting for `mu` is let in if `mu` is free again and again (strong
fairness for `Split` and `Page`): Go's `RWMutex` admits waiting readers before
the next writer. No fairness is assumed for the start of a handler or a search,
or for time. Handlers stop at `MaxID`, so these runs do not check deadlock.

### Recovery

Every handler of `IndexOps` with the entries it submits, then the way of an
entry: `Take` moves it from the channel to the buffer (and opens the file once),
`Flush` writes the buffer (the 100 ms tick), `Fill` writes a full buffer in the
middle of its last entry. The file a writer holds open is `"linked"` until a
checkpoint removes it. `Checkpoint`, `FlushWAL`, `CollectBegin`, `CollectNode`,
`CollectEnd`, `Replace` and `UnlinkWAL` are the persistence goroutine, between
any of whose steps handlers run. `SaveSnapshot` ranges over the map without the
lock, so nodes are copied one at a time in any order, each as it is at that
moment; of those there from the start (`due`) none may be left out unless it is
removed, while of those added meanwhile, as Go leaves open, each may be copied or
skipped. `Crash` keeps only the two files. `Start`
loads the snapshot, `ReplayStep` runs one entry through the code the replay
uses, a replayed deletion submits itself again, and `ReplayEnd` falls back to a
cold start if nothing was recovered. A panic leaves the process `"dying"` (the
writer may still flush before the process is gone) or, during the replay,
`"failed"`.

Left out: errors of the disk, and what misparsed bytes behind a torn entry of
an earlier process turn into: the replay just ends at a torn entry. Where Go
aborts the process for the unlocked iteration ("concurrent map iteration and map
write"), that is a `Crash` like any other.

### ColdScan

The three layers of a cold start, each a goroutine or a pool of them.
`SkipRoot`, `SendRoot`, `QueueRoot` and `Close` are `ParallelBFSScan` itself;
`BeginTask` to `Offer` are its workers in `doProcess`, with `Enqueue` as the
select that hands a directory to a goroutine of its own (`Deliver`) when the
queue is full; `Receive` and the `Run` actions are the indexers of
`setupWatches`. Every new directory starts a `scanDirectory` goroutine
(`StartScan`, `ScanRead`, `ScanVisit`), which calls the same handlers. `calls`
holds the calls that wait for `mu`, so between a result's arrival and its
insertion anything may happen. Meanwhile paths appear, raising an event if
their directory is watched, and vanish, taking their watch along;
`watched` is what the kernel watches and `pathToWd` what the program believes.
The kernel may refuse a watch (`AddWatch`; in fact when the limit of watches is
reached): the error is logged, and the directory stays indexed and unwatched.
`NothingMissed` names what that loses: `unheard`, the paths that come into such
a directory later; and it excepts paths that come back after a deletion, since an
old entry of `pathToWd` may stand for the watch they need.
Events are collected and not handled: the event loop starts after the scan.
`InfoPanics` is the dropped error of `entry.Info()`, which `ScanReturns` has to
except.

Left out: sizes and times, other kinds at the same path, directories the program
may not read (they are watched or refused, but always listed), roots that are
created during the scan. A directory moved in later runs the same code with one
root.

Fairness: while a goroutine can run, one does. That suffices since they have
finite work, and the disk, of which nothing is assumed, changes finitely often.

### FsWatcher

The disk is a set of objects with paths, one of them a directory outside the
root. `Create`, `Write`, `Delete` and `Move` change it and raise the events a
watched directory reports, in order, into a queue that drops what exceeds it.
`NextEvent` is one turn of `runEventLoop` up to the call of a handler: path from
`WdMap`, status from the disk, bookkeeping of `pendingMoves`. `RunCall` is the
handler under `mu`. `TimerFires` and `TimerRemoves` are the two halves of the
110 ms timer of a move, and may come at any time; `ScanRead`, `ScanStat`,
`ScanUpsert` and `ScanUpsertDir` are a `scanDirectory` goroutine; the `Bfs`
actions are the scan of a directory moved in, which the event loop runs itself
while it holds `muMove`. `AddWatch` and `Rewatch` may be refused by the kernel,
which then has no watch for anything it does not watch already. `RunRename`
re-watches what it moves in the order of a Go map. `Restart` is an orderly exit at rest and the hot start behind it: the
nodes come back through `Loaded` (`LoadSnapshot`), and `HotWatch` renews one
watch after the other before the event loop begins.

The code does lose track of the disk, in ways that are named: `races` collects
`overflow`, `offline`, `refused`, `outside`, `late`, `unknown`, `overwrite`,
`orphan`, `scan`, `timer`, `recreated`, `stale` and `shared`, each defined in the
module by the condition under which it happens. The properties say that these are
all: without one of them, index, child sets, watches and disk agree whenever the
watcher is at rest, however its goroutines took turns. `CalmRaces` says how it
can begin when the user waits for the watcher after each change: the first race
is then `outside`, `timer`, `orphan`, `overwrite` or `refused`, and only behind
one of these come others. `AddedFound` holds through every race but `overflow`,
`offline` and `refused`.

Left out: sizes and times (in `FileIndex`), two names of different kind at one
path, further files than those of `Spots`, a second root.

### StringStore

A path of n components takes n cells of the block, so offsets, lengths, packed
keys and the offset of a name inside its path are the code's own arithmetic.
`PathMap`, `PathHashIdMap`, `WdMap` and `PathToWd` are kept apart, with offsets
as keys. `StoreUpsert` to `StoreDropName` are the handlers of `IndexOps` over
them. `CompactBlock` and `CompactMaps` are `Compact` before and after it lets go
of the block's own lock; `mu` is held from the first to the second, so no handler
runs in between, but `TakeKey` and `ReadPath`, which are the event loop's two
reads without `mu`, do.

Refinement: `Index == INSTANCE FileIndex WITH ix <- Mapped(st)`, where `Mapped`
reads every path and name out of the block and composes the two lookup maps.
`ImplementsIndex` says that the first state is one of `FileIndex`, that every
handler on offsets is that handler on paths, and that `Compact` is a stutter.
It has to except the steps in which `Compact` goes wrong, which the history
variable `races` names (section 5), and a behaviour ends with the first.

`Compact` may visit the nodes in any order Go likes; the model tries those that
start at any node of one order and go round (`Rounds`), because which node comes
first, and so gets the offset 0, is what can make a difference.

Left out: the 16 and 48 bit limits of a key, and hash collisions of paths. A watch
descriptor is the id of the node it was made for, so the two directories that
come to share a descriptor in `FsWatcher` cannot do so here.

### Paging and SearchPage

`Paging` translates `paginate` with its zero-filled page, its two copies and its
cuts, `FileSystemIndex.Search` behind it, and `sortResults` as the set of orders
`sort.Slice` may leave: any order the comparator allows, and any order at all
when an id has lost its node, since the comparator then is no order.
`SearchPage` puts a user in front (`Ask`, `TurnPage`, with the offset the page
script computes) and handlers behind. A handler is one step with its
invalidations; a search takes its locks one by one (`Match`, `Sort`, `Split`,
`Store`, `Send`). There is one keyword and directories do not nest. `seen`
records a page as `paginate` cuts it; the ids of it that have lost their node in
the meantime are left out of the reply.

## 3. Runs

Bounds: `MaxID` counts ids ever taken; `MaxLog` counts entries in log, buffer
and channel together; `MaxChan`, `MaxStarts`, `MaxSaves` are what they say;
`Returning` are the paths that may come back after a deletion, `Scarce` the
directories the kernel may refuse to watch.

| Run | Instance | Shows |
|---|---|---|
| `index_any` | 2 directories, 2 files, mixed kinds, 3 ids below the root | lookups, n-grams, parents, child sets agree under any caller |
| `index_kinds` | a directory that moves between two levels, fixed kinds, 2 sizes | sizes add up; a removal stays below the path it was asked for |
| `cache_keys` | 1 search, keys of one and two n-grams, 2 ids | results no invalidation overlapped are fresh; the reverse index is complete and invalidation reaches all |
| `cache_live` | 2 searches of one key, 1 id, fairness | every search returns; the reverse index survives concurrent stores |
| `rec_wal` | all handlers, filling buffer, 3 ids below the root, 7 entries | the log rebuilds memory; nodes alone rebuild the other maps |
| `rec_saves` | insertions, updates, 2 checkpoints or exits, 2 restarts, any lost tail | snapshot and log rebuild memory across checkpoints, crashes and restarts; the id counter is restored |
| `scan_cold` | 2 roots, one in the other, and a file in the inner one, which comes, goes and comes back and may be refused a watch; 1 worker, 2 indexers, channels of 1 | the scan ends or panics; channels are closed when no task is left; nothing on disk is missed but for what came back or came in unwatched |
| `rec_checkpoint` | 1 checkpoint | violation: entries are lost with the removed log |
| `watch` | a directory with a file, 8 spots, 3 changes, 2 of them hasty, queue of 3, watches that may be refused, one restart | index, child sets, watches and disk agree at rest but for the named races |
| `watch_panic` | the same with no restart | violation: a rename panics on a child that was removed |
| `store` | 2 directory and 2 file paths, 1 invalid name, 3 ids below the root, a block of 15 cells | offsets implement `FileIndex`; lookups and watches resolve across `Compact` |
| `page` | 3 ids, 2 changes, size order, pages of 2 | pages tile a result; a cached result stays in order |

Why the bounds are enough to be interesting: three ids below the root give a
directory, a child and a third node to collide, shadow or re-create with; paths
nest three deep, so a cascade passes a directory that is not its root; two ids
and two keywords let a result hold one id and miss another; two searches let a
stale `Set` overtake a fresh one; six or seven log entries hold a creation, a
removal, a re-creation and a rename with a torn entry or a lost tail between
any two; two restarts let the second replay read what the first one logged.
In `watch`, three changes are a creation, a removal and a second creation of one
path, a rename with a change on either side of it, or a move out and in again;
two hasty ones come while events, a timer, a scan or the restart are under way
(which comes after the first change); a rename of a full directory fills the queue
of 3 with the next change. `MaxRaces` is the number of named races after which the
disk no longer changes; it is 0, so what is left of the three changes is spent
before the first race, and what follows one is its aftermath only. In `store`,
fifteen cells hold six or seven paths and so the waste of some removals or renames,
enough for `Compact` to pass its threshold again and again, and the three ids a
rename onto a node below a directory that moves. In `page`, a page of 2 over a directory and two files
crosses from one to the other, and ends short.

In `scan_cold` the queue of one holds the inner root while the worker offers the
same directory, so every way a task can wait is reached, and the root that has been
deleted is skipped. With one worker the scan would hang as soon as a worker waited
on the queue; a second worker is left out for the size of the state space, so two
workers at once are not checked. Two indexers reorder parents and children. Each of
the three exceptions in `NothingMissed` is needed in this instance.

`rec_saves` leaves removals, renames and invalid names out, for a reason each.
Removals: a replayed deletion is logged again (section 5). Renames: with a rename
of a to b and a new file a still in the channel when the snapshot is taken, the
log moves the *new* a onto b when it is replayed. Invalid names: `MarkNodeInvalid` does not raise the id counter,
so `IdsBelowCounter` fails with one. `rec_wal` has every handler and no restart: there,
`Recoverable` asks what a start would make of the log, without running it.
A replay after a crash is in `rec_saves` only.

Each property of a passing run has a mutant in `PROJECT.json`: a definition of
the model altered the way a plausible bug would, under which TLC finds the
property violated. Mutant operators stand before the definition they alter.

## 4. Proofs

Each theorem holds for every value of the constants that the modules' assumptions
admit (types of the constants; in `FileIndex` also the prefix condition on
renames). A theorem that needs more says so in an `ASSUME` of its own.

**The index** (`IndexOpsProofs`, `FileIndexProofs`). One lemma
per operator says that it preserves the invariant; the theorems are about
`FileIndex`, but the lemmas are about any caller. The invariant has two layers.
`IxInv` gives types and lookups: ids in use do not exceed the counter (so `Insert`
never reuses a live id), and lookups and child sets never lead to `NoId` or to an
invalid name (so the cascades of `Remove` and `RenameNode`, which follow child
sets, touch only nodes with paths, and `DeleteInvalid` cannot break a lookup).
`Tied` sits on it and describes one tree in four records, each part because some
operator needs it: `NamesMatch`, since n-grams are removed under the name but
looked up by the path; `GramsOwned`, that n-grams belong to live nodes;
`HeldFound`, that not only what a path leads to but all that a child set holds
has its n-grams, because a rename hands lookups to the members of child sets;
`ChildrenMatch`, that parent field and `ChildTreeMap` agree; `TreeFits`, that
the members of a child set that have a node name its head as parent and lie below
its path, with
`TreeHeads` to keep dead ids from becoming heads again. The hardest step is a
rename: what `Renamed` reaches by ids is exactly what lies below the old path
(`MovedBelow`), as far as ids of live directories lead there. `RemovalAlwaysBelow`
needs one thing more, that only directories have child sets (`KindsFit`). It is
true where a path only ever has one kind, and the theorem assumes such kinds
(`FixedKinds`, which the layout of `index_kinds` satisfies): where a file may turn into a
directory without an event between, the id of the file keeps its kind and gets
children all the same, whose paths a later rename leaves behind, as
`renameChild` does not go below a file.

**The search cache** (`SearchCacheProofs`). `ReverseIndex` is inductive as it
stands; the work is in `Unlinked`, which must drop exactly the pairs of the
dropped results, and in `Set`, which overwrites, links and sweeps in one step.
`InvalidationReaches` follows from it. For `FreshUnlessRaced` a handler in the
middle of its list has to be described: where a bitmap is wrong, `todo` still
holds the step that mends it (`BitmapsFollow`), behind a change of n-grams still
comes the invalidation it calls for (`InvalidatesAfter`), and what an unraced
result gets wrong is an id whose invalidation is still in `todo` (`CacheFresh`).
`SearchFresh` says the same of a search, of the keywords it has read so far. The
argument hangs on the code's order, n-grams before invalidations.

**The initial scan** (`ColdScanProofs`). `ClosedWhenDone` needs that the wait
group counts what it is meant to count (`CountInv`): the tasks that are queued,
wait for room (`Slots` makes a set of that bag) or are held by a worker.
`NothingMissed` follows from `RootsMet` and `ChildrenMet`, which say where a path
is until it is indexed: a root in a list, in the channel or in a call that waits
for `mu`, anything else in the hands of the `scanDirectory` goroutine of its
directory, unless an event will tell of it or the kernel had refused to watch the
directory when it came; the directory counts from the moment it is indexed, since
it is watched, or refused, before it is read. In the end none of these places holds
anything, and a shortest path that was missed would have an indexed directory. The
assumption added to `ColdScan` for it is that
of any tree of paths: each is a root or has its directory in `Dirs`.

**Pages** (`PagingProofs`). `PageIsSlice` says for every result, type, offset and
limit that the page is the slice it stands for. The work is in the page that
starts among the directories and ends among the files: the number `n` of
directories copied and both ends of the file copy must meet exactly, and no
zero of the fresh page survive. `NextPageFollows` puts pages together, and
`TotalIsShownInside` says what total the user is shown. `PagesAlwaysTile` and
`OrderAlwaysKept` are about `SearchPage`, where handlers run between the locks.
Their invariant `PageInv` says of the search in progress what it may rely on: as
long as its result is not marked raced, every handler so far has spared the
nodes it holds, and of a sorted result, that it is sorted by their present
values. `Only`, the split into directories and files, is shown to keep the order
by induction on its length.

**Restarts** (`RecoveryProofs`). `IdsStayBelowCounter` covers crashes, lost
tails, torn entries, checkpoints, removals, renames and any number of restarts.
Its run has only insertions and updates and two restarts. The counter's
invariant is not about nodes alone: an update writes the node its lookup leads
to, and a rename writes the same lookup back, so `Low` bounds the ids of lookups
as well; and it is about more than memory, since a replay inserts what it reads. `Pipe`
says that channel, buffer and log hold whole entries with well-typed ids,
except for the entry a full buffer has cut in two, whose first half can only end the
log and whose rest can only head the buffer; `SoundEntries`, that a replay reads
whole ones. `LoadedLow` is the snapshot's part: a finite set of ids has a
greatest, which the counter takes. The theorem assumes that no invalid name is
entered: `MarkNodeInvalid` leaves the counter alone, and the property is false
with it (section 5).

**The string store** (`StoreOpsProofs`, `StringStoreProofs`).
`StoreImplementsIndex` is the refinement: every handler on offsets is `FileIndex`'s
handler on paths, and `Compact` is a stutter. One lemma per handler (`UpsertStep`,
`RemoveStep`, `RenameStep`, ...) says that on a store in order it does to `Mapped`
what the index operator does, and leaves the store in order (`StoreInv`). That
takes two parts. `Fits` is about bytes: every offset and length lies in the block,
and a known path leads through both maps to a node with that key, whose bytes
spell it (`Sound`). `Healthy` is what `IndexOpsProofs` proves of the index, and
one thing more, that no node is above itself (`Rooted`), without which the loop
of `upsertParentSize` need not end; stored nodes inherit it. The code renames the children one by one,
each rewriting both maps, where the index moves all at once: `MovedBy` says what
holds after some of them, in any order, and needs that paths below the old
directory stay apart from those below the new (`Apart`).
Between its halves `Compact` leaves maps that no longer fit, so there the invariant
(`StoreTrue`) only says that nodes and block fit (`Bedded`), that every node with a
path is still what its path leads to through the old keys (`Led`) and that no key is
the 0 of an unknown path (`NoZero`); the second half builds the maps again from that.
Once a race has happened only `Bedded` is left, and `StoreTypes` holds all the same.
The assumptions on the layout are those of `FileIndex` with one more, that no
named path is a child of the empty path: after a `Compact` the empty path may have a key,
that of `Nodes[0]`. For the same reason `KeysResolve` leaves the empty path out:
its key need not stay that of `Nodes[0]`, which `upsertParentSize` may write anew.

`WatchesAlwaysTrue` is about the watch tables, which the refinement does not see.
Its invariant (`WatchInv`) says that `WdMap` and `PathToWd` lead to each other for every
indexed directory (`Watched`), and between the halves of `Compact` that the table of
moved keys tells of each watch what its key has become, no two keys becoming one
(`Carried`; else two watches would collapse in `updatePathToWd`). Most steps leave the tables
and the keys of directories alone (`Frame`); a rename gives each moved directory a key
at the end of the block, which no node and so no true watch has (`FreshKey`). Like
`RemovalAlwaysBelow` it assumes fixed kinds, which the layout of `store.cfg`
satisfies: where a file is still indexed at a path at which a directory has been
created, `UpsertDir` watches under the key of the file, and a rename of the file
does not move that watch.

What stays with TLC, and why:

* liveness (`SearchReturns`, `ScanReturns`) is out of the prover's reach;
* `SizesAddUp` sums over sets with the community modules' folds, about which
  nothing can be shown by induction with the installed provers, because their
  theorems take operators;
* `Recoverable` folds the replay over the log, for the same reason. Induction
  over naturals does work, through least elements (`LeastNat`);
* `Recovery.TypeOK` in general. With removals and renames, a crash between
  `Replace` and `UnlinkWAL` leaves a snapshot that is newer than the log, and the
  replay over it may leave two lookups for one id; when one of them is removed
  the other dangles. The code then reads a zero node, where the model has no
  value, so this combination is in no run either;
* `RoundTrip` and `FsWatcher` have no proof.

## 5. Findings

Every violation run belongs to a finding in `PROJECT.json`, which quotes the
comment or README line the code departs from. The models show more divergences
than there are runs; each of these follows from the definition named:

* `RemoveDir`: a removed directory's id stays in `TreeMap` of its parent, although
  file_watcher.go:463 says the relation is deleted. `SliceFails`: renaming that
  parent then panics (803) with `mu` held, which `watch_panic` finds; the same
  slice is at file_save.go:530, so the logged rename panics again at each start.
* `ApplyToMemory`: a replayed insertion does not charge its ancestors
  (file_watcher.go:835). `ReplayStep`: a replayed deletion is logged again
  (file_save.go:153) and may meet a file created again since.
* `setupWatches` (180): a child may be inserted before its directory and is then
  linked nowhere (`orphan`).
* `MarkNodeInvalid`: the id counter is not raised, against the comment at
  file_watcher.go:878: after a crash the next file takes the id of a restored
  invalid name and overwrites it.
* `CollectBegin` to `CollectEnd`: `SaveSnapshot` takes no lock, against
  file_save.go:40: of a directory and its file that are inserted
  while the map is ranged over, the first may be skipped and the second copied.
  `Recoverable` holds over such a snapshot as long as the log still has the
  directory's entry, and the checkpoint then removes the log.
* `Linked`: a key overwritten with another result leaves reverse entries that the
  loop of `InvalidateByID` does not cover, against file_index.go:268.

The watcher (`races` of `FsWatcher`):

* `outside`: a directory moved out of the tree keeps its watch, and `WdMap` goes on
  giving its events a path inside the tree, or none.
* `timer`, `recreated`, `stale`, `shared`: the timer of a move may fire before the
  second half is read; the removal it does may hit a path that exists again, or a
  path that was renamed above, or drop the descriptor of another directory (660).
* `late`, `unknown`: a file that is created and renamed before its creation is
  handled is not indexed under its new name.
* `overwrite`: after a rename onto an indexed file the old node stays in the child
  set, and a later rename of the directory gives it a path again.
* `scan`, `orphan`: the scan of a directory is overtaken by what happens in it.
* `overflow`, `offline`, `refused`: nothing rescans after an overflow (589), a hot
  start (42-66) only renews watches, and a refused watch is logged and forgotten
  (630-635): what changed while nobody watched stays unknown.

The string store (`races` of `StringStore`):

* `stranded`: `rebuildAllMaps` gives a lookup to every node, also to one that a
  failed or overwriting rename had left without.
* `zero`: if `Nodes[0]` exists and the map iteration visits it first, its empty path
  gets the key 0, the value that means "not found": every unknown path then
  resolves to the id 0, the parent of all roots.
* `torn`: the event loop reads `GetPathUint64(GetWdPath(wd))` (600-601) without `mu`;
  with a new block swapped in between it reads another path or panics.

Results: a change of an ancestor's size does not invalidate results cached in
size order (the exception in `OrderKept`); a result sorted while one of its nodes
is removed may be cached in any order; a page behind the end is answered with
the total 0, and the page then shows no results at all. Outside the models: the
README's request example sends `"sortBy": "time"` where the code has a number;
a negative offset panics in `paginate`; and the cache key joins the keywords with
`|`, so that the keyword `a|b` and the keywords `a`, `b` share a result.

## 6. What is left

Worth adding: an abstract index (a set of paths with kinds) that `FileIndex`
without kind changes implements; two workers in `ColdScan`. Worth proving next: `FsWatcher`'s types.

## 7. Not modelled

* HTTP routing, authentication, configuration, logging and the web page beyond
  its paging: no state the index depends on. The two HTTP handlers that change the
  index, `create` and `deleteInvalid`, are in `IndexOps`.
* `file_sort.go`, `ClearAll` and the n-gram worker queue: never called.
* A cold scan cut short by a crash, after which the next start is a hot one.
* Errors of the disk on snapshot and log, data races other than that of the snapshot,
  and the limits of a packed key (48 bits of offset, 16 of length).
