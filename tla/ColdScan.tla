------------------------------ MODULE ColdScan ------------------------------
(***************************************************************************)
(* The initial scan (src/main/file_watcher.go, 66-197): ParallelBFSScan    *)
(* with its worker pool, bounded task queue and wait group, the indexing   *)
(* goroutines of setupWatches at the other end of scanChan, and the        *)
(* scanDirectory goroutine every new directory starts, against a disk that *)
(* changes meanwhile.  The event loop starts only when setupWatches has    *)
(* returned, so inotify events are only collected here.                    *)
(*                                                                         *)
(* A path has one kind for ever, sizes and times are left out, the order   *)
(* of a directory listing is arbitrary, a root that is not there at the    *)
(* start never is, and every directory there is can be read.               *)
(***************************************************************************)
EXTENDS IndexOps, Bags

CONSTANTS
  Tree,      \* the paths that may exist, down from the roots
  Dirs,      \* those that are directories
  Changing,  \* those that may be created or deleted during the scan
  Returning, \* bound: those of them that may come back after a deletion
  Scarce,    \* bound: directories the kernel may refuse to watch
  Ignored,   \* files whose suffix is excluded
  Roots,     \* the configured roots, in order
  Workers,   \* numWorkers
  Indexers,  \* workers of setupWatches
  QueueCap,  \* capacity of taskQueue
  ChanCap    \* capacity of scanChan

ASSUME ColdScanAssumption ==
  /\ Tree \subseteq Path \ {<<>>}
  /\ Dirs \subseteq Tree /\ Changing \subseteq Tree
  /\ Returning \subseteq Changing /\ Scarce \subseteq Dirs
  /\ Ignored \subseteq Tree \ Dirs
  /\ Roots \in Seq(Path) /\ \A i \in DOMAIN Roots : Roots[i] \in Tree => Roots[i] \in Dirs
  /\ \A p \in Tree : (\E i \in DOMAIN Roots : p = Roots[i]) \/ Dir(p) \in Dirs
  /\ Workers # {} /\ Indexers # {}
  /\ Indexers \cap Dirs = {}
  /\ QueueCap \in Nat \ {0} /\ ChanCap \in Nat \ {0}

VARIABLES
  disk,       \* the paths that exist
  gone,       \* history: the paths that were ever deleted
  unheard,    \* history: the paths that came into a directory after its watch
              \* was refused
  watched,    \* directories with a live inotify watch
  pathToWd,   \* directories the program believes it watches
  refused,    \* history: directories the kernel refused to watch
  created,    \* paths with an unread creation event
  roots,      \* roots the scan has not started on
  given,      \* the root sent to scanChan and not yet to taskQueue, if any
  taskQueue, late,  \* tasks queued, and in goroutines waiting for room
  wg,         \* the wait group's counter
  closed,     \* both channels are closed
  worker,     \* [Workers -> what each has to do]
  scanChan,   \* results on their way to the indexers
  calls,      \* <<caller, path>>: an Upsert or UpsertDir waiting for mu
  scan,       \* directory -> what its scanDirectory has still to visit
  ix,         \* the index
  down        \* a goroutine has panicked

disks == <<disk, gone, created, unheard>>
watches == <<watched, pathToWd, refused>>
pool == <<roots, given, taskQueue, late, wg, closed, worker>>
index == <<ix, watches, scan>>
vars == <<disks, pool, index, scanChan, calls, down>>

Above(p) == {q \in Tree : IsPrefix(q, p)}
RootSet == {Roots[i] : i \in DOMAIN Roots}

Idle == [pc |-> "idle", rest |-> {}]

\* A scanDirectory goroutine that has not read its directory yet.
Unread == [read |-> FALSE, rest |-> {}]

Init ==
  /\ disk \in {S \in SUBSET Tree : /\ (RootSet \cap Tree) \cup (Tree \ Changing) \subseteq S
                                   /\ \A p \in S : Above(p) \subseteq S}
  /\ gone = {} /\ created = {} /\ unheard = {}
  /\ watched = {} /\ pathToWd = {} /\ refused = {} /\ scan = << >> /\ ix = EmptyIndex
  /\ roots = Roots /\ given = <<>> /\ taskQueue = <<>> /\ late = EmptyBag
  /\ wg = 0 /\ closed = FALSE
  /\ worker = [w \in Workers |-> Idle]
  /\ scanChan = <<>> /\ calls = {} /\ down = FALSE

-----------------------------------------------------------------------------
(* The disk.  Creations in a watched directory raise an event.             *)

Appear(p) ==
  /\ p \in Changing \ (disk \cup (gone \ Returning))
  /\ Above(p) \ {p} \subseteq disk
  /\ disk' = disk \cup {p}
  /\ created' = IF Dir(p) \in watched THEN created \cup {p} ELSE created
  /\ unheard' = IF Dir(p) \in refused \ watched THEN unheard \cup {p} ELSE unheard
  /\ UNCHANGED <<gone, pool, index, scanChan, calls, down>>

\* Removing a directory removes what is in it, and its watch.
Vanish(p) ==
  LET lost == {q \in disk : IsPrefix(p, q)}
  IN  /\ lost # {} /\ lost \subseteq Changing
      /\ disk' = disk \ lost
      /\ gone' = gone \cup lost
      /\ watched' = watched \ lost
      /\ UNCHANGED <<created, unheard, pool, ix, pathToWd, refused, scan,
                     scanChan, calls, down>>

-----------------------------------------------------------------------------
(* ParallelBFSScan: the goroutine that was called.                         *)

\* os.Stat fails, or the root goes to scanChan as a result of its own.
SkipRoot ==
  /\ given = <<>> /\ roots # <<>>
  /\ Head(roots) \notin disk
  /\ roots' = Tail(roots)
  /\ UNCHANGED <<disks, given, taskQueue, late, wg, closed, worker,
                 index, scanChan, calls, down>>

SendRoot ==
  /\ given = <<>> /\ roots # <<>>
  /\ Head(roots) \in disk
  /\ Len(scanChan) < ChanCap
  /\ scanChan' = Append(scanChan, Head(roots))
  /\ given' = Head(roots)
  /\ roots' = Tail(roots)
  /\ UNCHANGED <<disks, taskQueue, late, wg, closed, worker, index, calls, down>>

QueueRoot ==
  /\ given # <<>>
  /\ Len(taskQueue) < QueueCap
  /\ wg' = wg + 1
  /\ taskQueue' = Append(taskQueue, given)
  /\ given' = <<>>
  /\ UNCHANGED <<disks, roots, late, closed, worker, index, scanChan, calls, down>>

\* wg.Wait(), then both channels are closed.
Close ==
  /\ given = <<>> /\ roots = <<>> /\ ~closed
  /\ wg = 0
  /\ closed' = TRUE
  /\ UNCHANGED <<disks, roots, given, taskQueue, late, wg, worker,
                 index, scanChan, calls, down>>

-----------------------------------------------------------------------------
(* ParallelBFSScan: the workers, and doProcess.                            *)

\* What a listing of d yields; nothing if d cannot be read.
Listing(d) == {p \in disk : Dir(p) = d} \ Ignored

BeginTask(w) ==
  /\ worker[w].pc = "idle" /\ taskQueue # <<>>
  /\ taskQueue' = Tail(taskQueue)
  /\ worker' = [worker EXCEPT ![w] =
                  [pc |-> "list", rest |-> Listing(Head(taskQueue))]]
  /\ UNCHANGED <<disks, roots, given, late, wg, closed, index, scanChan, calls, down>>

EndTask(w) ==
  /\ worker[w].pc = "list" /\ worker[w].rest = {}
  /\ wg' = wg - 1
  /\ worker' = [worker EXCEPT ![w] = Idle]
  /\ UNCHANGED <<disks, roots, given, taskQueue, late, closed, index,
                 scanChan, calls, down>>

SendFile(w, p) ==
  /\ worker[w].pc = "list" /\ p \in worker[w].rest \ Dirs
  /\ Len(scanChan) < ChanCap
  /\ scanChan' = Append(scanChan, p)
  /\ worker' = [worker EXCEPT ![w].rest = @ \ {p}]
  /\ UNCHANGED <<disks, roots, given, taskQueue, late, wg, closed, index, calls, down>>

SendDir(w, p) ==
  /\ worker[w].pc = "list" /\ p \in worker[w].rest \cap (Dirs \cap disk)
  /\ Len(scanChan) < ChanCap
  /\ scanChan' = Append(scanChan, p)
  /\ worker' = [worker EXCEPT ![w] =
                  [pc |-> "offer", rest |-> @.rest \ {p}, next |-> p]]
  /\ UNCHANGED <<disks, roots, given, taskQueue, late, wg, closed, index, calls, down>>

\* entry.Info() fails for a directory deleted since the listing; its error is
\* dropped and the nil info is used.
InfoPanics(w) ==
  /\ worker[w].pc = "list" /\ worker[w].rest \cap (Dirs \ disk) # {}
  /\ down' = TRUE
  /\ UNCHANGED <<disks, pool, index, scanChan, calls>>

\* Mutant: the worker waits for room itself.
EnqueueBlocks(p) ==
  /\ Len(taskQueue) < QueueCap
  /\ taskQueue' = Append(taskQueue, p)
  /\ UNCHANGED late

\* A full queue must not stop a worker: a goroutine waits in its stead.
Enqueue(p) ==
  \/ /\ Len(taskQueue) < QueueCap
     /\ taskQueue' = Append(taskQueue, p)
     /\ UNCHANGED late
  \/ /\ Len(taskQueue) = QueueCap
     /\ late' = late (+) SetToBag({p})
     /\ UNCHANGED taskQueue

\* Mutant: the new directory is not counted.
OfferUncounted(w) ==
  /\ worker[w].pc = "offer"
  /\ Enqueue(worker[w].next)
  /\ worker' = [worker EXCEPT ![w] = [pc |-> "list", rest |-> @.rest]]
  /\ UNCHANGED <<disks, roots, given, wg, closed, index, scanChan, calls, down>>

\* wg.Add is part of this step: until then the worker's own task counts.
Offer(w) ==
  /\ worker[w].pc = "offer"
  /\ wg' = wg + 1
  /\ Enqueue(worker[w].next)
  /\ worker' = [worker EXCEPT ![w] = [pc |-> "list", rest |-> @.rest]]
  /\ UNCHANGED <<disks, roots, given, closed, index, scanChan, calls, down>>

\* Such a goroutine finds room.
Deliver(p) ==
  /\ BagIn(p, late)
  /\ Len(taskQueue) < QueueCap
  /\ taskQueue' = Append(taskQueue, p)
  /\ late' = late (-) SetToBag({p})
  /\ UNCHANGED <<disks, roots, given, wg, closed, worker, index, scanChan, calls, down>>

-----------------------------------------------------------------------------
(* Upsert and UpsertDir, called by indexers and by scanDirectory.          *)

\* Upsert reads the file's status before it takes mu, and gives up on an
\* error; UpsertDir does not look at the disk.
Called(c, p) == IF p \in Dirs \cup disk THEN calls \cup {<<c, p>>} ELSE calls
Waiting(c) == \E p \in Tree : <<c, p>> \in calls

\* inotify_add_watch fails for a directory that is gone, and for any other
\* when the kernel has no watch left.  The error is logged and no more: the
\* directory stays indexed, and nothing is put into pathToWd.
AddWatch(p) ==
  IF p \in pathToWd \/ p \notin disk THEN UNCHANGED watches
  ELSE \/ /\ watched' = watched \cup {p} /\ pathToWd' = pathToWd \cup {p}
          /\ UNCHANGED refused
       \/ p \in Scarce /\ refused' = refused \cup {p} /\ UNCHANGED <<watched, pathToWd>>

\* Mutant: a new directory is left to the listing of the worker pool.
StartScanNever(p) == UNCHANGED scan

\* go f.scanDirectory(path), for a directory not yet indexed.
StartScan(p) ==
  scan' = IF p \in DOMAIN ix.lookup THEN scan ELSE Put(scan, p, Unread)

\* A known file has not changed; a new one's size is left out, and with it
\* UpsertParentSize.
RunUpsert(c, p) ==
  /\ <<c, p>> \in calls /\ p \notin Dirs
  /\ ix' = IF p \in DOMAIN ix.lookup THEN ix ELSE Insert(ix, p, FALSE, 0, 0)
  /\ calls' = calls \ {<<c, p>>}
  /\ UNCHANGED <<disks, pool, watches, scan, scanChan, down>>

\* The watch is in place before the goroutine that lists the directory starts.
RunUpsertDir(c, p) ==
  /\ <<c, p>> \in calls /\ p \in Dirs
  /\ ix' = UpsertDir(ix, p, 0)
  /\ AddWatch(p)
  /\ StartScan(p)
  /\ calls' = calls \ {<<c, p>>}
  /\ UNCHANGED <<disks, pool, scanChan, down>>

Receive(i) ==
  /\ ~Waiting(i) /\ scanChan # <<>>
  /\ scanChan' = Tail(scanChan)
  /\ calls' = Called(i, Head(scanChan))
  /\ UNCHANGED <<disks, pool, index, down>>

\* scanDirectory reads its directory, then visits each entry in turn.
ScanRead(d) ==
  /\ ~scan[d].read
  /\ scan' = [scan EXCEPT ![d] = [read |-> TRUE, rest |-> Listing(d)]]
  /\ UNCHANGED <<disks, pool, ix, watches, scanChan, calls, down>>

ScanVisit(d) ==
  /\ scan[d].read /\ ~Waiting(d)
  /\ \E p \in scan[d].rest :
       /\ scan' = [scan EXCEPT ![d].rest = @ \ {p}]
       /\ calls' = Called(d, p)
  /\ UNCHANGED <<disks, pool, ix, watches, scanChan, down>>

-----------------------------------------------------------------------------

WorkerStep(w) ==
  \/ BeginTask(w) \/ EndTask(w) \/ Offer(w) \/ InfoPanics(w)
  \/ \E p \in Tree : SendFile(w, p) \/ SendDir(w, p)

MainStep == SkipRoot \/ SendRoot \/ QueueRoot \/ Close

\* An indexer or a scanDirectory goroutine gets mu.
CallStep ==
  \/ \E call \in calls : RunUpsertDir(call[1], call[2])
  \/ \E call \in calls : RunUpsert(call[1], call[2])

Goroutines ==
  \/ MainStep
  \/ \E w \in Workers : WorkerStep(w)
  \/ \E p \in Tree : Deliver(p)
  \/ \E i \in Indexers : Receive(i)
  \/ \E d \in DOMAIN scan : ScanRead(d) \/ ScanVisit(d)
  \/ CallStep

Next == ~down /\ (Goroutines \/ \E p \in Tree : Appear(p) \/ Vanish(p))

Spec == Init /\ [][Next]_vars

\* While a goroutine can run, one does.  Nothing is assumed of the disk.
FairSpec == Spec /\ WF_vars(~down /\ Goroutines)

-----------------------------------------------------------------------------
(* Properties.                                                             *)

\* setupWatches has returned, and later every scanDirectory too.
Returned == closed /\ scanChan = <<>> /\ \A i \in Indexers : ~Waiting(i)
Quiet == Returned /\ calls = {} /\ \A d \in DOMAIN scan : scan[d].read /\ scan[d].rest = {}

Busy == {w \in Workers : worker[w].pc # "idle"}

TypeOK ==
  /\ disk \cup gone \cup created \cup unheard \subseteq Tree
  /\ watched \cup pathToWd \cup refused \subseteq Tree
  /\ roots \in Seq(RootSet) /\ given \in RootSet \cup {<<>>}
  /\ taskQueue \in Seq(Dirs) /\ Len(taskQueue) =< QueueCap
  /\ scanChan \in Seq(Tree) /\ Len(scanChan) =< ChanCap
  /\ wg \in Nat /\ closed \in BOOLEAN /\ down \in BOOLEAN
  /\ calls \subseteq (Indexers \cup Dirs) \X Tree
  /\ IndexType(ix)

\* The channels are closed only when no task is left anywhere that could send
\* on them: not in the queue, not with a worker, not in a goroutine that waits
\* for room (file_watcher.go:120-122, 150-158).
ClosedWhenDone ==
  closed => /\ taskQueue = <<>> /\ late = EmptyBag /\ Busy = {}
            /\ roots = <<>> /\ given = <<>>

\* What is on disk when the scan has ended is indexed, or an event will tell of
\* it or of a directory above it, however it raced with the listings: a
\* directory is watched before scanDirectory lists it (file_watcher.go:388-390).
\* Two exceptions: below a path that was deleted and came back a stale entry of
\* pathToWd may stand for the watch, and of a directory the kernel refuses to
\* watch what comes later is lost, although what it holds is still indexed.
NothingMissed ==
  Quiet => \A p \in disk \ Ignored :
             \/ p \in DOMAIN ix.lookup
             \/ Above(p) \cap (created \cup gone \cup unheard) # {}

\* setupWatches returns, although the workers both fill and drain a bounded
\* queue and directories vanish under them, unless a worker panics.
ScanReturns == <>(Returned \/ down)
=============================================================================
