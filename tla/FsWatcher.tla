------------------------------ MODULE FsWatcher ------------------------------
(***************************************************************************)
(* The running watcher (src/main/file_watcher.go, 399-418 and 567-833): a  *)
(* disk that changes, the inotify queue, the event loop with its pending   *)
(* moves, the 110 ms timers, the scanDirectory goroutines and the tables   *)
(* WdMap and PathToWd, around the index of IndexOps.                       *)
(*                                                                         *)
(* An object is an inode <<n, isDir>>, numbered as it is created, and      *)
(* serves as the watch descriptor of its watch.  A name always has the     *)
(* same kind, sizes and times are left out, and the timers fire at any     *)
(* time: the loop may be later than any of them.                           *)
(***************************************************************************)
EXTENDS IndexOps

CONSTANTS
  Root,        \* the configured root, watched
  OutsidePath, \* a directory of the same file system, not watched
  DirNames,    \* the names that are directories
  Spots,       \* bound: the paths at which something is created or moved to
  Ignored,     \* file names with an excluded suffix
  Placed,      \* what is on disk and indexed at the start, parents first:
               \* <<number of the parent directory, name>>
  QueueCap,    \* capacity of the inotify queue
  MaxChanges,  \* bound: changes of the disk
  MaxHasty,    \* bound: changes that find the program busy with an earlier one
  MaxRaces,    \* bound: races after which the disk no longer changes
  Restarts     \* bound: whether there is a restart, one, between change and race

Top == <<0, TRUE>>
Outside == <<-1, TRUE>>
NoObj == <<-2, TRUE>>

ASSUME FsWatcherAssumption ==
  /\ Root \in Path \ {<<>>} /\ OutsidePath \in Path \ {<<>>}
  /\ ~IsPrefix(Root, OutsidePath) /\ ~IsPrefix(OutsidePath, Root)
  /\ DirNames \subseteq Names /\ Ignored \subseteq Names \ DirNames
  /\ Spots \subseteq Path \ {<<>>} /\ Placed \in Seq(Nat \X Names)
  /\ QueueCap \in Nat \ {0} /\ MaxChanges \in Nat /\ MaxHasty \in Nat
  /\ MaxRaces \in Nat /\ Restarts \in BOOLEAN

VARIABLES
  at,        \* the disk: object -> path, the two directories given included
  made,      \* objects created so far
  changes,   \* changes of the disk so far; the cookie of a rename
  watched,   \* objects the kernel watches for this process
  queue,     \* unread events
  wd,        \* [map: WdMap, rev: PathToWd]; see below
  pending,   \* pendingMoves: cookie -> old path, its 110 ms timer asleep
  expired,   \* moves whose timer has found them pending, to be removed
  loop,      \* what the event loop is doing
  scan,      \* node id -> its scanDirectory goroutine
  ix,        \* the index
  down,      \* a handler has panicked
  lost,      \* directories whose watch a restart has ended
  renamed,   \* history: something was renamed
  hasty,     \* history: changes that found the program busy
  races      \* history: what may set index and disk apart, see below

disk == <<at, made, changes, renamed, hasty>>
prog == <<wd, pending, expired, loop, scan, ix, down, lost>>
vars == <<disk, watched, queue, races, prog>>

-----------------------------------------------------------------------------
(* The disk.                                                               *)

Live == DOMAIN at
IsDirName(n) == n \in DirNames

\* os.Stat(p) succeeds; paths are absolute, so <<name>> alone never does.
OnDisk(p) == \E o \in Live : at[o] = p
ObjAt(p) == IF OnDisk(p) THEN CHOOSE o \in Live : at[o] = p ELSE NoObj
In(d) == {o \in Live : Len(at[o]) = Len(at[d]) + 1 /\ Dir(at[o]) = at[d]}
Under(d) == {o \in Live : IsPrefix(at[d], at[o])}
IsOutside(o) == o \in Live /\ IsPrefix(OutsidePath, at[o])
Given == Live \ {Top, Outside}
Inside == {o \in Live \ {Top} : IsPrefix(Root, at[o])}

-----------------------------------------------------------------------------
(* The program at rest.                                                    *)

Idle == [op |-> "idle"]

Quiet ==
  /\ ~down
  /\ queue = <<>> /\ loop = Idle /\ pending = << >> /\ expired = << >>
  /\ DOMAIN scan = {}

-----------------------------------------------------------------------------
(* races collects the names of the races that have happened, each a way to *)
(* set index and disk apart that the properties have to except:            *)
(*   overflow   the inotify queue dropped an event                         *)
(*   offline    a change in a directory that has lost its watch in a restart *)
(*   outside    an event of a watch whose directory has left the tree, or  *)
(*              whose entry of WdMap is gone                               *)
(*   late       an event read when its object is elsewhere, or the second  *)
(*              half of a rename when its object is gone                   *)
(*   unknown    a rename of a path that is not indexed                     *)
(*   overwrite  a rename onto an indexed path                              *)
(*   orphan     an entry inserted before its directory                     *)
(*   scan       a scan met a path that is gone or means another directory  *)
(*   refused    inotify_add_watch failed for a directory that exists       *)
(*   timer      the timer of a move ran before its second half was read    *)
(*   recreated  a path appears whose move out is still to be carried out   *)
(*   stale      such a move finds its path unindexed                       *)
(*   shared     such a move drops the descriptor of another path           *)

Seen(name, holds) == IF holds THEN {name} ELSE {}
Note(names) == races' = races \cup names

GetWdPath(o) == IF o \in DOMAIN wd.map THEN wd.map[o] ELSE <<>>
Entry(e) == Append(GetWdPath(e.wd), e.name)

\* A move out of p or of a directory above is still to be carried out.
Leaving(p) ==
  \/ \E c \in DOMAIN pending : IsPrefix(pending[c].path, p)
  \/ \E c \in DOMAIN expired : IsPrefix(expired[c].path, p)

RacesOf(e) ==
  IF IsOutside(e.wd) \/ e.wd \notin DOMAIN wd.map THEN {"outside"}
  ELSE Seen("late", \/ e.kind \in {"create", "to"} /\ e.obj \in Live /\ at[e.obj] # Entry(e)
                    \/ e.kind = "to" /\ e.obj \notin Live)
       \cup Seen("recreated", e.kind \in {"create", "to"} /\ Leaving(Entry(e)))

\* Inserting p finds its directory not indexed and links it nowhere.
Orphan(p) ==
  Seen("orphan", p \notin DOMAIN ix.lookup /\ Dir(p) \notin DOMAIN ix.lookup)

RenameRaces(old, new) ==
  Seen("unknown", old \notin DOMAIN ix.lookup) \cup Seen("overwrite", new \in DOMAIN ix.lookup)

ScanRaces(p) == Seen("scan", ~OnDisk(p)) \cup Seen("recreated", Leaving(p))

ScannerRaces(s, p) ==
  ScanRaces(p) \cup Seen("scan", ObjAt(scan[s].path) # scan[s].obj)

TimerRaces(m) ==
  Seen("stale", m.path \notin DOMAIN ix.lookup) \cup
  Seen("shared", /\ m.dir /\ m.path \in DOMAIN wd.rev
                 /\ wd.rev[m.path] \in DOMAIN wd.map
                 /\ wd.map[wd.rev[m.path]] # m.path)

-----------------------------------------------------------------------------
(* What inotify reports: events of watched directories, in order.  A full  *)
(* queue drops them, and the overflow event has no name and is skipped.    *)

Event(kind, d, o, p) ==
  [kind |-> kind, wd |-> d, name |-> Base(p), cookie |-> changes', obj |-> o]

Raise(events) ==
  LET seen == SelectSeq(events, LAMBDA e : e.wd \in watched)
      all == queue \o seen
  IN  /\ queue' = SubSeq(all, 1, IF Len(all) > QueueCap THEN QueueCap ELSE Len(all))
      /\ Note(Seen("overflow", Len(all) > QueueCap)
              \cup Seen("offline", \E i \in DOMAIN events : events[i].wd \in lost \ watched))

Change ==
  /\ changes' = changes + 1
  /\ hasty' = IF Quiet THEN hasty ELSE hasty + 1
  /\ UNCHANGED prog

\* A path whose directory exists.
Reachable(p) == OnDisk(Dir(p)) /\ IsDir(ObjAt(Dir(p)))

\* Nothing is created outside: there, only what was moved out is moved again.
Create(p) ==
  LET o == <<made + 1, IsDirName(Base(p))>>
      d == ObjAt(Dir(p))
  IN  /\ Change /\ Reachable(p) /\ ~OnDisk(p) /\ d # Outside
      /\ at' = Put(at, o, p)
      /\ made' = made + 1
      /\ Raise(<<Event("create", d, o, p)>>)
      /\ UNCHANGED <<watched, renamed>>

\* A file is closed after writing: IN_CLOSE_WRITE is handled like IN_CREATE.
Write(o) ==
  /\ Change
  /\ Raise(<<Event("create", ObjAt(Dir(at[o])), o, at[o])>>)
  /\ UNCHANGED <<at, made, watched, renamed>>

\* A directory goes when it is empty, and its watch with it.  IN_DELETE_SELF
\* has no name and is skipped.
Delete(o) ==
  /\ Change /\ In(o) = {}
  /\ at' = Without(at, {o})
  /\ watched' = watched \ {o}
  /\ Raise(<<Event("delete", ObjAt(Dir(at[o])), o, at[o])>>)
  /\ UNCHANGED <<made, renamed>>

\* rename(2), from or to the outside too, and onto a file.
Move(o, p) ==
  LET d == ObjAt(Dir(p))
      over == {ObjAt(p)} \cap Live
  IN  /\ Change /\ Reachable(p)
      /\ IsDirName(Base(p)) = IsDir(o) /\ at[o] # p
      /\ d \notin Under(o)
      /\ \A t \in over : ~IsDir(t)
      /\ at' = [x \in Live \ over |-> IF x \in Under(o) THEN Rebase(at[x], at[o], p) ELSE at[x]]
      /\ Raise(<<Event("from", ObjAt(Dir(at[o])), o, at[o]), Event("to", d, o, p)>>)
      /\ renamed' = TRUE
      /\ UNCHANGED <<made, watched>>

-----------------------------------------------------------------------------
(* WdMap and PathToWd.  Both hold store offsets; what an offset in WdMap    *)
(* reads is the path it was put with, and PathToWd is only ever asked with  *)
(* the offset a path currently resolves to.  So map leads from a descriptor *)
(* to a path, and rev from an indexed path to a descriptor.                 *)

PutWd(t, p, o) ==
  [map |-> IF o = NoObj THEN t.map ELSE Put(t.map, o, p),
   rev |-> Put(t.rev, p, o)]

DeleteWd(t, p) ==
  IF p \in DOMAIN t.rev
  THEN [map |-> Without(t.map, {t.rev[p]}), rev |-> Without(t.rev, {p})]
  ELSE t

\* Entries under offsets that no path resolves to any more are never read.
Current(t, lookup) ==
  [t EXCEPT !.rev = [p \in DOMAIN @ \cap DOMAIN lookup |-> @[p]]]

\* InotifyAddWatch follows the path: it watches what is there now.  The kernel
\* may have no watch left to give, which is logged and otherwise ignored; it
\* needs none for an object it already watches.
AddWatch(p) ==
  IF p \in DOMAIN wd.rev \/ ~OnDisk(p) THEN UNCHANGED <<wd, watched>>
  ELSE \/ /\ wd' = PutWd(wd, p, ObjAt(p))
          /\ watched' = watched \cup {ObjAt(p)}
       \/ ObjAt(p) \notin watched /\ UNCHANGED <<wd, watched>>

\* The step that called AddWatch(p) was refused.
Refused(p) == Seen("refused", OnDisk(p) /\ p \notin DOMAIN wd'.rev)

-----------------------------------------------------------------------------
(* The handlers, each under mu from start to end.                          *)

\* A known file has not changed; a new one's size is left out, and with it
\* UpsertParentSize.
RunUpsert(p) ==
  /\ ix' = IF p \in DOMAIN ix.lookup THEN ix ELSE Insert(ix, p, FALSE, 0, 0)
  /\ UNCHANGED <<wd, watched>>

\* A scanDirectory goroutine: read is FALSE until it has its listing; call is
\* the entry it has taken and waits for mu with.
Scanner(p) == [path |-> p, obj |-> ObjAt(p), read |-> FALSE, rest |-> {}, call |-> <<>>]

\* Mutant: a new directory is watched and not scanned.
RunUpsertDirUnscanned(p, scans) ==
  ix' = UpsertDir(ix, p, 0) /\ AddWatch(p) /\ scan' = scans

\* A new directory is watched before the goroutine that lists it starts.
RunUpsertDir(p, scans) ==
  /\ ix' = UpsertDir(ix, p, 0)
  /\ AddWatch(p)
  /\ scan' = IF p \in DOMAIN ix.lookup THEN scans
             ELSE Put(scans, ix'.lookup[p], Scanner(p))

\* Mutant: a directory is removed like a file.
RunRemoveFlat(p, isDir) ==
  ix' = Remove(ix, p, FALSE) /\ wd' = Current(DeleteWd(wd, p), ix'.lookup)

\* walkDelete drops the watch of the path it was asked for, not of what is
\* below: those stay in WdMap.
RunRemove(p, isDir) ==
  /\ ix' = Remove(ix, p, isDir)
  /\ wd' = Current(IF isDir THEN DeleteWd(wd, p) ELSE wd, ix'.lookup)

\* addWatchLocked ignores the error and stores what it got: nothing, unless
\* what is there now is among the objects the kernel watches.
Rewatch(t, old, new, got) ==
  PutWd(DeleteWd(t, old), new, IF ObjAt(new) \in got THEN ObjAt(new) ELSE NoObj)

\* The directories below a renamed one are visited parents first.
Orders(dirs, path) ==
  {s \in [1..Cardinality(dirs) -> dirs] :
     /\ \A i, j \in DOMAIN s : s[i] = s[j] => i = j
     /\ \A i, j \in DOMAIN s : IsPrefix(path[s[i]], path[s[j]]) => i =< j}

\* Mutant: the directories below keep their old entries.
RenameWatchesTop(old, new, path, got) == {Rewatch(wd, old, new, got)}

\* A renamed directory and the directories below it, in one such order, are
\* watched under their new paths.
RenameWatches(old, new, path, got) ==
  {LET step[i \in 0..Len(s)] ==
         IF i = 0 THEN Rewatch(wd, old, new, got)
         ELSE Rewatch(step[i - 1], path[s[i]], Rebase(path[s[i]], old, new), got)
   IN  step[Len(s)] : s \in Orders(DOMAIN path, path)}

RunRename(old, new) ==
  LET outcomes == RenameNode(ix, old, new, 0)
      attached == /\ old \in DOMAIN ix.lookup /\ IsDir(ix.lookup[old])
                  /\ Dir(new) \in DOMAIN ix.lookup \ {old}
  IN  \/ /\ outcomes = {}
         /\ down' = TRUE
         /\ UNCHANGED <<ix, wd, watched>>
         /\ Note(RenameRaces(old, new))
      \/ /\ ix' \in outcomes
         /\ UNCHANGED down
         /\ IF attached
            THEN LET below == {c \in DOMAIN ix.nodes \ {ix.lookup[old]} :
                                 IsDir(c) /\ ix'.nodes[c].path # ix.nodes[c].path}
                     path == [c \in below |-> ix.nodes[c].path]
                     now == ({ObjAt(new)} \cup {ObjAt(ix'.nodes[c].path) : c \in below})
                            \ {NoObj}
                 IN  \E got \in {now \ no : no \in SUBSET (now \ watched)} :
                       /\ \E t \in RenameWatches(old, new, path, got) :
                            wd' = Current(t, ix'.lookup)
                       /\ watched' = watched \cup got
                       /\ Note(RenameRaces(old, new) \cup Seen("refused", got # now))
            ELSE /\ wd' = Current(wd, ix'.lookup) /\ UNCHANGED watched
                 /\ Note(RenameRaces(old, new))

-----------------------------------------------------------------------------
(* runEventLoop and handleMoveEvent.  Reading an event takes the path from  *)
(* WdMap and the status from the disk; the handler it calls then waits for  *)
(* mu.  The move handlers keep muMove until they return.                    *)

Call(op, p, isDir) == [op |-> op, path |-> p, dir |-> isDir, mv |-> FALSE]

\* Upsert returns at once when os.Stat fails.
Upserts(p) == IF OnDisk(p) THEN Call("upsert", p, FALSE) ELSE Idle

HoldsMuMove == loop # Idle /\ loop.mv

NextEvent ==
  /\ loop = Idle /\ queue # <<>>
  /\ queue' = Tail(queue)
  /\ LET e == Head(queue)
         p == Entry(e)
         isDir == IsDirName(e.name)
     IN  IF e.name \in Ignored THEN UNCHANGED <<pending, loop>>
         ELSE CASE e.kind = "create" ->
                     /\ loop' = IF isDir THEN Call("upsertDir", p, TRUE) ELSE Upserts(p)
                     /\ UNCHANGED pending
                [] e.kind = "delete" ->
                     /\ loop' = Call("remove", p, isDir)
                     /\ UNCHANGED pending
                [] e.kind = "from" ->
                     /\ pending' = Put(pending, e.cookie, [path |-> p, dir |-> isDir])
                     /\ UNCHANGED loop
                [] e.kind = "to" /\ e.cookie \in DOMAIN pending ->
                     /\ pending' = Without(pending, {e.cookie})
                     /\ loop' = IF OnDisk(p)
                                THEN [op |-> "rename", mv |-> TRUE,
                                      old |-> pending[e.cookie].path, new |-> p]
                                ELSE Idle
                [] OTHER ->  \* moved in: a directory is scanned like a root
                     /\ loop' = IF isDir
                                THEN [op |-> "bfs", mv |-> TRUE, held |-> {},
                                      list |-> IF OnDisk(p) THEN {p} ELSE {},
                                      found |-> IF OnDisk(p) THEN {p} ELSE {}]
                                ELSE IF OnDisk(p)
                                     THEN [Upserts(p) EXCEPT !.mv = TRUE] ELSE Idle
                     /\ UNCHANGED pending
  /\ Note(RacesOf(Head(queue)))
  /\ UNCHANGED <<disk, watched, wd, expired, scan, ix, down>>

RunCall ==
  /\ loop # Idle /\ loop' = Idle
  /\ \/ /\ loop.op = "upsert" /\ RunUpsert(loop.path)
        /\ Note(Orphan(loop.path)) /\ UNCHANGED <<scan, down>>
     \/ /\ loop.op = "upsertDir" /\ RunUpsertDir(loop.path, scan)
        /\ Note(Orphan(loop.path) \cup Refused(loop.path)) /\ UNCHANGED down
     \/ /\ loop.op = "remove" /\ RunRemove(loop.path, loop.dir)
        /\ UNCHANGED <<watched, races, scan, down>>
     \/ /\ loop.op = "rename" /\ RunRename(loop.old, loop.new)
        /\ UNCHANGED scan
  /\ UNCHANGED <<disk, queue, pending, expired>>

\* os.ReadDir: nothing if p is gone.
Listing(p) ==
  IF OnDisk(p) THEN {at[o] : o \in In(ObjAt(p))} \ {Append(p, n) : n \in Ignored} ELSE {}

\* ParallelBFSScan and setupWatches for a directory moved in, up to the order
\* of the pool and the panic on entry.Info() (see ColdScan): list is still to
\* be read, found to be taken, held are files whose status was read.
BfsList(p) ==
  /\ loop.op = "bfs" /\ p \in loop.list
  /\ loop' = [loop EXCEPT !.list = (@ \ {p}) \cup {q \in Listing(p) : IsDirName(Base(q))},
                          !.found = @ \cup Listing(p)]
  /\ UNCHANGED <<disk, watched, queue, wd, pending, expired, scan, ix, down>>
  /\ Note(ScanRaces(p))

BfsStat(p) ==
  /\ loop.op = "bfs" /\ p \in loop.found /\ ~IsDirName(Base(p))
  /\ loop' = [loop EXCEPT !.found = @ \ {p}, !.held = @ \cup (IF OnDisk(p) THEN {p} ELSE {})]
  /\ UNCHANGED <<disk, watched, queue, wd, pending, expired, scan, ix, down>>
  /\ Note(ScanRaces(p))

BfsUpsert(p) ==
  /\ loop.op = "bfs" /\ p \in loop.held
  /\ loop' = [loop EXCEPT !.held = @ \ {p}]
  /\ RunUpsert(p)
  /\ UNCHANGED <<disk, queue, pending, expired, scan, down>>
  /\ Note(ScanRaces(p) \cup Orphan(p))

BfsUpsertDir(p) ==
  /\ loop.op = "bfs" /\ p \in loop.found /\ IsDirName(Base(p))
  /\ loop' = [loop EXCEPT !.found = @ \ {p}]
  /\ RunUpsertDir(p, scan)
  /\ UNCHANGED <<disk, queue, pending, expired, down>>
  /\ Note(ScanRaces(p) \cup Orphan(p) \cup Refused(p))

BfsEnd ==
  /\ loop.op = "bfs" /\ loop.list = {} /\ loop.found = {} /\ loop.held = {}
  /\ loop' = Idle
  /\ UNCHANGED <<disk, watched, queue, races, wd, pending, expired, scan, ix, down>>

-----------------------------------------------------------------------------
(* The timers.                                                              *)

\* Mutant: the goroutine has captured the cookie before it was set.
TimerFiresNoCookie(c) ==
  /\ c \in DOMAIN pending /\ ~HoldsMuMove
  /\ pending' = Without(pending, {c})
  /\ expired' = Put(expired, 0, pending[c])
  /\ UNCHANGED <<disk, watched, queue, races, wd, loop, scan, ix, down>>

\* A move nobody has claimed was a move out of the tree.  The timer of a
\* claimed one finds nothing, so it is gone with the claim.
TimerFires(c) ==
  /\ c \in DOMAIN pending /\ ~HoldsMuMove
  /\ pending' = Without(pending, {c})
  /\ expired' = Put(expired, c, pending[c])
  /\ Note(Seen("timer", \E i \in DOMAIN queue : queue[i].kind = "to" /\ queue[i].cookie = c))
  /\ UNCHANGED <<disk, watched, queue, wd, loop, scan, ix, down>>

TimerRemoves(c) ==
  /\ expired' = Without(expired, {c})
  /\ RunRemove(expired[c].path, expired[c].dir)
  /\ Note(TimerRaces(expired[c]))
  /\ UNCHANGED <<disk, watched, queue, pending, loop, scan, down>>

-----------------------------------------------------------------------------
(* scanDirectory.                                                          *)

\* A goroutine with nothing left to do is gone.
Trim(scans) ==
  [x \in {y \in DOMAIN scans : ~scans[y].read \/ scans[y].rest # {} \/ scans[y].call # <<>>}
     |-> scans[x]]

ScanRead(s) ==
  /\ ~scan[s].read
  /\ scan' = Trim([scan EXCEPT ![s].read = TRUE, ![s].rest = Listing(scan[s].path)])
  /\ UNCHANGED <<disk, watched, queue, wd, pending, expired, loop, ix, down>>
  /\ Note(ScannerRaces(s, scan[s].path))

\* Upsert reads the status of the file before it waits for mu, UpsertDir
\* does not look at the disk.
ScanStat(s, p) ==
  /\ scan[s].call = <<>> /\ p \in scan[s].rest /\ ~IsDirName(Base(p))
  /\ scan' = Trim([scan EXCEPT ![s].rest = @ \ {p},
                     ![s].call = IF OnDisk(p) THEN p ELSE <<>>])
  /\ UNCHANGED <<disk, watched, queue, wd, pending, expired, loop, ix, down>>
  /\ Note(ScannerRaces(s, p))

ScanUpsert(s) ==
  /\ scan[s].call # <<>>
  /\ RunUpsert(scan[s].call)
  /\ scan' = Trim([scan EXCEPT ![s].call = <<>>])
  /\ UNCHANGED <<disk, queue, pending, expired, loop, down>>
  /\ Note(ScannerRaces(s, scan[s].call) \cup Orphan(scan[s].call))

ScanUpsertDir(s, p) ==
  /\ scan[s].call = <<>> /\ p \in scan[s].rest /\ IsDirName(Base(p))
  /\ RunUpsertDir(p, Trim([scan EXCEPT ![s].rest = @ \ {p}]))
  /\ UNCHANGED <<disk, queue, pending, expired, loop, down>>
  /\ Note(ScannerRaces(s, p) \cup Orphan(p) \cup Refused(p))

-----------------------------------------------------------------------------
(* Exit and hot start.                                                     *)

\* An orderly exit at rest, and the next start: the nodes come back from the
\* snapshot, every watch is gone, and the directories of PathMap wait for a
\* new one.  Nothing looks for what changed on disk meanwhile.
Restart ==
  /\ Restarts /\ Quiet /\ changes > 0 /\ races = {} /\ lost = {}
  /\ lost' = {o \in watched : ~IsOutside(o)}
  /\ ix' \in Loaded([id \in DOMAIN ix.nodes \ {NoId} |-> ix.nodes[id]])
  /\ loop' = [op |-> "start",
              rest |-> {p \in DOMAIN ix'.lookup : IsDir(ix'.lookup[p])}]
  /\ wd' = [map |-> << >>, rev |-> << >>] /\ watched' = {}
  /\ UNCHANGED <<disk, queue, races, pending, expired, scan, down>>

\* The event loop begins when all of them have been tried.
HotWatch(p) ==
  /\ AddWatch(p)
  /\ loop' = IF loop.rest = {p} THEN Idle ELSE [loop EXCEPT !.rest = @ \ {p}]
  /\ Note(Refused(p))
  /\ UNCHANGED <<disk, queue, pending, expired, scan, ix, down, lost>>

-----------------------------------------------------------------------------

DiskStep ==
  /\ changes < MaxChanges /\ Cardinality(races) =< MaxRaces
  /\ Quiet \/ hasty < MaxHasty
  /\ \/ \E p \in Spots : Create(p)
     \/ \E o \in Given : ~IsDir(o) /\ Write(o)
     \/ \E o \in Given : Delete(o)
     \/ \E o \in Given, p \in Spots : Move(o, p)

LoopStep ==
  \/ NextEvent \/ RunCall \/ BfsEnd
  \/ loop.op = "bfs" /\ \E p \in loop.list : BfsList(p)
  \/ loop.op = "bfs" /\ \E p \in loop.found : BfsStat(p) \/ BfsUpsertDir(p)
  \/ loop.op = "bfs" /\ \E p \in loop.held : BfsUpsert(p)

Goroutines ==
  \/ LoopStep
  \/ \E c \in DOMAIN pending : TimerFires(c)
  \/ \E c \in DOMAIN expired : TimerRemoves(c)
  \/ \E s \in DOMAIN scan :
       ScanRead(s) \/ ScanUpsert(s)
       \/ \E p \in scan[s].rest : ScanStat(s, p) \/ ScanUpsertDir(s, p)

StartUp ==
  \/ Restart
  \/ loop.op = "start" /\ \E p \in loop.rest : HotWatch(p)

Next ==
  /\ ~down
  /\ \/ Goroutines /\ UNCHANGED lost
     \/ DiskStep
     \/ StartUp

-----------------------------------------------------------------------------

\* What is on disk at the start: object k is Placed[k].
StartPath[k \in 0..Len(Placed)] ==
  IF k = 0 THEN Root ELSE Append(StartPath[Placed[k][1]], Placed[k][2])

StartObj(k) == IF k = 0 THEN Top ELSE <<k, IsDirName(Placed[k][2])>>

StartDirs == {k \in 0..Len(Placed) : IsDir(StartObj(k))}

Init ==
  /\ at = [o \in {StartObj(k) : k \in 0..Len(Placed)} \cup {Outside} |->
             IF o = Outside THEN OutsidePath ELSE StartPath[o[1]]]
  /\ made = Len(Placed) /\ changes = 0
  /\ watched = {StartObj(k) : k \in StartDirs}
  /\ wd = [map |-> [o \in {StartObj(k) : k \in StartDirs} |-> StartPath[o[1]]],
           rev |-> [p \in {StartPath[k] : k \in StartDirs} |->
                      CHOOSE o \in {StartObj(k) : k \in StartDirs} : StartPath[o[1]] = p]]
  /\ LET step[k \in 0..Len(Placed)] ==
           IF k = 0 THEN UpsertDir(EmptyIndex, Root, 0)
           ELSE IF k \in StartDirs THEN UpsertDir(step[k - 1], StartPath[k], 0)
           ELSE Insert(step[k - 1], StartPath[k], FALSE, 0, 0)
     IN  ix = step[Len(Placed)]
  /\ queue = <<>> /\ pending = << >> /\ expired = << >> /\ loop = Idle /\ scan = << >>
  /\ down = FALSE /\ races = {} /\ lost = {} /\ hasty = 0 /\ renamed = FALSE

Spec == Init /\ [][Next]_vars

-----------------------------------------------------------------------------
\* Type invariant.
TypeOK ==
  /\ IndexType(ix)
  /\ at \in [Live -> Path \ {<<>>}] /\ {Top, Outside} \subseteq Live
  /\ made \in Nat /\ changes \in 0..MaxChanges /\ hasty \in 0..MaxHasty
  /\ renamed \in BOOLEAN /\ down \in BOOLEAN
  /\ \A o \in Live \cup watched \cup lost \cup DOMAIN wd.map : o[1] \in -1..made /\ o[2] \in BOOLEAN
  /\ \A o \in DOMAIN wd.map : wd.map[o] \in Path
  /\ DOMAIN wd.rev \subseteq DOMAIN ix.lookup
  /\ \A p \in DOMAIN wd.rev : wd.rev[p] \in DOMAIN wd.map \cup watched \cup {NoObj}
  /\ Len(queue) =< QueueCap
  /\ \A m \in {pending, expired} :
       DOMAIN m \subseteq 1..changes /\ \A c \in DOMAIN m : m[c].path \in Path
  /\ loop.op \in {"idle", "upsert", "upsertDir", "remove", "rename", "bfs", "start"}
  /\ DOMAIN scan \subseteq DOMAIN ix.nodes \cup Id

\* What is on disk under Root and may be indexed.
DiskPaths == {at[o] : o \in {x \in Inside : Base(at[x]) \notin Ignored}}
Indexed == DOMAIN ix.lookup \ {Root}

\* When the watcher has caught up and none of the named races has happened,
\* the indexed paths are exactly those on disk, whatever was created, written,
\* deleted, renamed and moved in or out meanwhile, and however the event
\* loop, the timers and the directory scans took turns.
Agrees == (Quiet /\ races = {}) => Indexed = DiskPaths

\* Nor has the watcher lost its eyes: every directory of the tree is watched,
\* and events of its watch are read under its present path, so that the next
\* change below it reaches the right entry.
WatchesAgree ==
  (Quiet /\ races = {}) => \A o \in Inside : IsDir(o) =>
     o \in watched /\ GetWdPath(o) = at[o]

\* And every indexed path hangs below its directory in TreeMap, so that
\* removing or renaming the directory reaches it.
Linked ==
  (Quiet /\ races = {}) => \A p \in Indexed :
     ix.lookup[p] \in At(ix.tree, LookupId(ix, Dir(p)))

\* While nothing is renamed, nothing is missed: every path created, however
\* hastily and at whatever depth, is found by an event or by the scan of its
\* directory, unless the inotify queue has overflowed or nobody was watching.
AddedFound ==
  (Quiet /\ ~renamed /\ races \cap {"overflow", "offline", "refused"} = {}) =>
    DiskPaths \subseteq Indexed

\* Of changes made one at a time, each when the watcher is at rest, the first
\* race is one of five: the others need a change the watcher is not ready
\* for, or follow from an earlier race.
CalmRaces ==
  [][(hasty' = 0 /\ races = {}) =>
       races' \subseteq {"outside", "timer", "orphan", "overwrite", "refused"}]_vars

\* RenameNode panics, or climbs a cycle of parents for ever, only where an
\* earlier removal has left an id without a node in a child set.
PanicIsLeftover ==
  down => \E id \in DOMAIN ix.tree : \E c \in ix.tree[id] : c \notin DOMAIN ix.nodes

\* No handler panics: the slice of a child's path in RenameNode is called safe
\* (file_watcher.go, 802).
NeverDown == ~down
=============================================================================
