------------------------------ MODULE Recovery ------------------------------
(***************************************************************************)
(* Persistence of the index (src/main/file_save.go, file_task.go): the     *)
(* write-behind log, its writer, checkpoints, crashes and restarts.        *)
(*                                                                         *)
(* Handlers submit log entries to a channel while they hold mu.  The       *)
(* writer goroutine moves them to a bufio buffer, and a tick or a full     *)
(* buffer moves that to the file it once opened.  A checkpoint writes all  *)
(* nodes to the snapshot and unlinks the log.  A start loads the snapshot  *)
(* and replays the log, with the writer already running.                   *)
(***************************************************************************)
EXTENDS IndexOps, FiniteSetsExt

SQ == INSTANCE SequencesExt

CONSTANTS
  Root, Dirs, Files,  \* the root, the directories below it, the files
  HandNames,          \* invalid names entered through the API
  Sizes,              \* file sizes
  Changes,            \* which of "remove", "rename", "name" ever happen
  FillsUp,            \* whether the 32KB buffer ever fills between two ticks
  WALThreshold,       \* log length from which a checkpoint is taken
  MaxID,              \* bound: no handler takes an id at lastID = MaxID
  MaxChan,            \* bound: handlers run while fewer entries wait (10000)
  MaxLog,             \* bound: handlers run while log, buffer and channel together
                      \* hold fewer entries
  MaxStarts,          \* bound on restarts
  MaxSaves            \* bound on checkpoints and orderly exits

ASSUME RecoveryAssumption ==
  /\ Root \in Path \ {<<>>}
  /\ Dirs \cup Files \subseteq Path \ {<<>>, Root}
  /\ HandNames \subseteq Names /\ Sizes \subseteq Nat
  /\ FillsUp \in BOOLEAN
  /\ WALThreshold \in Nat \ {0}

VARIABLES
  ix,      \* the index in memory
  mode,    \* "up", "dying" after a panic, "down", "replay" while starting,
           \* "failed" when the replay itself has panicked
  ch,      \* entries in the channel
  buf,     \* entries in the writer's buffer
  fd,      \* the writer's file: "none", "linked" or "unlinked"
  log,     \* the entries of index.wal, which exists once it has one
  snap,    \* the nodes of index.db
  save,    \* the persistence task: [pc, due, nodes, exit]
  pos,     \* entries already replayed
  starts, saves

writer == <<ch, buf, fd, log>>
bounds == <<starts, saves>>
vars == <<ix, mode, writer, snap, save, pos, bounds>>

-----------------------------------------------------------------------------
(* Log entries.                                                            *)

NodeEntry(op, id, node, p) ==
  [op |-> op, id |-> id, parent |-> node.parent, size |-> node.size,
   mtime |-> node.mtime, path |-> p]
RenameEntry(old, new, mtime) == [op |-> "rename", old |-> old, new |-> new, mtime |-> mtime]
InvalidEntry(id, name, mtime) == [op |-> "invalid", id |-> id, name |-> name, mtime |-> mtime]
InvalidDelete(id, name) == [op |-> "invalidDelete", id |-> id, name |-> name]

\* The first bytes of an entry a full buffer has cut, and what is left of it.
Half == [op |-> "half"]
Rest(e) == [op |-> "rest", of |-> e]

\* What a removal submits, once for every node it deletes: children before
\* their parent, siblings in any order.
RemovalLogs(i, p, isDir) ==
  IF p \notin DOMAIN i.lookup THEN {<<>>}
  ELSE LET id == i.lookup[p]
           live == IF isDir THEN WalkDeleted(i, id) \cap DOMAIN i.nodes ELSE {id}
           entry(x) == NodeEntry("delete", x, i.nodes[x], i.nodes[x].path)
       IN  {[n \in DOMAIN order |-> entry(order[n])] :
              order \in {o \in SQ!SetToSeqs(live) : \A a, b \in DOMAIN o :
                           o[a] \in At(i.tree, o[b]) => a < b}}

-----------------------------------------------------------------------------
(* Loading and replaying.                                                  *)

LoadedNode(e) ==
  [parent |-> e.parent, size |-> e.size, mtime |-> e.mtime, path |-> e.path,
   name |-> Base(e.path), invalid |-> FALSE]

\* Mutant: the counter stays where it is.
ApplyToMemoryUncounted(i, e) ==
  [i EXCEPT !.nodes = Put(@, e.id, LoadedNode(e)),
            !.lookup = Put(@, e.path, e.id),
            !.tree = Link(@, e.parent, e.id),
            !.child = Put(@, e.id, e.parent),
            !.grams = AddToIndex(@, Base(e.path), e.id)]

\* The id enters every map again; the counter rises to it.
ApplyToMemory(i, e) ==
  [nodes  |-> Put(i.nodes, e.id, LoadedNode(e)),
   lookup |-> Put(i.lookup, e.path, e.id),
   tree   |-> Link(i.tree, e.parent, e.id),
   child  |-> Put(i.child, e.id, e.parent),
   grams  |-> AddToIndex(i.grams, Base(e.path), e.id),
   lastID |-> Max({i.lastID, e.id[1]})]

\* Mutant: only the size is taken over.
UpdateNodeSize(i, e) ==
  IF e.id \notin DOMAIN i.nodes THEN ApplyToMemory(i, e)
  ELSE [i EXCEPT !.nodes = Put(@, e.id, [@[e.id] EXCEPT !.size = e.size])]

UpdateNodeMetadata(i, e) ==
  IF e.id \notin DOMAIN i.nodes THEN ApplyToMemory(i, e)
  ELSE LET node == i.nodes[e.id]
           sized == IF node.size = e.size THEN i.nodes
                    ELSE UpsertParentSize(i.nodes, i.child, e.id, e.size - node.size)
       IN  [i EXCEPT !.nodes = Put(sized, e.id,
              [node EXCEPT !.size = e.size, !.mtime = e.mtime])]

\* The counter stays where it is.
MarkNodeInvalid(i, e) ==
  [i EXCEPT !.nodes = Put(@, e.id, InvalidNode(e.name, e.mtime)),
            !.grams = AddToIndex(@, e.name, e.id)]

DeleteInvalidNode(i, e) ==
  [i EXCEPT !.nodes = Without(@, {e.id}), !.grams = RemoveFromIndex(@, e.name, e.id)]

\* The indexes one replayed entry can lead to; none when it panics.
Replayed(i, e) ==
  CASE e.op = "upsert" -> {ApplyToMemory(i, e)}
    [] e.op = "update" -> {UpdateNodeMetadata(i, e)}
    [] e.op = "delete" -> {Remove(i, e.path, IsDir(e.id))}
    [] e.op = "rename" -> RenameNode(i, e.old, e.new, e.mtime)
    [] e.op = "invalid" -> {MarkNodeInvalid(i, e)}
    [] e.op = "invalidDelete" -> {DeleteInvalidNode(i, e)}

\* The replay ends at an entry that was cut short.
Sound(entries) ==
  LET cut == SQ!SelectInSeq(entries, LAMBDA e : e.op = "half")
  IN  IF cut = 0 THEN entries ELSE SubSeq(entries, 1, cut - 1)

-----------------------------------------------------------------------------
(* Handlers.                                                               *)

Running ==
  mode = "up" /\ Len(ch) < MaxChan /\ Len(ch) + Len(buf) + Len(log) < MaxLog

\* One handler: the index and what it submits, both under mu.
Handled(i, entries) ==
  /\ ix' = i
  /\ ch' = ch \o entries
  /\ UNCHANGED <<mode, buf, fd, log, snap, save, pos, bounds>>

\* What an insertion or an update of p submits.
PathEntry(i, p) ==
  NodeEntry(IF p \in DOMAIN ix.lookup THEN "update" ELSE "upsert",
            i.lookup[p], i.nodes[i.lookup[p]], p)

UpsertFile(p, size) ==
  LET new == Upsert(ix, p, [dir |-> FALSE, size |-> size, mtime |-> size])
  IN  /\ Running
      /\ ix.lastID < MaxID
      /\ Handled(new, IF new = ix THEN <<>> ELSE <<PathEntry(new, p)>>)

UpsertDirectory(p) ==
  LET new == UpsertDir(ix, p, 0)
  IN  /\ Running
      /\ ix.lastID < MaxID
      /\ Handled(new, <<PathEntry(new, p)>>)

RemovePath(p) ==
  /\ Running /\ "remove" \in Changes
  /\ p \in DOMAIN ix.lookup
  /\ \E entries \in RemovalLogs(ix, p, p \in Dirs) :
       Handled(Remove(ix, p, p \in Dirs), entries)

\* The entry is submitted before the rename can give up or panic.
RenamePath(old, new) ==
  /\ Running /\ "rename" \in Changes
  /\ old \in DOMAIN ix.lookup
  /\ ~IsPrefix(old, new) /\ ~IsPrefix(new, old)
  /\ LET outcomes == RenameNode(ix, old, new, 0)
         entries == <<RenameEntry(old, new, 0)>>
     IN  \/ \E i \in outcomes : Handled(i, entries)
         \/ /\ outcomes = {}
            /\ mode' = "dying"
            /\ ch' = ch \o entries
            /\ UNCHANGED <<ix, buf, fd, log, snap, save, pos, bounds>>

SaveInvalid(name) ==
  LET new == SaveName(ix, name, 0)
  IN  /\ Running /\ "name" \in Changes
      /\ ix.lastID < MaxID
      /\ Handled(new, <<InvalidEntry(SetRealID(new.lastID, FALSE), name, 0)>>)

\* Mutant: the deletion is not logged.
DropInvalidUnlogged(id) ==
  /\ Running
  /\ ix.nodes[id].invalid
  /\ Handled(DeleteInvalid(ix, id), <<>>)

DropInvalid(id) ==
  /\ Running
  /\ ix.nodes[id].invalid
  /\ Handled(DeleteInvalid(ix, id), <<InvalidDelete(id, ix.nodes[id].name)>>)

-----------------------------------------------------------------------------
(* The writer.                                                             *)

Alive == mode \in {"up", "dying", "replay"}

\* writeEntry: the file is opened once, and created if it is not there.
Take ==
  /\ Alive
  /\ ch # <<>>
  /\ ch' = Tail(ch)
  /\ buf' = Append(buf, Head(ch))
  /\ fd' = IF fd = "none" THEN "linked" ELSE fd
  /\ UNCHANGED <<ix, mode, log, snap, save, pos, bounds>>

\* Entries behind a half written one complete it only if its rest comes first.
Appended(entries, more) ==
  IF more = <<>> THEN entries
  ELSE IF Head(more).op = "rest"
  THEN SQ!Front(entries) \o <<Head(more).of>> \o Tail(more)
  ELSE entries \o more

\* What is written to an unlinked file is gone.
Written(more) ==
  log' = IF fd = "linked" THEN Appended(log, more) ELSE log

\* The tick, or FlushWAL.
Flush ==
  /\ Alive
  /\ buf # <<>>
  /\ Written(buf)
  /\ buf' = <<>>
  /\ UNCHANGED <<ix, mode, ch, fd, snap, save, pos, bounds>>

\* A full buffer is written out in the middle of its last entry.
Fill ==
  /\ Alive /\ FillsUp
  /\ buf # <<>> /\ SQ!Last(buf).op # "rest"
  /\ Written(Append(SQ!Front(buf), Half))
  /\ buf' = <<Rest(SQ!Last(buf))>>
  /\ UNCHANGED <<ix, mode, ch, fd, snap, save, pos, bounds>>

-----------------------------------------------------------------------------
(* The persistence task.                                                   *)

Task(pc, exit) == [pc |-> pc, due |-> {}, nodes |-> << >>, exit |-> exit]
Idle == Task("idle", FALSE)

\* CheckAndCheckpoint reads the size of the log before it flushes it, and
\* does no more than a Flush for one below the threshold.
Checkpoint ==
  /\ mode = "up" /\ save.pc = "idle" /\ saves < MaxSaves
  /\ Len(log) >= WALThreshold
  /\ save' = Task("flush", FALSE)
  /\ saves' = saves + 1
  /\ UNCHANGED <<ix, mode, writer, snap, pos, starts>>

FlushWAL ==
  /\ mode = "up" /\ save.pc = "flush"
  /\ Written(buf)
  /\ buf' = <<>>
  /\ save' = [save EXCEPT !.pc = "collect"]
  /\ UNCHANGED <<ix, mode, ch, fd, snap, pos, bounds>>

\* A signal goes straight to the snapshot, and exits after it.
Signal ==
  /\ mode = "up" /\ save.pc = "idle" /\ saves < MaxSaves
  /\ save' = Task("collect", TRUE)
  /\ saves' = saves + 1
  /\ UNCHANGED <<ix, mode, writer, snap, pos, starts>>

\* The nodes that are written to a snapshot.
Kept == DOMAIN ix.nodes \ {NoId}

\* SaveSnapshot ranges over Nodes without mu, and handlers run meanwhile.  Go
\* then produces every node that was there when the loop began, unless it is
\* removed before its turn, and may produce or skip any that is added.  (Its
\* runtime may also stop the program on seeing the two accesses: a Crash.)
CollectBegin ==
  /\ mode = "up" /\ save.pc = "collect"
  /\ save' = [save EXCEPT !.pc = "copy", !.due = Kept]
  /\ UNCHANGED <<ix, mode, writer, snap, pos, bounds>>

CollectNode(x) ==
  /\ mode = "up" /\ save.pc = "copy"
  /\ x \in Kept \ DOMAIN save.nodes
  /\ save' = [save EXCEPT !.nodes = Put(@, x, ix.nodes[x])]
  /\ UNCHANGED <<ix, mode, writer, snap, pos, bounds>>

CollectEnd ==
  /\ mode = "up" /\ save.pc = "copy"
  /\ save.due \cap Kept \subseteq DOMAIN save.nodes
  /\ save' = [save EXCEPT !.pc = "replace", !.due = {}]
  /\ UNCHANGED <<ix, mode, writer, snap, pos, bounds>>

\* The temporary file is renamed over the snapshot.
Replace ==
  /\ mode = "up" /\ save.pc = "replace"
  /\ snap' = save.nodes
  /\ save' = [save EXCEPT !.pc = "unlink"]
  /\ UNCHANGED <<ix, mode, writer, pos, bounds>>

\* What memory and the process's own buffers hold is gone.
Gone ==
  /\ mode' = "down" /\ ix' = EmptyIndex
  /\ ch' = <<>> /\ buf' = <<>> /\ fd' = "none"

\* The log is unlinked; the writer keeps the file it has open.
UnlinkWAL ==
  /\ mode = "up" /\ save.pc = "unlink"
  /\ log' = <<>>
  /\ save' = Idle
  /\ IF save.exit THEN Gone
     ELSE /\ fd' = IF fd = "linked" THEN "unlinked" ELSE fd
          /\ UNCHANGED <<ix, mode, ch, buf>>
  /\ UNCHANGED <<snap, pos, bounds>>

-----------------------------------------------------------------------------
(* Crash and start.                                                        *)

Crash ==
  /\ Alive \/ mode = "failed"
  /\ starts < MaxStarts
  /\ Gone
  /\ save' = Idle /\ pos' = 0
  /\ UNCHANGED <<log, snap, bounds>>

Start ==
  /\ mode = "down" /\ starts < MaxStarts
  /\ starts' = starts + 1
  /\ mode' = "replay"
  /\ ix' \in Loaded(snap)
  /\ UNCHANGED <<writer, snap, save, pos, saves>>

\* A replayed deletion runs Remove, which submits it to the log once more.
ReplayStep ==
  /\ mode = "replay"
  /\ pos < Len(Sound(log))
  /\ LET e == log[pos + 1]
         outcomes == Replayed(ix, e)
         logs == IF e.op = "delete" THEN RemovalLogs(ix, e.path, IsDir(e.id)) ELSE {<<>>}
     IN  IF outcomes = {}
         THEN mode' = "failed" /\ UNCHANGED <<ix, ch, pos>>
         ELSE /\ ix' \in outcomes
              /\ \E entries \in logs : ch' = ch \o entries
              /\ pos' = pos + 1
              /\ UNCHANGED mode
  /\ UNCHANGED <<buf, fd, log, snap, save, bounds>>

\* With no node recovered the start is a cold one, and indexes the root.
Begin(i, start) ==
  LET rooted == UpsertDir(i, Root, 0)
  IN  IF DOMAIN i.nodes # {} THEN ix' = i /\ ch' = start
      ELSE /\ ix' = rooted
           /\ ch' = Append(start, NodeEntry("upsert", rooted.lookup[Root],
                                            rooted.nodes[rooted.lookup[Root]], Root))

ReplayEnd ==
  /\ mode = "replay"
  /\ pos = Len(Sound(log))
  /\ mode' = "up" /\ pos' = 0
  /\ Begin(ix, ch)
  /\ UNCHANGED <<buf, fd, log, snap, save, bounds>>

Init ==
  /\ ix = EmptyIndex /\ mode = "replay"
  /\ ch = <<>> /\ buf = <<>> /\ fd = "none"
  /\ log = <<>> /\ snap = << >>
  /\ save = Idle /\ pos = 0 /\ starts = 0 /\ saves = 0

Next ==
  \/ \E p \in Files, size \in Sizes : UpsertFile(p, size)
  \/ \E p \in Dirs : UpsertDirectory(p)
  \/ \E p \in Dirs \cup Files : RemovePath(p)
  \/ \E old \in Dirs, new \in Dirs : RenamePath(old, new)
  \/ \E old \in Files, new \in Files : RenamePath(old, new)
  \/ \E name \in HandNames : SaveInvalid(name)
  \/ \E id \in DOMAIN ix.nodes : DropInvalid(id)
  \/ Take \/ Flush \/ Fill
  \/ Checkpoint \/ FlushWAL \/ Signal
  \/ CollectBegin \/ CollectEnd \/ Replace \/ UnlinkWAL
  \/ \E x \in DOMAIN ix.nodes : CollectNode(x)
  \/ Crash \/ Start \/ ReplayStep \/ ReplayEnd

Spec == Init /\ [][Next]_vars

-----------------------------------------------------------------------------
(* What a start would make of the files.                                   *)

Recovered ==
  SQ!FoldLeft(LAMBDA is, e : UNION {Replayed(i, e) : i \in is}, Loaded(snap), Sound(log))

\* An index as searches and later handlers see it, sizes aside: its nodes,
\* lookups, live children, parents and n-grams.
Image(i) ==
  [nodes  |-> [x \in DOMAIN i.nodes \ {NoId} |-> [i.nodes[x] EXCEPT !.size = 0]],
   lookup |-> i.lookup,
   links  |-> {e \in (DOMAIN i.tree) \X (DOMAIN i.nodes) : e[2] \in i.tree[e[1]]},
   child  |-> [x \in DOMAIN i.child \cap DOMAIN i.nodes |-> i.child[x]],
   grams  |-> i.grams]

\* Nothing the handlers submitted is on its way to the log.
Quiet == mode = "up" /\ ch = <<>> /\ buf = <<>>

-----------------------------------------------------------------------------
(* Type invariant and safety.                                              *)

\* The index, the pipeline to the log and the tasks have their types.
TypeOK ==
  /\ IndexType(ix)
  /\ mode \in {"up", "dying", "down", "replay", "failed"}
  /\ fd \in {"none", "linked", "unlinked"}
  /\ save.pc \in {"idle", "flush", "collect", "copy", "replace", "unlink"}
  /\ DOMAIN snap \cup DOMAIN save.nodes \cup save.due \subseteq Id
  /\ pos \in 0 .. Len(log)

\* Once the writer has caught up, a crash loses nothing: snapshot and log
\* rebuild the index in memory, also when an older log is replayed over a
\* snapshot that already contains it (ReplayWAL 103-223 against the handlers
\* that submit), and over one that has a child without its directory, whose
\* entry is still in the log.  A writer left with an unlinked file is
\* ClearedSafely's matter.
Recoverable ==
  (Quiet /\ fd # "unlinked") =>
    \E i \in Recovered : Image(i) = Image(ix)

\* Nothing but the nodes need be saved: lookups, child sets, parents and
\* n-grams are what LoadSnapshot (365-448) rebuilds from them, as long as no
\* node was cut off by a failed rename or shadowed by one onto its path.
RoundTrip ==
  LET placed == {x \in Kept : ~ix.nodes[x].invalid}
      whole == \A x \in placed : x \in At(ix.tree, ix.nodes[x].parent)
                                 /\ ix.nodes[x].path \in DOMAIN ix.lookup
  IN  whole => \E i \in Loaded([x \in Kept |-> ix.nodes[x]]) : Image(i) = Image(ix)

\* A restart resumes the id counter at or above every id it has recovered, so
\* that no new node overwrites one (878-882, 430-436).  Not so for invalid
\* names in the log: MarkNodeInvalid leaves the counter alone.
IdsBelowCounter ==
  mode = "up" => \A id \in DOMAIN ix.nodes : id[1] =< ix.lastID

-----------------------------------------------------------------------------
(* What a comment of the code claims, and a run refutes.                   *)

\* file_save.go:46-47 "after the snapshot is saved, the WAL is safely cleared:
\* rename the old log away, then create a new one": with the checkpoint over
\* and the writer caught up, snapshot and log hold what memory holds.
ClearedSafely ==
  (Quiet /\ save.pc = "idle") => \E i \in Recovered : Image(i) = Image(ix)
=============================================================================
