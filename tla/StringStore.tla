---------------------------- MODULE StringStore ----------------------------
(***************************************************************************)
(* The string store (src/main/file_string_store.go) under the index.  The  *)
(* index never holds a path: nodes, PathMap and the watch tables hold an   *)
(* offset and a length into one block of bytes, to which every insertion   *)
(* and rename appends and which the nightly Compact rewrites together with *)
(* everything that points into it.  The event loop follows such pointers   *)
(* without the lock mu.                                                    *)
(*                                                                         *)
(* A byte is abstracted to a path component: a path of n components has    *)
(* length n and its name is the last of them, so the offset of the name is *)
(* computed from two lengths, as in the code.  The hash of a path is       *)
(* injective.  A directory's inotify descriptor is its node's id.          *)
(*                                                                         *)
(* FileIndex is what all this is to look like from outside.                *)
(***************************************************************************)
EXTENDS IndexOps

Seqs == INSTANCE SequencesExt

CONSTANTS
  Root, Paths, KindsOf, Sizes, HandNames, Times, MaxID,   \* as in FileIndex
  MaxData    \* bound: no handler makes the block longer than this

\* As in FileIndex; the paths named lie below the root, so that none of their
\* parents is the empty path.
ASSUME StoreAssumption ==
  /\ Root \in Path \ {<<>>}
  /\ \A p \in Paths : p \in Path /\ Len(p) > 1
  /\ KindsOf \in [Paths -> SUBSET BOOLEAN]
  /\ HandNames \subseteq Names
  /\ Sizes \subseteq Nat
  /\ Times \subseteq Int

VARIABLES
  st,        \* everything mu guards, the block and the watch tables
  up,        \* FALSE once a handler or the event loop has panicked
  moved,     \* while Compact runs: old path key -> new path key; else NoMove
  reader,    \* the path key the event loop has fetched and not yet followed
  races      \* history: the ways in which Compact has already gone wrong

vars == <<st, up, moved, reader, races>>

\* Orders in which Go may range over a map with these keys.  Bound: those that
\* begin anywhere in one order and go round; who comes first is what matters.
Rounds(S) ==
  LET some == Seqs!SetToSeq(S)
  IN  {SubSeq(some, n + 1, Len(some)) \o SubSeq(some, 1, n) : n \in 0 .. Len(some) - 1}

-----------------------------------------------------------------------------
(* Path keys, the block, and the lookups through both maps.                *)

\* GetUint64(off, len) packs the two numbers; the key 0 is "not found".
GetUint64(off, len) == <<off, len>>
NoKey == GetUint64(0, 0)

NoMove == << >>
NoRead == [key |-> NoKey, path |-> <<>>]

InBlock(data, off, len) == off + len =< Len(data)

\* Slicing beyond the block panics: ReadPath looks first, TypeOK says that no
\* handler does it, and here it yields nothing.
Get(data, off, len) ==
  IF InBlock(data, off, len) THEN SubSeq(data, off + 1, off + len) ELSE <<>>
GetPathUint64(data, key) == IF key[2] = 0 THEN <<>> ELSE Get(data, key[1], key[2])

PathKey(node) == GetUint64(node.pathOff, node.pathLen)
PathOf(s, id) == GetPathUint64(s.data, PathKey(s.nodes[id]))
NameOf(s, id) ==
  LET name == Get(s.data, s.nodes[id].nameOff, s.nodes[id].nameLen)
  IN  IF name = <<>> THEN NoName ELSE Base(name)

\* GetPathOff(p), and PathMap[key] with 0 for an absent key.
GetPathOff(s, p) == IF p \in DOMAIN s.pathHash THEN s.pathHash[p] ELSE NoKey
IdAt(s, key) == IF key \in DOMAIN s.pathMap THEN s.pathMap[key] ELSE NoId

StoredZero == [parent |-> NoId, size |-> 0, mtime |-> 0, invalid |-> FALSE,
               pathOff |-> 0, pathLen |-> 0, nameOff |-> 0, nameLen |-> 0]

\* node with the path PutPath has just stored, and its name inside that path.
Placed(node, off, len) ==
  [node EXCEPT !.pathOff = off, !.pathLen = len,
               !.nameOff = off + len - 1, !.nameLen = 1]

\* UpsertParentSize over stored nodes.
Charge(s, id, delta) ==
  LET sized == UpsertParentSize(s.nodes, s.child, id, delta)
  IN  [s EXCEPT !.nodes =
         IF Ancestors(s.child, id) \subseteq DOMAIN s.nodes THEN sized
         ELSE Put(sized, NoId, [StoredZero EXCEPT !.size = delta])]

\* PutWd and DeleteWd.
PutWd(s, key, wd) ==
  [s EXCEPT !.wdMap = Put(@, wd, key), !.pathToWd = Put(@, key, wd)]
DeleteWd(s, key) ==
  IF key \notin DOMAIN s.pathToWd THEN s
  ELSE [s EXCEPT !.wdMap = Without(@, {s.pathToWd[key]}), !.pathToWd = Without(@, {key})]
AddWatch(s, key, wd) == IF key \in DOMAIN s.pathToWd THEN s ELSE PutWd(s, key, wd)

\* delete(PathMap, key) and delete(PathHashIdMap, hash) for the paths in P.
Forget(s, P) ==
  [s EXCEPT !.pathMap = Without(@, {GetPathOff(s, p) : p \in P}), !.pathHash = Without(@, P)]

-----------------------------------------------------------------------------
(* The handlers, as IndexOps has them, on offsets.                         *)

EmptyStore == [nodes |-> << >>, pathMap |-> << >>, pathHash |-> << >>, tree |-> << >>,
               child |-> << >>, grams |-> {}, lastID |-> 0, data |-> << >>,
               wdMap |-> << >>, pathToWd |-> << >>]

\* PutPath appends p, and the fresh key enters both maps for id.
Store(s, p, id) ==
  LET key == GetUint64(Len(s.data), Len(p))
  IN  [s EXCEPT !.data = @ \o p, !.pathMap = Put(@, key, id), !.pathHash = Put(@, p, key)]

StoreNew(s, p, isDir, size, mtime) ==
  LET id == SetRealID(s.lastID + 1, isDir)
      parent == IdAt(s, GetPathOff(s, Dir(p)))
      node == [StoredZero EXCEPT !.parent = parent, !.size = size, !.mtime = mtime]
  IN  [Store(s, p, id) EXCEPT !.nodes = Put(@, id, Placed(node, Len(s.data), Len(p))),
                              !.tree = Link(@, parent, id),
                              !.child = Put(@, id, parent),
                              !.grams = AddToIndex(@, Base(p), id),
                              !.lastID = @ + 1]

StoreUpsert(s, p, info) ==
  LET key == GetPathOff(s, p)
      id == IdAt(s, key)
      node == s.nodes[id]
      new == StoreNew(s, p, info.dir, info.size, info.mtime)
  IN  IF key = NoKey \/ key \notin DOMAIN s.pathMap
      THEN Charge(new, IdAt(new, GetPathOff(new, p)), info.size)
      ELSE IF node.size = info.size /\ node.mtime = info.mtime THEN s
      ELSE [Charge(s, id, info.size - node.size) EXCEPT !.nodes[id] =
              [node EXCEPT !.size = info.size, !.mtime = info.mtime]]

StoreUpsertDir(s, p, mtime) ==
  LET key == GetPathOff(s, p)
      id == IdAt(s, key)
      new == StoreNew(s, p, TRUE, 0, mtime)
      own == GetPathOff(new, p)
  IN  IF key = NoKey THEN AddWatch(new, own, IdAt(new, own))
      ELSE AddWatch(IF key \in DOMAIN s.pathMap
                    THEN [s EXCEPT !.nodes[id].mtime = mtime] ELSE s, key, id)

\* Every node of the subtree loses both map entries of the path it spells; of
\* the watches only that of the directory itself goes.
StoreRemoveDir(s, key, id) ==
  LET gone == WalkDeleted(s, id)
      live == gone \cap DOMAIN s.nodes
      charged == Charge(s, id, -s.nodes[id].size)
      cut == Forget(charged, {PathOf(s, x) : x \in live})
  IN  DeleteWd([cut EXCEPT !.nodes = Without(@, gone),
                           !.tree = Without(@, gone),
                           !.child = Without(@, gone),
                           !.grams = {e \in @ : ~ \E x \in live :
                              e[2] = x /\ e[1] \in NameGrams(NameOf(s, x))}], key)

StoreRemoveFile(s, id, p) ==
  LET node == s.nodes[id]
      charged == IF node.parent \in DOMAIN s.tree THEN Charge(s, id, -node.size) ELSE s
  IN  [Forget(charged, {p}) EXCEPT !.nodes = Without(@, {id}),
                                   !.tree = Without(Unlink(@, node.parent, id), {id}),
                                   !.child = Without(@, {id}),
                                   !.grams = RemoveFromIndex(@, NameOf(s, id), id)]

StoreRemove(s, p, isDir) ==
  LET key == GetPathOff(s, p)
  IN  IF key \notin DOMAIN s.pathMap THEN s
      ELSE IF isDir THEN StoreRemoveDir(s, key, s.pathMap[key])
      ELSE StoreRemoveFile(s, s.pathMap[key], p)

\* Mutant: the old path of a child keeps its entries.
MoveChildKeepsPath(s, c, old, new) ==
  LET path == Rebase(PathOf(s, c), old, new)
  IN  [Store(s, path, c) EXCEPT !.nodes[c].pathOff = Len(s.data),
                                !.nodes[c].pathLen = Len(path)]

\* One turn of renameChild: the child's path moves, its name offset stays in
\* the bytes of the path it had, and a directory changes its watch entry.
MoveChild(s, c, old, new) ==
  LET was == PathOf(s, c)
      path == Rebase(was, old, new)
      key == GetUint64(Len(s.data), Len(path))
      put == [Store(Forget(s, {was}), path, c) EXCEPT !.nodes[c].pathOff = Len(s.data),
                                                      !.nodes[c].pathLen = Len(path)]
  IN  IF IsDir(c) THEN PutWd(DeleteWd(put, GetPathOff(s, was)), key, c) ELSE put

\* The orders in which renameChild may reach what it moves: parents first.
Visits(s, ids) ==
  {v \in Seqs!SetToSeqs(ids) : \A i, j \in DOMAIN v : s.child[v[i]] = v[j] => j < i}

MoveAll(s, visit, old, new) ==
  LET after[i \in 0 .. Len(visit)] ==
        IF i = 0 THEN s ELSE MoveChild(after[i - 1], visit[i], old, new)
  IN  after[Len(visit)]

\* RenameNode, with the outcomes of IndexOps!RenameNode: the new path is
\* stored first, whether or not the node can be attached below it.
StoreRename(s, old, new, mtime) ==
  LET key == GetPathOff(s, old)
      id == IdAt(s, key)
      size == s.nodes[id].size
      off == [Charge([Forget(s, {old}) EXCEPT !.grams = RemoveFromIndex(@, Base(old), id)],
                     id, -size)
               EXCEPT !.tree = Unlink(@, s.nodes[id].parent, id)]
      above == GetPathOff(off, Dir(new))
      parent == IdAt(off, above)
      node == [s.nodes[id] EXCEPT !.parent = parent, !.mtime = mtime]
      on == [Store(off, new, id) EXCEPT
               !.nodes[id] = Placed(node, Len(s.data), Len(new)),
               !.tree = Link(@, parent, id), !.child = Put(@, id, parent)]
      seen == IF IsDir(id)
              THEN PutWd(DeleteWd(on, key), GetUint64(Len(s.data), Len(new)), id) ELSE on
      below == Renamed(on.tree, id)
      settled(r) == [Charge(r, id, size) EXCEPT !.grams = AddToIndex(@, Base(new), id)]
  IN  IF key \notin DOMAIN s.pathMap THEN {s}
      ELSE IF above \notin DOMAIN off.pathMap THEN {[off EXCEPT !.data = @ \o new]}
      ELSE IF \/ \E c \in below : c \notin DOMAIN on.nodes \/ on.nodes[c].pathLen < Len(old)
              \/ id \in Ancestors(on.child, id)
      THEN {}
      ELSE {settled(MoveAll(seen, v, old, new)) : v \in Visits(on, below)}

\* PutName stores the bare name; the node has no path.
StoreName(s, name, mtime) ==
  LET id == SetRealID(s.lastID + 1, FALSE)
  IN  [s EXCEPT !.nodes = Put(@, id, [StoredZero EXCEPT !.mtime = mtime, !.invalid = TRUE,
                                        !.nameOff = Len(s.data), !.nameLen = 1]),
                !.data = Append(@, name),
                !.grams = AddToIndex(@, name, id),
                !.lastID = @ + 1]

StoreDropName(s, id) ==
  IF id \in DOMAIN s.nodes /\ s.nodes[id].invalid
  THEN [s EXCEPT !.nodes = Without(@, {id}),
                 !.grams = RemoveFromIndex(@, NameOf(s, id), id)]
  ELSE s

-----------------------------------------------------------------------------
(* Compact.                                                                *)

\* calculateUsedBytes, and the threshold of 20 percent waste.
Width(node) == IF node.invalid THEN node.nameLen ELSE node.pathLen
UsedBytes(s) == Seqs!MapThenSumSet(LAMBDA id : Width(s.nodes[id]), DOMAIN s.nodes)
Worthwhile(s) == 5 * (Len(s.data) - UsedBytes(s)) >= Len(s.data)

Bytes(s, id) ==
  LET node == s.nodes[id]
  IN  IF node.invalid THEN Get(s.data, node.nameOff, node.nameLen) ELSE PathOf(s, id)

\* Mutant: the name offset is left where it was.
MovedToPathOnly(node, off) ==
  IF node.invalid THEN [node EXCEPT !.nameOff = off] ELSE [node EXCEPT !.pathOff = off]

\* Mutant: the name starts where the path ends.
MovedToEnd(node, off) ==
  IF node.invalid THEN [node EXCEPT !.nameOff = off]
  ELSE [node EXCEPT !.pathOff = off, !.nameOff = off + node.pathLen]

\* node with its bytes at off: a path carries its name along.
MovedTo(node, off) ==
  IF node.invalid THEN [node EXCEPT !.nameOff = off]
  ELSE [node EXCEPT !.pathOff = off, !.nameOff = off + node.pathLen - node.nameLen]

\* The nodes and the block after a pass over Nodes in this order.
Rewritten(s, order) ==
  LET off[i \in 1 .. Len(order) + 1] ==
        IF i = 1 THEN 0 ELSE off[i - 1] + Width(s.nodes[order[i - 1]])
      at == [id \in DOMAIN s.nodes |-> off[CHOOSE i \in DOMAIN order : order[i] = id]]
  IN  [s EXCEPT !.data = Seqs!FlattenSeq([i \in DOMAIN order |-> Bytes(s, order[i])]),
                !.nodes = [id \in DOMAIN @ |-> MovedTo(@[id], at[id])]]

\* Nodes with a path, and among them those their path does not lead to.
Pathed(s) == {id \in DOMAIN s.nodes : ~s.nodes[id].invalid}
Stranded(s) == {id \in Pathed(s) \ {NoId} : IdAt(s, GetPathOff(s, PathOf(s, id))) # id}

\* Mutant: the watch tables keep their keys.
UpdatePathToWdNot(s, keys) == s

\* updatePathToWd: entries of keys that were not moved are dropped.
UpdatePathToWd(s, keys) ==
  LET wds == {wd \in DOMAIN s.wdMap : s.wdMap[wd] \in DOMAIN keys}
      old == DOMAIN s.pathToWd \cap DOMAIN keys
  IN  [s EXCEPT !.wdMap = [wd \in wds |-> keys[s.wdMap[wd]]],
                !.pathToWd = [key \in {keys[k] : k \in old} |->
                                s.pathToWd[CHOOSE k \in old : keys[k] = key]]]

\* rebuildAllMaps: every node with a path, Nodes[0] with its empty one
\* included; of two with the same path the one visited last owns it.
RebuildAllMaps(s) ==
  LET path == [id \in Pathed(s) |-> PathOf(s, id)]
      paths == {path[id] : id \in Pathed(s)}
      keys == {PathKey(s.nodes[id]) : id \in Pathed(s)}
      lasts == {W \in SUBSET Pathed(s) : /\ {path[id] : id \in W} = paths
                                         /\ Cardinality(W) = Cardinality(paths)}
  IN  {[s EXCEPT !.pathMap = [key \in keys |->
                    CHOOSE id \in Pathed(s) : PathKey(s.nodes[id]) = key],
                 !.pathHash = [p \in paths |->
                    PathKey(s.nodes[CHOOSE id \in W : path[id] = p])]] : W \in lasts}

-----------------------------------------------------------------------------
(* The system: any handler with any arguments, Compact, the event loop.    *)

\* The index behind the offsets.
Mapped(s) ==
  [nodes  |-> [id \in DOMAIN s.nodes |->
                 LET node == s.nodes[id]
                 IN  [parent |-> node.parent, size |-> node.size, mtime |-> node.mtime,
                      invalid |-> node.invalid,
                      path |-> PathOf(s, id), name |-> NameOf(s, id)]],
   lookup |-> LET known == {p \in DOMAIN s.pathHash \ {<<>>} :
                              s.pathHash[p] \in DOMAIN s.pathMap}
              IN  [p \in known |-> s.pathMap[s.pathHash[p]]],
   tree   |-> s.tree,
   child  |-> s.child,
   grams  |-> s.grams,
   lastID |-> s.lastID]

Index == INSTANCE FileIndex WITH ix <- Mapped(st)

Init ==
  /\ \E t \in Times : st = StoreUpsertDir(EmptyStore, Root, t)
  /\ up = TRUE
  /\ moved = NoMove
  /\ reader = NoRead
  /\ races = {}

\* mu is free; bound: nothing more happens after a race.
Free == up /\ moved = NoMove /\ races = {}

\* A handler's outcomes; none is a panic.  Bound: no handler runs while the
\* event loop holds a key, as appending changes nothing behind a key.
Handle(outcomes) ==
  /\ Free /\ reader = NoRead
  /\ IF outcomes = {} THEN up' = FALSE /\ UNCHANGED st
     ELSE st' \in outcomes /\ Len(st'.data) =< MaxData /\ UNCHANGED up
  /\ UNCHANGED <<moved, reader, races>>

UpsertCall(p, info) ==
  /\ FALSE \in KindsOf[p] /\ info.dir \in KindsOf[p] /\ st.lastID < MaxID
  /\ Handle({StoreUpsert(st, p, info)})

UpsertDirCall(p, mtime) ==
  /\ TRUE \in KindsOf[p] /\ st.lastID < MaxID
  /\ Handle({StoreUpsertDir(st, p, mtime)})

RemoveCall(p, isDir) ==
  /\ isDir \in KindsOf[p]
  /\ Handle({StoreRemove(st, p, isDir)})

RenameCall(old, new, mtime) ==
  /\ GetPathOff(st, old) # NoKey => IsDir(IdAt(st, GetPathOff(st, old))) \in KindsOf[new]
  /\ Handle(StoreRename(st, old, new, mtime))

SaveNameCall(name, mtime) ==
  /\ st.lastID < MaxID
  /\ Handle({StoreName(st, name, mtime)})

DeleteInvalidCall(id) == Handle({StoreDropName(st, id)})

\* Compact holds mu throughout.  First it rewrites the nodes, in whatever
\* order Go ranges over them, and swaps the block.  Its guard is in Next.
CompactBlock(order) ==
  /\ LET new == Rewritten(st, order)
         keys == [key \in {PathKey(st.nodes[id]) : id \in Pathed(st)} |->
                    PathKey(new.nodes[CHOOSE id \in Pathed(st) : PathKey(st.nodes[id]) = key])]
     IN  /\ st' = new
         /\ moved' = keys
         /\ races' = races \cup (IF Stranded(st) # {} THEN {"stranded"} ELSE {})
                           \cup (IF \E key \in DOMAIN keys : keys[key] = NoKey
                                 THEN {"zero"} ELSE {})
  /\ UNCHANGED <<up, reader>>

\* Then the watch tables, under wdMu, and the two lookup maps.
CompactMaps ==
  /\ up /\ races = {}
  /\ moved # NoMove
  /\ st' \in RebuildAllMaps(UpdatePathToWd(st, moved))
  /\ moved' = NoMove
  /\ UNCHANGED <<up, reader, races>>

\* The event loop takes the key of the directory an event came from ...
TakeKey(wd) ==
  /\ up /\ races = {} /\ reader = NoRead
  /\ LET key == st.wdMap[wd]
         now == IF moved = NoMove THEN key
                ELSE IF key \in DOMAIN moved THEN moved[key] ELSE NoKey
     IN  reader' = [key |-> key, path |-> GetPathUint64(st.data, now)]
  /\ UNCHANGED <<st, up, moved, races>>

\* ... and reads the path at it: of another block, it may be any path, or lie
\* beyond the end, which panics.
ReadPath ==
  /\ up /\ races = {} /\ reader # NoRead
  /\ LET fits == InBlock(st.data, reader.key[1], reader.key[2])
     IN  /\ races' = IF fits /\ GetPathUint64(st.data, reader.key) = reader.path
                     THEN races ELSE races \cup {"torn"}
         /\ up' = fits
  /\ reader' = NoRead
  /\ UNCHANGED <<st, moved>>

Next ==
  \/ \E p \in Paths, info \in Index!Info : UpsertCall(p, info)
  \/ \E p \in Paths, t \in Times : UpsertDirCall(p, t)
  \/ \E p \in Paths, isDir \in BOOLEAN : RemoveCall(p, isDir)
  \/ \E m \in Index!Renames, t \in Times : RenameCall(m[1], m[2], t)
  \/ \E name \in HandNames, t \in Times : SaveNameCall(name, t)
  \/ \E id \in DOMAIN st.nodes : DeleteInvalidCall(id)
  \/ Free /\ Worthwhile(st) /\ \E order \in Rounds(DOMAIN st.nodes) : CompactBlock(order)
  \/ CompactMaps
  \/ \E wd \in DOMAIN st.wdMap : TakeKey(wd)
  \/ ReadPath

Spec == Init /\ [][Next]_vars

-----------------------------------------------------------------------------
(* Properties.                                                             *)

\* The maps have their types, and no offset or length leaves the block.
TypeOK ==
  /\ IndexType(Mapped(st)) /\ up \in BOOLEAN
  /\ races \subseteq {"stranded", "zero", "torn"}
  /\ \A id \in DOMAIN st.nodes :
       LET node == st.nodes[id]
       IN  /\ InBlock(st.data, node.pathOff, node.pathLen)
           /\ InBlock(st.data, node.nameOff, node.nameLen)
  /\ DOMAIN st.wdMap \subseteq Id

\* Through both maps a path leads to a node whose own bytes spell it and end
\* in its name, whatever was renamed, removed and compacted in between
\* (file_string_store.go:114-130, 197-215).  Not the empty path: Compact gives
\* it the key of Nodes[0], which UpsertParentSize may reset afterwards.
KeysResolve ==
  moved = NoMove /\ races = {} =>
    /\ \A p \in DOMAIN st.pathHash \ {<<>>} :
         LET key == st.pathHash[p]
         IN  /\ key \in DOMAIN st.pathMap
             /\ st.pathMap[key] \in DOMAIN st.nodes
             /\ PathKey(st.nodes[st.pathMap[key]]) = key
             /\ GetPathUint64(st.data, key) = p
    /\ \A id \in Pathed(st) \ {NoId} :
         PathOf(st, id) # <<>> /\ NameOf(st, id) = Base(PathOf(st, id))

\* A watch of an indexed directory carries the key of its node, and leads
\* back from it, so that its events are given the directory's present path
\* (file_string_store.go:164-193, file_watcher.go:790-819).
WatchPathsTrue ==
  moved = NoMove /\ races = {} =>
    \A wd \in DOMAIN st.wdMap \cap DOMAIN st.nodes :
      /\ st.wdMap[wd] = PathKey(st.nodes[wd])
      /\ st.wdMap[wd] \in DOMAIN st.pathToWd /\ st.pathToWd[st.wdMap[wd]] = wd

\* Seen through its offsets the system is the index of FileIndex: a handler
\* is a handler, Compact is no step at all, unless it has just gone wrong in
\* one of the ways named in races.
ImplementsIndex ==
  Index!Init /\ [][Index!Next \/ races' # {}]_<<Mapped(st), up>>
=============================================================================
