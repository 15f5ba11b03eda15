------------------------------ MODULE IndexOps ------------------------------
(***************************************************************************)
(* The in-memory file index (src/main/file_entity.go) as a value, and the  *)
(* critical sections that change it (src/main/file_watcher.go, main.go) as *)
(* operators from one value to the next.  Every handler holds the global   *)
(* lock mu from its first read of the index to its last write, so one      *)
(* operator is one atomic step of whatever module composes it.             *)
(*                                                                         *)
(* An index is a record                                                    *)
(*   nodes   id -> FileNode             (Nodes)                            *)
(*   lookup  path -> id                 (PathHashIdMap, then PathMap)      *)
(*   tree    parent -> set of children  (TreeMap)                          *)
(*   child   child -> parent            (ChildTreeMap)                     *)
(*   grams   set of <<gram, id>>        (the n-gram bitmaps)               *)
(*   lastID  the id counter                                                *)
(* A path is the sequence of its components: filepath.Dir drops the last,  *)
(* filepath.Base is the last, and slicing off an old prefix keeps the      *)
(* components behind it.  Outside StringStore.Compact the two lookup maps  *)
(* are always written and deleted together for one freshly appended key,   *)
(* so their composition is kept as the single function lookup.             *)
(***************************************************************************)
EXTENDS Integers, Sequences, FiniteSets, Maps

CONSTANTS
  Names,     \* file names, one path component each
  Grams,     \* search n-grams
  GramsOf    \* the n-grams generateNgrams cuts from a name

ASSUME GramsAssumption == GramsOf \in [Names -> SUBSET Grams]

-----------------------------------------------------------------------------
(* Identifiers and paths.                                                  *)

Id == Nat \X BOOLEAN

\* IsDirMask is bit 63 of an id: here the second component.
SetRealID(n, isDir) == <<n, isDir>>
IsDir(id) == id[2]

\* The zero value of a uint64: the parent of whatever has no indexed parent.
NoId == <<0, FALSE>>

Path == Seq(Names)
Dir(p) == SubSeq(p, 1, Len(p) - 1)
Base(p) == p[Len(p)]
IsPrefix(p, q) == Len(p) =< Len(q) /\ SubSeq(q, 1, Len(p)) = p

\* newPath + childOldPath[oldPathLen:]
Rebase(p, old, new) == new \o SubSeq(p, Len(old) + 1, Len(p))

\* The least set that holds start and, with x, the set succ[x].  Three steps
\* close it over what a TLC instance holds; in general it is the intersection
\* of all closed sets.
Spread(T, succ) == T \cup UNION {succ[y] : y \in T}
Closed(T, succ) == \A y \in T : succ[y] \subseteq T

Reach(start, succ) ==
  LET near == Spread(Spread(Spread(start, succ), succ), succ)
      closed == {S \in SUBSET DOMAIN succ : start \subseteq S /\ Closed(S, succ)}
  IN  IF Closed(near, succ) THEN near
      ELSE {x \in DOMAIN succ : \A S \in closed : x \in S}

-----------------------------------------------------------------------------
(* FileNode, the empty index, and the helpers every handler uses.          *)

NoName == "noname"

Node == [parent : Id, size : Int, mtime : Int, path : Path,
         name : Names \cup {NoName}, invalid : BOOLEAN]

\* What Nodes[x] yields for an absent x.
ZeroNode == [parent |-> NoId, size |-> 0, mtime |-> 0, path |-> <<>>,
             name |-> NoName, invalid |-> FALSE]

EmptyIndex == [nodes |-> << >>, lookup |-> << >>, tree |-> << >>,
               child |-> << >>, grams |-> {}, lastID |-> 0]

\* PathMap[GetPathOff(p)]
LookupId(ix, p) == IF p \in DOMAIN ix.lookup THEN ix.lookup[p] ELSE NoId

NameGrams(name) == IF name \in Names THEN GramsOf[name] ELSE {}
AddToIndex(grams, name, id) == grams \cup (NameGrams(name) \X {id})
RemoveFromIndex(grams, name, id) == grams \ (NameGrams(name) \X {id})

\* TreeMap[parent][id] = struct{}{} and delete(TreeMap[parent], id)
Link(tree, parent, id) == Put(tree, parent, At(tree, parent) \cup {id})
Unlink(tree, parent, id) ==
  IF parent \in DOMAIN tree THEN Put(tree, parent, tree[parent] \ {id}) ELSE tree

\* The ids UpsertParentSize visits: up the child map until it has no entry.
Ancestors(child, id) ==
  LET all == DOMAIN child \cup {child[c] : c \in DOMAIN child} \cup {id}
      up == [x \in all |-> IF x \in DOMAIN child THEN {child[x]} ELSE {}]
  IN  Reach(up[id], up)

\* A visited parent that is not in Nodes is read as the zero node, whose own
\* id is 0, and written back as such: it becomes the new Nodes[0].
UpsertParentSize(nodes, child, id, delta) ==
  LET up == Ancestors(child, id)
      grown == [x \in DOMAIN nodes |->
                  IF x \in up THEN [nodes[x] EXCEPT !.size = @ + delta]
                  ELSE nodes[x]]
  IN  IF up \subseteq DOMAIN nodes THEN grown
      ELSE Put(grown, NoId, [ZeroNode EXCEPT !.size = delta])

-----------------------------------------------------------------------------
(* Upsert and UpsertDir.                                                   *)

\* Mutant: NameOff is left at PathOff, so the name is the whole path.
NewNodeWholePath(parent, p, size, mtime) ==
  [parent |-> parent, size |-> size, mtime |-> mtime, path |-> p,
   name |-> p, invalid |-> FALSE]

NewNode(parent, p, size, mtime) ==
  [parent |-> parent, size |-> size, mtime |-> mtime, path |-> p,
   name |-> Base(p), invalid |-> FALSE]

\* A fresh id enters every map, below the node its Dir resolves to (or 0).
Insert(ix, p, isDir, size, mtime) ==
  LET id == SetRealID(ix.lastID + 1, isDir)
      parent == LookupId(ix, Dir(p))
  IN  [nodes  |-> Put(ix.nodes, id, NewNode(parent, p, size, mtime)),
       lookup |-> Put(ix.lookup, p, id),
       tree   |-> Link(ix.tree, parent, id),
       child  |-> Put(ix.child, id, parent),
       grams  |-> AddToIndex(ix.grams, Base(p), id),
       lastID |-> ix.lastID + 1]

\* Mutant: the new size of a known file never reaches its ancestors.
UpsertUncharged(ix, p, info) ==
  IF p \in DOMAIN ix.lookup
  THEN [ix EXCEPT !.nodes[ix.lookup[p]].size = info.size,
                  !.nodes[ix.lookup[p]].mtime = info.mtime]
  ELSE LET new == Insert(ix, p, info.dir, info.size, info.mtime)
       IN  [new EXCEPT !.nodes =
              UpsertParentSize(@, new.child, new.lookup[p], info.size)]

\* What os.Stat reports: [dir, size, mtime].  A known path keeps its id, and
\* with it the kind it was first seen with, whatever info.dir says now.
Upsert(ix, p, info) ==
  IF p \in DOMAIN ix.lookup
  THEN LET id == ix.lookup[p]
           node == ix.nodes[id]
           sized == UpsertParentSize(ix.nodes, ix.child, id, info.size - node.size)
       IN  IF node.size = info.size /\ node.mtime = info.mtime THEN ix
           ELSE [ix EXCEPT !.nodes = Put(sized, id,
                   [node EXCEPT !.size = info.size, !.mtime = info.mtime])]
  ELSE LET new == Insert(ix, p, info.dir, info.size, info.mtime)
       IN  [new EXCEPT !.nodes =
              UpsertParentSize(@, new.child, new.lookup[p], info.size)]

\* Watching the directory and starting its scan are left to the watcher.
UpsertDir(ix, p, mtime) ==
  IF p \in DOMAIN ix.lookup
  THEN [ix EXCEPT !.nodes[ix.lookup[p]].mtime = mtime]
  ELSE Insert(ix, p, TRUE, 0, mtime)

-----------------------------------------------------------------------------
(* Remove.                                                                 *)

\* The ids walkDelete reaches: it recurses only below ids that have a node.
WalkDeleted(ix, id) ==
  LET all == DOMAIN ix.tree \cup (UNION {ix.tree[x] : x \in DOMAIN ix.tree}) \cup {id}
  IN  Reach({id}, [x \in all |-> IF x \in DOMAIN ix.nodes THEN At(ix.tree, x) ELSE {}])

\* Mutant: only the lookup of the directory itself is dropped.
RemoveDirKeepsLookups(ix, id) ==
  LET gone == WalkDeleted(ix, id)
      sized == UpsertParentSize(ix.nodes, ix.child, id, -ix.nodes[id].size)
  IN  [ix EXCEPT !.nodes = Without(sized, gone),
                 !.lookup = Without(@, {ix.nodes[id].path}),
                 !.tree = Without(@, gone),
                 !.child = Without(@, gone),
                 !.grams = {e \in @ : e[2] \notin gone}]

\* The subtree loses its nodes, its lookups (by path, whoever they now belong
\* to), its n-grams and its own tree entries.  The id of the directory itself
\* stays in its parent's child set.
RemoveDir(ix, id) ==
  LET gone == WalkDeleted(ix, id)
      live == gone \cap DOMAIN ix.nodes
      sized == UpsertParentSize(ix.nodes, ix.child, id, -ix.nodes[id].size)
  IN  [nodes  |-> Without(sized, gone),
       lookup |-> Without(ix.lookup, {ix.nodes[x].path : x \in live}),
       tree   |-> Without(ix.tree, gone),
       child  |-> Without(ix.child, gone),
       grams  |-> {e \in ix.grams : ~ \E x \in live :
                     e[2] = x /\ e[1] \in NameGrams(ix.nodes[x].name)},
       lastID |-> ix.lastID]

\* Ancestors are charged only when the parent has a child set at all.
RemoveFile(ix, id, p) ==
  LET node == ix.nodes[id]
      sized == IF node.parent \in DOMAIN ix.tree
               THEN UpsertParentSize(ix.nodes, ix.child, id, -node.size)
               ELSE ix.nodes
  IN  [nodes  |-> Without(sized, {id}),
       lookup |-> Without(ix.lookup, {p}),
       tree   |-> Without(Unlink(ix.tree, node.parent, id), {id}),
       child  |-> Without(ix.child, {id}),
       grams  |-> RemoveFromIndex(ix.grams, node.name, id),
       lastID |-> ix.lastID]

Remove(ix, p, isDir) ==
  IF p \notin DOMAIN ix.lookup THEN ix
  ELSE IF isDir THEN RemoveDir(ix, ix.lookup[p])
  ELSE RemoveFile(ix, ix.lookup[p], p)

-----------------------------------------------------------------------------
(* RenameNode.                                                             *)

\* Mutant: the n-grams of the old name stay.
DetachKeepsGrams(ix, id, old) ==
  [ix EXCEPT !.nodes = UpsertParentSize(@, ix.child, id, -ix.nodes[id].size),
             !.lookup = Without(@, {old}),
             !.tree = Unlink(@, ix.nodes[id].parent, id)]

\* Mutant: the node stays in its old parent's child set.
DetachKeepsLink(ix, id, old) ==
  [ix EXCEPT !.nodes = UpsertParentSize(@, ix.child, id, -ix.nodes[id].size),
             !.lookup = Without(@, {old}),
             !.grams = RemoveFromIndex(@, Base(old), id)]

\* What RenameNode does before it knows whether the new parent is indexed:
\* the old path, its n-grams, the charge on the old ancestors and the place
\* in the old parent's child set are gone.
Detach(ix, id, old) ==
  [nodes  |-> UpsertParentSize(ix.nodes, ix.child, id, -ix.nodes[id].size),
   lookup |-> Without(ix.lookup, {old}),
   tree   |-> Unlink(ix.tree, ix.nodes[id].parent, id),
   child  |-> ix.child,
   grams  |-> RemoveFromIndex(ix.grams, Base(old), id),
   lastID |-> ix.lastID]

\* The ids renameChild visits below id: it recurses below directories only.
Renamed(tree, id) ==
  LET all == DOMAIN tree \cup (UNION {tree[x] : x \in DOMAIN tree}) \cup {id}
  IN  IF IsDir(id)
      THEN Reach(At(tree, id), [x \in all |-> IF IsDir(x) THEN At(tree, x) ELSE {}])
      ELSE {}

\* Mutant: one component too many is sliced off.
SliceFailsFar(ix, moved, old) ==
  \E c \in moved : c \notin DOMAIN ix.nodes \/ Len(ix.nodes[c].path) < Len(old) + 2

\* childOldPath[oldPathLen:] is out of range: a visited id has no node (its
\* path reads ""), or a path shorter than the old one.
SliceFails(ix, moved, old) ==
  \E c \in moved : c \notin DOMAIN ix.nodes \/ Len(ix.nodes[c].path) < Len(old)

\* Mutant: the children keep their old lookups beside the new ones.
MovePathsKeepsLookups(ix, moved, old, new) ==
  LET target == [c \in moved |-> Rebase(ix.nodes[c].path, old, new)]
  IN  {[ix EXCEPT !.nodes = [x \in DOMAIN @ |-> IF x \in moved
                               THEN [@[x] EXCEPT !.path = target[x]] ELSE @[x]],
                  !.lookup = [q \in DOMAIN @ \cup {target[c] : c \in moved} |->
                               IF q \in DOMAIN @ THEN @[q]
                               ELSE CHOOSE c \in moved : target[c] = q]]}

\* Mutant: the children lose their lookups.
MovePathsNoLookups(ix, moved, old, new) ==
  {[ix EXCEPT !.nodes = [x \in DOMAIN @ |-> IF x \in moved
                          THEN [@[x] EXCEPT !.path = Rebase(@, old, new)] ELSE @[x]],
              !.lookup = Without(@, {ix.nodes[c].path : c \in moved})]}

\* Every visited node takes its new path; of two with the same path the one
\* visited last owns the lookup, and the map order is any order.
MovePaths(ix, moved, old, new) ==
  LET target == [c \in moved |-> Rebase(ix.nodes[c].path, old, new)]
      kept == Without(ix.lookup, {ix.nodes[c].path : c \in moved})
      owners == {own \in [{target[c] : c \in moved} -> moved] :
                   \A q \in DOMAIN own : target[own[q]] = q}
  IN  {[ix EXCEPT !.nodes = [x \in DOMAIN @ |-> IF x \in moved
                               THEN [@[x] EXCEPT !.path = target[x]] ELSE @[x]],
                  !.lookup = [q \in DOMAIN kept \cup DOMAIN own |->
                               IF q \in DOMAIN own THEN own[q] ELSE kept[q]]]
        : own \in owners}

\* Mutant: ParentID still names the old parent.
AttachOldParent(ix, id, new, mtime) ==
  LET parent == ix.lookup[Dir(new)]
  IN  [ix EXCEPT !.nodes[id].path = new,
                 !.nodes[id].name = Base(new),
                 !.nodes[id].mtime = mtime,
                 !.lookup = Put(@, new, id),
                 !.tree = Link(@, parent, id),
                 !.child = Put(@, id, parent)]

\* Mutant: the node does not enter the child set of its new parent.
AttachUnlinked(ix, id, new, mtime) ==
  LET parent == ix.lookup[Dir(new)]
  IN  [ix EXCEPT !.nodes[id].parent = parent, !.nodes[id].path = new,
                 !.nodes[id].name = Base(new), !.nodes[id].mtime = mtime,
                 !.lookup = Put(@, new, id), !.child = Put(@, id, parent)]

\* The node under its new parent and path, before its children follow.
Attach(ix, id, new, mtime) ==
  LET parent == ix.lookup[Dir(new)]
  IN  [nodes  |-> [ix.nodes EXCEPT ![id] =
                     [@ EXCEPT !.parent = parent, !.mtime = mtime,
                               !.path = new, !.name = Base(new)]],
       lookup |-> Put(ix.lookup, new, id),
       tree   |-> Link(ix.tree, parent, id),
       child  |-> Put(ix.child, id, parent),
       grams  |-> ix.grams,
       lastID |-> ix.lastID]

\* Mutant: the new name is never indexed.
SettleUnindexed(ix, id) ==
  [ix EXCEPT !.nodes = UpsertParentSize(@, ix.child, id, ix.nodes[id].size)]

\* The last two steps: the size goes to the new ancestors, the name is indexed.
Settle(ix, id) ==
  [nodes  |-> UpsertParentSize(ix.nodes, ix.child, id, ix.nodes[id].size),
   lookup |-> ix.lookup,
   tree   |-> ix.tree,
   child  |-> ix.child,
   grams  |-> AddToIndex(ix.grams, ix.nodes[id].name, id),
   lastID |-> ix.lastID]

\* The outcomes of RenameNode(old, new): an unknown old path changes nothing,
\* an unindexed new parent leaves the node detached, and otherwise the node
\* and everything below it moves.  No outcome: the handler panics on a slice
\* or climbs a parent cycle for ever, holding mu.
RenameNode(ix, old, new, mtime) ==
  IF old \notin DOMAIN ix.lookup THEN {ix}
  ELSE LET id == ix.lookup[old]
           off == Detach(ix, id, old)
           on == Attach(off, id, new, mtime)
           moved == Renamed(on.tree, id)
       IN  IF Dir(new) \notin DOMAIN off.lookup THEN {off}
           ELSE IF SliceFails(on, moved, old) \/ id \in Ancestors(on.child, id)
           THEN {}
           ELSE {Settle(r, id) : r \in MovePaths(on, moved, old, new)}

-----------------------------------------------------------------------------
(* Invalid names: entries without a path, made by hand through the API.    *)

InvalidNode(name, mtime) ==
  [parent |-> NoId, size |-> 0, mtime |-> mtime, path |-> <<>>,
   name |-> name, invalid |-> TRUE]

SaveName(ix, name, mtime) ==
  LET id == SetRealID(ix.lastID + 1, FALSE)
  IN  [nodes  |-> Put(ix.nodes, id, InvalidNode(name, mtime)),
       lookup |-> ix.lookup,
       tree   |-> ix.tree,
       child  |-> ix.child,
       grams  |-> AddToIndex(ix.grams, name, id),
       lastID |-> ix.lastID + 1]

DeleteInvalid(ix, id) ==
  IF id \in DOMAIN ix.nodes /\ ix.nodes[id].invalid
  THEN [nodes  |-> Without(ix.nodes, {id}),
        lookup |-> ix.lookup,
        tree   |-> ix.tree,
        child  |-> ix.child,
        grams  |-> RemoveFromIndex(ix.grams, ix.nodes[id].name, id),
        lastID |-> ix.lastID]
  ELSE ix

-----------------------------------------------------------------------------
(* A start.                                                                *)

\* LoadSnapshot: every node enters every map, in any order; of two nodes with
\* one path the last loaded owns the lookup.
Loaded(nodes) ==
  LET placed == {x \in DOMAIN nodes : ~nodes[x].invalid}
      paths == {nodes[x].path : x \in placed}
      name(x) == IF x \in placed THEN Base(nodes[x].path) ELSE nodes[x].name
      owners == {own \in [paths -> placed] : \A q \in paths : nodes[own[q]].path = q}
      used == {0} \cup {x[1] : x \in DOMAIN nodes}
  IN  {[nodes  |-> [x \in DOMAIN nodes |-> [nodes[x] EXCEPT !.name = name(x)]],
        lookup |-> own,
        tree   |-> [d \in {nodes[x].parent : x \in placed} |->
                      {x \in placed : nodes[x].parent = d}],
        child  |-> [x \in placed |-> nodes[x].parent],
        grams  |-> UNION {NameGrams(name(x)) \X {x} : x \in DOMAIN nodes},
        lastID |-> CHOOSE n \in used : \A m \in used : m =< n] : own \in owners}

-----------------------------------------------------------------------------
(* What every module that holds an index asks of it.                       *)

\* The maps have the types their Go declarations give them.
IndexType(ix) ==
  /\ DOMAIN ix.nodes \subseteq Id
  /\ \A id \in DOMAIN ix.nodes : ix.nodes[id] \in Node
  /\ DOMAIN ix.lookup \subseteq Path
  /\ \A p \in DOMAIN ix.lookup : ix.lookup[p] \in Id
  /\ DOMAIN ix.tree \subseteq Id
  /\ \A id \in DOMAIN ix.tree : ix.tree[id] \subseteq Id
  /\ DOMAIN ix.child \subseteq Id
  /\ \A id \in DOMAIN ix.child : ix.child[id] \in Id
  /\ ix.grams \subseteq Grams \X Id
  /\ ix.lastID \in Nat

\* A path that resolves, resolves to a live node that carries this very path.
LookupsResolve(ix) ==
  \A p \in DOMAIN ix.lookup :
    /\ ix.lookup[p] \in DOMAIN ix.nodes
    /\ ix.nodes[ix.lookup[p]].path = p

\* A search hit is a live node whose present name has the n-gram.
GramsResolve(ix) ==
  \A e \in ix.grams :
    /\ e[2] \in DOMAIN ix.nodes
    /\ e[1] \in NameGrams(ix.nodes[e[2]].name)
=============================================================================
