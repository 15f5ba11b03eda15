----------------------------- MODULE FileIndex -----------------------------
(***************************************************************************)
(* The in-memory index under an arbitrary caller: any handler of           *)
(* src/main/file_watcher.go and main.go that takes the lock mu, with any   *)
(* arguments, in any order.  inotify events, timers, scan workers and HTTP *)
(* requests reach the index in no fixed order and may speak of files that  *)
(* have changed since, so this is the environment the index must survive.  *)
(*                                                                         *)
(* What is assumed of a caller: a path is only ever found with one of its  *)
(* KindsOf (the kinds the file system may show there), and a rename is one *)
(* rename(2) can report: neither path is a prefix of the other.            *)
(***************************************************************************)
EXTENDS IndexOps, FiniteSetsExt

CONSTANTS
  Root,      \* the configured root, the first directory Start indexes
  Paths,     \* the paths callers name
  KindsOf,   \* KindsOf[p] holds TRUE if p may be a directory, FALSE if a file
  Sizes,     \* file sizes os.Stat may report
  HandNames, \* invalid names entered through the API
  Times,     \* modification times
  MaxID      \* bound: no handler that takes an id runs at lastID = MaxID

ASSUME FileIndexAssumption ==
  /\ Root \in Path \ {<<>>}
  /\ Paths \subseteq Path \ {<<>>}
  /\ KindsOf \in [Paths -> SUBSET BOOLEAN]
  /\ HandNames \subseteq Names
  /\ Sizes \subseteq Nat
  /\ Times \subseteq Int

VARIABLES
  ix,        \* the index (see IndexOps)
  up         \* FALSE once a handler has panicked, or loops while holding mu

vars == <<ix, up>>

\* The root is in the index before anything else; no event ever names it.
Init ==
  /\ \E t \in Times : ix = UpsertDir(EmptyIndex, Root, t)
  /\ up = TRUE

-----------------------------------------------------------------------------

\* Upsert is called for what an event or a listing says is not a directory;
\* os.Stat runs before the lock is taken, so info is any information that was
\* true of the path at some time, a directory included.
UpsertCall(p, info) ==
  /\ up
  /\ FALSE \in KindsOf[p]
  /\ info.dir \in KindsOf[p]
  /\ ix.lastID < MaxID
  /\ ix' = Upsert(ix, p, info)
  /\ UNCHANGED up

UpsertDirCall(p, mtime) ==
  /\ up
  /\ TRUE \in KindsOf[p]
  /\ ix.lastID < MaxID
  /\ ix' = UpsertDir(ix, p, mtime)
  /\ UNCHANGED up

\* isDir comes from the event, not from the node.
RemoveCall(p, isDir) ==
  /\ up
  /\ isDir \in KindsOf[p]
  /\ ix' = Remove(ix, p, isDir)
  /\ UNCHANGED up

Renames == {m \in Paths \X Paths : ~IsPrefix(m[1], m[2]) /\ ~IsPrefix(m[2], m[1])}

RenameCall(old, new, mtime) ==
  /\ up
  /\ old \in DOMAIN ix.lookup => IsDir(ix.lookup[old]) \in KindsOf[new]
  /\ LET outcomes == RenameNode(ix, old, new, mtime)
     IN  IF outcomes = {} THEN up' = FALSE /\ UNCHANGED ix
         ELSE ix' \in outcomes /\ UNCHANGED up

SaveNameCall(name, mtime) ==
  /\ up
  /\ ix.lastID < MaxID
  /\ ix' = SaveName(ix, name, mtime)
  /\ UNCHANGED up

DeleteInvalidCall(id) ==
  /\ up
  /\ ix' = DeleteInvalid(ix, id)
  /\ UNCHANGED up

Info == [dir : BOOLEAN, size : Sizes, mtime : Times]

Next ==
  \/ \E p \in Paths, info \in Info : UpsertCall(p, info)
  \/ \E p \in Paths, t \in Times : UpsertDirCall(p, t)
  \/ \E p \in Paths, isDir \in BOOLEAN : RemoveCall(p, isDir)
  \/ \E m \in Renames, t \in Times : RenameCall(m[1], m[2], t)
  \/ \E name \in HandNames, t \in Times : SaveNameCall(name, t)
  \/ \E id \in DOMAIN ix.nodes : DeleteInvalidCall(id)

Spec == Init /\ [][Next]_vars

-----------------------------------------------------------------------------
(* Type invariant and safety.                                              *)

\* The index maps have the types their Go declarations give them.
TypeOK == IndexType(ix) /\ up \in BOOLEAN

\* A path that resolves, resolves to a live node that carries this very path:
\* what a cascaded rename or removal must not break for any of the paths it
\* rewrites or drops (file_watcher.go:739-827, 430-470).
LookupSound == LookupsResolve(ix)

\* A search hit is a live node whose present name contains the n-gram: no
\* rename or removal leaves an id behind in a bitmap of the old name.
GramsSound == GramsResolve(ix)

\* Whatever a path resolves to can be found by every n-gram of its name.
Searchable ==
  \A p \in DOMAIN ix.lookup : NameGrams(Base(p)) \X {ix.lookup[p]} \subseteq ix.grams

\* Of the three records of a parent, the node's own field and ChildTreeMap
\* always agree, and a child set never claims a node that has another parent,
\* whatever the handler that moved, removed or orphaned it.  A child set may
\* hold ids without a node (RemoveDir) and miss a node (Detach).
ParentsAgree ==
  /\ DOMAIN ix.child = {id \in DOMAIN ix.nodes : id # NoId /\ ~ix.nodes[id].invalid}
  /\ \A id \in DOMAIN ix.child : ix.child[id] = ix.nodes[id].parent
  /\ \A d \in DOMAIN ix.tree : \A c \in ix.tree[d] \cap DOMAIN ix.nodes :
       ix.nodes[c].parent = d

\* A live child in the set of a live directory lies directly below it in the
\* path namespace too: cascades that follow ids and callers that name paths
\* mean the same subtree.
TreeMatchesPaths ==
  \A d \in DOMAIN ix.tree \cap DOMAIN ix.nodes : \A c \in ix.tree[d] \cap DOMAIN ix.nodes :
    IsDir(d) => /\ Len(ix.nodes[c].path) > 1
                /\ Dir(ix.nodes[c].path) = ix.nodes[d].path

\* Live nodes a rename to an unindexed parent has cut out of the tree.
Detached == {id \in DOMAIN ix.child : id \notin At(ix.tree, ix.child[id])}

\* Where kinds never change, a directory's size is the sum of its live
\* children's, after any mix of updates, cascades and moves, unless a node
\* below it was detached (UpsertParentSize and its callers, 311-326).
SizesAddUp ==
  \A d \in DOMAIN ix.nodes \ {NoId} :
    (IsDir(d) /\ ~ \E x \in Detached : d \in Ancestors(ix.child, x)) =>
      ix.nodes[d].size =
        MapThenSumSet(LAMBDA c : ix.nodes[c].size, At(ix.tree, d) \cap DOMAIN ix.nodes)

\* The nodes a step destroys.
Lost == {id \in DOMAIN ix.nodes : id \notin DOMAIN ix'.nodes}

\* A removal destroys no node outside the subtree of the path it was asked for,
\* although walkDelete follows TreeMap and never looks at a path, and nothing
\* but a removal destroys a node that has a path.
LostBelowAsked ==
  \A p \in Paths, isDir \in BOOLEAN :
    RemoveCall(p, isDir) => \A id \in Lost : IsPrefix(p, ix.nodes[id].path)
LostByRemoval ==
  (\E id \in Lost : ~ix.nodes[id].invalid) =>
    \E p \in Paths, isDir \in BOOLEAN : RemoveCall(p, isDir)
RemovalStaysBelow == [][LostBelowAsked /\ LostByRemoval]_vars

=============================================================================
