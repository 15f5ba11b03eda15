-------------------------- MODULE FileIndexProofs ---------------------------
(***************************************************************************)
(* Proofs about the file index under an arbitrary caller: each handler is  *)
(* one operator of IndexOps, so its step is one lemma about the operator.  *)
(***************************************************************************)
EXTENDS FileIndex, IndexOpsProofs

-----------------------------------------------------------------------------
(* Types and lookups.                                                      *)

\* The invariant is inductive.
IndInv == IxInv(ix) /\ up \in BOOLEAN

LEMMA InitInv == Init => IndInv
<1>1. Root \in Path /\ Root # <<>> /\ Times \subseteq Int
  BY FileIndexAssumption
<1>. QED
  BY <1>1, EmptyInv, UpsertDirInv DEF Init, IndInv

LEMMA NextInv == IndInv /\ [Next]_vars => IndInv'
<1>. SUFFICES ASSUME IndInv, [Next]_vars
              PROVE  IndInv'
  OBVIOUS
<1>0. /\ \A p \in Paths : p \in Path /\ p # <<>>
      /\ Times \subseteq Int /\ Sizes \subseteq Int /\ HandNames \subseteq Names
  BY FileIndexAssumption
<1>1. IxInv(ix) /\ up \in BOOLEAN
  BY DEF IndInv
<1>2. ASSUME NEW p \in Paths, NEW info \in Info, UpsertCall(p, info)
      PROVE  IndInv'
  <2>1. info.dir \in BOOLEAN /\ info.size \in Int /\ info.mtime \in Int
    BY <1>0 DEF Info
  <2>2. ix' = Upsert(ix, p, info) /\ up' = up
    BY <1>2 DEF UpsertCall
  <2>3. IxInv(Upsert(ix, p, info))
    BY <1>0, <1>1, <2>1, UpsertInv
  <2>. QED
    BY <1>1, <2>2, <2>3 DEF IndInv
<1>3. ASSUME NEW p \in Paths, NEW t \in Times, UpsertDirCall(p, t)
      PROVE  IndInv'
  <2>1. ix' = UpsertDir(ix, p, t) /\ up' = up
    BY <1>3 DEF UpsertDirCall
  <2>2. IxInv(UpsertDir(ix, p, t))
    BY <1>0, <1>1, UpsertDirInv
  <2>. QED
    BY <1>1, <2>1, <2>2 DEF IndInv
<1>4. ASSUME NEW p \in Paths, NEW isDir \in BOOLEAN, RemoveCall(p, isDir)
      PROVE  IndInv'
  <2>1. ix' = Remove(ix, p, isDir) /\ up' = up
    BY <1>4 DEF RemoveCall
  <2>2. IxInv(Remove(ix, p, isDir))
    BY <1>1, RemoveInv
  <2>. QED
    BY <1>1, <2>1, <2>2 DEF IndInv
<1>5. ASSUME NEW m \in Renames, NEW t \in Times, RenameCall(m[1], m[2], t)
      PROVE  IndInv'
  <2>1. m[1] \in Path /\ m[2] \in Path /\ m[2] # <<>>
    BY <1>0 DEF Renames
  <2>2. CASE up' = FALSE /\ ix' = ix
    BY <1>1, <2>2 DEF IndInv
  <2>3. CASE ix' \in RenameNode(ix, m[1], m[2], t) /\ up' = up
    <3>1. IxInv(ix')
      BY <1>0, <1>1, <2>1, <2>3, RenameInv
    <3>. QED
      BY <1>1, <2>3, <3>1 DEF IndInv
  <2>. QED
    BY <1>5, <2>2, <2>3 DEF RenameCall
<1>6. ASSUME NEW name \in HandNames, NEW t \in Times, SaveNameCall(name, t)
      PROVE  IndInv'
  <2>1. ix' = SaveName(ix, name, t) /\ up' = up
    BY <1>6 DEF SaveNameCall
  <2>2. IxInv(SaveName(ix, name, t))
    BY <1>0, <1>1, SaveNameInv
  <2>. QED
    BY <1>1, <2>1, <2>2 DEF IndInv
<1>7. ASSUME NEW id \in DOMAIN ix.nodes, DeleteInvalidCall(id)
      PROVE  IndInv'
  <2>1. ix' = DeleteInvalid(ix, id) /\ up' = up
    BY <1>7 DEF DeleteInvalidCall
  <2>2. IxInv(DeleteInvalid(ix, id))
    BY <1>1, DeleteInvalidInv
  <2>. QED
    BY <1>1, <2>1, <2>2 DEF IndInv
<1>8. CASE UNCHANGED vars
  BY <1>1, <1>8 DEF IndInv, vars
<1>. QED
  BY <1>2, <1>3, <1>4, <1>5, <1>6, <1>7, <1>8 DEF Next

LEMMA Inductive == Spec => []IndInv
  BY InitInv, NextInv, PTL DEF Spec

\* The maps keep the types their Go declarations give them, whatever mix of
\* handlers runs (file_entity.go:69-103).
THEOREM TypeCorrect == Spec => []TypeOK
<1>1. IndInv => TypeOK
  BY DEF IndInv, IxInv, TypeOK
<1>. QED
  BY <1>1, Inductive, PTL

\* For any directory layout, any callers and any number of ids: a path that
\* resolves, resolves to a live node that carries this path, through every
\* cascade of renames and removals (file_watcher.go:420-508, 717-833).
THEOREM LookupsSound == Spec => []LookupSound
<1>1. IndInv => LookupSound
  BY DEF IndInv, IxInv, LookupSound
<1>. QED
  BY <1>1, Inductive, PTL

-----------------------------------------------------------------------------
(* N-grams, parents and the tree.                                          *)

TreeInv == IndInv /\ TiedIndex(ix)

LEMMA TreeInvInit == Init => TreeInv
<1>1. Root \in Path /\ Root # <<>> /\ Times \subseteq Int
  BY FileIndexAssumption
<1>. QED
  BY <1>1, InitInv, EmptyInv, EmptyTied, UpsertDirTied DEF Init, TreeInv

LEMMA TreeInvNext == TreeInv /\ [Next]_vars => TreeInv'
<1>. SUFFICES ASSUME TreeInv, [Next]_vars
              PROVE  TiedIndex(ix)'
  BY NextInv DEF TreeInv
<1>0. /\ \A p \in Paths : p \in Path /\ p # <<>>
      /\ Times \subseteq Int /\ Sizes \subseteq Int /\ HandNames \subseteq Names
  BY FileIndexAssumption
<1>1. IxInv(ix) /\ TiedIndex(ix)
  BY DEF TreeInv, IndInv
<1>2. ASSUME NEW p \in Paths, NEW info \in Info, UpsertCall(p, info)
      PROVE  TiedIndex(ix')
  <2>1. info.dir \in BOOLEAN /\ info.size \in Int /\ info.mtime \in Int
    BY <1>0 DEF Info
  <2>2. ix' = Upsert(ix, p, info)
    BY <1>2 DEF UpsertCall
  <2>. QED
    BY <1>0, <1>1, <2>1, <2>2, UpsertTied
<1>3. ASSUME NEW p \in Paths, NEW t \in Times, UpsertDirCall(p, t)
      PROVE  TiedIndex(ix')
  <2>1. ix' = UpsertDir(ix, p, t)
    BY <1>3 DEF UpsertDirCall
  <2>. QED
    BY <1>0, <1>1, <2>1, UpsertDirTied
<1>4. ASSUME NEW p \in Paths, NEW isDir \in BOOLEAN, RemoveCall(p, isDir)
      PROVE  TiedIndex(ix')
  <2>1. ix' = Remove(ix, p, isDir)
    BY <1>4 DEF RemoveCall
  <2>. QED
    BY <1>1, <2>1, RemoveTied
<1>5. ASSUME NEW m \in Renames, NEW t \in Times, RenameCall(m[1], m[2], t)
      PROVE  TiedIndex(ix')
  <2>1. m[1] \in Path /\ m[2] \in Path /\ m[2] # <<>> /\ ~IsPrefix(m[1], m[2])
    BY <1>0 DEF Renames
  <2>2. CASE ix' = ix
    BY <1>1, <2>2
  <2>3. CASE ix' \in RenameNode(ix, m[1], m[2], t)
    BY <1>0, <1>1, <2>1, <2>3, RenameTied
  <2>. QED
    BY <1>5, <2>2, <2>3 DEF RenameCall
<1>6. ASSUME NEW name \in HandNames, NEW t \in Times, SaveNameCall(name, t)
      PROVE  TiedIndex(ix')
  <2>1. ix' = SaveName(ix, name, t)
    BY <1>6 DEF SaveNameCall
  <2>. QED
    BY <1>0, <1>1, <2>1, SaveNameTied
<1>7. ASSUME NEW id \in DOMAIN ix.nodes, DeleteInvalidCall(id)
      PROVE  TiedIndex(ix')
  <2>1. ix' = DeleteInvalid(ix, id)
    BY <1>7 DEF DeleteInvalidCall
  <2>. QED
    BY <1>1, <2>1, DeleteInvalidTied
<1>8. CASE UNCHANGED vars
  BY <1>1, <1>8 DEF vars
<1>9. TiedIndex(ix')
  BY <1>2, <1>3, <1>4, <1>5, <1>6, <1>7, <1>8 DEF Next
<1>. QED
  BY <1>9 DEF TiedIndex

LEMMA TreeInductive == Spec => []TreeInv
  BY TreeInvInit, TreeInvNext, PTL DEF Spec

\* For any layout, any callers and any number of ids: what an n-gram finds is
\* a live node whose present name holds it (file_index.go through AddToIndex
\* and RemoveFromIndex, called at file_watcher.go:311-508 and 717-833).
THEOREM GramsAlwaysResolve == Spec => []GramsSound
<1>1. TreeInv => GramsSound
  BY DEF TreeInv, TiedIndex, Tied, GramsOwned, GramsSound, GramsResolve
<1>. QED
  BY <1>1, TreeInductive, PTL

\* Whatever a path resolves to is found by every n-gram of its last component,
\* also when a rename of an ancestor gave it that path (file_watcher.go:717-833).
THEOREM AlwaysSearchable == Spec => []Searchable
<1>1. TreeInv => Searchable
  <2>. SUFFICES ASSUME TreeInv, NEW p \in DOMAIN ix.lookup
                PROVE  NameGrams(Base(p)) \X {ix.lookup[p]} \subseteq ix.grams
    BY DEF Searchable
  <2>1. /\ Good(ix.nodes, ix.lookup, ix.tree, ix.child, ix.grams, ix.lastID)
        /\ Tied(ix.nodes, ix.lookup, ix.tree, ix.child, ix.grams)
    BY GoodParts DEF TreeInv, IndInv, IxInv, TiedIndex
  <2>. DEFINE id == ix.lookup[p]
  <2>2. id \in Proper(ix.nodes) /\ id \in DOMAIN ix.nodes /\ ix.nodes[id].path = p
    BY <2>1 DEF Good, Proper
  <2>3. ix.nodes[id].name = Base(p)
    BY <2>1, <2>2 DEF Tied, NamesMatch
  <2>4. Held(ix.lookup, ix.tree, id)
    BY DEF Held
  <2>. HIDE DEF id
  <2>5. NameGrams(Base(p)) \X {id} \subseteq ix.grams
    BY <2>1, <2>2, <2>3, <2>4 DEF Tied, HeldFound
  <2>. QED
    BY <2>5 DEF id
<1>. QED
  BY <1>1, TreeInductive, PTL

\* ChildTreeMap has exactly the nodes that can have a parent, and says of each
\* what its own parent field says, also of nodes a rename left without a place
\* in the tree; and no child set holds a live node that names another parent,
\* so no two sets hold one node (file_entity.go:92-97, file_watcher.go:311-508
\* and 717-833).
THEOREM ParentsAlwaysAgree == Spec => []ParentsAgree
<1>1. TreeInv => ParentsAgree
  BY DEF TreeInv, TiedIndex, Tied, ChildrenMatch, Proper, TreeFits, TreeParents, ParentsAgree
<1>. QED
  BY <1>1, TreeInductive, PTL

\* A live child of a live directory lies directly below its path, through every
\* cascade: child sets and paths describe one tree (file_watcher.go:430-470
\* follows sets, its callers name paths).
THEOREM TreeAlwaysMatchesPaths == Spec => []TreeMatchesPaths
<1>1. TreeInv => TreeMatchesPaths
  BY DEF TreeInv, TiedIndex, Tied, TreeFits, TreePaths, Below, TreeMatchesPaths
<1>. QED
  BY <1>1, TreeInductive, PTL

-----------------------------------------------------------------------------
(* Removals.                                                               *)

\* K tells the one kind a path has, whenever something is there: callers find
\* it with this kind, what lies above a path is a directory, and moving a
\* directory changes the kind of nothing below it.
FixedKinds(K) ==
  /\ K \in [Path -> BOOLEAN]
  /\ \A p \in Paths : KindsOf[p] \subseteq {K[p]}
  /\ K[Root]
  /\ \A p \in Paths \cup {Root} : Len(p) > 1 => K[Dir(p)]
  /\ \A m \in Renames : \A p \in Path :
       Len(p) > Len(m[1]) /\ IsPrefix(m[1], p) => K[Rebase(p, m[1], m[2])] = K[p]

KindInv(K) == TreeInv /\ KindsFit(ix.nodes, ix.tree, K)

LEMMA KindInit ==
  ASSUME NEW K, FixedKinds(K), Init
  PROVE  KindInv(K)
<1>1. Root \in Path /\ Root # <<>> /\ Times \subseteq Int
  BY FileIndexAssumption
<1>2. KindsFit(EmptyIndex.nodes, EmptyIndex.tree, K)
  BY DEF KindsFit, Proper, EmptyIndex
<1>3. K[Root] = TRUE /\ (Len(Root) > 1 => K[Dir(Root)])
  BY <1>1 DEF FixedKinds
<1>4. PICK t \in Times : ix = UpsertDir(EmptyIndex, Root, t)
  BY DEF Init
<1>5. KindsFit(ix.nodes, ix.tree, K)
  BY <1>1, <1>2, <1>3, <1>4, EmptyInv, EmptyTied, UpsertDirKinds
<1>. QED
  BY <1>5, TreeInvInit DEF KindInv

LEMMA KindNext ==
  ASSUME NEW K, FixedKinds(K), KindInv(K), [Next]_vars
  PROVE  KindsFit(ix'.nodes, ix'.tree, K) /\ LostBelowAsked /\ LostByRemoval
<1>. DEFINE Good2 == KindsFit(ix'.nodes, ix'.tree, K) /\ LostByRemoval
<1>0. /\ \A p \in Paths : p \in Path /\ p # <<>>
      /\ Times \subseteq Int /\ Sizes \subseteq Int /\ HandNames \subseteq Names
  BY FileIndexAssumption
<1>1. IxInv(ix) /\ TiedIndex(ix) /\ KindsFit(ix.nodes, ix.tree, K)
  BY DEF KindInv, TreeInv, IndInv
<1>2. DOMAIN ix.nodes \subseteq DOMAIN ix'.nodes => LostByRemoval
  BY DEF LostByRemoval, Lost
<1>3. \A p \in Paths : Len(p) > 1 => K[Dir(p)]
  BY DEF FixedKinds
<1>4. \A p \in Paths : \A b \in KindsOf[p] : K[p] = b
  BY DEF FixedKinds
<1>5. ASSUME NEW p \in Paths, NEW info \in Info, UpsertCall(p, info)
      PROVE  Good2
  <2>1. info.dir \in BOOLEAN /\ info.size \in Int /\ info.mtime \in Int
    BY <1>0 DEF Info
  <2>2. ix' = Upsert(ix, p, info) /\ K[p] = info.dir
    BY <1>4, <1>5 DEF UpsertCall
  <2>. QED
    BY <1>0, <1>1, <1>2, <1>3, <2>1, <2>2, UpsertKinds
<1>6. ASSUME NEW p \in Paths, NEW t \in Times, UpsertDirCall(p, t)
      PROVE  Good2
  <2>1. ix' = UpsertDir(ix, p, t) /\ K[p] = TRUE
    BY <1>4, <1>6 DEF UpsertDirCall
  <2>. QED
    BY <1>0, <1>1, <1>2, <1>3, <2>1, UpsertDirKinds
<1>7. ASSUME NEW p \in Paths, NEW isDir \in BOOLEAN, RemoveCall(p, isDir)
      PROVE  Good2
  <2>1. ix' = Remove(ix, p, isDir)
    BY <1>7 DEF RemoveCall
  <2>2. LostByRemoval
    BY <1>7 DEF LostByRemoval
  <2>. QED
    BY <1>1, <2>1, <2>2, RemoveKinds
<1>8. ASSUME NEW m \in Renames, NEW t \in Times, RenameCall(m[1], m[2], t)
      PROVE  Good2
  <2>1. /\ m[1] \in Path /\ m[2] \in Path /\ m[2] # <<>> /\ ~IsPrefix(m[1], m[2])
        /\ m[2] \in Paths
    BY <1>0 DEF Renames
  <2>2. CASE ix' = ix
    BY <1>1, <1>2, <2>2
  <2>3. CASE ix' \in RenameNode(ix, m[1], m[2], t)
    <3>1. m[1] \in DOMAIN ix.lookup => K[m[2]] = IsDir(ix.lookup[m[1]])
      BY <1>4, <1>8, <2>1 DEF RenameCall
    <3>2. \A p \in Path : /\ Len(p) > Len(m[1])
                          /\ IsPrefix(m[1], p)
                          => K[Rebase(p, m[1], m[2])] = K[p]
      BY DEF FixedKinds
    <3>3. Len(m[2]) > 1 => K[Dir(m[2])]
      BY <1>3, <2>1
    <3>4. t \in Int
      BY <1>0
    <3>. DEFINE old == m[1]
                new == m[2]
    <3>5. /\ old \in Path /\ new \in Path /\ new # <<>> /\ ~IsPrefix(old, new)
          /\ ix' \in RenameNode(ix, old, new, t)
          /\ old \in DOMAIN ix.lookup => K[new] = IsDir(ix.lookup[old])
          /\ Len(new) > 1 => K[Dir(new)]
          /\ \A p \in Path : Len(p) > Len(old) /\ IsPrefix(old, p) => K[Rebase(p, old, new)] = K[p]
      BY <2>1, <2>3, <3>1, <3>2, <3>3
    <3>. HIDE DEF old, new
    <3>6. KindsFit(ix'.nodes, ix'.tree, K) /\ DOMAIN ix.nodes \subseteq DOMAIN ix'.nodes
      BY <1>1, <3>4, <3>5, RenameKinds
    <3>. QED
      BY <1>2, <3>6
  <2>. QED
    BY <1>8, <2>2, <2>3 DEF RenameCall
<1>9. ASSUME NEW name \in HandNames, NEW t \in Times, SaveNameCall(name, t)
      PROVE  Good2
  <2>1. ix' = SaveName(ix, name, t)
    BY <1>9 DEF SaveNameCall
  <2>. QED
    BY <1>0, <1>1, <1>2, <2>1, SaveNameKinds
<1>10. ASSUME NEW id \in DOMAIN ix.nodes, DeleteInvalidCall(id)
       PROVE  Good2
  <2>1. ix' = DeleteInvalid(ix, id)
    BY <1>10 DEF DeleteInvalidCall
  <2>. QED
    BY <1>1, <2>1, DeleteInvalidKinds DEF LostByRemoval, Lost
<1>11. ASSUME UNCHANGED vars
       PROVE  Good2
  BY <1>1, <1>2, <1>11 DEF vars
<1>12. Good2
  BY <1>5, <1>6, <1>7, <1>8, <1>9, <1>10, <1>11 DEF Next
<1>13. ASSUME NEW p \in Paths, NEW isDir \in BOOLEAN, RemoveCall(p, isDir)
       PROVE  \A id \in Lost : IsPrefix(p, ix.nodes[id].path)
  <2>1. ix' = Remove(ix, p, isDir)
    BY <1>13 DEF RemoveCall
  <2>2. LostBelow(ix, ix', p)
    BY <1>1, <2>1, RemoveKinds
  <2>. QED
    BY <2>2 DEF LostBelow, Lost
<1>14. LostBelowAsked
  BY <1>13 DEF LostBelowAsked
<1>. QED
  BY <1>12, <1>14

\* Where a path only ever has one kind, a removal destroys no node that is not
\* at or below the path it was asked for, and no other handler destroys a node
\* with a path, in a tree of any depth and however often subtrees were moved
\* before: walkDelete follows child sets and looks at no path
\* (file_watcher.go:430-470).
THEOREM RemovalAlwaysBelow ==
  ASSUME NEW K, FixedKinds(K)
  PROVE  Spec => RemovalStaysBelow
<1>1. Init => KindInv(K)
  BY KindInit
<1>2. KindInv(K) /\ [Next]_vars => KindInv(K)'
  BY KindNext, TreeInvNext DEF KindInv, KindsFit, Proper
<1>3. KindInv(K) /\ [Next]_vars => [LostBelowAsked /\ LostByRemoval]_vars
  BY KindNext
<1>. QED
  BY <1>1, <1>2, <1>3, PTL DEF Spec, RemovalStaysBelow
=============================================================================
