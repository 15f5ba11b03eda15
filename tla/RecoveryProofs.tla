--------------------------- MODULE RecoveryProofs ---------------------------
(***************************************************************************)
(* What survives crashes and restarts (Recovery), for every number of      *)
(* nodes, entries, checkpoints and restarts.                               *)
(***************************************************************************)
EXTENDS Recovery, IndexOpsProofs

-----------------------------------------------------------------------------
(* The counter.  Without invalid names, no id in any map of the index is   *)
(* above it, in every mode of the process: a start takes the largest id of *)
(* the snapshot and a replayed insertion raises it to its own.  The ids of *)
(* the lookups belong to it, because an update writes the node it is led   *)
(* to; so does what stands in the log, as far as a replay reads it.        *)

\* The ids an index knows of.
Known(i) == DOMAIN i.nodes \cup {i.lookup[p] : p \in DOMAIN i.lookup} \cup {NoId}

Within(S, n) == \A x \in S : x \in Id /\ x[1] =< n
Low(i) == IsIndex(i) /\ i.lastID \in Nat /\ Within(Known(i), i.lastID)

LEMMA MakeIndex ==
  \A N, L, T, C, G, n :
    LET r == [nodes |-> N, lookup |-> L, tree |-> T, child |-> C, grams |-> G, lastID |-> n]
    IN  IsIndex(r) /\ r.nodes = N /\ r.lookup = L /\ r.tree = T /\ r.child = C
        /\ r.grams = G /\ r.lastID = n
  BY DEF IsIndex

LEMMA NewNodes ==
  ASSUME NEW i, IsIndex(i), NEW N
  PROVE  LET r == [i EXCEPT !.nodes = N]
         IN  IsIndex(r) /\ r.nodes = N /\ r.lookup = i.lookup /\ r.tree = i.tree
             /\ r.child = i.child /\ r.grams = i.grams /\ r.lastID = i.lastID
<1>. DEFINE j == [nodes |-> i.nodes, lookup |-> i.lookup, tree |-> i.tree,
                  child |-> i.child, grams |-> i.grams, lastID |-> i.lastID]
<1>1. [i EXCEPT !.nodes = N] = [j EXCEPT !.nodes = N]
  BY Zenon DEF IsIndex
<1>2. [j EXCEPT !.nodes = N] = [nodes |-> N, lookup |-> i.lookup, tree |-> i.tree,
                                child |-> i.child, grams |-> i.grams, lastID |-> i.lastID]
  OBVIOUS
<1>. HIDE DEF j
<1>. QED
  BY <1>1, <1>2, MakeIndex

\* An index that knows no more, under a counter that is no lower.
LEMMA LowFrom ==
  ASSUME NEW i, Low(i), NEW r, IsIndex(r), r.lastID \in Nat, i.lastID =< r.lastID,
         NEW new \in Id, new[1] =< r.lastID, Known(r) \subseteq Known(i) \cup {new}
  PROVE  Low(r)
  BY DEF Low, Within, Id

LEMMA NoIdLow == NoId \in Id /\ NoId[1] = 0
  BY DEF NoId, Id

\* UpsertParentSize adds at most Nodes[0].
LEMMA ResizedDomain ==
  \A N, C, id, delta : /\ DOMAIN N \subseteq DOMAIN UpsertParentSize(N, C, id, delta)
                       /\ DOMAIN UpsertParentSize(N, C, id, delta) \subseteq DOMAIN N \cup {NoId}
  BY DEF UpsertParentSize, Put

LEMMA InsertLow ==
  ASSUME NEW i, Low(i), NEW p, NEW isDir \in BOOLEAN, NEW size, NEW mtime
  PROVE  /\ Low(Insert(i, p, isDir, size, mtime))
         /\ IsIndex(Insert(i, p, isDir, size, mtime))
<1>. DEFINE id == SetRealID(i.lastID + 1, isDir)
            r == Insert(i, p, isDir, size, mtime)
<1>1. id \in Id /\ id[1] = i.lastID + 1 /\ i.lastID \in Nat
  BY DEF SetRealID, Id, Low
<1>2. /\ IsIndex(r) /\ r.lastID = i.lastID + 1 /\ r.lookup = Put(i.lookup, p, id)
      /\ \E n : r.nodes = Put(i.nodes, id, n)
  BY MakeIndex, Zenon DEF Insert
<1>. HIDE DEF id, r
<1>3. Known(r) \subseteq Known(i) \cup {id}
  BY <1>2 DEF Put, Known
<1>4. r.lastID \in Nat /\ i.lastID =< r.lastID /\ id[1] =< r.lastID
  BY <1>1, <1>2
<1>5. Low(r)
  BY <1>1, <1>2, <1>3, <1>4, LowFrom
<1>. QED
  BY <1>2, <1>5 DEF r

\* Handlers and replayed entries that create no id.
Quieter(i, r) == IsIndex(r) /\ r.lastID = i.lastID /\ Known(r) \subseteq Known(i)

LEMMA QuieterLow ==
  \A i, r : Low(i) /\ Quieter(i, r) => Low(r)
  BY DEF Low, Quieter, Within

LEMMA SizedQuieter ==
  ASSUME NEW i, IsIndex(i), NEW C, NEW id, NEW delta
  PROVE  Quieter(i, [i EXCEPT !.nodes = UpsertParentSize(i.nodes, C, id, delta)])
<1>. DEFINE N == UpsertParentSize(i.nodes, C, id, delta)
            r == [i EXCEPT !.nodes = N]
<1>1. DOMAIN N \subseteq DOMAIN i.nodes \cup {NoId}
  BY ResizedDomain
<1>. HIDE DEF N
<1>2. IsIndex(r) /\ r.nodes = N /\ r.lookup = i.lookup /\ r.lastID = i.lastID
  BY NewNodes
<1>. HIDE DEF r
<1>3. Quieter(i, r)
  BY <1>1, <1>2 DEF Quieter, Known
<1>. QED
  BY <1>3 DEF r, N

LEMMA UpsertLow ==
  ASSUME NEW i, Low(i), NEW p, NEW info, info.dir \in BOOLEAN
  PROVE  Low(Upsert(i, p, info))
<1>0. IsIndex(i)
  BY DEF Low
<1>1. CASE p \in DOMAIN i.lookup
  <2>. DEFINE id == i.lookup[p]
              sized == UpsertParentSize(i.nodes, i.child, id, info.size - i.nodes[id].size)
              N == Put(sized, id, [i.nodes[id] EXCEPT !.size = info.size, !.mtime = info.mtime])
  <2>1. Upsert(i, p, info) = i \/ Upsert(i, p, info) = [i EXCEPT !.nodes = N]
    BY <1>1, Zenon DEF Upsert
  <2>2. DOMAIN sized \subseteq DOMAIN i.nodes \cup {NoId}
    BY ResizedDomain
  <2>. HIDE DEF sized
  <2>3. DOMAIN N \subseteq DOMAIN i.nodes \cup {NoId, id}
    BY <2>2 DEF Put
  <2>. HIDE DEF N
  <2>4. id \in Known(i)
    BY <1>1 DEF Known
  <2>. HIDE DEF id
  <2>. DEFINE r == [i EXCEPT !.nodes = N]
  <2>5. IsIndex(r) /\ r.nodes = N /\ r.lookup = i.lookup /\ r.lastID = i.lastID
    BY <1>0, NewNodes
  <2>. HIDE DEF r
  <2>6. Quieter(i, r)
    BY <2>3, <2>4, <2>5 DEF Quieter, Known
  <2>. QED
    BY <2>1, <2>6, QuieterLow DEF r
<1>2. CASE p \notin DOMAIN i.lookup
  <2>. DEFINE j == Insert(i, p, info.dir, info.size, info.mtime)
              r == [j EXCEPT !.nodes = UpsertParentSize(j.nodes, j.child, j.lookup[p], info.size)]
  <2>1. Low(j) /\ IsIndex(j)
    BY InsertLow
  <2>2. Upsert(i, p, info) = r
    BY <1>2, Zenon DEF Upsert
  <2>. HIDE DEF j
  <2>3. Quieter(j, r)
    BY <2>1, SizedQuieter
  <2>. QED
    BY <2>1, <2>2, <2>3, QuieterLow
<1>. QED
  BY <1>1, <1>2

LEMMA UpsertDirLow ==
  ASSUME NEW i, Low(i), NEW p, NEW mtime
  PROVE  Low(UpsertDir(i, p, mtime))
<1>1. CASE p \in DOMAIN i.lookup
  <2>. DEFINE N == [i.nodes EXCEPT ![i.lookup[p]].mtime = mtime]
              r == [i EXCEPT !.nodes = N]
  <2>1. UpsertDir(i, p, mtime) = r
    BY <1>1, Zenon DEF UpsertDir
  <2>2. DOMAIN N = DOMAIN i.nodes
    OBVIOUS
  <2>. HIDE DEF N
  <2>3. IsIndex(r) /\ r.nodes = N /\ r.lookup = i.lookup /\ r.lastID = i.lastID
    BY NewNodes DEF Low
  <2>. HIDE DEF r
  <2>4. Quieter(i, r)
    BY <2>2, <2>3 DEF Quieter, Known
  <2>. QED
    BY <2>1, <2>4, QuieterLow
<1>2. CASE p \notin DOMAIN i.lookup
  <2>1. UpsertDir(i, p, mtime) = Insert(i, p, TRUE, 0, mtime)
    BY <1>2, Zenon DEF UpsertDir
  <2>2. TRUE \in BOOLEAN
    OBVIOUS
  <2>. QED
    BY <2>1, <2>2, InsertLow
<1>. QED
  BY <1>1, <1>2

LEMMA RemoveLow ==
  ASSUME NEW i, Low(i), NEW p, NEW isDir
  PROVE  Low(Remove(i, p, isDir))
<1>1. CASE p \notin DOMAIN i.lookup
  BY <1>1 DEF Remove
<1>2. CASE p \in DOMAIN i.lookup /\ isDir
  <2>. DEFINE id == i.lookup[p]
              gone == WalkDeleted(i, id)
              sized == UpsertParentSize(i.nodes, i.child, id, -i.nodes[id].size)
              lost == {i.nodes[x].path : x \in gone \cap DOMAIN i.nodes}
              r == RemoveDir(i, id)
  <2>1. Remove(i, p, isDir) = r
    BY <1>2, Zenon DEF Remove
  <2>2. /\ IsIndex(r) /\ r.nodes = Without(sized, gone) /\ r.lookup = Without(i.lookup, lost)
        /\ r.lastID = i.lastID
    BY MakeIndex, Zenon DEF RemoveDir
  <2>3. DOMAIN sized \subseteq DOMAIN i.nodes \cup {NoId}
    BY ResizedDomain
  <2>. HIDE DEF sized, gone, lost, r, id
  <2>4. Quieter(i, r)
    BY <2>2, <2>3 DEF Quieter, Known, Without
  <2>. QED
    BY <2>1, <2>4, QuieterLow
<1>3. CASE p \in DOMAIN i.lookup /\ ~isDir
  <2>. DEFINE id == i.lookup[p]
              big == UpsertParentSize(i.nodes, i.child, id, -i.nodes[id].size)
              sized == IF i.nodes[id].parent \in DOMAIN i.tree THEN big ELSE i.nodes
              r == RemoveFile(i, id, p)
  <2>1. Remove(i, p, isDir) = r
    BY <1>3, Zenon DEF Remove
  <2>2. /\ IsIndex(r) /\ r.nodes = Without(sized, {id}) /\ r.lookup = Without(i.lookup, {p})
        /\ r.lastID = i.lastID
    BY MakeIndex, Zenon DEF RemoveFile
  <2>3. DOMAIN sized \subseteq DOMAIN i.nodes \cup {NoId}
    <3>1. DOMAIN big \subseteq DOMAIN i.nodes \cup {NoId}
      BY ResizedDomain
    <3>. HIDE DEF big
    <3>. QED
      BY <3>1
  <2>. HIDE DEF sized, r, id
  <2>4. Quieter(i, r)
    BY <2>2, <2>3 DEF Quieter, Known, Without
  <2>. QED
    BY <2>1, <2>4, QuieterLow
<1>. QED
  BY <1>1, <1>2, <1>3

LEMMA RenameLow ==
  ASSUME NEW i, Low(i), NEW old, NEW new, NEW mtime, NEW r \in RenameNode(i, old, new, mtime)
  PROVE  Low(r)
<1>. DEFINE id == i.lookup[old]
            off == Detach(i, id, old)
            on == Attach(off, id, new, mtime)
            moved == Renamed(on.tree, id)
<1>1. CASE old \notin DOMAIN i.lookup
  BY <1>1 DEF RenameNode
<1>2. CASE old \in DOMAIN i.lookup
  <2>1. IsIndex(off) /\ Low(off) /\ id \in Known(i)
    <3>. DEFINE N == UpsertParentSize(i.nodes, i.child, id, -i.nodes[id].size)
    <3>1. IsIndex(off) /\ off.nodes = N /\ off.lookup = Without(i.lookup, {old}) /\ off.lastID = i.lastID
      BY MakeIndex, Zenon DEF Detach
    <3>2. DOMAIN N \subseteq DOMAIN i.nodes \cup {NoId}
      BY ResizedDomain
    <3>. HIDE DEF N, off
    <3>3. Quieter(i, off)
      BY <3>1, <3>2 DEF Quieter, Known, Without
    <3>4. id \in Known(i)
      BY <1>2 DEF Known
    <3>. QED
      BY <3>1, <3>3, <3>4, QuieterLow
  <2>2. off.lastID = i.lastID
    BY MakeIndex, Zenon DEF Detach
  <2>3. IsIndex(on) /\ Low(on)
    <3>. DEFINE N == [off.nodes EXCEPT ![id] =
                        [@ EXCEPT !.parent = off.lookup[Dir(new)], !.mtime = mtime,
                                  !.path = new, !.name = Base(new)]]
    <3>1. IsIndex(on) /\ on.nodes = N /\ on.lookup = Put(off.lookup, new, id) /\ on.lastID = off.lastID
      BY MakeIndex, Zenon DEF Attach
    <3>2. DOMAIN N = DOMAIN off.nodes
      OBVIOUS
    <3>3. id \in Id /\ id[1] =< on.lastID /\ on.lastID \in Nat /\ off.lastID =< on.lastID
      BY <2>1, <2>2, <3>1 DEF Low, Within
    <3>. HIDE DEF N, on, off, id
    <3>4. Known(on) \subseteq Known(off) \cup {id}
      BY <3>1, <3>2 DEF Known, Put
    <3>. QED
      BY <2>1, <3>1, <3>3, <3>4, LowFrom
  <2>4. r = off \/ (~SliceFails(on, moved, old) /\ \E m \in MovePaths(on, moved, old, new) : r = Settle(m, id))
    <3>. HIDE DEF on, moved, off
    <3>. QED
      BY <1>2 DEF RenameNode, on, moved, off
  <2>. HIDE DEF off, on, moved, id
  <2>5. ASSUME ~SliceFails(on, moved, old), NEW m \in MovePaths(on, moved, old, new)
        PROVE  Low(Settle(m, id))
    <3>1. moved \subseteq DOMAIN on.nodes
      BY <2>5 DEF SliceFails
    <3>. DEFINE target == [c \in moved |-> Rebase(on.nodes[c].path, old, new)]
                kept == Without(on.lookup, {on.nodes[c].path : c \in moved})
                N == [x \in DOMAIN on.nodes |-> IF x \in moved
                        THEN [on.nodes[x] EXCEPT !.path = target[x]] ELSE on.nodes[x]]
    <3>2. PICK own \in [{target[c] : c \in moved} -> moved] :
            m = [on EXCEPT !.nodes = N,
                           !.lookup = [q \in DOMAIN kept \cup DOMAIN own |->
                                         IF q \in DOMAIN own THEN own[q] ELSE kept[q]]]
      BY <2>5, Zenon DEF MovePaths
    <3>. DEFINE L == [q \in DOMAIN kept \cup DOMAIN own |->
                        IF q \in DOMAIN own THEN own[q] ELSE kept[q]]
    <3>3. m = [nodes |-> N, lookup |-> L, tree |-> on.tree, child |-> on.child,
               grams |-> on.grams, lastID |-> on.lastID]
      <4>. HIDE DEF N, L
      <4>1. on = [nodes |-> on.nodes, lookup |-> on.lookup, tree |-> on.tree, child |-> on.child,
                  grams |-> on.grams, lastID |-> on.lastID]
        BY <2>3 DEF IsIndex
      <4>2. m = [on EXCEPT !.nodes = N, !.lookup = L]
        BY <3>2, Zenon DEF N, L
      <4>. QED
        BY <4>1, <4>2
    <3>4. DOMAIN N = DOMAIN on.nodes
      OBVIOUS
    <3>5. \A q \in DOMAIN L : L[q] \in moved \/ (q \in DOMAIN on.lookup /\ L[q] = on.lookup[q])
      BY DEF Without
    <3>. HIDE DEF N, L
    <3>6. IsIndex(m) /\ m.nodes = N /\ m.lookup = L /\ m.lastID = on.lastID
      BY <3>3, MakeIndex
    <3>7. Quieter(on, m)
      BY <3>1, <3>4, <3>5, <3>6 DEF Quieter, Known
    <3>8. Low(m)
      BY <2>3, <3>7, QuieterLow
    <3>. DEFINE s == Settle(m, id)
                M == UpsertParentSize(m.nodes, m.child, id, m.nodes[id].size)
    <3>9. IsIndex(s) /\ s.nodes = M /\ s.lookup = m.lookup /\ s.lastID = m.lastID
      BY MakeIndex, Zenon DEF Settle
    <3>10. DOMAIN M \subseteq DOMAIN m.nodes \cup {NoId}
      BY ResizedDomain
    <3>. HIDE DEF M, s
    <3>11. Quieter(m, s)
      BY <3>9, <3>10 DEF Quieter, Known
    <3>. QED
      BY <3>8, <3>11, QuieterLow DEF s
  <2>. QED
    BY <2>1, <2>4, <2>5
<1>. QED
  BY <1>1, <1>2

LEMMA DeleteInvalidLow ==
  ASSUME NEW i, Low(i), NEW id
  PROVE  Low(DeleteInvalid(i, id))
<1>. DEFINE r == [nodes |-> Without(i.nodes, {id}), lookup |-> i.lookup, tree |-> i.tree,
                  child |-> i.child, grams |-> RemoveFromIndex(i.grams, i.nodes[id].name, id),
                  lastID |-> i.lastID]
<1>1. DeleteInvalid(i, id) = r \/ DeleteInvalid(i, id) = i
  BY Zenon DEF DeleteInvalid
<1>2. IsIndex(r) /\ r.nodes = Without(i.nodes, {id}) /\ r.lookup = i.lookup /\ r.lastID = i.lastID
  BY MakeIndex
<1>. HIDE DEF r
<1>3. Quieter(i, r)
  BY <1>2 DEF Quieter, Known, Without
<1>. QED
  BY <1>1, <1>3, QuieterLow

-----------------------------------------------------------------------------
(* Replayed entries.                                                       *)

LEMMA LargerOf ==
  \A a, b \in Nat : Max({a, b}) \in Nat /\ a =< Max({a, b}) /\ b =< Max({a, b})
<1>. SUFFICES ASSUME NEW a \in Nat, NEW b \in Nat
              PROVE  Max({a, b}) \in Nat /\ a =< Max({a, b}) /\ b =< Max({a, b})
  OBVIOUS
<1>1. \E x \in {a, b} : \A y \in {a, b} : x >= y
  OBVIOUS
<1>2. Max({a, b}) \in {a, b} /\ \A y \in {a, b} : Max({a, b}) >= y
  BY <1>1, Zenon DEF Max
<1>. DEFINE m == Max({a, b})
<1>. HIDE DEF m
<1>3. m \in {a, b} /\ \A y \in {a, b} : m >= y
  BY <1>2 DEF m
<1>4. m \in Nat /\ a =< m /\ b =< m
  BY <1>3
<1>. QED
  BY <1>4 DEF m

LEMMA ApplyLow ==
  ASSUME NEW i, Low(i), NEW e, e.id \in Id
  PROVE  Low(ApplyToMemory(i, e))
<1>. DEFINE r == ApplyToMemory(i, e)
            n == Max({i.lastID, e.id[1]})
            node == LoadedNode(e)
<1>1. /\ IsIndex(r) /\ r.nodes = Put(i.nodes, e.id, node) /\ r.lookup = Put(i.lookup, e.path, e.id)
      /\ r.lastID = n
  BY MakeIndex, Zenon DEF ApplyToMemory
<1>2. e.id[1] \in Nat /\ i.lastID \in Nat
  BY DEF Low, Id
<1>3. n \in Nat /\ i.lastID =< n /\ e.id[1] =< n
  BY <1>2, LargerOf
<1>. HIDE DEF r, n, node
<1>4. Known(r) \subseteq Known(i) \cup {e.id}
  BY <1>1 DEF Known, Put
<1>5. Low(r)
  BY <1>1, <1>3, <1>4, LowFrom
<1>. QED
  BY <1>5 DEF r

LEMMA MetadataLow ==
  ASSUME NEW i, Low(i), NEW e, e.id \in Id
  PROVE  Low(UpdateNodeMetadata(i, e))
<1>1. CASE e.id \notin DOMAIN i.nodes
  BY <1>1, ApplyLow DEF UpdateNodeMetadata
<1>2. CASE e.id \in DOMAIN i.nodes
  <2>. DEFINE node == i.nodes[e.id]
              big == UpsertParentSize(i.nodes, i.child, e.id, e.size - node.size)
              sized == IF node.size = e.size THEN i.nodes ELSE big
              N == Put(sized, e.id, [node EXCEPT !.size = e.size, !.mtime = e.mtime])
              r == [i EXCEPT !.nodes = N]
  <2>1. UpdateNodeMetadata(i, e) = r
    BY <1>2, Zenon DEF UpdateNodeMetadata
  <2>2. DOMAIN big \subseteq DOMAIN i.nodes \cup {NoId}
    BY ResizedDomain
  <2>. HIDE DEF big
  <2>3. DOMAIN sized \subseteq DOMAIN i.nodes \cup {NoId}
    BY <2>2
  <2>. HIDE DEF sized
  <2>4. DOMAIN N \subseteq DOMAIN i.nodes \cup {NoId}
    BY <1>2, <2>3 DEF Put
  <2>. HIDE DEF N
  <2>5. IsIndex(r) /\ r.nodes = N /\ r.lookup = i.lookup /\ r.lastID = i.lastID
    BY NewNodes DEF Low
  <2>. HIDE DEF r
  <2>6. Quieter(i, r)
    BY <2>4, <2>5 DEF Quieter, Known
  <2>. QED
    BY <2>1, <2>6, QuieterLow
<1>. QED
  BY <1>1, <1>2

LEMMA DeleteNodeLow ==
  ASSUME NEW i, Low(i), NEW e
  PROVE  Low(DeleteInvalidNode(i, e))
<1>. DEFINE N == Without(i.nodes, {e.id})
            G == RemoveFromIndex(i.grams, e.name, e.id)
            r == [nodes |-> N, lookup |-> i.lookup, tree |-> i.tree,
                  child |-> i.child, grams |-> G, lastID |-> i.lastID]
<1>1. DeleteInvalidNode(i, e) = r
  <2>1. i = [nodes |-> i.nodes, lookup |-> i.lookup, tree |-> i.tree, child |-> i.child,
             grams |-> i.grams, lastID |-> i.lastID]
    BY DEF Low, IsIndex
  <2>2. DeleteInvalidNode(i, e) = [i EXCEPT !.nodes = N, !.grams = G]
    BY Zenon DEF DeleteInvalidNode
  <2>. HIDE DEF N, G
  <2>. QED
    BY <2>1, <2>2
<1>2. IsIndex(r) /\ r.nodes = N /\ r.lookup = i.lookup /\ r.lastID = i.lastID
  BY MakeIndex
<1>. HIDE DEF r
<1>3. Quieter(i, r)
  BY <1>2 DEF Quieter, Known, Without
<1>. QED
  BY <1>1, <1>3, QuieterLow

\* What a replay without invalid names can meet.
Plain(e) ==
  /\ e.op \in {"upsert", "update", "delete", "rename", "invalidDelete"}
  /\ e.op \in {"upsert", "update"} => e.id \in Id

LEMMA ReplayedLow ==
  ASSUME NEW i, Low(i), NEW e, Plain(e), NEW r \in Replayed(i, e)
  PROVE  Low(r)
<1>1. CASE e.op = "upsert"
  BY <1>1, ApplyLow DEF Replayed, Plain
<1>2. CASE e.op = "update"
  BY <1>2, MetadataLow DEF Replayed, Plain
<1>3. CASE e.op = "delete"
  BY <1>3, RemoveLow DEF Replayed
<1>4. CASE e.op = "rename"
  BY <1>4, RenameLow DEF Replayed
<1>5. CASE e.op = "invalidDelete"
  BY <1>5, DeleteNodeLow DEF Replayed
<1>. QED
  BY <1>1, <1>2, <1>3, <1>4, <1>5 DEF Plain

\* A finite set of naturals is bounded: enumerate it, and a first stretch
\* without a bound would give the one before it none.
LEMMA BoundExists ==
  ASSUME NEW T, T \subseteq Nat, IsFiniteSet(T)
  PROVE  \E b \in Nat : \A m \in T : m =< b
<1>. DEFINE n == Cardinality(T)
<1>1. n \in Nat /\ ExistsBijection(1 .. n, T)
  BY FS_CardinalityType
<1>. HIDE DEF n
<1>2. n \in Nat
  BY <1>1
<1>3. PICK f \in [1 .. n -> T] : \A m \in T : \E k \in 1 .. n : f[k] = m
  BY <1>1 DEF ExistsBijection, Bijection, Surjection
<1>4. \A k \in 1 .. n : f[k] \in Nat
  OBVIOUS
<1>. DEFINE Bounds(k) == {b \in Nat : \A j \in 1 .. k : f[j] =< b}
            Bad == {k \in 0 .. n : Bounds(k) = {}}
<1>5. 0 \in Bounds(0)
  OBVIOUS
<1>6. ASSUME NEW k \in 1 .. n, NEW b \in Bounds(k - 1)
      PROVE  b + f[k] \in Bounds(k)
  <2>1. k \in Nat /\ b \in Nat /\ f[k] \in Nat /\ b + f[k] \in Nat
    BY <1>2, <1>4, <1>6
  <2>2. ASSUME NEW j \in 1 .. k
        PROVE  f[j] =< b + f[k]
    <3>1. j \in 1 .. n /\ (j = k \/ j \in 1 .. k - 1)
      BY <1>2, <2>1, <2>2
    <3>2. f[j] \in Nat /\ (j = k \/ f[j] =< b)
      BY <1>4, <1>6, <3>1
    <3>. QED
      BY <2>1, <3>2
  <2>. QED
    BY <2>1, <2>2
<1>. HIDE DEF Bounds
<1>7. Bad = {}
  <2>. SUFFICES ASSUME Bad # {}
                PROVE  FALSE
    OBVIOUS
  <2>1. PICK k \in Bad : \A j \in Bad : k =< j
    <3>1. Bad \subseteq Nat
      BY <1>2
    <3>. HIDE DEF Bad
    <3>. QED
      BY <3>1, LeastNat
  <2>2. k \in 0 .. n /\ Bounds(k) = {}
    BY <2>1
  <2>3. k # 0
    BY <1>5, <2>2
  <2>4. k \in 1 .. n /\ k - 1 \in 0 .. n /\ ~(k =< k - 1)
    BY <1>2, <2>2, <2>3
  <2>5. Bounds(k - 1) # {}
    BY <2>1, <2>4
  <2>. QED
    BY <1>6, <2>2, <2>4, <2>5
<1>8. n \in 0 .. n
  BY <1>2
<1>9. PICK b \in Bounds(n) : TRUE
  BY <1>7, <1>8
<1>10. b \in Nat /\ \A j \in 1 .. n : f[j] =< b
  BY <1>9 DEF Bounds
<1>. QED
  BY <1>3, <1>10

\* A finite set of naturals has a greatest element: of its upper bounds the
\* least one belongs to it.
LEMMA GreatestNat ==
  ASSUME NEW T, T \subseteq Nat, IsFiniteSet(T), T # {}
  PROVE  \E n \in T : \A m \in T : m =< n
<1>. DEFINE U == {n \in Nat : \A m \in T : m =< n}
<1>1. U # {}
  BY BoundExists
<1>2. PICK n \in U : \A k \in U : n =< k
  <2>1. U \subseteq Nat
    OBVIOUS
  <2>. HIDE DEF U
  <2>. QED
    BY <1>1, <2>1, LeastNat
<1>3. n \in T
  <2>. SUFFICES ASSUME n \notin T
                PROVE  FALSE
    OBVIOUS
  <2>1. n \in Nat /\ \A m \in T : m =< n /\ m # n /\ m \in Nat
    BY <1>2
  <2>2. n # 0
    <3>1. PICK m \in T : TRUE
      OBVIOUS
    <3>2. m =< n /\ m # n /\ m \in Nat
      BY <2>1
    <3>. QED
      BY <3>2
  <2>3. n - 1 \in U
    BY <2>1, <2>2
  <2>4. n =< n - 1
    BY <1>2, <2>3
  <2>. QED
    BY <2>1, <2>4
<1>. QED
  BY <1>2, <1>3

\* A start takes the counter from the snapshot.
LEMMA LoadedLow ==
  ASSUME NEW nodes, DOMAIN nodes \subseteq Id, IsFiniteSet(DOMAIN nodes), NEW r \in Loaded(nodes)
  PROVE  Low(r) /\ DOMAIN r.nodes = DOMAIN nodes
<1>. DEFINE placed == {x \in DOMAIN nodes : ~nodes[x].invalid}
            paths == {nodes[x].path : x \in placed}
            name(x) == IF x \in placed THEN Base(nodes[x].path) ELSE nodes[x].name
            used == {0} \cup {x[1] : x \in DOMAIN nodes}
            N == [x \in DOMAIN nodes |-> [nodes[x] EXCEPT !.name = name(x)]]
            top == CHOOSE n \in used : \A m \in used : m =< n
            T == [d \in {nodes[x].parent : x \in placed} |-> {x \in placed : nodes[x].parent = d}]
            C == [x \in placed |-> nodes[x].parent]
            G == UNION {NameGrams(name(x)) \X {x} : x \in DOMAIN nodes}
<1>0. PICK own \in [paths -> placed] :
        r = [nodes |-> N, lookup |-> own, tree |-> T, child |-> C, grams |-> G, lastID |-> top]
  BY Zenon DEF Loaded
<1>1. IsIndex(r) /\ r.nodes = N /\ r.lookup = own /\ r.lastID = top
  <2>. HIDE DEF N, T, C, G, top
  <2>. QED
    BY <1>0, MakeIndex
<1>2. used \subseteq Nat /\ IsFiniteSet(used) /\ used # {}
  <2>1. used \subseteq Nat
    BY DEF Id
  <2>2. IsFiniteSet({x[1] : x \in DOMAIN nodes})
    <3>. DEFINE ns == {x[1] : x \in DOMAIN nodes}
                f == [x \in DOMAIN nodes |-> x[1]]
    <3>1. f \in Surjection(DOMAIN nodes, ns)
      BY DEF Surjection
    <3>. QED
      BY <3>1, FS_Surjection DEF ExistsSurjection
  <2>3. IsFiniteSet({0})
    BY FS_Singleton
  <2>4. IsFiniteSet(used)
    BY <2>2, <2>3, FS_Union
  <2>. QED
    BY <2>1, <2>4
<1>3. top \in used /\ \A m \in used : m =< top
  <2>. HIDE DEF used
  <2>1. \E n \in used : \A m \in used : m =< n
    BY <1>2, GreatestNat
  <2>. QED
    BY <2>1
<1>4. DOMAIN N = DOMAIN nodes
  OBVIOUS
<1>5. placed \subseteq DOMAIN nodes
  OBVIOUS
<1>6. \A x \in DOMAIN nodes : x \in Id /\ x[1] =< top
  BY <1>3
<1>7. top \in Nat
  BY <1>2, <1>3
<1>. HIDE DEF N, top, placed, paths, used
<1>8. Known(r) \subseteq DOMAIN nodes \cup {NoId}
  BY <1>1, <1>4, <1>5 DEF Known
<1>. QED
  BY <1>1, <1>4, <1>6, <1>7, <1>8, NoIdLow DEF Low, Within

-----------------------------------------------------------------------------
(* The way to the log.  Whatever the handlers of one state and the next    *)
(* submit stays in the channel, the buffer and the log in whole entries,   *)
(* but for the entry a full buffer has cut: its first part ends what was   *)
(* written, its rest heads the buffer.                                     *)

\* Whole entries of S, their last one possibly cut, and their first one
\* possibly a rest.
Stream(S, more) ==
  more \in Seq(S \cup {Half}) \/
  \E e \in S, t \in Seq(S \cup {Half}) : more = <<Rest(e)>> \o t
Buffer(S, more) ==
  more \in Seq(S) \/ \E e \in S, t \in Seq(S) : more = <<Rest(e)>> \o t

PlainSet(S) == \A e \in S : Plain(e)

\* The pipeline holds nothing but entries of S.
Pipe(S) == PlainSet(S) /\ ch \in Seq(S) /\ Buffer(S, buf) /\ log \in Seq(S \cup {Half})

LEMMA NotRest ==
  ASSUME NEW S, PlainSet(S), NEW e \in S \cup {Half}
  PROVE  e.op # "rest"
  BY DEF PlainSet, Plain, Half

LEMMA FrontSeq ==
  ASSUME NEW S, NEW s \in Seq(S)
  PROVE  /\ SQ!Front(s) \in Seq(S)
         /\ s # <<>> => /\ Len(SQ!Front(s)) = Len(s) - 1
                        /\ \A k \in 1 .. Len(s) - 1 : SQ!Front(s)[k] = s[k]
<1>1. CASE s = <<>>
  BY <1>1 DEF SQ!Front
<1>2. CASE s # <<>>
  <2>. DEFINE n == Len(s) - 1
  <2>1. Len(s) \in Nat \ {0}
    BY <1>2, EmptySeq
  <2>2. n \in Int /\ \A k \in 1 .. n : s[k] \in S
    BY <2>1, ElementOfSeq
  <2>3. n >= 0 /\ n - 1 + 1 = n
    BY <2>1
  <2>. HIDE DEF n
  <2>4. /\ SubSeq(s, 1, n) \in Seq(S)
        /\ Len(SubSeq(s, 1, n)) = IF 1 =< n THEN n - 1 + 1 ELSE 0
        /\ \A k \in 1 .. n - 1 + 1 : SubSeq(s, 1, n)[k] = s[1 + k - 1]
    BY <2>2, SubSeqProperties
  <2>5. Len(SubSeq(s, 1, n)) = n
    BY <2>2, <2>3, <2>4
  <2>6. ASSUME NEW k \in 1 .. n
        PROVE  SubSeq(s, 1, n)[k] = s[k]
    <3>1. 1 + k - 1 = k /\ k \in 1 .. n - 1 + 1
      BY <2>2, <2>3
    <3>. QED
      BY <2>4, <3>1
  <2>. QED
    BY <2>4, <2>5, <2>6 DEF SQ!Front, n
<1>. QED
  BY <1>1, <1>2

\* What follows a rest.
LEMMA AfterRest ==
  ASSUME NEW S, NEW x, NEW t \in Seq(S)
  PROVE  /\ <<x>> \o t # <<>> /\ Head(<<x>> \o t) = x /\ Tail(<<x>> \o t) = t
         /\ Len(<<x>> \o t) = Len(t) + 1
         /\ t # <<>> => /\ SQ!Last(<<x>> \o t) = SQ!Last(t)
                        /\ SQ!Front(<<x>> \o t) = <<x>> \o SQ!Front(t)
         /\ t = <<>> => SQ!Last(<<x>> \o t) = x
<1>. DEFINE X == S \cup {x}
            c == <<x>> \o t
<1>1. t \in Seq(X) /\ <<x>> \in Seq(X) /\ Len(t) \in Nat /\ Len(<<x>>) = 1 /\ <<x>>[1] = x
  BY SeqMonotonic, LenProperties
<1>. HIDE DEF X
<1>2. /\ c \in Seq(X) /\ Len(c) = Len(t) + 1 /\ c[1] = x
      /\ \A k \in 1 .. Len(t) : c[k + 1] = t[k]
  <2>1. /\ c \in Seq(X) /\ Len(c) = 1 + Len(t)
        /\ \A k \in 1 .. 1 + Len(t) : c[k] = IF k =< 1 THEN x ELSE t[k - 1]
    BY <1>1, ConcatProperties
  <2>2. ASSUME NEW k \in 1 .. Len(t)
        PROVE  c[k + 1] = t[k]
    <3>1. k + 1 \in 1 .. 1 + Len(t) /\ ~(k + 1 =< 1) /\ (k + 1) - 1 = k
      BY <1>1
    <3>. QED
      BY <2>1, <3>1
  <2>3. 1 \in 1 .. 1 + Len(t)
    BY <1>1
  <2>. HIDE DEF c
  <2>. QED
    BY <1>1, <2>1, <2>2, <2>3
<1>. HIDE DEF c
<1>3. c # <<>>
  BY <1>1, <1>2, EmptySeq
<1>4. Head(c) = x
  BY <1>2, <1>3
<1>5. Tail(c) = t
  <2>1. Tail(c) \in Seq(X) /\ Len(Tail(c)) = Len(t)
        /\ \A k \in 1 .. Len(Tail(c)) : Tail(c)[k] = c[k + 1]
    BY <1>1, <1>2, <1>3, HeadTailProperties
  <2>. QED
    BY <1>1, <1>2, <2>1, SeqEqual
<1>6. ASSUME t # <<>>
      PROVE  SQ!Last(c) = SQ!Last(t) /\ SQ!Front(c) = <<x>> \o SQ!Front(t)
  <2>1. Len(t) \in Nat \ {0}
    BY <1>6, EmptySeq
  <2>2. c[Len(t) + 1] = t[Len(t)]
    BY <1>2, <2>1
  <2>3. SQ!Front(t) \in Seq(X) /\ SQ!Front(c) \in Seq(X)
    BY <1>1, <1>2, FrontSeq
  <2>4. /\ Len(SQ!Front(t)) = Len(t) - 1
        /\ \A k \in 1 .. Len(t) - 1 : SQ!Front(t)[k] = t[k]
    BY <1>1, <1>6, FrontSeq
  <2>5. /\ Len(SQ!Front(c)) = Len(t)
        /\ \A k \in 1 .. Len(t) : SQ!Front(c)[k] = c[k]
    <3>1. Len(c) - 1 = Len(t)
      BY <1>2, <2>1
    <3>. QED
      BY <1>2, <1>3, <3>1, FrontSeq
  <2>. DEFINE d == <<x>> \o SQ!Front(t)
  <2>6. /\ d \in Seq(X) /\ Len(d) = Len(t)
        /\ \A k \in 1 .. Len(t) : d[k] = IF k =< 1 THEN x ELSE SQ!Front(t)[k - 1]
    <3>1. Len(<<x>>) + Len(SQ!Front(t)) = Len(t)
      BY <1>1, <2>1, <2>4
    <3>. QED
      BY <1>1, <2>3, <3>1, ConcatProperties
  <2>. HIDE DEF d
  <2>7. ASSUME NEW k \in 1 .. Len(t)
        PROVE  SQ!Front(c)[k] = d[k]
    <3>1. CASE k = 1
      BY <1>2, <2>5, <2>6, <3>1
    <3>2. CASE k # 1
      <4>1. k - 1 \in 1 .. Len(t) - 1 /\ k - 1 \in 1 .. Len(t) /\ (k - 1) + 1 = k /\ ~(k =< 1)
        BY <2>1, <3>2
      <4>2. c[k] = t[k - 1]
        BY <1>2, <4>1
      <4>3. SQ!Front(t)[k - 1] = t[k - 1]
        BY <2>4, <4>1
      <4>. QED
        BY <2>5, <2>6, <4>1, <4>2, <4>3
    <3>. QED
      BY <3>1, <3>2
  <2>8. SQ!Front(c) = d
    BY <2>3, <2>5, <2>6, <2>7, SeqEqual
  <2>. QED
    BY <1>2, <2>2, <2>8 DEF SQ!Last, d
<1>7. ASSUME t = <<>>
      PROVE  SQ!Last(c) = x
  BY <1>2, <1>7 DEF SQ!Last
<1>. QED
  BY <1>2, <1>3, <1>4, <1>5, <1>6, <1>7 DEF c

LEMMA BufferWiden ==
  ASSUME NEW S, NEW T, S \subseteq T, NEW more, Buffer(S, more)
  PROVE  Buffer(T, more)
  BY SeqMonotonic, Zenon DEF Buffer

LEMMA AppendedWhole ==
  ASSUME NEW S, PlainSet(S), NEW entries \in Seq(S \cup {Half}), NEW more, Stream(S, more)
  PROVE  Appended(entries, more) \in Seq(S \cup {Half})
<1>. DEFINE H == S \cup {Half}
<1>1. CASE more = <<>>
  BY <1>1 DEF Appended
<1>2. CASE more # <<>> /\ more \in Seq(H)
  <2>1. Head(more) \in H
    BY <1>2, HeadTailProperties
  <2>2. Head(more).op # "rest"
    BY <2>1, NotRest
  <2>3. Appended(entries, more) = entries \o more
    BY <1>2, <2>2, Zenon DEF Appended
  <2>. QED
    BY <1>2, <2>3, ConcatProperties
<1>3. ASSUME NEW e \in S, NEW t \in Seq(H), more = <<Rest(e)>> \o t
      PROVE  Appended(entries, more) \in Seq(H)
  <2>1. more # <<>> /\ Head(more) = Rest(e) /\ Tail(more) = t
    BY <1>3, AfterRest
  <2>2. Rest(e).op = "rest" /\ Rest(e).of = e
    BY DEF Rest
  <2>3. Appended(entries, more) = SQ!Front(entries) \o <<e>> \o t
    BY <2>1, <2>2, Zenon DEF Appended
  <2>. HIDE DEF H
  <2>4. SQ!Front(entries) \in Seq(H) /\ <<e>> \in Seq(H)
    BY FrontSeq DEF H
  <2>. QED
    BY <2>3, <2>4, ConcatProperties
<1>. QED
  BY <1>1, <1>2, <1>3 DEF Stream

\* A buffer written out in the middle of its last entry.
LEMMA CutWhole ==
  ASSUME NEW S, NEW b, Buffer(S, b), b # <<>>, SQ!Last(b).op # "rest"
  PROVE  SQ!Last(b) \in S /\ Stream(S, Append(SQ!Front(b), Half))
<1>. DEFINE H == S \cup {Half}
<1>0. \A s \in Seq(S) : s \in Seq(H)
  BY SeqMonotonic
<1>1. CASE b \in Seq(S)
  <2>1. Len(b) \in 1 .. Len(b)
    BY <1>1, EmptySeq
  <2>2. SQ!Last(b) \in S
    BY <1>1, <2>1, ElementOfSeq DEF SQ!Last
  <2>3. SQ!Front(b) \in Seq(H)
    BY <1>0, <1>1, FrontSeq
  <2>4. Append(SQ!Front(b), Half) \in Seq(H)
    BY <2>3, AppendProperties
  <2>. QED
    BY <2>2, <2>4 DEF Stream
<1>2. ASSUME NEW e \in S, NEW t \in Seq(S), b = <<Rest(e)>> \o t
      PROVE  SQ!Last(b) \in S /\ Stream(S, Append(SQ!Front(b), Half))
  <2>1. t # <<>>
    BY <1>2, AfterRest DEF Rest
  <2>2. SQ!Last(b) = SQ!Last(t) /\ SQ!Front(b) = <<Rest(e)>> \o SQ!Front(t)
    <3>. DEFINE x == Rest(e)
    <3>. HIDE DEF x
    <3>1. SQ!Last(<<x>> \o t) = SQ!Last(t) /\ SQ!Front(<<x>> \o t) = <<x>> \o SQ!Front(t)
      BY <2>1, AfterRest
    <3>. QED
      BY <1>2, <3>1, Zenon DEF x
  <2>3. Len(t) \in 1 .. Len(t)
    BY <2>1, EmptySeq
  <2>4. SQ!Last(b) \in S
    BY <2>2, <2>3, ElementOfSeq DEF SQ!Last
  <2>. DEFINE u == SQ!Front(t)
              X == H \cup {Rest(e)}
  <2>5. u \in Seq(H)
    BY <1>0, FrontSeq
  <2>6. Append(u, Half) \in Seq(H)
    BY <2>5, AppendProperties
  <2>7. Append(<<Rest(e)>> \o u, Half) = <<Rest(e)>> \o Append(u, Half)
    <3>. HIDE DEF u
    <3>1. u \in Seq(X)
      BY <2>5, SeqMonotonic
    <3>2. Rest(e) \in X /\ Half \in X
      OBVIOUS
    <3>. HIDE DEF X
    <3>3. <<Rest(e)>> \in Seq(X) /\ <<Half>> \in Seq(X)
      BY <3>2
    <3>4. Append(u, Half) = u \o <<Half>>
      BY <3>1, <3>2, AppendIsConcat
    <3>5. <<Rest(e)>> \o u \in Seq(X)
      BY <3>1, <3>3, ConcatProperties
    <3>6. Append(<<Rest(e)>> \o u, Half) = (<<Rest(e)>> \o u) \o <<Half>>
      BY <3>2, <3>5, AppendIsConcat
    <3>. QED
      BY <3>1, <3>3, <3>4, <3>6, ConcatAssociative
  <2>. QED
    BY <2>2, <2>4, <2>6, <2>7 DEF Stream
<1>. QED
  BY <1>1, <1>2 DEF Buffer

\* What a replay reads of the log.
LEMMA SoundEntries ==
  ASSUME NEW S, PlainSet(S), NEW entries \in Seq(S \cup {Half})
  PROVE  /\ Sound(entries) \in Seq(S) /\ Len(Sound(entries)) =< Len(entries)
         /\ \A n \in 1 .. Len(Sound(entries)) : n \in 1 .. Len(entries) /\ entries[n] \in S
<1>. DEFINE cuts == {n \in 1 .. Len(entries) : entries[n].op = "half"}
            cut == IF cuts # {} THEN SQ!Min(cuts) ELSE 0
            H == S \cup {Half}
<1>0. Len(entries) \in Nat /\ \A n \in 1 .. Len(entries) : entries[n] \in H
  BY LenProperties, ElementOfSeq
<1>1. Sound(entries) = IF cut = 0 THEN entries ELSE SubSeq(entries, 1, cut - 1)
  BY DEF Sound, SQ!SelectInSeq
<1>2. \A n \in 1 .. Len(entries) : n \notin cuts => entries[n] \in S
  BY <1>0 DEF Half
<1>3. CASE cuts = {}
  <2>1. Sound(entries) = entries
    BY <1>1, <1>3
  <2>2. entries \in Seq(S)
    <3>1. \A n \in 1 .. Len(entries) : entries[n] \in S
      BY <1>2, <1>3
    <3>. HIDE DEF cuts
    <3>2. entries = [n \in 1 .. Len(entries) |-> entries[n]]
      BY LenProperties
    <3>3. entries \in [1 .. Len(entries) -> S]
      BY <3>1, <3>2
    <3>. QED
      BY <1>0, <3>3, SeqDef
  <2>. QED
    BY <1>0, <1>2, <1>3, <2>1, <2>2
<1>4. CASE cuts # {}
  <2>1. \E n \in cuts : \A m \in cuts : n =< m
    <3>1. cuts \subseteq Nat
      BY <1>0
    <3>. HIDE DEF cuts
    <3>. QED
      BY <1>4, <3>1, LeastNat
  <2>2. cut \in cuts /\ \A m \in cuts : cut =< m
    <3>. HIDE DEF cuts
    <3>. QED
      BY <1>4, <2>1, Zenon DEF SQ!Min
  <2>3. cut \in 1 .. Len(entries) /\ \A m \in 1 .. cut - 1 : m \in 1 .. Len(entries) /\ m \notin cuts
    <3>1. cuts \subseteq 1 .. Len(entries)
      OBVIOUS
    <3>. HIDE DEF cuts, cut
    <3>2. cut \in 1 .. Len(entries)
      BY <2>2, <3>1
    <3>3. ASSUME NEW m \in 1 .. cut - 1
          PROVE  m \in 1 .. Len(entries) /\ m \notin cuts
      <4>1. m \in 1 .. Len(entries) /\ ~(cut =< m)
        BY <1>0, <3>2
      <4>. QED
        BY <2>2, <4>1
    <3>. QED
      BY <3>2, <3>3
  <2>. HIDE DEF cuts, cut
  <2>4. Sound(entries) = SubSeq(entries, 1, cut - 1)
    BY <1>0, <1>1, <2>3
  <2>5. \A m \in 1 .. cut - 1 : entries[m] \in S
    BY <1>2, <2>3
  <2>6. SubSeq(entries, 1, cut - 1) \in Seq(S) /\ Len(SubSeq(entries, 1, cut - 1)) = cut - 1
    <3>. DEFINE n == cut - 1
    <3>1. n \in Int /\ n >= 0 /\ n - 1 + 1 = n /\ \A m \in 1 .. n : entries[m] \in S
      BY <1>0, <2>3, <2>5
    <3>. HIDE DEF n
    <3>2. /\ SubSeq(entries, 1, n) \in Seq(S)
          /\ Len(SubSeq(entries, 1, n)) = IF 1 =< n THEN n - 1 + 1 ELSE 0
      BY <3>1, SubSeqProperties
    <3>. QED
      BY <3>1, <3>2 DEF n
  <2>7. cut - 1 =< Len(entries)
    BY <1>0, <2>3
  <2>. QED
    BY <2>3, <2>4, <2>5, <2>6, <2>7
<1>. QED
  BY <1>3, <1>4

-----------------------------------------------------------------------------
(* The steps.                                                              *)

Saving ==
  /\ save = [pc |-> save.pc, due |-> save.due, nodes |-> save.nodes, exit |-> save.exit]
  /\ DOMAIN save.nodes \subseteq Id /\ IsFiniteSet(DOMAIN save.nodes)
Saved == DOMAIN snap \subseteq Id /\ IsFiniteSet(DOMAIN snap) /\ pos \in Nat
CounterInv == Low(ix) /\ (\E S : Pipe(S)) /\ Saving /\ Saved

LEMMA FiniteNodes ==
  ASSUME NEW i, Low(i)
  PROVE  DOMAIN i.nodes \subseteq Id /\ IsFiniteSet(DOMAIN i.nodes)
<1>. DEFINE n == i.lastID
<1>1. n \in Nat /\ \A x \in DOMAIN i.nodes : x \in Id /\ x[1] =< n
  BY DEF Low, Within, Known
<1>. HIDE DEF n
<1>2. DOMAIN i.nodes \subseteq (0 .. n) \X BOOLEAN
  BY <1>1 DEF Id
<1>3. IsFiniteSet(0 .. n)
  BY <1>1, FS_Interval
<1>4. IsFiniteSet(BOOLEAN)
  <2>1. BOOLEAN = {TRUE} \cup {FALSE}
    OBVIOUS
  <2>2. IsFiniteSet({TRUE}) /\ IsFiniteSet({FALSE})
    BY FS_Singleton
  <2>. QED
    BY <2>1, <2>2, FS_Union
<1>5. IsFiniteSet((0 .. n) \X BOOLEAN)
  BY <1>3, <1>4, FS_Product
<1>6. IsFiniteSet(DOMAIN i.nodes)
  BY <1>2, <1>5, FS_Subset
<1>. QED
  BY <1>1, <1>6

\* A removal submits nothing but deletions.
LEMMA RemovalPlain ==
  ASSUME NEW i, Low(i), NEW p, NEW isDir, NEW entries \in RemovalLogs(i, p, isDir)
  PROVE  \E T : PlainSet(T) /\ entries \in Seq(T)
<1>1. CASE p \notin DOMAIN i.lookup
  <2>1. entries = <<>>
    BY <1>1 DEF RemovalLogs
  <2>. QED
    <3>1. <<>> \in Seq({})
      BY EmptySeq
    <3>2. PlainSet({})
      BY DEF PlainSet
    <3>. QED
      BY <2>1, <3>1, <3>2, Zenon
<1>2. CASE p \in DOMAIN i.lookup
  <2>. DEFINE id == i.lookup[p]
              live == IF isDir THEN WalkDeleted(i, id) \cap DOMAIN i.nodes ELSE {id}
              entry(x) == NodeEntry("delete", x, i.nodes[x], i.nodes[x].path)
              T == {entry(x) : x \in live}
              n == Cardinality(live)
  <2>1. IsFiniteSet(live)
    <3>1. IsFiniteSet(WalkDeleted(i, id) \cap DOMAIN i.nodes)
      BY FiniteNodes, FS_Intersection
    <3>2. IsFiniteSet({id})
      BY FS_Singleton
    <3>. QED
      BY <3>1, <3>2
  <2>2. PICK order \in SQ!SetToSeqs(live) : entries = [k \in DOMAIN order |-> entry(order[k])]
    BY <1>2, Zenon DEF RemovalLogs
  <2>3. n \in Nat
    BY <2>1, FS_CardinalityType
  <2>4. order \in [1 .. n -> live]
    <3>1. SQ!Cardinality(live) = n
      BY Zenon DEF SQ!Cardinality, Cardinality
    <3>. HIDE DEF live, n
    <3>. QED
      BY <2>2, <3>1, Zenon DEF SQ!SetToSeqs
  <2>. HIDE DEF live, n
  <2>5. entries \in [1 .. n -> T]
    <3>. HIDE DEF entry
    <3>. QED
      BY <2>2, <2>4
  <2>6. entries \in Seq(T)
    BY <2>3, <2>5, SeqDef
  <2>7. PlainSet(T)
    BY DEF PlainSet, Plain, NodeEntry
  <2>. QED
    BY <2>6, <2>7
<1>. QED
  BY <1>1, <1>2

\* The entry of an insertion or an update of p.
LEMMA PathPlain ==
  ASSUME NEW i, Low(i), NEW p, p \in DOMAIN i.lookup
  PROVE  Plain(PathEntry(i, p)) /\ Plain(NodeEntry("upsert", i.lookup[p], i.nodes[i.lookup[p]], p))
<1>1. i.lookup[p] \in Id
  BY DEF Low, Within, Known
<1>. QED
  BY <1>1 DEF PathEntry, NodeEntry, Plain

LEMMA UpsertPlaced ==
  ASSUME NEW i, Low(i), NEW p, NEW info, info.dir \in BOOLEAN
  PROVE  p \in DOMAIN Upsert(i, p, info).lookup
<1>0. IsIndex(i)
  BY DEF Low
<1>1. CASE p \in DOMAIN i.lookup
  <2>. DEFINE sized == UpsertParentSize(i.nodes, i.child, i.lookup[p], info.size - i.nodes[i.lookup[p]].size)
              N == Put(sized, i.lookup[p], [i.nodes[i.lookup[p]] EXCEPT !.size = info.size, !.mtime = info.mtime])
              r == [i EXCEPT !.nodes = N]
  <2>1. Upsert(i, p, info) = i \/ Upsert(i, p, info) = r
    BY <1>1, Zenon DEF Upsert
  <2>. HIDE DEF N
  <2>2. r.lookup = i.lookup
    BY <1>0, NewNodes
  <2>. HIDE DEF r
  <2>. QED
    BY <1>1, <2>1, <2>2
<1>2. CASE p \notin DOMAIN i.lookup
  <2>. DEFINE j == Insert(i, p, info.dir, info.size, info.mtime)
              N == UpsertParentSize(j.nodes, j.child, j.lookup[p], info.size)
              r == [j EXCEPT !.nodes = N]
              id == SetRealID(i.lastID + 1, info.dir)
  <2>1. Upsert(i, p, info) = r
    BY <1>2, Zenon DEF Upsert
  <2>2. IsIndex(j)
    BY InsertLow
  <2>3. j.lookup = Put(i.lookup, p, id)
    BY MakeIndex, Zenon DEF Insert
  <2>. HIDE DEF N, j
  <2>4. r.lookup = j.lookup
    BY <2>2, NewNodes
  <2>. HIDE DEF r
  <2>. QED
    BY <2>1, <2>3, <2>4 DEF Put
<1>. QED
  BY <1>1, <1>2

LEMMA UpsertDirPlaced ==
  ASSUME NEW i, Low(i), NEW p, NEW mtime
  PROVE  p \in DOMAIN UpsertDir(i, p, mtime).lookup
<1>0. IsIndex(i)
  BY DEF Low
<1>1. CASE p \in DOMAIN i.lookup
  <2>. DEFINE N == [i.nodes EXCEPT ![i.lookup[p]].mtime = mtime]
              r == [i EXCEPT !.nodes = N]
  <2>1. UpsertDir(i, p, mtime) = r
    BY <1>1, Zenon DEF UpsertDir
  <2>. HIDE DEF N
  <2>2. r.lookup = i.lookup
    BY <1>0, NewNodes
  <2>. HIDE DEF r
  <2>. QED
    BY <1>1, <2>1, <2>2
<1>2. CASE p \notin DOMAIN i.lookup
  <2>. DEFINE j == Insert(i, p, TRUE, 0, mtime)
              id == SetRealID(i.lastID + 1, TRUE)
  <2>1. UpsertDir(i, p, mtime) = j
    BY <1>2, Zenon DEF UpsertDir
  <2>2. j.lookup = Put(i.lookup, p, id)
    BY MakeIndex, Zenon DEF Insert
  <2>. HIDE DEF j
  <2>. QED
    BY <2>1, <2>2 DEF Put
<1>. QED
  BY <1>1, <1>2

\* Entries of one more set at the end of the channel.
LEMMA PipeGrows ==
  ASSUME \E S : Pipe(S), NEW T, PlainSet(T), NEW entries \in Seq(T),
         ch' = ch \o entries, buf' = buf, log' = log
  PROVE  (\E S : Pipe(S))'
<1>1. PICK S : Pipe(S)
  OBVIOUS
<1>. DEFINE U == S \cup T
<1>2. PlainSet(U)
  BY <1>1 DEF Pipe, PlainSet
<1>3. ch \o entries \in Seq(U)
  <2>. HIDE DEF U
  <2>1. ch \in Seq(U) /\ entries \in Seq(U)
    BY <1>1, SeqMonotonic DEF Pipe, U
  <2>. QED
    BY <2>1, ConcatProperties
<1>4. Buffer(U, buf)
  BY <1>1, BufferWiden DEF Pipe
<1>5. log \in Seq(U \cup {Half})
  <2>1. S \cup {Half} \subseteq U \cup {Half}
    OBVIOUS
  <2>. HIDE DEF U
  <2>. QED
    BY <1>1, <2>1, SeqMonotonic DEF Pipe
<1>. HIDE DEF U
<1>6. Pipe(U)'
  BY <1>2, <1>3, <1>4, <1>5 DEF Pipe
<1>. QED
  BY <1>6

LEMMA HandledStep ==
  ASSUME CounterInv, NEW i, Low(i), NEW T, PlainSet(T), NEW entries \in Seq(T), Handled(i, entries)
  PROVE  CounterInv'
<1>1. Low(ix)' /\ ch' = ch \o entries /\ buf' = buf /\ log' = log
  BY DEF Handled
<1>2. (\E S : Pipe(S))'
  BY <1>1, PipeGrows DEF CounterInv
<1>3. Saving' /\ Saved'
  BY DEF CounterInv, Saving, Saved, Handled
<1>. QED
  BY <1>1, <1>2, <1>3 DEF CounterInv

LEMMA EmptyLow == Low(EmptyIndex)
<1>. DEFINE r == EmptyIndex
<1>1. IsIndex(r) /\ r.nodes = << >> /\ r.lookup = << >> /\ r.lastID = 0
  BY DEF IsIndex, EmptyIndex
<1>2. DOMAIN << >> = {}
  OBVIOUS
<1>. HIDE DEF r
<1>3. Known(r) = {NoId}
  BY <1>1, <1>2 DEF Known
<1>4. Low(r)
  BY <1>1, <1>3, NoIdLow DEF Low, Within
<1>. QED
  BY <1>4 DEF r

LEMMA CounterInit == Init => CounterInv
<1>. SUFFICES ASSUME Init
              PROVE  CounterInv
  OBVIOUS
<1>1. Low(ix)
  BY EmptyLow DEF Init
<1>2. \E S : Pipe(S)
  <2>1. <<>> \in Seq({}) /\ <<>> \in Seq({} \cup {Half}) /\ PlainSet({})
    BY EmptySeq DEF PlainSet
  <2>2. Pipe({})
    BY <2>1 DEF Init, Pipe, Buffer
  <2>. QED
    BY <2>2
<1>3. IsFiniteSet(DOMAIN << >>) /\ DOMAIN << >> \subseteq Id
  BY FS_EmptySet
<1>4. Saving
  BY <1>3 DEF Init, Saving, Idle, Task
<1>5. Saved
  BY <1>3 DEF Init, Saved
<1>. QED
  BY <1>1, <1>2, <1>4, <1>5 DEF CounterInv

\* What handlers submit is plain without invalid names.
LEMMA HandlersCounter ==
  ASSUME CounterInv, "name" \notin Changes,
         \/ \E p \in Files, size \in Sizes : UpsertFile(p, size)
         \/ \E p \in Dirs : UpsertDirectory(p)
         \/ \E p \in Dirs \cup Files : RemovePath(p)
         \/ \E old \in Dirs, new \in Dirs : RenamePath(old, new)
         \/ \E old \in Files, new \in Files : RenamePath(old, new)
         \/ \E name \in HandNames : SaveInvalid(name)
         \/ \E id \in DOMAIN ix.nodes : DropInvalid(id)
  PROVE  CounterInv'
<1>0. Low(ix)
  BY DEF CounterInv
<1>a. <<>> \in Seq({}) /\ PlainSet({})
  BY EmptySeq DEF PlainSet
<1>b. ASSUME NEW e, Plain(e)
      PROVE  PlainSet({e}) /\ <<e>> \in Seq({e})
  BY <1>b DEF PlainSet
<1>1. ASSUME NEW p \in Files, NEW size \in Sizes, UpsertFile(p, size)
      PROVE  CounterInv'
  <2>. DEFINE info == [dir |-> FALSE, size |-> size, mtime |-> size]
              new == Upsert(ix, p, info)
              e == PathEntry(new, p)
  <2>0. info.dir \in BOOLEAN
    OBVIOUS
  <2>1. Handled(new, IF new = ix THEN <<>> ELSE <<e>>)
    BY <1>1, Zenon DEF UpsertFile
  <2>2. Low(new) /\ p \in DOMAIN new.lookup
    <3>. HIDE DEF info
    <3>. QED
      BY <1>0, <2>0, UpsertLow, UpsertPlaced
  <2>. HIDE DEF new
  <2>3. Plain(e)
    BY <2>2, PathPlain
  <2>. HIDE DEF e
  <2>4. Handled(new, <<>>) \/ Handled(new, <<e>>)
    BY <2>1
  <2>. QED
    BY <1>a, <1>b, <2>2, <2>3, <2>4, HandledStep
<1>2. ASSUME NEW p \in Dirs, UpsertDirectory(p)
      PROVE  CounterInv'
  <2>. DEFINE new == UpsertDir(ix, p, 0)
              e == PathEntry(new, p)
  <2>1. Handled(new, <<e>>)
    BY <1>2, Zenon DEF UpsertDirectory
  <2>2. Low(new) /\ p \in DOMAIN new.lookup
    BY <1>0, UpsertDirLow, UpsertDirPlaced
  <2>. HIDE DEF new
  <2>3. Plain(e)
    BY <2>2, PathPlain
  <2>. HIDE DEF e
  <2>. QED
    BY <1>b, <2>1, <2>2, <2>3, HandledStep
<1>3. ASSUME NEW p \in Dirs \cup Files, RemovePath(p)
      PROVE  CounterInv'
  <2>. DEFINE isDir == p \in Dirs
              new == Remove(ix, p, isDir)
  <2>1. PICK entries \in RemovalLogs(ix, p, isDir) : Handled(new, entries)
    BY <1>3, Zenon DEF RemovePath
  <2>2. Low(new)
    BY <1>0, RemoveLow
  <2>. HIDE DEF new, isDir
  <2>3. PICK T : PlainSet(T) /\ entries \in Seq(T)
    BY <1>0, RemovalPlain
  <2>. QED
    BY <2>1, <2>2, <2>3, HandledStep
<1>4. ASSUME NEW old, NEW new, RenamePath(old, new)
      PROVE  CounterInv'
  <2>. DEFINE e == RenameEntry(old, new, 0)
  <2>1. Plain(e)
    BY DEF Plain, RenameEntry
  <2>. HIDE DEF e
  <2>2. CASE \E i \in RenameNode(ix, old, new, 0) : Handled(i, <<e>>)
    <3>1. PICK i \in RenameNode(ix, old, new, 0) : Handled(i, <<e>>)
      BY <2>2
    <3>2. Low(i)
      BY <1>0, RenameLow
    <3>. QED
      BY <1>b, <2>1, <3>1, <3>2, HandledStep
  <2>3. CASE ch' = ch \o <<e>> /\ UNCHANGED <<ix, buf, fd, log, snap, save, pos, bounds>>
    <3>1. (\E S : Pipe(S))'
      BY <1>b, <2>1, <2>3, PipeGrows DEF CounterInv
    <3>2. Low(ix)' /\ Saving' /\ Saved'
      BY <2>3 DEF CounterInv, Saving, Saved
    <3>. QED
      BY <3>1, <3>2 DEF CounterInv
  <2>. QED
    BY <1>4, <2>2, <2>3, Zenon DEF RenamePath, e
<1>5. ASSUME NEW id \in DOMAIN ix.nodes, DropInvalid(id)
      PROVE  CounterInv'
  <2>. DEFINE new == DeleteInvalid(ix, id)
              e == InvalidDelete(id, ix.nodes[id].name)
  <2>1. Handled(new, <<e>>)
    BY <1>5, Zenon DEF DropInvalid
  <2>2. Low(new)
    BY <1>0, DeleteInvalidLow
  <2>3. Plain(e)
    BY DEF Plain, InvalidDelete
  <2>. HIDE DEF new, e
  <2>. QED
    BY <1>b, <2>1, <2>2, <2>3, HandledStep
<1>. QED
  BY <1>1, <1>2, <1>3, <1>4, <1>5 DEF SaveInvalid

LEMMA WriterCounter ==
  ASSUME CounterInv, Take \/ Flush \/ Fill \/ FlushWAL
  PROVE  CounterInv'
<1>1. Low(ix)' /\ Saved'
  BY DEF CounterInv, Saved, Take, Flush, Fill, FlushWAL
<1>2. Saving'
  <2>1. CASE FlushWAL
    <3>1. /\ save.nodes' = save.nodes
          /\ save' = [pc |-> "collect", due |-> save.due, nodes |-> save.nodes, exit |-> save.exit]
      BY <2>1 DEF CounterInv, Saving, FlushWAL
    <3>. QED
      BY <3>1 DEF CounterInv, Saving
  <2>2. CASE save' = save
    BY <2>2 DEF CounterInv, Saving
  <2>. QED
    BY <2>1, <2>2 DEF Take, Flush, Fill
<1>3. PICK S : Pipe(S)
  BY DEF CounterInv
<1>. DEFINE H == S \cup {Half}
<1>4. PlainSet(S) /\ ch \in Seq(S) /\ Buffer(S, buf) /\ log \in Seq(H)
  BY <1>3 DEF Pipe
<1>5. ASSUME NEW more, Stream(S, more), Written(more)
      PROVE  log' \in Seq(H)
  BY <1>4, <1>5, AppendedWhole DEF Written
<1>6. Stream(S, buf) /\ Buffer(S, <<>>)
  <2>1. \A s \in Seq(S) : s \in Seq(H)
    BY SeqMonotonic
  <2>. QED
    BY <1>4, <2>1, EmptySeq DEF Stream, Buffer
<1>. HIDE DEF H
<1>7. CASE Take
  <2>1. Head(ch) \in S /\ Tail(ch) \in Seq(S)
    BY <1>4, <1>7, HeadTailProperties DEF Take
  <2>2. Buffer(S, Append(buf, Head(ch)))
    <3>1. CASE buf \in Seq(S)
      BY <2>1, <3>1, AppendProperties DEF Buffer
    <3>2. ASSUME NEW e \in S, NEW t \in Seq(S), buf = <<Rest(e)>> \o t
          PROVE  Buffer(S, Append(buf, Head(ch)))
      <4>. DEFINE x == Head(ch)
                  X == S \cup {Rest(e)}
      <4>0. \A s \in Seq(S) : s \in Seq(X)
        BY SeqMonotonic
      <4>1. Rest(e) \in X /\ x \in X /\ x \in S /\ t \in Seq(X)
        BY <2>1, <4>0
      <4>. HIDE DEF X, x
      <4>2. <<Rest(e)>> \in Seq(X) /\ <<x>> \in Seq(X)
        BY <4>1
      <4>3. <<Rest(e)>> \o t \in Seq(X)
        BY <4>1, <4>2, ConcatProperties
      <4>4. Append(<<Rest(e)>> \o t, x) = (<<Rest(e)>> \o t) \o <<x>>
        BY <4>1, <4>3, AppendIsConcat
      <4>5. Append(t, x) = t \o <<x>> /\ Append(t, x) \in Seq(S)
        BY <4>1, AppendIsConcat, AppendProperties
      <4>6. Append(<<Rest(e)>> \o t, x) = <<Rest(e)>> \o Append(t, x)
        BY <4>1, <4>2, <4>4, <4>5, ConcatAssociative
      <4>. QED
        BY <3>2, <4>5, <4>6, Zenon DEF Buffer, x
    <3>. QED
      BY <1>4, <3>1, <3>2 DEF Buffer
  <2>3. ch' = Tail(ch) /\ buf' = Append(buf, Head(ch)) /\ log' = log
    BY <1>7 DEF Take
  <2>4. Pipe(S)'
    BY <1>4, <2>1, <2>2, <2>3 DEF Pipe, H
  <2>. QED
    BY <1>1, <1>2, <2>4 DEF CounterInv
<1>8. CASE Flush \/ FlushWAL
  <2>1. Written(buf) /\ buf' = <<>> /\ ch' = ch
    BY <1>8 DEF Flush, FlushWAL
  <2>2. log' \in Seq(H)
    BY <1>5, <1>6, <2>1
  <2>3. Pipe(S)'
    BY <1>4, <1>6, <2>1, <2>2 DEF Pipe, H
  <2>. QED
    BY <1>1, <1>2, <2>3 DEF CounterInv
<1>9. CASE Fill
  <2>. DEFINE more == Append(SQ!Front(buf), Half)
  <2>1. /\ buf # <<>> /\ SQ!Last(buf).op # "rest" /\ Written(more)
        /\ buf' = <<Rest(SQ!Last(buf))>> /\ ch' = ch
    BY <1>9, Zenon DEF Fill
  <2>2. SQ!Last(buf) \in S /\ Stream(S, more)
    BY <1>4, <2>1, CutWhole
  <2>. HIDE DEF more
  <2>3. log' \in Seq(H)
    BY <1>5, <2>1, <2>2
  <2>4. Buffer(S, buf')
    <3>. DEFINE l == SQ!Last(buf)
                X == {Rest(l)}
    <3>1. buf' = <<Rest(l)>> /\ l \in S
      BY <2>1, <2>2
    <3>. HIDE DEF l
    <3>2. <<Rest(l)>> \o <<>> = <<Rest(l)>>
      OBVIOUS
    <3>3. <<>> \in Seq(S)
      BY EmptySeq
    <3>. QED
      BY <3>1, <3>2, <3>3, Zenon DEF Buffer
  <2>5. Pipe(S)'
    BY <1>4, <2>1, <2>3, <2>4 DEF Pipe, H
  <2>. QED
    BY <1>1, <1>2, <2>5 DEF CounterInv
<1>. QED
  BY <1>7, <1>8, <1>9

LEMMA TasksCounter ==
  ASSUME CounterInv,
         \/ Checkpoint \/ Signal \/ CollectBegin \/ CollectEnd \/ Replace \/ UnlinkWAL
         \/ \E x \in DOMAIN ix.nodes : CollectNode(x)
  PROVE  CounterInv'
<1>0. DOMAIN ix.nodes \subseteq Id /\ IsFiniteSet(DOMAIN ix.nodes)
  BY FiniteNodes DEF CounterInv
<1>1. ASSUME NEW nodes, DOMAIN nodes \subseteq Id, IsFiniteSet(DOMAIN nodes), NEW pc, NEW due, NEW exit,
             save' = [pc |-> pc, due |-> due, nodes |-> nodes, exit |-> exit]
      PROVE  Saving'
  BY <1>1 DEF Saving
<1>2. ASSUME UNCHANGED <<ix, ch, buf, log, snap, pos>>, Saving'
      PROVE  CounterInv'
  <2>1. (\E S : Pipe(S))'
    BY <1>2 DEF CounterInv, Pipe
  <2>. QED
    BY <1>2, <2>1 DEF CounterInv, Saved
<1>3. IsFiniteSet(DOMAIN << >>) /\ DOMAIN << >> \subseteq Id
  BY FS_EmptySet
<1>4. CASE Checkpoint \/ Signal
  <2>1. /\ save' = [pc |-> "flush", due |-> {}, nodes |-> << >>, exit |-> FALSE]
           \/ save' = [pc |-> "collect", due |-> {}, nodes |-> << >>, exit |-> TRUE]
        /\ UNCHANGED <<ix, ch, buf, log, snap, pos>>
    BY <1>4 DEF Checkpoint, Signal, Task, writer
  <2>2. Saving'
    BY <1>1, <1>3, <2>1
  <2>. QED
    BY <1>2, <2>1, <2>2
<1>5. CASE CollectBegin \/ CollectEnd
  <2>1. \E pc, due :
          save' = [pc |-> pc, due |-> due, nodes |-> save.nodes, exit |-> save.exit]
    BY <1>5 DEF CollectBegin, CollectEnd, CounterInv, Saving
  <2>2. Saving'
    BY <1>1, <2>1 DEF CounterInv, Saving
  <2>. QED
    BY <1>2, <1>5, <2>2 DEF CollectBegin, CollectEnd, writer
<1>6. ASSUME NEW x \in DOMAIN ix.nodes, CollectNode(x)
      PROVE  CounterInv'
  <2>. DEFINE nodes == Put(save.nodes, x, ix.nodes[x])
  <2>1. save' = [save EXCEPT !.nodes = nodes]
    BY <1>6, Zenon DEF CollectNode
  <2>2. DOMAIN nodes = DOMAIN save.nodes \cup {x}
    BY DEF Put
  <2>. HIDE DEF nodes
  <2>3. DOMAIN nodes \subseteq Id /\ IsFiniteSet(DOMAIN nodes)
    BY <1>0, <2>2, FS_AddElement DEF CounterInv, Saving
  <2>4. save' = [pc |-> save.pc, due |-> save.due, nodes |-> nodes, exit |-> save.exit]
    BY <2>1 DEF CounterInv, Saving
  <2>5. Saving'
    BY <1>1, <2>3, <2>4
  <2>. QED
    BY <1>2, <1>6, <2>5 DEF CollectNode, writer
<1>7. CASE Replace
  <2>1. save' = [pc |-> "unlink", due |-> save.due, nodes |-> save.nodes, exit |-> save.exit]
    BY <1>7 DEF Replace, CounterInv, Saving
  <2>2. Saving'
    BY <1>1, <2>1 DEF CounterInv, Saving
  <2>3. Saved'
    BY <1>7 DEF Replace, CounterInv, Saving, Saved
  <2>4. (\E S : Pipe(S))' /\ Low(ix)'
    BY <1>7 DEF Replace, writer, CounterInv, Pipe
  <2>. QED
    BY <2>2, <2>3, <2>4 DEF CounterInv
<1>8. CASE UnlinkWAL
  <2>1. Saving'
    BY <1>1, <1>3, <1>8 DEF UnlinkWAL, Idle, Task
  <2>2. Saved'
    BY <1>8 DEF UnlinkWAL, CounterInv, Saved
  <2>3. Low(ix)'
    BY <1>8, EmptyLow DEF UnlinkWAL, Gone, CounterInv
  <2>4. (\E S : Pipe(S))'
    <3>1. PICK S : Pipe(S)
      BY DEF CounterInv
    <3>2. <<>> \in Seq(S) /\ <<>> \in Seq(S \cup {Half}) /\ Buffer(S, <<>>)
      BY EmptySeq DEF Buffer
    <3>3. log' = <<>> /\ ((ch' = <<>> /\ buf' = <<>>) \/ (ch' = ch /\ buf' = buf))
      BY <1>8 DEF UnlinkWAL, Gone
    <3>4. Pipe(S)'
      BY <3>1, <3>2, <3>3 DEF Pipe
    <3>. QED
      BY <3>4
  <2>. QED
    BY <2>1, <2>2, <2>3, <2>4 DEF CounterInv
<1>. QED
  BY <1>4, <1>5, <1>6, <1>7, <1>8

LEMMA StartsCounter ==
  ASSUME CounterInv, Crash \/ Start \/ ReplayStep \/ ReplayEnd
  PROVE  CounterInv'
<1>1. PICK S : Pipe(S)
  BY DEF CounterInv
<1>2. CASE Crash
  <2>1. Low(ix)' /\ Saved'
    BY <1>2, EmptyLow DEF Crash, Gone, CounterInv, Saved
  <2>2. IsFiniteSet(DOMAIN << >>) /\ DOMAIN << >> \subseteq Id
    BY FS_EmptySet
  <2>3. Saving'
    BY <1>2, <2>2 DEF Crash, Idle, Task, Saving
  <2>4. Pipe(S)'
    <3>1. <<>> \in Seq(S) /\ Buffer(S, <<>>)
      BY EmptySeq DEF Buffer
    <3>. QED
      BY <1>1, <1>2, <3>1 DEF Pipe, Crash, Gone
  <2>. QED
    BY <2>1, <2>3, <2>4 DEF CounterInv
<1>3. CASE Start
  <2>1. Low(ix)'
    BY <1>3, LoadedLow DEF Start, CounterInv, Saved
  <2>2. Saving' /\ Saved' /\ Pipe(S)'
    BY <1>1, <1>3 DEF Start, writer, CounterInv, Saving, Saved, Pipe
  <2>. QED
    BY <2>1, <2>2 DEF CounterInv
<1>4. CASE ReplayStep
  <2>. DEFINE e == log[pos + 1]
              logs == IF e.op = "delete" THEN RemovalLogs(ix, e.path, IsDir(e.id)) ELSE {<<>>}
  <2>1. Plain(e)
    <3>. DEFINE n == Len(Sound(log))
    <3>1. /\ Sound(log) \in Seq(S)
          /\ \A k \in 1 .. n : k \in 1 .. Len(log) /\ log[k] \in S
      BY <1>1, SoundEntries DEF Pipe
    <3>2. n \in Nat /\ pos \in Nat /\ pos < n
      BY <1>4, <3>1, LenProperties DEF ReplayStep, CounterInv, Saved
    <3>. HIDE DEF n
    <3>3. pos + 1 \in 1 .. n
      BY <3>2
    <3>. QED
      BY <1>1, <3>1, <3>3 DEF Pipe, PlainSet
  <2>2. /\ UNCHANGED <<buf, log, snap, save>>
        /\ \/ UNCHANGED <<ix, ch, pos>>
           \/ ix' \in Replayed(ix, e) /\ pos' = pos + 1 /\ \E entries \in logs : ch' = ch \o entries
    BY <1>4, Zenon DEF ReplayStep
  <2>3. Low(ix)'
    <3>. HIDE DEF e
    <3>. QED
      BY <2>1, <2>2, ReplayedLow DEF CounterInv
  <2>4. Saving' /\ Saved'
    <3>. HIDE DEF e, logs
    <3>. QED
      BY <2>2 DEF CounterInv, Saving, Saved
  <2>5. ASSUME NEW entries \in logs, ch' = ch \o entries
        PROVE  (\E X : Pipe(X))'
    <3>1. PICK T : PlainSet(T) /\ entries \in Seq(T)
      <4>1. CASE e.op = "delete"
        BY <2>5, <4>1, RemovalPlain DEF CounterInv
      <4>2. CASE e.op # "delete"
        <5>1. entries = <<>>
          BY <2>5, <4>2
        <5>2. <<>> \in Seq({}) /\ PlainSet({})
          BY EmptySeq DEF PlainSet
        <5>. QED
          BY <5>1, <5>2
      <4>. QED
        BY <4>1, <4>2
    <3>2. \E X : Pipe(X)
      BY <1>1
    <3>. QED
      BY <2>2, <2>5, <3>1, <3>2, PipeGrows
  <2>. HIDE DEF e, logs
  <2>6. (\E X : Pipe(X))'
    <3>1. CASE UNCHANGED <<ix, ch, pos>>
      BY <1>1, <2>2, <3>1 DEF Pipe
    <3>. QED
      BY <2>2, <2>5, <3>1
  <2>. QED
    BY <2>3, <2>4, <2>6 DEF CounterInv
<1>5. CASE ReplayEnd
  <2>. DEFINE rooted == UpsertDir(ix, Root, 0)
              e == NodeEntry("upsert", rooted.lookup[Root], rooted.nodes[rooted.lookup[Root]], Root)
  <2>1. /\ UNCHANGED <<buf, log, snap, save>> /\ pos' = 0
        /\ \/ ix' = ix /\ ch' = ch
           \/ ix' = rooted /\ ch' = Append(ch, e)
    BY <1>5, Zenon DEF ReplayEnd, Begin
  <2>2. Low(rooted) /\ Root \in DOMAIN rooted.lookup
    BY UpsertDirLow, UpsertDirPlaced DEF CounterInv
  <2>. HIDE DEF rooted
  <2>3. Plain(e)
    BY <2>2, PathPlain
  <2>. HIDE DEF e
  <2>4. Low(ix)' /\ Saving' /\ Saved'
    BY <2>1, <2>2 DEF CounterInv, Saving, Saved
  <2>5. (\E X : Pipe(X))'
    <3>1. CASE ch' = ch
      BY <1>1, <2>1, <3>1 DEF Pipe
    <3>2. CASE ch' = Append(ch, e)
      <4>1. PlainSet({e}) /\ <<e>> \in Seq({e})
        BY <2>3 DEF PlainSet
      <4>2. Append(ch, e) = ch \o <<e>>
        <5>1. ch \in Seq(S \cup {e})
          BY <1>1, SeqMonotonic DEF Pipe
        <5>. QED
          BY <5>1, AppendIsConcat
      <4>3. \E X : Pipe(X)
        BY <1>1
      <4>. QED
        BY <2>1, <3>2, <4>1, <4>2, <4>3, PipeGrows
    <3>. QED
      BY <2>1, <3>1, <3>2
  <2>. QED
    BY <2>4, <2>5 DEF CounterInv
<1>. QED
  BY <1>2, <1>3, <1>4, <1>5

-----------------------------------------------------------------------------

\* The counter's invariant of the process, its log and its snapshot, across
\* crashes and restarts.
THEOREM CounterInvariant ==
  ASSUME "name" \notin Changes
  PROVE  Spec => []CounterInv
<1>1. CounterInv /\ [Next]_vars => CounterInv'
  <2>1. CounterInv /\ UNCHANGED vars => CounterInv'
    BY DEF vars, writer, bounds, CounterInv, Saving, Saved, Pipe
  <2>. QED
    BY <2>1, HandlersCounter, WriterCounter, TasksCounter, StartsCounter DEF Next
<1>. QED
  BY <1>1, CounterInit, PTL DEF Spec

\* As long as no invalid name is entered, a restart resumes the counter at or
\* above every id of every node, whatever was lost in the crash: no new node
\* takes over an old id (ApplyToMemory 878-882, LoadSnapshot 430-436).
THEOREM IdsStayBelowCounter ==
  ASSUME "name" \notin Changes
  PROVE  Spec => []IdsBelowCounter
<1>1. CounterInv => IdsBelowCounter
  BY DEF CounterInv, Low, Within, Known, IdsBelowCounter
<1>. QED
  BY <1>1, CounterInvariant, PTL
=============================================================================
