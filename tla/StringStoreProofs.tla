------------------------- MODULE StringStoreProofs -------------------------
(***************************************************************************)
(* Proofs about the string store: a rename does to what is seen what       *)
(* FileIndex's rename does, a compaction changes nothing that is seen, and *)
(* so the store implements FileIndex; and the watches stay true            *)
(* (StoreOpsProofs has the other handlers).                                *)
(***************************************************************************)
EXTENDS StoreOpsProofs

-----------------------------------------------------------------------------
(* RenameNode: its parts, and the children one after another.              *)

\* A node whose path moves to fresh bytes keeps the name it has.
Displaced(node, off, len) == [node EXCEPT !.pathOff = off, !.pathLen = len]

\* It is seen with the new path and is otherwise the same.
LEMMA ViewOfRepathed ==
  ASSUME NEW D \in Path, NEW p \in Path, p # <<>>, NEW id, id # NoId,
         NEW node, NodeFits(D, id, node), ~node.invalid
  PROVE  LET m == Displaced(node, Len(D), Len(p))
         IN  /\ NodeFits(D \o p, id, m)
             /\ PathKey(m) = GetUint64(Len(D), Len(p))
             /\ View(D \o p, m) = [View(D, node) EXCEPT !.path = p]
<1>. DEFINE off == Len(D)
            len == Len(p)
            E == D \o p
            m1 == [node EXCEPT !.pathOff = off]
            m == [m1 EXCEPT !.pathLen = len]
<1>1. Get(E, off, len) = p /\ E \in Path /\ Len(E) = off + len
  BY SliceOfNew
<1>2. off \in Nat /\ len \in Nat /\ len > 0
  BY LastByte
<1>3. node \in Stored /\ node.nameOff + node.nameLen =< off /\ node.nameLen = 1
      /\ node.nameOff \in Nat /\ node.nameLen \in Nat
  BY DEF NodeFits, Stored
<1>4. Titled(E, node) = Titled(D, node)
  <2>1. Get(E, node.nameOff, node.nameLen) = Get(D, node.nameOff, node.nameLen)
    BY <1>3, SliceOfAppended
  <2>. HIDE DEF E
  <2>. QED
    BY <2>1 DEF Titled
<1>5. Displaced(node, Len(D), Len(p)) = m
  BY DEF Displaced
<1>. HIDE DEF off, len, E
<1>6. /\ m1 \in Stored /\ m1.pathOff = off /\ m1.nameOff = node.nameOff
      /\ m1.nameLen = node.nameLen /\ m1.parent = node.parent /\ m1.size = node.size
      /\ m1.mtime = node.mtime /\ m1.invalid = node.invalid
  BY <1>2, <1>3 DEF Stored
<1>. HIDE DEF m1
<1>7. /\ m \in Stored /\ m.pathOff = off /\ m.pathLen = len /\ m.nameOff = node.nameOff
      /\ m.nameLen = node.nameLen /\ m.parent = node.parent /\ m.size = node.size
      /\ m.mtime = node.mtime /\ m.invalid = node.invalid
  BY <1>2, <1>6 DEF Stored
<1>. HIDE DEF m
<1>8. PathKey(m) = GetUint64(off, len)
  BY <1>7 DEF PathKey
<1>9. off + len =< Len(E) /\ node.nameOff + node.nameLen =< Len(E)
  BY <1>1, <1>2, <1>3
<1>10. NodeFits(E, id, m)
  BY <1>2, <1>3, <1>7, <1>9 DEF NodeFits
<1>11. Spelled(E, m) = p
  BY <1>1, <1>2, <1>8 DEF Spelled, GetPathUint64, GetUint64
<1>12. Titled(E, m) = Titled(D, node)
  BY <1>4, <1>7 DEF Titled
<1>13. View(E, m) = [View(D, node) EXCEPT !.path = p]
  BY <1>7, <1>11, <1>12 DEF View
<1>. QED
  BY <1>5, <1>8, <1>10, <1>13 DEF off, len, E

\* renameChild changes one node and its lookups.
ChildMoved(i, j, c, old, new) ==
  LET was == i.nodes[c].path
      path == Rebase(was, old, new)
  IN  /\ j.nodes = Put(i.nodes, c, [i.nodes[c] EXCEPT !.path = path])
      /\ j.lookup = Put(Without(i.lookup, {was}), path, c)
      /\ j.tree = i.tree /\ j.child = i.child /\ j.grams = i.grams /\ j.lastID = i.lastID

\* r is s with the one node c at the bytes that the path p will take.
Rekeys(s, r, c, p) ==
  /\ IsStore(r) /\ r.wdMap = s.wdMap /\ r.pathToWd = s.pathToWd /\ r.lastID = s.lastID
  /\ c \in DOMAIN r.nodes /\ ~r.nodes[c].invalid
  /\ PathKey(r.nodes[c]) = GetUint64(Len(s.data), Len(p))
  /\ \A x \in DOMAIN r.nodes \ {c} : x \in DOMAIN s.nodes /\ r.nodes[x] = s.nodes[x]

\* Where a directory moves and its watch with it, every watch stays true.
LEMMA RekeyWatched ==
  ASSUME NEW s, NodesFit(s.data, s.nodes), s.data \in Path, NEW p \in Path, p # <<>>,
         NEW c \in Id, c[1] =< s.lastID, NEW put, Rekeys(s, put, c, p), NEW was
  PROVE  KeepsWatches(s, IF IsDir(c) THEN PutWd(DeleteWd(put, was), GetUint64(Len(s.data), Len(p)), c)
                         ELSE put)
<1>. DEFINE key == GetUint64(Len(s.data), Len(p))
            w == DeleteWd(put, was)
            r == PutWd(w, key, c)
<1>. SUFFICES ASSUME Watched(s) PROVE Watched(IF IsDir(c) THEN r ELSE put)
  BY DEF KeepsWatches
<1>1. Frame(s, put, {c})
  BY DEF Rekeys, Frame
<1>2. CASE ~IsDir(c)
  <2>1. Frame(s, put, {})
    BY <1>2 DEF Rekeys, Frame
  <2>. QED
    BY <1>2, <2>1, FrameWatched DEF Watched
<1>3. CASE IsDir(c)
  <2>1. WatchedBut(s, {c})
    BY DEF Watched, WatchedBut
  <2>2. IsStore(put) /\ WatchedBut(put, {c})
    BY <1>1, <2>1, FrameWatched DEF Rekeys
  <2>3. IsStore(w) /\ WatchedBut(w, {c}) /\ w.nodes = put.nodes /\ w.lastID = put.lastID
    BY <2>2, DeleteWatched
  <2>. HIDE DEF w
  <2>4. ASSUME NEW x \in DOMAIN w.nodes, x # c
        PROVE  PathKey(w.nodes[x]) # key
    <3>1. x \in DOMAIN s.nodes /\ w.nodes[x] = s.nodes[x]
      BY <2>3, <2>4 DEF Rekeys
    <3>2. NodeFits(s.data, x, s.nodes[x])
      BY <3>1 DEF NodesFit
    <3>3. PathKey(s.nodes[x]) # key
      BY <3>2, FreshKey
    <3>. QED
      BY <3>1, <3>3
  <2>5. ~w.nodes[c].invalid /\ PathKey(w.nodes[c]) = key /\ c[1] =< w.lastID
    BY <2>3 DEF Rekeys
  <2>. HIDE DEF key, r
  <2>6. Watched(PutWd(w, key, c))
    BY <1>3, <2>3, <2>4, <2>5, PutWatched
  <2>. QED
    BY <1>3, <2>6 DEF r
<1>. QED
  BY <1>2, <1>3

\* One child of a renamed directory gets its new path.
LEMMA MoveChildStep ==
  ASSUME NEW s, Fits(s), NEW c \in DOMAIN s.nodes, c # NoId, ~s.nodes[c].invalid,
         NEW old \in Path, NEW new \in Path, PathOf(s, c) # <<>>,
         Rebase(PathOf(s, c), old, new) # <<>>
  PROVE  LET r == MoveChild(s, c, old, new)
         IN  /\ Fits(r) /\ ChildMoved(Mapped(s), Mapped(r), c, old, new)
             /\ c[1] =< s.lastID => KeepsWatches(s, r)
<1>. DEFINE i == Mapped(s)
            was == PathOf(s, c)
            path == Rebase(was, old, new)
            D == s.data
            E == D \o path
            key == GetUint64(Len(D), Len(path))
            node == s.nodes[c]
            m == Displaced(node, Len(D), Len(path))
            f == Forget(s, {was})
            t == Store(f, path, c)
            put == [t EXCEPT !.nodes[c].pathOff = Len(D), !.nodes[c].pathLen = Len(path)]
            r == MoveChild(s, c, old, new)
            M1 == Without(s.pathMap, {GetPathOff(s, q) : q \in {was}})
            H1 == Without(s.pathHash, {was})
            M == Put(M1, key, c)
            H == Put(H1, path, key)
            N == Put(s.nodes, c, m)
<1>1. /\ Sound(s.nodes, s.pathMap, s.pathHash, D) /\ DOMAIN s.wdMap \subseteq Id
      /\ D \in Path /\ NodesFit(D, s.nodes) /\ IsStore(s)
  BY DEF Fits, Sound
<1>2. /\ i.nodes = ViewNodes(s.nodes, D) /\ i.lookup = ViewLookup(s.pathMap, s.pathHash)
      /\ i.tree = s.tree /\ i.child = s.child /\ i.grams = s.grams /\ i.lastID = s.lastID
  BY MappedParts
<1>3. c \in Id /\ NodeFits(D, c, node)
  BY <1>1 DEF NodesFit
<1>4. was = i.nodes[c].path /\ i.nodes[c] = View(D, node)
  BY <1>2, NameOfView DEF ViewNodes
<1>5. was \in Path /\ path \in Path /\ was = Spelled(D, node)
  <2>1. Spelled(D, node) \in Path
    BY <1>1, <1>3, SpelledFacts
  <2>2. was = Spelled(D, node)
    BY DEF PathOf, Spelled
  <2>. QED
    BY <2>1, <2>2, RebaseType
<1>6. f = Rec(s.nodes, M1, H1, s.tree, s.child, s.grams, s.lastID, D, s.wdMap, s.pathToWd)
  BY <1>1, ForgetIs
<1>. HIDE DEF f, M1, H1, was
<1>7. /\ IsStore(f) /\ f.nodes = s.nodes /\ f.pathMap = M1 /\ f.pathHash = H1 /\ f.tree = s.tree
      /\ f.child = s.child /\ f.grams = s.grams /\ f.lastID = s.lastID /\ f.data = D
      /\ f.wdMap = s.wdMap /\ f.pathToWd = s.pathToWd
  BY <1>6, RecFields, MappedRec
<1>. HIDE DEF path
<1>8. t = Rec(s.nodes, M, H, s.tree, s.child, s.grams, s.lastID, E, s.wdMap, s.pathToWd)
  BY <1>7, StoreIs
<1>. HIDE DEF t
<1>9. IsStore(t) /\ t.nodes = s.nodes
  BY <1>8, RecFields, MappedRec
<1>10. put = [t EXCEPT !.nodes[c] = m]
  BY <1>9 DEF Displaced
<1>11. put = Rec(N, M, H, s.tree, s.child, s.grams, s.lastID, E, s.wdMap, s.pathToWd)
  <2>1. c \in DOMAIN t.nodes
    BY <1>9
  <2>. HIDE DEF m, put
  <2>2. put = Rec(Put(t.nodes, c, m), t.pathMap, t.pathHash, t.tree, t.child,
               t.grams, t.lastID, t.data, t.wdMap, t.pathToWd)
    BY <1>9, <1>10, <2>1, SetNodeAt
  <2>. HIDE DEF M, H, E
  <2>. QED
    BY <1>8, <2>2, RecFields
<1>12. /\ NodeFits(E, c, m) /\ PathKey(m) = key /\ View(E, m) = [i.nodes[c] EXCEPT !.path = path]
  <2>1. path # <<>>
    BY DEF path, was
  <2>. HIDE DEF node
  <2>. QED
    BY <1>1, <1>3, <1>4, <1>5, <2>1, ViewOfRepathed DEF node
<1>24. ~m.invalid
  <2>1. node \in Stored
    BY <1>3 DEF NodeFits
  <2>2. m.invalid = node.invalid
    BY <2>1 DEF Displaced, Stored
  <2>. QED
    BY <2>2
<1>. HIDE DEF m, put
<1>13. NodesFit(E, s.nodes) /\ ViewNodes(s.nodes, E) = i.nodes
  BY <1>1, <1>2, <1>5, AppendedNodes
<1>. HIDE DEF E
<1>14. NodesFit(E, N) /\ ViewNodes(N, E) = Put(i.nodes, c, [i.nodes[c] EXCEPT !.path = path])
  BY <1>3, <1>12, <1>13, PutNodes
<1>15. Sound(s.nodes, M1, H1, D) /\ ViewLookup(M1, H1) = Without(i.lookup, {was})
  <2>1. \A q \in DOMAIN s.pathHash \ ({was} \cup {<<>>}) :
          LET x == s.pathMap[s.pathHash[q]]
          IN  x \in DOMAIN s.nodes /\ PathKey(s.nodes[x]) = PathKey(s.nodes[x])
    BY <1>1 DEF Sound, Resolves
  <2>2. <<>> \notin {was}
    BY DEF was
  <2>. QED
    BY <1>1, <1>2, <2>1, <2>2, ForgetSound DEF M1, H1
<1>16. \A q \in DOMAIN H1 \ {<<>>} : LET x == M1[H1[q]]
                                    IN  x \in DOMAIN N /\ PathKey(N[x]) = PathKey(s.nodes[x])
  <2>. SUFFICES ASSUME NEW q \in DOMAIN H1 \ {<<>>}
                PROVE  LET x == M1[H1[q]]
                       IN  x \in DOMAIN N /\ PathKey(N[x]) = PathKey(s.nodes[x])
    OBVIOUS
  <2>. DEFINE x == M1[H1[q]]
  <2>1. x \in DOMAIN s.nodes /\ Spelled(D, s.nodes[x]) = q
    BY <1>15, ResolvedFacts
  <2>2. q # was
    BY DEF H1, Without
  <2>. HIDE DEF x
  <2>3. x # c
    BY <1>5, <2>1, <2>2
  <2>4. x \in DOMAIN N /\ N[x] = s.nodes[x]
    BY <2>1, <2>3 DEF Put
  <2>. QED
    BY <2>4 DEF x
<1>17. c \in DOMAIN N /\ PathKey(N[c]) = key
  BY <1>12 DEF Put
<1>25. Rekeys(s, put, c, path)
  <2>1. N[c] = m /\ \A x \in DOMAIN N \ {c} : x \in DOMAIN s.nodes /\ N[x] = s.nodes[x]
    BY DEF Put
  <2>. HIDE DEF N
  <2>2. /\ put.nodes = N /\ put.lastID = s.lastID /\ put.wdMap = s.wdMap
        /\ put.pathToWd = s.pathToWd /\ IsStore(put)
    BY <1>11, RecFields, MappedRec
  <2>. QED
    BY <1>17, <1>24, <2>1, <2>2 DEF Rekeys
<1>. HIDE DEF N
<1>18. Sound(N, M, H, E) /\ ViewLookup(M, H) = Put(Without(i.lookup, {was}), path, c)
  <2>1. path # <<>>
    BY DEF path, was
  <2>2. NodesFit(D \o path, N)
    BY <1>14 DEF E
  <2>3. Sound(N, M, H, D \o path) /\ ViewLookup(M, H) = Put(ViewLookup(M1, H1), path, c)
    BY <1>5, <1>15, <1>16, <1>17, <2>1, <2>2, StoreSound
  <2>. QED
    BY <1>15, <2>3 DEF E
<1>. HIDE DEF M, H
<1>19. Fits(put) /\ Mapped(put) = [nodes |-> ViewNodes(N, E), lookup |-> ViewLookup(M, H), tree |-> s.tree,
                          child |-> s.child, grams |-> s.grams, lastID |-> s.lastID]
  BY <1>1, <1>11, <1>18, FitsRec
<1>26. ASSUME c[1] =< s.lastID PROVE KeepsWatches(s, r)
  <2>. DEFINE from == GetPathOff(s, was)
  <2>1. r = IF IsDir(c) THEN PutWd(DeleteWd(put, from), key, c) ELSE put
    BY DEF MoveChild, was, path, put, t, f
  <2>2. path # <<>>
    BY DEF path, was
  <2>. HIDE DEF r, from
  <2>. QED
    BY <1>1, <1>3, <1>5, <1>25, <1>26, <2>1, <2>2, RekeyWatched
<1>20. Fits(r) /\ Mapped(r) = Mapped(put)
  <2>1. r = IF IsDir(c) THEN PutWd(DeleteWd(put, GetPathOff(s, was)), key, c) ELSE put
    BY DEF MoveChild, was, path, put, t, f
  <2>. HIDE DEF r
  <2>. DEFINE w == DeleteWd(put, GetPathOff(s, was))
  <2>2. Fits(w) /\ Mapped(w) = Mapped(put)
    BY <1>19, WatchStep
  <2>. HIDE DEF w
  <2>3. Fits(PutWd(w, key, c)) /\ Mapped(PutWd(w, key, c)) = Mapped(w)
    BY <1>3, <2>2, WatchStep
  <2>. QED
    BY <1>19, <2>1, <2>2, <2>3 DEF w
<1>. HIDE DEF r, i
<1>. DEFINE j == Mapped(r)
<1>21. /\ j.nodes = ViewNodes(N, E) /\ j.lookup = ViewLookup(M, H) /\ j.tree = s.tree
       /\ j.child = s.child /\ j.grams = s.grams /\ j.lastID = s.lastID
  BY <1>19, <1>20
<1>22. /\ j.nodes = Put(i.nodes, c, [i.nodes[c] EXCEPT !.path = path])
       /\ j.lookup = Put(Without(i.lookup, {was}), path, c)
       /\ j.tree = i.tree /\ j.child = i.child /\ j.grams = i.grams /\ j.lastID = i.lastID
       /\ was = i.nodes[c].path /\ path = Rebase(was, old, new)
  BY <1>2, <1>4, <1>14, <1>18, <1>21 DEF path
<1>. HIDE DEF path, was, j
<1>23. ChildMoved(i, j, c, old, new)
  BY <1>22 DEF ChildMoved
<1>. QED
  BY <1>20, <1>23, <1>26 DEF r, i, j

\* The index j is i with the nodes of K moved from below old to below new.
Moving(i, K, old, new) == [c \in K |-> Rebase(i.nodes[c].path, old, new)]
MovedNodes(i, K, old, new) ==
  [x \in DOMAIN i.nodes |->
     IF x \in K THEN [i.nodes[x] EXCEPT !.path = Rebase(i.nodes[x].path, old, new)]
     ELSE i.nodes[x]]
MovedLookup(L, K, P, own) ==
  [q \in (DOMAIN L \ {P[c] : c \in K}) \cup DOMAIN own |->
     IF q \in DOMAIN own THEN own[q] ELSE L[q]]
Owning(K, target, own) ==
  /\ own \in [{target[c] : c \in K} -> K]
  /\ \A q \in DOMAIN own : target[own[q]] = q
MovedBy(i, K, old, new, j) ==
  /\ j.nodes = MovedNodes(i, K, old, new)
  /\ j.tree = i.tree /\ j.child = i.child /\ j.grams = i.grams /\ j.lastID = i.lastID
  /\ \E own : /\ Owning(K, Moving(i, K, old, new), own)
              /\ j.lookup = MovedLookup(i.lookup, K, [c \in K |-> i.nodes[c].path], own)

\* Children moved one after another come to what the index does to all at
\* once: with none,
LEMMA MovedByNone ==
  ASSUME NEW i, NEW old, NEW new, i.nodes = [x \in DOMAIN i.nodes |-> i.nodes[x]],
         i.lookup = [q \in DOMAIN i.lookup |-> i.lookup[q]]
  PROVE  MovedBy(i, {}, old, new, i)
<1>1. i.nodes = MovedNodes(i, {}, old, new)
  BY DEF MovedNodes
<1>. DEFINE own == [q \in {} |-> q]
<1>2. Owning({}, Moving(i, {}, old, new), own)
  BY DEF Owning, Moving
<1>3. i.lookup = MovedLookup(i.lookup, {}, [c \in {} |-> i.nodes[c].path], own)
  BY DEF MovedLookup
<1>. HIDE DEF own
<1>. QED
  BY <1>1, <1>2, <1>3 DEF MovedBy

\* One more owner of one more path.
OneMore(K, P, target, c, P2, target2) ==
  /\ c \notin K
  /\ \A x \in K : P2[x] = P[x] /\ target2[x] = target[x]
  /\ \A x \in K : target[x] # P2[c]

GrownLookup(L, K, P, own, c, P2, target2) ==
  MovedLookup(L, K \cup {c}, P2, Put(own, target2[c], c)) =
    Put(Without(MovedLookup(L, K, P, own), {P2[c]}), target2[c], c)

\* with one more, in the lookups,
LEMMA OwnsOneMore ==
  ASSUME NEW L, NEW K, NEW P, NEW target, NEW own, Owning(K, target, own),
         NEW c, NEW P2, NEW target2, OneMore(K, P, target, c, P2, target2)
  PROVE  /\ Owning(K \cup {c}, target2, Put(own, target2[c], c))
         /\ GrownLookup(L, K, P, own, c, P2, target2)
<1>. DEFINE q0 == target2[c]
            w == P2[c]
            own2 == Put(own, q0, c)
            A == {target[x] : x \in K}
            A2 == {target2[x] : x \in K \cup {c}}
            B == {P[x] : x \in K}
            B2 == {P2[x] : x \in K \cup {c}}
<1>1. A2 = A \cup {q0} /\ B2 = B \cup {w} /\ w \notin A
  BY DEF OneMore
<1>2. /\ DOMAIN own = A /\ \A q \in A : own[q] \in K /\ target[own[q]] = q
  BY DEF Owning
<1>3. /\ DOMAIN own2 = A \cup {q0} /\ own2[q0] = c /\ \A q \in A \ {q0} : own2[q] = own[q]
      /\ own2 = [q \in DOMAIN own2 |-> own2[q]]
  BY <1>2 DEF Put
<1>. HIDE DEF own2
<1>4. \A q \in A \cup {q0} : own2[q] \in K \cup {c} /\ target2[own2[q]] = q
  BY <1>2, <1>3 DEF OneMore
<1>5. Owning(K \cup {c}, target2, own2)
  <2>1. own2 \in [A \cup {q0} -> K \cup {c}]
    BY <1>3, <1>4
  <2>. QED
    BY <2>1, <1>1, <1>3, <1>4 DEF Owning
<1>. DEFINE kept == MovedLookup(L, K, P, own)
            cut == Without(kept, {w})
            left == Put(cut, q0, c)
            right == MovedLookup(L, K \cup {c}, P2, own2)
<1>6. /\ kept = [q \in (DOMAIN L \ B) \cup A |-> IF q \in A THEN own[q] ELSE L[q]]
      /\ right = [q \in (DOMAIN L \ B2) \cup (A \cup {q0}) |->
                    IF q \in A \cup {q0} THEN own2[q] ELSE L[q]]
  BY <1>2, <1>3 DEF MovedLookup
<1>. HIDE DEF kept, right, A, B, B2, A2, q0, w
<1>7. /\ DOMAIN cut = ((DOMAIN L \ B) \cup A) \ {w}
      /\ \A q \in DOMAIN cut : cut[q] = IF q \in A THEN own[q] ELSE L[q]
  BY <1>6 DEF Without
<1>. HIDE DEF cut
<1>8. left = [q \in (((DOMAIN L \ B) \cup A) \ {w}) \cup {q0} |->
                IF q = q0 THEN c ELSE IF q \in A THEN own[q] ELSE L[q]]
  BY <1>7 DEF Put
<1>9. (((DOMAIN L \ B) \cup A) \ {w}) \cup {q0} = (DOMAIN L \ B2) \cup (A \cup {q0})
  BY <1>1
<1>10. \A q : (IF q = q0 THEN c ELSE IF q \in A THEN own[q] ELSE L[q])
               = (IF q \in A \cup {q0} THEN own2[q] ELSE L[q])
  BY <1>3
<1>11. left = right
  <2>. DEFINE S == (DOMAIN L \ B2) \cup (A \cup {q0})
  <2>1. left = [q \in S |-> IF q = q0 THEN c ELSE IF q \in A THEN own[q] ELSE L[q]]
    BY <1>8, <1>9
  <2>2. right = [q \in S |-> IF q \in A \cup {q0} THEN own2[q] ELSE L[q]]
    BY <1>6
  <2>. HIDE DEF S, left
  <2>. QED
    BY <2>1, <2>2, <1>10
<1>. QED
  BY <1>5, <1>11 DEF left, right, own2, kept, cut, q0, w, GrownLookup

\* No node lands where one of them was.
Apart(i, K, old, new) ==
  \A x, y \in K : Rebase(i.nodes[x].path, old, new) # i.nodes[y].path

\* and in the whole index.
LEMMA MovedByStep ==
  ASSUME NEW i, NEW K, NEW old, NEW new, NEW j, MovedBy(i, K, old, new, j),
         NEW c \in DOMAIN i.nodes, c \notin K, Apart(i, K \cup {c}, old, new),
         NEW r, ChildMoved(j, r, c, old, new)
  PROVE  MovedBy(i, K \cup {c}, old, new, r)
<1>. DEFINE P == [x \in K |-> i.nodes[x].path]
            P2 == [x \in K \cup {c} |-> i.nodes[x].path]
            target == Moving(i, K, old, new)
            target2 == Moving(i, K \cup {c}, old, new)
            path == Rebase(i.nodes[c].path, old, new)
<1>1. j.nodes = MovedNodes(i, K, old, new) /\ j.nodes[c] = i.nodes[c]
  BY DEF MovedBy, MovedNodes
<1>0. /\ r.nodes = Put(j.nodes, c, [i.nodes[c] EXCEPT !.path = path])
      /\ r.lookup = Put(Without(j.lookup, {i.nodes[c].path}), path, c)
      /\ r.tree = j.tree /\ r.child = j.child /\ r.grams = j.grams /\ r.lastID = j.lastID
  BY <1>1 DEF ChildMoved
<1>2. PICK own : /\ Owning(K, target, own)
                 /\ j.lookup = MovedLookup(i.lookup, K, P, own)
  BY DEF MovedBy
<1>3. /\ \A x \in K : P2[x] = P[x] /\ target2[x] = target[x]
      /\ P2[c] = i.nodes[c].path /\ target2[c] = path
      /\ \A x \in K : target[x] # P2[c]
  BY DEF Moving, Apart
<1>4. r.nodes = MovedNodes(i, K \cup {c}, old, new)
  <2>1. r.nodes = Put(j.nodes, c, [i.nodes[c] EXCEPT !.path = path])
    BY <1>0
  <2>. DEFINE m == [i.nodes[c] EXCEPT !.path = path]
  <2>. HIDE DEF path
  <2>2. path = Rebase(i.nodes[c].path, old, new)
    BY DEF path
  <2>. HIDE DEF m
  <2>3. Put(j.nodes, c, m) = [x \in DOMAIN i.nodes \cup {c} |-> IF x = c THEN m ELSE j.nodes[x]]
    BY <1>1 DEF Put, MovedNodes
  <2>4. \A x \in DOMAIN i.nodes :
          (IF x = c THEN m ELSE j.nodes[x]) =
          (IF x \in K \cup {c} THEN [i.nodes[x] EXCEPT !.path = Rebase(i.nodes[x].path, old, new)]
           ELSE i.nodes[x])
    BY <1>1, <2>2 DEF MovedNodes, m
  <2>5. DOMAIN i.nodes \cup {c} = DOMAIN i.nodes
    OBVIOUS
  <2>6. r.nodes = [x \in DOMAIN i.nodes |-> IF x = c THEN m ELSE j.nodes[x]]
    BY <2>1, <2>3, <2>5 DEF m
  <2>. HIDE DEF m
  <2>. QED
    BY <2>6, <2>4 DEF MovedNodes
<1>. HIDE DEF P, P2, target, target2
<1>. DEFINE own2 == Put(own, target2[c], c)
<1>5. /\ Owning(K \cup {c}, target2, own2)
      /\ MovedLookup(i.lookup, K \cup {c}, P2, own2) =
           Put(Without(MovedLookup(i.lookup, K, P, own), {P2[c]}), target2[c], c)
  <2>1. Owning(K, target, own) /\ OneMore(K, P, target, c, P2, target2)
    BY <1>2, <1>3 DEF OneMore
  <2>2. /\ Owning(K \cup {c}, target2, Put(own, target2[c], c))
        /\ GrownLookup(i.lookup, K, P, own, c, P2, target2)
    BY ONLY <2>1, OwnsOneMore, Zenon
  <2>. QED
    BY <2>2 DEF own2, GrownLookup
<1>. HIDE DEF own2
<1>6. r.lookup = MovedLookup(i.lookup, K \cup {c}, P2, own2)
  BY <1>0, <1>2, <1>3, <1>5
<1>7. /\ Owning(K \cup {c}, Moving(i, K \cup {c}, old, new), own2)
      /\ r.lookup = MovedLookup(i.lookup, K \cup {c}, [x \in K \cup {c} |-> i.nodes[x].path], own2)
  BY <1>5, <1>6 DEF P2, target2
<1>8. /\ r.tree = i.tree /\ r.child = i.child /\ r.grams = i.grams /\ r.lastID = i.lastID
  BY <1>0 DEF MovedBy
<1>. QED
  BY <1>4, <1>7, <1>8 DEF MovedBy

\* What all of them together become is one of the outcomes of MovePaths.
LEMMA MovedByIs ==
  ASSUME NEW i, IsIndex(i), NEW K, NEW old, NEW new, NEW j, IsIndex(j),
         MovedBy(i, K, old, new, j)
  PROVE  j \in MovePaths(i, K, old, new)
<1>. DEFINE target == [c \in K |-> Rebase(i.nodes[c].path, old, new)]
            kept == Without(i.lookup, {i.nodes[c].path : c \in K})
            owners == {own \in [{target[c] : c \in K} -> K] :
                         \A q \in DOMAIN own : target[own[q]] = q}
            N(own) == [x \in DOMAIN i.nodes |-> IF x \in K
                         THEN [i.nodes[x] EXCEPT !.path = target[x]] ELSE i.nodes[x]]
            L(own) == [q \in DOMAIN kept \cup DOMAIN own |->
                         IF q \in DOMAIN own THEN own[q] ELSE kept[q]]
            P == [c \in K |-> i.nodes[c].path]
<1>1. PICK own : /\ Owning(K, target, own)
                 /\ j.lookup = MovedLookup(i.lookup, K, P, own)
  BY DEF MovedBy, Moving
<1>2. own \in owners
  BY <1>1 DEF Owning
<1>3. j.lookup = L(own)
  <2>1. DOMAIN kept = DOMAIN i.lookup \ {P[c] : c \in K}
        /\ \A q \in DOMAIN kept : kept[q] = i.lookup[q]
    BY DEF Without
  <2>. HIDE DEF kept, P
  <2>. QED
    BY <1>1, <2>1 DEF MovedLookup
<1>4. j.nodes = N(own)
  BY DEF MovedBy, MovedNodes
<1>. HIDE DEF N, L
<1>5. j = [i EXCEPT !.nodes = N(own), !.lookup = L(own)]
  <2>1. j = [nodes |-> N(own), lookup |-> L(own), tree |-> i.tree,
             child |-> i.child, grams |-> i.grams, lastID |-> i.lastID]
    BY <1>3, <1>4 DEF IsIndex, MovedBy
  <2>. QED
    BY <2>1 DEF IsIndex
<1>. QED
  BY <1>2, <1>5 DEF MovePaths, N, L

-----------------------------------------------------------------------------
(* The children one after another.                                         *)

\* Two prefixes of one path are prefixes of each other.
LEMMA PrefixesNest ==
  ASSUME NEW p \in Path, NEW q \in Path, NEW r \in Path, IsPrefix(p, r), IsPrefix(q, r)
  PROVE  IsPrefix(p, q) \/ IsPrefix(q, p)
<1>1. /\ Len(p) \in Nat /\ Len(q) \in Nat /\ Len(r) \in Nat
      /\ Len(p) =< Len(r) /\ \A k \in 1..Len(p) : r[k] = p[k]
      /\ Len(q) =< Len(r) /\ \A k \in 1..Len(q) : r[k] = q[k]
  BY PrefixElements, LenProperties DEF Path
<1>2. CASE Len(p) =< Len(q)
  <2>1. \A k \in 1..Len(p) : q[k] = p[k]
    BY <1>1, <1>2
  <2>. QED
    BY <2>1, <1>2, PrefixElements
<1>3. CASE Len(q) =< Len(p)
  <2>1. \A k \in 1..Len(q) : p[k] = q[k]
    BY <1>1, <1>3
  <2>. QED
    BY <2>1, <1>3, PrefixElements
<1>. QED
  BY <1>1, <1>2, <1>3

\* Nodes of K lie below old.
AllBelow(i, K, old) ==
  \A c \in K : /\ c \in DOMAIN i.nodes /\ c # NoId /\ ~i.nodes[c].invalid
               /\ i.nodes[c].path \in Path /\ IsPrefix(old, i.nodes[c].path)
               /\ i.nodes[c].path # <<>>

\* Paths below one directory stay apart from those below another.
LEMMA BelowIsApart ==
  ASSUME NEW i, NEW K, NEW old \in Path, NEW new \in Path, new # <<>>,
         ~IsPrefix(old, new), ~IsPrefix(new, old), AllBelow(i, K, old)
  PROVE  /\ Apart(i, K, old, new)
         /\ \A c \in K : Rebase(i.nodes[c].path, old, new) # <<>>
<1>1. ASSUME NEW c \in K
      PROVE  LET r == Rebase(i.nodes[c].path, old, new)
             IN  r \in Path /\ IsPrefix(new, r) /\ r # <<>>
  <2>. DEFINE p == i.nodes[c].path
              r == Rebase(p, old, new)
  <2>1. p \in Path /\ IsPrefix(old, p) /\ Len(p) >= Len(old)
    <3>1. p \in Path /\ IsPrefix(old, p)
      BY DEF AllBelow
    <3>2. Len(p) \in Nat /\ Len(old) \in Nat
      BY <3>1, LenProperties DEF Path
    <3>. QED
      BY <3>1, <3>2 DEF IsPrefix
  <2>. HIDE DEF p
  <2>2. /\ r \in Path /\ Len(r) = Len(new) + (Len(p) - Len(old))
        /\ \A k \in 1..Len(new) : r[k] = new[k]
    BY <2>1, RebaseFacts
  <2>3. Len(p) \in Nat /\ Len(old) \in Nat /\ Len(new) \in Nat /\ Len(new) > 0
    BY <2>1, LenProperties, EmptySeq DEF Path
  <2>. HIDE DEF r
  <2>4. IsPrefix(new, r)
    BY <2>2, <2>3, <2>1, PrefixElements
  <2>5. r # <<>>
    BY <2>2, <2>3, <2>1, EmptySeq DEF Path
  <2>. QED
    BY <2>2, <2>4, <2>5 DEF r, p
<1>2. ASSUME NEW x \in K, NEW y \in K, Rebase(i.nodes[x].path, old, new) = i.nodes[y].path
      PROVE  FALSE
  <2>1. i.nodes[y].path \in Path /\ IsPrefix(old, i.nodes[y].path) /\ IsPrefix(new, i.nodes[y].path)
    BY <1>1, <1>2 DEF AllBelow
  <2>. QED
    BY <2>1, PrefixesNest
<1>. QED
  BY <1>1, <1>2 DEF Apart

\* The stores after each of the moves exist.
LEMMA AfterExists ==
  ASSUME NEW n \in Nat, NEW s, NEW visit, NEW old, NEW new
  PROVE  \E f : f = [i \in 0..n |-> IF i = 0 THEN s ELSE MoveChild(f[i - 1], visit[i], old, new)]
<1>. DEFINE Next1(a, i) == MoveChild(a, visit[i], old, new)
            Is(f, m) == f = [i \in 0..m |-> IF i = 0 THEN s ELSE Next1(f[i - 1], i)]
            T == {m \in Nat : ~ \E f : Is(f, m)}
<1>. HIDE DEF Next1
<1>1. SUFFICES T = {}
  BY DEF Next1
<1>2. SUFFICES ASSUME T # {} PROVE FALSE
  OBVIOUS
<1>3. PICK m \in T : \A k \in T : m =< k
  BY <1>2, LeastNat, T \subseteq Nat
<1>4. m # 0
  <2>. DEFINE f == [i \in 0..0 |-> s]
  <2>1. Is(f, 0)
    OBVIOUS
  <2>. HIDE DEF f, Is
  <2>2. 0 \notin T
    BY <2>1
  <2>. QED
    BY <2>2
<1>5. PICK f : Is(f, m-1)
  <2>1. m-1 \in Nat /\ ~ (m =< m-1)
    BY <1>4
  <2>2. m-1 \notin T
    BY <1>3, <2>1
  <2>. HIDE DEF Is
  <2>. QED
    BY <2>1, <2>2
<1>. DEFINE g == [i \in 0..m |-> IF i = m THEN Next1(f[i - 1], i) ELSE f[i]]
<1>6. Is(g, m)
  <2>. DEFINE h == [i \in 0..m |-> IF i = 0 THEN s ELSE Next1(g[i - 1], i)]
  <2>1. ASSUME NEW i \in 0..m PROVE g[i] = h[i]
    <3>1. CASE i = m
      BY <3>1, <1>4
    <3>2. CASE i # m
      <4>1. i \in 0..(m-1) /\ g[i] = f[i]
        BY <3>2, <1>4
      <4>2. f[i] = IF i = 0 THEN s ELSE Next1(f[i - 1], i)
        BY <1>5, <4>1
      <4>3. i # 0 => g[i-1] = f[i-1]
        BY <4>1
      <4>. QED
        BY <4>1, <4>2, <4>3
    <3>. QED
      BY <3>1, <3>2
  <2>. QED
    BY <2>1
<1>. QED
  BY <1>3, <1>6

Stages(after, s, visit, old, new) ==
  /\ after[0] = s
  /\ \A i \in 1..Len(visit) : after[i] = MoveChild(after[i - 1], visit[i], old, new)
  /\ MoveAll(s, visit, old, new) = after[Len(visit)]

\* The stores between one child and the next.
LEMMA MoveAllSteps ==
  ASSUME NEW s, NEW visit, Len(visit) \in Nat, NEW old, NEW new
  PROVE  \E after : Stages(after, s, visit, old, new)
<1>. DEFINE after[i \in 0..Len(visit)] ==
              IF i = 0 THEN s ELSE MoveChild(after[i - 1], visit[i], old, new)
<1>1. after = [i \in 0..Len(visit) |->
                 IF i = 0 THEN s ELSE MoveChild(after[i - 1], visit[i], old, new)]
  BY AfterExists
<1>2. MoveAll(s, visit, old, new) = after[Len(visit)]
  BY DEF MoveAll
<1>. HIDE DEF after
<1>3. after[0] = s /\ \A i \in 1..Len(visit) : after[i] = MoveChild(after[i - 1], visit[i], old, new)
  BY <1>1
<1>. QED
  BY <1>2, <1>3 DEF Stages

\* A store and one of the moves: what is left to move is where it was.
LEMMA OneMove ==
  ASSUME NEW i, NEW K, NEW old \in Path, NEW new \in Path, NEW a, Fits(a),
         MovedBy(i, K, old, new, Mapped(a)), NEW c, c \notin K,
         AllBelow(i, K \cup {c}, old), new # <<>>, ~IsPrefix(old, new), ~IsPrefix(new, old)
  PROVE  LET r == MoveChild(a, c, old, new)
         IN  /\ Fits(r) /\ MovedBy(i, K \cup {c}, old, new, Mapped(r))
             /\ c[1] =< i.lastID => KeepsWatches(a, r)
<1>. DEFINE r == MoveChild(a, c, old, new)
            j == Mapped(a)
            k == Mapped(r)
<1>1. /\ c \in DOMAIN i.nodes /\ c # NoId /\ ~i.nodes[c].invalid
      /\ i.nodes[c].path # <<>> /\ Rebase(i.nodes[c].path, old, new) # <<>>
      /\ Apart(i, K \cup {c}, old, new)
  BY BelowIsApart DEF AllBelow
<1>2. c \in DOMAIN j.nodes /\ j.nodes[c] = i.nodes[c]
  BY <1>1 DEF MovedBy, MovedNodes
<1>3. c \in DOMAIN a.nodes
  BY <1>2, MappedParts DEF ViewNodes
<1>4. PathOf(a, c) = i.nodes[c].path /\ a.nodes[c].invalid = i.nodes[c].invalid
  BY <1>2, <1>3, NameOfView
<1>5. a.nodes[c].invalid = FALSE \/ ~a.nodes[c].invalid
  BY <1>1, <1>4
<1>9. a.lastID = i.lastID
  <2>1. j.lastID = a.lastID
    BY MappedParts
  <2>. QED
    BY <2>1 DEF MovedBy
<1>. HIDE DEF k, j
<1>6. Fits(r) /\ ChildMoved(j, k, c, old, new) /\ (c[1] =< a.lastID => KeepsWatches(a, r))
  <2>1. PathOf(a, c) # <<>> /\ Rebase(PathOf(a, c), old, new) # <<>> /\ ~a.nodes[c].invalid
    BY <1>1, <1>4
  <2>. QED
    BY <2>1, <1>1, <1>3, MoveChildStep DEF j, k
<1>. HIDE DEF r
<1>7. MovedBy(i, K, old, new, j)
  BY DEF j
<1>8. MovedBy(i, K \cup {c}, old, new, k)
  BY <1>7, <1>6, <1>1, MovedByStep
<1>. QED
  BY <1>6, <1>8, <1>9 DEF k, r

\* A sequence that names every member of K once.
Lists(v, K) ==
  /\ Len(v) \in Nat /\ K = {v[x] : x \in 1..Len(v)}
  /\ \A x, y \in 1..Len(v) : x # y => v[x] # v[y]

\* All of them: one of the outcomes of MovePaths.
LEMMA MoveAllStep ==
  ASSUME NEW s, Fits(s), NEW K, NEW old \in Path, NEW new \in Path, new # <<>>,
         ~IsPrefix(old, new), ~IsPrefix(new, old), AllBelow(Mapped(s), K, old),
         NEW visit, Lists(visit, K)
  PROVE  LET r == MoveAll(s, visit, old, new)
         IN  /\ Fits(r) /\ MovedBy(Mapped(s), K, old, new, Mapped(r))
             /\ (\A c \in K : c[1] =< s.lastID) => KeepsWatches(s, r)
<1>. DEFINE i == Mapped(s)
            numbered == \A c \in K : c[1] =< s.lastID
            n == Len(visit)
            Seen(m) == {visit[x] : x \in 1..m}
<1>. /\ Len(visit) \in Nat /\ K = {visit[x] : x \in 1..Len(visit)}
     /\ \A x, y \in 1..Len(visit) : x # y => visit[x] # visit[y]
  BY DEF Lists
<1>0. PICK after : Stages(after, s, visit, old, new)
  BY MoveAllSteps
<1>1. /\ after[0] = s
      /\ \A m \in 1..n : after[m] = MoveChild(after[m - 1], visit[m], old, new)
      /\ MoveAll(s, visit, old, new) = after[n]
  BY <1>0 DEF Stages
<1>. DEFINE Done(m) == /\ Fits(after[m]) /\ MovedBy(i, Seen(m), old, new, Mapped(after[m]))
                       /\ numbered => KeepsWatches(s, after[m])
            T == {m \in 0..n : ~ Done(m)}
<1>2. Done(0)
  <2>1. /\ IsIndex(i) /\ i.nodes = ViewNodes(s.nodes, s.data)
        /\ i.lookup = ViewLookup(s.pathMap, s.pathHash)
    BY MappedParts
  <2>. HIDE DEF i
  <2>2. i.nodes = [x \in DOMAIN i.nodes |-> i.nodes[x]]
    BY <2>1 DEF ViewNodes
  <2>3. i.lookup = [q \in DOMAIN i.lookup |-> i.lookup[q]]
    BY <2>1 DEF ViewLookup
  <2>4. MovedBy(i, {}, old, new, i)
    BY <2>2, <2>3, MovedByNone
  <2>5. Seen(0) = {}
    OBVIOUS
  <2>6. KeepsWatches(s, s)
    BY DEF KeepsWatches
  <2>. QED
    BY <1>1, <2>4, <2>5, <2>6 DEF i
<1>3. ASSUME NEW m \in 1..n, Done(m - 1)
      PROVE  Done(m)
  <2>1. Seen(m) = Seen(m - 1) \cup {visit[m]}
    <3>1. 1..m = (1..(m - 1)) \cup {m}
      OBVIOUS
    <3>. QED
      BY <3>1
  <2>2. visit[m] \notin Seen(m - 1)
    OBVIOUS
  <2>3. Seen(m) \subseteq K
    OBVIOUS
  <2>4. AllBelow(i, Seen(m), old)
    BY <2>3 DEF AllBelow
  <2>5. after[m] = MoveChild(after[m - 1], visit[m], old, new)
    BY <1>1
  <2>9. numbered => visit[m][1] =< i.lastID
    <3>1. visit[m] \in K
      BY <2>1, <2>3
    <3>2. i.lastID = s.lastID
      BY MappedParts
    <3>. QED
      BY <3>1, <3>2
  <2>. HIDE DEF Seen, i, numbered
  <2>6. AllBelow(i, Seen(m - 1) \cup {visit[m]}, old)
    BY <2>1, <2>4
  <2>7. /\ Fits(after[m - 1]) /\ MovedBy(i, Seen(m - 1), old, new, Mapped(after[m - 1]))
        /\ numbered => KeepsWatches(s, after[m - 1])
    BY <1>3
  <2>8. LET r == MoveChild(after[m - 1], visit[m], old, new)
        IN  /\ Fits(r) /\ MovedBy(i, Seen(m - 1) \cup {visit[m]}, old, new, Mapped(r))
            /\ visit[m][1] =< i.lastID => KeepsWatches(after[m - 1], r)
    BY <2>2, <2>6, <2>7, OneMove
  <2>10. numbered => KeepsWatches(s, after[m])
    BY <2>5, <2>7, <2>8, <2>9 DEF KeepsWatches
  <2>. QED
    BY <2>1, <2>5, <2>8, <2>10
<1>. HIDE DEF Done
<1>4. T = {}
  <2>. SUFFICES ASSUME T # {} PROVE FALSE
    OBVIOUS
  <2>1. PICK m \in T : \A k \in T : m =< k
    BY LeastNat, T \subseteq Nat
  <2>2. m # 0
    BY <1>2
  <2>3. m \in 1..n /\ m - 1 \in 0..n /\ ~ (m =< m - 1)
    BY <2>2
  <2>4. Done(m - 1)
    BY <2>1, <2>3
  <2>. QED
    BY <2>3, <2>4, <1>3
<1>5. Done(n)
  BY <1>4
<1>. QED
  BY <1>1, <1>5 DEF Done

-----------------------------------------------------------------------------
(* There is an order in which to visit them.                               *)

\* The orders a Go map may be ranged over.
LEMMA OrdersOf ==
  ASSUME NEW S
  PROVE  Seqs!SetToSeqs(S) = {f \in [1..Cardinality(S) -> S] :
                                \A x, y \in 1..Cardinality(S) : x # y => f[x] # f[y]}
<1>1. Seqs!Cardinality(S) = Cardinality(S)
  BY DEF Seqs!Cardinality, Cardinality
<1>. QED
  BY <1>1 DEF Seqs!SetToSeqs

\* A finite set in the order of a rank.
LEMMA RankedOrder ==
  ASSUME NEW S, IsFiniteSet(S), NEW r \in [S -> Nat]
  PROVE  \E v \in Seqs!SetToSeqs(S) :
           \A x, y \in 1..Cardinality(S) : r[v[x]] < r[v[y]] => x < y
<1>. DEFINE Fits1(v, A, n) ==
              /\ v \in [1..n -> A]
              /\ \A x, y \in 1..n : x # y => v[x] # v[y]
              /\ \A x, y \in 1..n : r[v[x]] < r[v[y]] => x < y
            Ranked(A) == \E v : Fits1(v, A, Cardinality(A))
            T == {n \in Nat : \E A \in SUBSET S : Cardinality(A) = n /\ ~Ranked(A)}
<1>1. SUFFICES Ranked(S)
  BY OrdersOf
<1>2. SUFFICES ASSUME T # {} PROVE FALSE
  <2>1. Cardinality(S) \in Nat
    BY FS_CardinalityType
  <2>. HIDE DEF Ranked
  <2>. QED
    BY <2>1
<1>3. PICK m \in T : \A k \in T : m =< k
  BY <1>2, LeastNat, T \subseteq Nat
<1>4. PICK A \in SUBSET S : Cardinality(A) = m /\ ~Ranked(A)
  BY <1>3
<1>5. IsFiniteSet(A)
  BY FS_Subset
<1>6. A # {}
  <2>. SUFFICES ASSUME A = {} PROVE FALSE
    OBVIOUS
  <2>1. Cardinality(A) = 0
    BY FS_EmptySet
  <2>2. Fits1(<<>>, A, 0)
    OBVIOUS
  <2>3. Ranked(A)
    <3>. HIDE DEF Fits1
    <3>. QED
      BY <2>1, <2>2
  <2>. HIDE DEF Ranked
  <2>. QED
    BY <1>4, <2>3
<1>7. PICK a \in A : \A b \in A : r[a] =< r[b]
  <2>. DEFINE R == {r[b] : b \in A}
  <2>1. R \subseteq Nat /\ R # {}
    BY <1>6
  <2>2. PICK n \in R : \A k \in R : n =< k
    BY <2>1, LeastNat
  <2>. QED
    BY <2>2
<1>. DEFINE B == A \ {a}
<1>8. B \in SUBSET S /\ Cardinality(B) = m - 1 /\ m \in Nat /\ m - 1 \in Nat
  <2>1. IsFiniteSet(B) /\ Cardinality(B) = Cardinality(A) - 1
    BY <1>5, FS_RemoveElement
  <2>2. Cardinality(B) \in Nat
    BY <2>1, FS_CardinalityType
  <2>. QED
    BY <1>4, <2>1, <2>2
<1>9. PICK v : Fits1(v, B, m - 1)
  <2>1. m - 1 \notin T
    BY <1>3, <1>8
  <2>. HIDE DEF Fits1, B
  <2>. QED
    BY <1>8, <2>1
<1>. DEFINE g == [k \in 1..m |-> IF k = 1 THEN a ELSE v[k - 1]]
<1>10. \A k \in 1..m : /\ k = 1 => g[k] = a
                       /\ k # 1 => k - 1 \in 1..(m - 1) /\ g[k] = v[k - 1] /\ g[k] \in B
  BY <1>8, <1>9
<1>11. g \in [1..m -> A]
  BY <1>10
<1>. HIDE DEF g
<1>12. \A x, y \in 1..m : x # y => g[x] # g[y]
  <2>. SUFFICES ASSUME NEW x \in 1..m, NEW y \in 1..m, x # y PROVE g[x] # g[y]
    OBVIOUS
  <2>1. CASE x = 1 \/ y = 1
    BY <2>1, <1>10
  <2>2. CASE x # 1 /\ y # 1
    <3>1. x - 1 # y - 1
      OBVIOUS
    <3>. QED
      BY <2>2, <3>1, <1>9, <1>10
  <2>. QED
    BY <2>1, <2>2
<1>13. \A x, y \in 1..m : r[g[x]] < r[g[y]] => x < y
  <2>. SUFFICES ASSUME NEW x \in 1..m, NEW y \in 1..m, r[g[x]] < r[g[y]] PROVE x < y
    OBVIOUS
  <2>0. r[g[x]] \in Nat /\ r[g[y]] \in Nat /\ r[a] \in Nat
    BY <1>11
  <2>1. CASE y = 1
    <3>1. g[x] \in A /\ g[y] = a
      BY <2>1, <1>10, <1>11
    <3>. QED
      BY <2>0, <3>1, <1>7
  <2>2. CASE x = 1 /\ y # 1
    BY <2>2
  <2>3. CASE x # 1 /\ y # 1
    <3>1. r[v[x - 1]] < r[v[y - 1]]
      BY <2>3, <1>10
    <3>2. x - 1 < y - 1
      BY <2>3, <3>1, <1>9, <1>10
    <3>. QED
      BY <3>2
  <2>. QED
    BY <2>1, <2>2, <2>3
<1>14. Fits1(g, A, m)
  BY <1>11, <1>12, <1>13
<1>. QED
  BY <1>4, <1>14

\* Such an order names everything.
LEMMA OrderNamesAll ==
  ASSUME NEW S, IsFiniteSet(S), NEW v \in Seqs!SetToSeqs(S)
  PROVE  Lists(v, S)
<1>. DEFINE n == Cardinality(S)
<1>1. n \in Nat
  BY FS_CardinalityType
<1>2. v \in [1..n -> S] /\ \A x, y \in 1..n : x # y => v[x] # v[y]
  BY OrdersOf
<1>3. Len(v) = n
  BY <1>1, <1>2
<1>4. IsFiniteSet(1..n) /\ Cardinality(1..n) = n
  BY <1>1, FS_Interval
<1>5. v \in Injection(1..n, S)
  BY <1>2 DEF Injection, IsInjective
<1>6. v \in Surjection(1..n, S)
  BY <1>4, <1>5, FS_Injection
<1>. HIDE DEF n
<1>7. S = {v[x] : x \in 1..n}
  BY <1>6, <1>2 DEF Surjection
<1>. QED
  BY <1>1, <1>2, <1>3, <1>7 DEF n, Lists

\* Two stores alike in everything behind a node or a path.
GramsStore(s, G) == [s EXCEPT !.grams = G]
TreeStore(s, T) == [s EXCEPT !.tree = T]

\* Fields that mean the same in the index.
LEMMA FieldStep ==
  ASSUME NEW s, Fits(s), NEW G, NEW T
  PROVE  /\ GramsStore(s, G) = Rec(s.nodes, s.pathMap, s.pathHash, s.tree, s.child, G, s.lastID,
                                   s.data, s.wdMap, s.pathToWd)
         /\ Fits(GramsStore(s, G))
         /\ Mapped(GramsStore(s, G)) =
              [nodes |-> Mapped(s).nodes, lookup |-> Mapped(s).lookup, tree |-> s.tree,
               child |-> s.child, grams |-> G, lastID |-> s.lastID]
         /\ TreeStore(s, T) = Rec(s.nodes, s.pathMap, s.pathHash, T, s.child, s.grams, s.lastID,
                                  s.data, s.wdMap, s.pathToWd)
         /\ Fits(TreeStore(s, T))
         /\ Mapped(TreeStore(s, T)) =
              [nodes |-> Mapped(s).nodes, lookup |-> Mapped(s).lookup, tree |-> T,
               child |-> s.child, grams |-> s.grams, lastID |-> s.lastID]
<1>1. IsStore(s) /\ Sound(s.nodes, s.pathMap, s.pathHash, s.data) /\ DOMAIN s.wdMap \subseteq Id
  BY DEF Fits
<1>2. Mapped(s).nodes = ViewNodes(s.nodes, s.data) /\ Mapped(s).lookup = ViewLookup(s.pathMap, s.pathHash)
  BY MappedParts
<1>3. GramsStore(s, G) = Rec(s.nodes, s.pathMap, s.pathHash, s.tree, s.child, G, s.lastID,
                             s.data, s.wdMap, s.pathToWd)
  BY <1>1, SetGrams DEF GramsStore
<1>4. TreeStore(s, T) = Rec(s.nodes, s.pathMap, s.pathHash, T, s.child, s.grams, s.lastID,
                            s.data, s.wdMap, s.pathToWd)
  BY <1>1, SetTree DEF TreeStore
<1>5. LET r == Rec(s.nodes, s.pathMap, s.pathHash, s.tree, s.child, G, s.lastID,
                   s.data, s.wdMap, s.pathToWd)
      IN  /\ Fits(r)
          /\ Mapped(r) = [nodes |-> ViewNodes(s.nodes, s.data),
                          lookup |-> ViewLookup(s.pathMap, s.pathHash), tree |-> s.tree,
                          child |-> s.child, grams |-> G, lastID |-> s.lastID]
  BY <1>1, FitsRec
<1>6. LET r == Rec(s.nodes, s.pathMap, s.pathHash, T, s.child, s.grams, s.lastID,
                   s.data, s.wdMap, s.pathToWd)
      IN  /\ Fits(r)
          /\ Mapped(r) = [nodes |-> ViewNodes(s.nodes, s.data),
                          lookup |-> ViewLookup(s.pathMap, s.pathHash), tree |-> T,
                          child |-> s.child, grams |-> s.grams, lastID |-> s.lastID]
  BY <1>1, FitsRec
<1>. QED
  BY <1>2, <1>3, <1>4, <1>5, <1>6

\* Forgetting paths on a store.
LEMMA ForgetStep ==
  ASSUME NEW s, Fits(s), NEW P, <<>> \notin P
  PROVE  LET r == Forget(s, P)
         IN  /\ Fits(r)
             /\ r = Rec(s.nodes, Without(s.pathMap, {GetPathOff(s, p) : p \in P}),
                        Without(s.pathHash, P), s.tree, s.child, s.grams, s.lastID, s.data,
                        s.wdMap, s.pathToWd)
             /\ Mapped(r) = [nodes |-> Mapped(s).nodes, lookup |-> Without(Mapped(s).lookup, P),
                             tree |-> s.tree, child |-> s.child, grams |-> s.grams,
                             lastID |-> s.lastID]
<1>. DEFINE M == Without(s.pathMap, {GetPathOff(s, p) : p \in P})
            H == Without(s.pathHash, P)
            r == Forget(s, P)
<1>1. IsStore(s) /\ Sound(s.nodes, s.pathMap, s.pathHash, s.data) /\ DOMAIN s.wdMap \subseteq Id
  BY DEF Fits
<1>2. Mapped(s).nodes = ViewNodes(s.nodes, s.data) /\ Mapped(s).lookup = ViewLookup(s.pathMap, s.pathHash)
  BY MappedParts
<1>3. r = Rec(s.nodes, M, H, s.tree, s.child, s.grams, s.lastID, s.data, s.wdMap, s.pathToWd)
  BY <1>1, ForgetIs
<1>4. \A p \in DOMAIN s.pathHash \ (P \cup {<<>>}) :
        LET x == s.pathMap[s.pathHash[p]]
        IN  x \in DOMAIN s.nodes /\ PathKey(s.nodes[x]) = PathKey(s.nodes[x])
  BY <1>1 DEF Sound, Resolves
<1>5. NodesFit(s.data, s.nodes)
  BY <1>1 DEF Sound
<1>6. /\ Sound(s.nodes, M, H, s.data)
      /\ ViewLookup(M, H) = Without(ViewLookup(s.pathMap, s.pathHash), P)
  BY <1>1, <1>4, <1>5, ForgetSound
<1>. HIDE DEF M, H, r
<1>7. /\ Fits(r)
      /\ Mapped(r) = [nodes |-> ViewNodes(s.nodes, s.data), lookup |-> ViewLookup(M, H),
                      tree |-> s.tree, child |-> s.child, grams |-> s.grams, lastID |-> s.lastID]
  BY <1>1, <1>3, <1>6, FitsRec
<1>. QED
  BY <1>2, <1>3, <1>6, <1>7 DEF M, H, r

-----------------------------------------------------------------------------
(* The stages of RenameNode.                                               *)

\* The old place is given up.
OffOf(s, old) ==
  LET id == IdAt(s, GetPathOff(s, old))
  IN  [Charge([Forget(s, {old}) EXCEPT !.grams = RemoveFromIndex(@, Base(old), id)],
              id, -s.nodes[id].size)
        EXCEPT !.tree = Unlink(@, s.nodes[id].parent, id)]

\* The renamed node leaves its parent and its paths.
LEMMA DetachStep ==
  ASSUME NEW s, StoreInv(s), NEW old, old # <<>>, old \in DOMAIN Mapped(s).lookup
  PROVE  LET id == IdAt(s, GetPathOff(s, old))
             off == OffOf(s, old)
         IN  /\ Fits(off) /\ Mapped(off) = Detach(Mapped(s), Mapped(s).lookup[old], old)
             /\ id \in DOMAIN off.nodes /\ off.nodes[id] = s.nodes[id]
             /\ off.data = s.data /\ off.child = s.child /\ off.lastID = s.lastID
             /\ off.pathHash = Without(s.pathHash, {old}) /\ Frame(s, off, {})
<1>. DEFINE i == Mapped(s)
            id == IdAt(s, GetPathOff(s, old))
            size == s.nodes[id].size
            parent == s.nodes[id].parent
            f == Forget(s, {old})
            G == RemoveFromIndex(f.grams, Base(old), id)
            g == GramsStore(f, G)
            c == Charge(g, id, -size)
            T == Unlink(c.tree, parent, id)
            off == OffOf(s, old)
<1>1. off = TreeStore(c, T)
  BY DEF OffOf, TreeStore, GramsStore
<1>2. Fits(s) /\ Healthy(i)
  BY DEF StoreInv
<1>3. /\ id = i.lookup[old] /\ id \in DOMAIN s.nodes /\ id # NoId /\ id \in Id
      /\ i.nodes[id] = View(s.data, s.nodes[id]) /\ s.nodes[id] \in Stored /\ ~s.nodes[id].invalid
      /\ NodeFits(s.data, id, s.nodes[id])
  BY <1>2, KnownFacts
<1>4. /\ size \in Int /\ -size \in Int /\ i.nodes[id].size = size /\ i.nodes[id].parent = parent
  <2>1. size \in Int
    BY <1>3 DEF Stored
  <2>2. i.nodes[id].size = size /\ i.nodes[id].parent = parent
    BY <1>3 DEF View
  <2>. QED
    BY <2>1, <2>2
<1>. HIDE DEF off, c, size, parent, g, f, id, i
<1>5. i = Mapped(s)
  BY DEF i
<1>6. /\ IsIndex(i) /\ i.tree = s.tree /\ i.child = s.child /\ i.grams = s.grams /\ i.lastID = s.lastID
      /\ i.nodes = ViewNodes(s.nodes, s.data)
  BY <1>5, MappedParts
<1>7. /\ Fits(f)
      /\ f = Rec(s.nodes, Without(s.pathMap, {GetPathOff(s, p) : p \in {old}}),
                 Without(s.pathHash, {old}), s.tree, s.child, s.grams, s.lastID, s.data,
                 s.wdMap, s.pathToWd)
      /\ Mapped(f) = [nodes |-> i.nodes, lookup |-> Without(i.lookup, {old}), tree |-> s.tree,
                      child |-> s.child, grams |-> s.grams, lastID |-> s.lastID]
  <2>1. <<>> \notin {old}
    OBVIOUS
  <2>. QED
    BY <1>2, <1>5, <2>1, ForgetStep DEF f
<1>8. /\ f.nodes = s.nodes /\ f.pathHash = Without(s.pathHash, {old}) /\ f.tree = s.tree
      /\ f.child = s.child /\ f.grams = s.grams /\ f.lastID = s.lastID /\ f.data = s.data
      /\ f.wdMap = s.wdMap /\ f.pathToWd = s.pathToWd
  BY <1>7, RecFields
<1>. HIDE DEF G
<1>9. /\ Fits(g)
      /\ g = Rec(f.nodes, f.pathMap, f.pathHash, f.tree, f.child, G, f.lastID,
                 f.data, f.wdMap, f.pathToWd)
      /\ Mapped(g) = [nodes |-> i.nodes, lookup |-> Without(i.lookup, {old}), tree |-> s.tree,
                      child |-> s.child, grams |-> G, lastID |-> s.lastID]
  BY <1>7, <1>8, FieldStep DEF g
<1>10. /\ g.nodes = s.nodes /\ g.pathHash = f.pathHash /\ g.tree = s.tree
       /\ g.child = s.child /\ g.grams = G /\ g.lastID = s.lastID /\ g.data = s.data
       /\ g.wdMap = s.wdMap /\ g.pathToWd = s.pathToWd
  BY <1>8, <1>9, RecFields
<1>11. id \notin Ancestors(s.child, id)
  <2>1. id \in DOMAIN i.child
    <3>1. id \in Proper(i.nodes)
      <4>1. i.nodes[id].invalid = s.nodes[id].invalid
        BY <1>3 DEF View
      <4>2. id \in DOMAIN i.nodes
        BY <1>3, <1>6 DEF ViewNodes
      <4>. QED
        BY <1>3, <4>1, <4>2 DEF Proper
    <3>. QED
      BY <1>2, <3>1 DEF Healthy, TiedIndex, Tied, ChildrenMatch
  <2>. QED
    BY <1>2, <1>6, <2>1 DEF Healthy, Rooted, Acyclic
<1>12. /\ Fits(c)
       /\ Mapped(c) = [Mapped(g) EXCEPT !.nodes = UpsertParentSize(@, g.child, id, -size)]
       /\ SameBytes(g.nodes, c.nodes)
       /\ \A x \in DOMAIN g.nodes \ {NoId} :
            x \notin Ancestors(g.child, id) => c.nodes[x] = g.nodes[x]
       /\ c.pathHash = g.pathHash /\ c.tree = g.tree
       /\ c.child = g.child /\ c.grams = g.grams /\ c.lastID = g.lastID /\ c.data = g.data
       /\ c.wdMap = g.wdMap /\ c.pathToWd = g.pathToWd
  BY <1>4, <1>9, ChargeStep DEF c
<1>. DEFINE N == UpsertParentSize(i.nodes, s.child, id, -size)
<1>13. Mapped(c) = [nodes |-> N, lookup |-> Without(i.lookup, {old}), tree |-> s.tree,
                    child |-> s.child, grams |-> G, lastID |-> s.lastID]
  <2>1. UpsertParentSize(Mapped(g).nodes, g.child, id, -size) = N
    BY <1>9, <1>10
  <2>2. Mapped(c) = [Mapped(g) EXCEPT !.nodes = UpsertParentSize(Mapped(g).nodes, g.child, id, -size)]
    BY <1>12
  <2>. HIDE DEF N
  <2>3. Mapped(c) = [Mapped(g) EXCEPT !.nodes = N]
    BY <2>1, <2>2
  <2>. DEFINE k == Mapped(g)
  <2>4. IsIndex(k)
    BY MappedParts
  <2>5. /\ k.lookup = Without(i.lookup, {old}) /\ k.tree = s.tree /\ k.child = s.child
        /\ k.grams = G /\ k.lastID = s.lastID
    BY <1>9
  <2>. HIDE DEF k
  <2>6. Mapped(c) = [nodes |-> N, lookup |-> k.lookup, tree |-> k.tree, child |-> k.child,
                     grams |-> k.grams, lastID |-> k.lastID]
    BY <2>3, <2>4, SetIndexNodes DEF k
  <2>. QED
    BY <2>5, <2>6
<1>. HIDE DEF N, T
<1>14. /\ Fits(off)
       /\ off = Rec(c.nodes, c.pathMap, c.pathHash, T, c.child, c.grams, c.lastID,
                    c.data, c.wdMap, c.pathToWd)
       /\ Mapped(off) = [nodes |-> N, lookup |-> Without(i.lookup, {old}), tree |-> T,
                         child |-> s.child, grams |-> G, lastID |-> s.lastID]
  BY <1>1, <1>10, <1>12, <1>13, FieldStep
<1>15. Mapped(off) = Detach(i, id, old)
  <2>1. T = Unlink(i.tree, parent, id) /\ G = RemoveFromIndex(i.grams, Base(old), id)
    BY <1>6, <1>8, <1>10, <1>12 DEF T, G
  <2>2. N = UpsertParentSize(i.nodes, i.child, id, -i.nodes[id].size)
    BY <1>4, <1>6 DEF N
  <2>. QED
    BY <1>4, <1>6, <1>14, <2>1, <2>2 DEF Detach
<1>16. id \in DOMAIN c.nodes /\ c.nodes[id] = s.nodes[id]
  BY <1>3, <1>10, <1>11, <1>12 DEF SameBytes
<1>17. /\ off.nodes = c.nodes /\ off.data = s.data /\ off.child = s.child /\ off.lastID = s.lastID
       /\ off.pathHash = Without(s.pathHash, {old})
       /\ off.wdMap = s.wdMap /\ off.pathToWd = s.pathToWd
  BY <1>8, <1>10, <1>12, <1>14, RecFields
<1>18. Frame(s, off, {})
  <2>. DEFINE O == c.nodes
  <2>1. SameBytes(s.nodes, O) /\ NodesFit(s.data, s.nodes) /\ off.nodes = O
    BY <1>2, <1>10, <1>12, <1>17 DEF Fits, Sound
  <2>. HIDE DEF O
  <2>. QED
    BY <1>17, <2>1, SameBytesFrame
<1>. QED
  BY <1>3, <1>14, <1>15, <1>16, <1>17, <1>18 DEF off, i, id

\* The new place, before the children follow.
OnOf(off, id, new, t, parent) ==
  LET node == [off.nodes[id] EXCEPT !.parent = parent, !.mtime = t]
  IN  [Store(off, new, id) EXCEPT
         !.nodes[id] = Placed(node, Len(off.data), Len(new)),
         !.tree = Link(@, parent, id), !.child = Put(@, id, parent)]

Reparented(node, parent, t) == [node EXCEPT !.parent = parent, !.mtime = t]
Attached(v, parent, t, p) ==
  [v EXCEPT !.parent = parent, !.mtime = t, !.path = p, !.name = Base(p)]

\* A node given a parent and a time, and then a path.
LEMMA ViewOfReparented ==
  ASSUME NEW D \in Path, NEW p \in Path, p # <<>>, NEW id, id # NoId,
         NEW node \in Stored, ~node.invalid, NEW parent \in Id, NEW t \in Int
  PROVE  LET m == Placed(Reparented(node, parent, t), Len(D), Len(p))
         IN  /\ NodeFits(D \o p, id, m)
             /\ PathKey(m) = GetUint64(Len(D), Len(p))
             /\ View(D \o p, m) = Attached(View(D, node), parent, t, p)
<1>. DEFINE n == Reparented(node, parent, t)
            m == Placed(n, Len(D), Len(p))
<1>1. n \in Stored /\ n.parent = parent /\ n.size = node.size /\ n.mtime = t /\ n.invalid = node.invalid
  BY DEF Stored, Reparented
<1>. HIDE DEF n
<1>2. /\ NodeFits(D \o p, id, m)
      /\ PathKey(m) = GetUint64(Len(D), Len(p))
      /\ View(D \o p, m) = [parent |-> n.parent, size |-> n.size,
                            mtime |-> n.mtime, path |-> p, name |-> Base(p), invalid |-> FALSE]
  BY <1>1, ViewOfPlaced
<1>. HIDE DEF m
<1>3. node.invalid = FALSE
  BY DEF Stored
<1>4. View(D \o p, m) = [parent |-> parent, size |-> node.size, mtime |-> t,
                         path |-> p, name |-> Base(p), invalid |-> node.invalid]
  BY <1>1, <1>2, <1>3
<1>. DEFINE b == Base(p)
            x == Spelled(D, node)
            y == Titled(D, node)
            v0 == View(D, node)
            v1 == [v0 EXCEPT !.parent = parent]
            v2 == [v1 EXCEPT !.mtime = t]
            v3 == [v2 EXCEPT !.path = p]
            v4 == [v3 EXCEPT !.name = b]
<1>5. v0 = [parent |-> node.parent, size |-> node.size, mtime |-> node.mtime,
            path |-> x, name |-> y, invalid |-> node.invalid]
  BY DEF View
<1>. HIDE DEF x, y, b, v0
<1>6. v1 = [parent |-> parent, size |-> node.size, mtime |-> node.mtime,
            path |-> x, name |-> y, invalid |-> node.invalid]
  BY <1>5
<1>. HIDE DEF v1
<1>7. v2 = [parent |-> parent, size |-> node.size, mtime |-> t,
            path |-> x, name |-> y, invalid |-> node.invalid]
  BY <1>6
<1>. HIDE DEF v2
<1>8. v3 = [parent |-> parent, size |-> node.size, mtime |-> t,
            path |-> p, name |-> y, invalid |-> node.invalid]
  BY <1>7
<1>. HIDE DEF v3
<1>9. v4 = [parent |-> parent, size |-> node.size, mtime |-> t,
            path |-> p, name |-> b, invalid |-> node.invalid]
  BY <1>8
<1>10. v4 = Attached(v0, parent, t, p)
  BY DEF v1, v2, v3, v4, b, Attached
<1>. HIDE DEF v4
<1>11. View(D \o p, m) = Attached(View(D, node), parent, t, p)
  BY <1>4, <1>9, <1>10 DEF v0, b
<1>. QED
  BY <1>2, <1>11 DEF m, n

\* It arrives at its new parent.
LEMMA AttachStep ==
  ASSUME NEW off, Fits(off), NEW id \in DOMAIN off.nodes, id # NoId, ~off.nodes[id].invalid,
         \A q \in DOMAIN Mapped(off).lookup : Mapped(off).lookup[q] # id,
         NEW new \in Path, new # <<>>, NEW t \in Int, NEW parent \in Id,
         parent = Mapped(off).lookup[Dir(new)]
  PROVE  LET on == OnOf(off, id, new, t, parent)
         IN  Fits(on) /\ Mapped(on) = Attach(Mapped(off), id, new, t) /\ Rekeys(off, on, id, new)
<1>. DEFINE i == Mapped(off)
            D == off.data
            E == D \o new
            key == GetUint64(Len(D), Len(new))
            node == off.nodes[id]
            m == Placed(Reparented(node, parent, t), Len(D), Len(new))
            r == Store(off, new, id)
            on == OnOf(off, id, new, t, parent)
            N == Put(off.nodes, id, m)
            M == Put(off.pathMap, key, id)
            H == Put(off.pathHash, new, key)
            T == Link(off.tree, parent, id)
            C == Put(off.child, id, parent)
<1>1. /\ Sound(off.nodes, off.pathMap, off.pathHash, D) /\ DOMAIN off.wdMap \subseteq Id
      /\ D \in Path /\ NodesFit(D, off.nodes) /\ IsStore(off)
  BY DEF Fits, Sound
<1>2. /\ i.nodes = ViewNodes(off.nodes, D) /\ i.lookup = ViewLookup(off.pathMap, off.pathHash)
      /\ i.tree = off.tree /\ i.child = off.child /\ i.grams = off.grams /\ i.lastID = off.lastID
      /\ IsIndex(i)
  BY MappedParts
<1>3. id \in Id /\ NodeFits(D, id, node) /\ node \in Stored
  BY <1>1 DEF NodesFit, NodeFits
<1>4. i.nodes[id] = View(D, node)
  BY <1>2 DEF ViewNodes
<1>. HIDE DEF i
<1>5. r = Rec(off.nodes, M, H, off.tree, off.child, off.grams, off.lastID, E, off.wdMap,
              off.pathToWd)
  BY <1>1, StoreIs
<1>. HIDE DEF r, M, H, E, N, m, T, C, on
<1>6. /\ IsStore(r) /\ r.nodes = off.nodes /\ r.tree = off.tree /\ r.child = off.child
      /\ r.pathMap = M /\ r.pathHash = H /\ r.grams = off.grams /\ r.lastID = off.lastID
      /\ r.data = E /\ r.wdMap = off.wdMap /\ r.pathToWd = off.pathToWd
  BY <1>5, RecFields, MappedRec
<1>7. on = PlacedStore(r, N, T, C)
  <2>1. on = [r EXCEPT !.nodes[id] = m, !.tree = Link(@, parent, id), !.child = Put(@, id, parent)]
    BY DEF OnOf, Reparented, r, on, m
  <2>2. [r.nodes EXCEPT ![id] = m] = N
    BY <1>6, PutIsExcept DEF N
  <2>3. [r EXCEPT !.nodes[id] = m, !.tree = Link(@, parent, id), !.child = Put(@, id, parent)]
          = [r EXCEPT !.nodes = [r.nodes EXCEPT ![id] = m], !.tree = Link(r.tree, parent, id),
                      !.child = Put(r.child, id, parent)]
    OBVIOUS
  <2>4. Link(r.tree, parent, id) = T /\ Put(r.child, id, parent) = C
    BY <1>6 DEF T, C
  <2>. QED
    BY <2>1, <2>2, <2>3, <2>4 DEF PlacedStore
<1>8. on = Rec(N, M, H, T, C, off.grams, off.lastID, E, off.wdMap, off.pathToWd)
  <2>1. on = Rec(N, r.pathMap, r.pathHash, T, C, r.grams, r.lastID, r.data, r.wdMap, r.pathToWd)
    BY <1>6, <1>7, SetPlaced
  <2>. QED
    BY <1>6, <2>1
<1>9. /\ NodeFits(E, id, m) /\ PathKey(m) = key
      /\ View(E, m) = Attached(i.nodes[id], parent, t, new)
  <2>1. D \in Path /\ node \in Stored /\ ~node.invalid
    BY <1>1, <1>3
  <2>. HIDE DEF D, node
  <2>2. /\ NodeFits(D \o new, id, m) /\ PathKey(m) = GetUint64(Len(D), Len(new))
        /\ View(D \o new, m) = Attached(View(D, node), parent, t, new)
    BY <2>1, ViewOfReparented DEF m
  <2>. QED
    BY <1>4, <2>2 DEF E, D, node
<1>10. NodesFit(E, off.nodes) /\ ViewNodes(off.nodes, E) = i.nodes
  BY <1>1, <1>2, AppendedNodes DEF E
<1>11. NodesFit(E, N) /\ ViewNodes(N, E) = Put(i.nodes, id, View(E, m))
  BY <1>3, <1>9, <1>10, PutNodes DEF N
<1>12. \A q \in DOMAIN off.pathHash \ {<<>>} :
         LET x == off.pathMap[off.pathHash[q]]
         IN  x \in DOMAIN N /\ PathKey(N[x]) = PathKey(off.nodes[x])
  <2>. SUFFICES ASSUME NEW q \in DOMAIN off.pathHash \ {<<>>}
                PROVE  LET x == off.pathMap[off.pathHash[q]]
                       IN  x \in DOMAIN N /\ PathKey(N[x]) = PathKey(off.nodes[x])
    OBVIOUS
  <2>. DEFINE x == off.pathMap[off.pathHash[q]]
  <2>1. x \in DOMAIN off.nodes /\ q \in DOMAIN i.lookup /\ i.lookup[q] = x
    BY <1>1, <1>2, ResolvedFacts
  <2>. HIDE DEF x
  <2>2. x # id
    BY <2>1 DEF i
  <2>3. x \in DOMAIN N /\ N[x] = off.nodes[x]
    BY <2>1, <2>2 DEF N, Put
  <2>. QED
    BY <2>3 DEF x
<1>13. id \in DOMAIN N /\ PathKey(N[id]) = key
  BY <1>9 DEF N, Put
<1>14. Sound(N, M, H, E) /\ ViewLookup(M, H) = Put(i.lookup, new, id)
  <2>1. NodesFit(D \o new, N)
    BY <1>11 DEF E
  <2>. QED
    BY <1>1, <1>2, <1>12, <1>13, <2>1, StoreSound DEF M, H, E
<1>15. Fits(on) /\ Mapped(on) = [nodes |-> ViewNodes(N, E), lookup |-> ViewLookup(M, H),
                                 tree |-> T, child |-> C, grams |-> off.grams, lastID |-> off.lastID]
  BY <1>1, <1>8, <1>14, FitsRec
<1>16. Mapped(on) = Attach(i, id, new, t)
  <2>. DEFINE v == Attached(i.nodes[id], parent, t, new)
  <2>1. View(E, m) = v
    BY <1>9
  <2>2. [i.nodes EXCEPT ![id] = [@ EXCEPT !.parent = parent, !.mtime = t,
                                         !.path = new, !.name = Base(new)]]
          = [i.nodes EXCEPT ![id] = v]
    BY DEF Attached
  <2>3. Attach(i, id, new, t) =
          [nodes  |-> [i.nodes EXCEPT ![id] = [@ EXCEPT !.parent = parent, !.mtime = t,
                                         !.path = new, !.name = Base(new)]],
           lookup |-> Put(i.lookup, new, id), tree |-> Link(i.tree, parent, id),
           child |-> Put(i.child, id, parent), grams |-> i.grams, lastID |-> i.lastID]
    BY DEF Attach, i
  <2>. HIDE DEF v
  <2>4. [i.nodes EXCEPT ![id] = v] = Put(i.nodes, id, v)
    <3>1. id \in DOMAIN i.nodes
      BY <1>2 DEF ViewNodes
    <3>. QED
      BY <3>1, PutIsExcept
  <2>5. Mapped(on) = [nodes |-> Put(i.nodes, id, v), lookup |-> Put(i.lookup, new, id),
                      tree |-> Link(i.tree, parent, id), child |-> Put(i.child, id, parent),
                      grams |-> i.grams, lastID |-> i.lastID]
    BY <1>2, <1>11, <1>14, <1>15, <2>1 DEF T, C
  <2>. QED
    BY <2>2, <2>3, <2>4, <2>5
<1>17. Rekeys(off, on, id, new)
  <2>1. N[id] = m /\ \A x \in DOMAIN N \ {id} : x \in DOMAIN off.nodes /\ N[x] = off.nodes[x]
    BY DEF N, Put
  <2>2. /\ on.nodes = N /\ on.lastID = off.lastID /\ on.wdMap = off.wdMap
        /\ on.pathToWd = off.pathToWd /\ IsStore(on)
    BY <1>8, RecFields, MappedRec
  <2>3. ~m.invalid
    <3>1. View(E, m).invalid = m.invalid
      BY DEF View
    <3>2. Attached(i.nodes[id], parent, t, new).invalid = i.nodes[id].invalid
          /\ i.nodes[id].invalid = node.invalid
      BY <1>4 DEF Attached, View
    <3>. QED
      BY <1>9, <3>1, <3>2
  <2>. QED
    BY <1>13, <2>1, <2>2, <2>3 DEF Rekeys
<1>. QED
  BY <1>15, <1>16, <1>17 DEF on, i

Visited(i, id, parent) == Renamed(Link(i.tree, parent, id), id)

\* The directory a visited node is reached from is its parent, and one
\* component shorter.
LEMMA VisitedFrom ==
  ASSUME NEW i, IxInv(i), TiedIndex(i), NEW id \in Proper(i.nodes), NEW parent,
         NEW c \in Visited(i, id, parent),
         id \notin Visited(i, id, parent), c \in DOMAIN i.nodes
  PROVE  /\ c # NoId /\ ~i.nodes[c].invalid /\ c \in DOMAIN i.child
         /\ i.nodes[c].path \in Path
         /\ i.child[c] \in Visited(i, id, parent) /\ i.child[c] \in DOMAIN i.nodes =>
              Len(i.nodes[i.child[c]].path) < Len(i.nodes[c].path)
<1>. DEFINE T3 == Link(i.tree, parent, id)
<1>1. Good(i.nodes, i.lookup, i.tree, i.child, i.grams, i.lastID)
      /\ Tied(i.nodes, i.lookup, i.tree, i.child, i.grams)
  BY GoodParts DEF IxInv, TiedIndex
<1>2. PICK d \in Visited(i, id, parent) \cup {id} : d \in DOMAIN T3 /\ IsDir(d) /\ c \in T3[d]
  BY RenamedFacts DEF Visited
<1>3. d \in DOMAIN i.tree /\ c \in i.tree[d]
  BY <1>2, LinkWhere
<1>4. c # NoId /\ ~i.nodes[c].invalid
  BY <1>1, <1>3 DEF Good, ChildrenProper
<1>5. c \in DOMAIN i.child /\ i.child[c] = i.nodes[c].parent
  BY <1>1, <1>4 DEF Tied, ChildrenMatch, Proper
<1>6. i.nodes[c].parent = d
  BY <1>1, <1>3 DEF Tied, TreeFits, TreeParents
<1>7. i.nodes[c].path \in Path
  BY <1>1 DEF Good, NodesType, Node
<1>8. ASSUME d \in DOMAIN i.nodes
      PROVE  Len(i.nodes[d].path) < Len(i.nodes[c].path)
  <2>1. Len(i.nodes[c].path) > 1 /\ Dir(i.nodes[c].path) = i.nodes[d].path
    BY <1>1, <1>2, <1>3, <1>8 DEF Tied, TreeFits, TreePaths, Below
  <2>. DEFINE q == i.nodes[c].path
  <2>2. Len(q) \in Nat
    BY <1>7, LenProperties DEF Path
  <2>. HIDE DEF q
  <2>3. Len(Dir(q)) = Len(q) - 1
    BY <1>7, <2>1, DirFacts DEF q
  <2>. QED
    BY <2>1, <2>2, <2>3 DEF q
<1>. QED
  BY <1>4, <1>5, <1>6, <1>7, <1>8

\* What renameChild visits, if every one of them has a node: it lay below the
\* old path, and can be visited parents first.
LEMMA VisitOrder ==
  ASSUME NEW i, IxInv(i), TiedIndex(i), NEW id \in Proper(i.nodes),
         ~Held(i.lookup, i.tree, id), NEW old \in Path, i.nodes[id].path = old,
         NEW new \in Path, new # <<>>, ~IsPrefix(old, new), Dir(new) \in DOMAIN i.lookup,
         NEW t, NEW on, on = Attach(i, id, new, t), Renamed(on.tree, id) \subseteq DOMAIN on.nodes
  PROVE  LET below == Renamed(on.tree, id)
         IN  /\ AllBelow(on, below, old) /\ id \notin below /\ IsFiniteSet(below)
             /\ \E v \in Seqs!SetToSeqs(below) :
                  \A x, y \in DOMAIN v : on.child[v[x]] = v[y] => y < x
<1>. DEFINE parent == i.lookup[Dir(new)]
            below == Renamed(on.tree, id)
<1>1. Good(i.nodes, i.lookup, i.tree, i.child, i.grams, i.lastID)
      /\ Tied(i.nodes, i.lookup, i.tree, i.child, i.grams)
  BY GoodParts DEF IxInv, TiedIndex
<1>2. on.tree = Link(i.tree, parent, id) /\ on.child = Put(i.child, id, parent)
      /\ DOMAIN on.nodes = DOMAIN i.nodes
      /\ \A x \in DOMAIN i.nodes \ {id} : on.nodes[x] = i.nodes[x]
  BY DEF Attach
<1>. HIDE DEF parent
<1>3. /\ id \notin below
      /\ \A c \in below \cap DOMAIN i.nodes : /\ IsPrefix(old, i.nodes[c].path)
                                              /\ Len(i.nodes[c].path) > Len(old)
  <2>1. below = Renamed(Link(i.tree, parent, id), id)
    BY <1>2
  <2>. HIDE DEF below
  <2>. QED
    BY <1>1, <2>1, MovedBelow DEF parent
<1>. HIDE DEF below
<1>4. below = Visited(i, id, parent)
  BY <1>2 DEF below, Visited
<1>5. below \subseteq DOMAIN i.nodes
  BY <1>2 DEF below
<1>6. ASSUME NEW c \in below
      PROVE  /\ c \in DOMAIN i.nodes /\ on.nodes[c] = i.nodes[c] /\ on.child[c] = i.child[c]
             /\ c # NoId /\ ~i.nodes[c].invalid /\ i.nodes[c].path \in Path
             /\ Len(i.nodes[c].path) \in Nat /\ IsPrefix(old, i.nodes[c].path)
             /\ i.nodes[c].path # <<>>
             /\ i.child[c] \in below => Len(i.nodes[i.child[c]].path) < Len(i.nodes[c].path)
  <2>1. c \in DOMAIN i.nodes /\ c # id
    BY <1>3, <1>5
  <2>2. /\ c # NoId /\ ~i.nodes[c].invalid /\ c \in DOMAIN i.child
        /\ i.nodes[c].path \in Path
        /\ i.child[c] \in below /\ i.child[c] \in DOMAIN i.nodes =>
             Len(i.nodes[i.child[c]].path) < Len(i.nodes[c].path)
    BY <1>3, <1>4, <2>1, VisitedFrom
  <2>3. Len(i.nodes[c].path) \in Nat
    BY <2>2, LenProperties DEF Path
  <2>4. IsPrefix(old, i.nodes[c].path) /\ Len(i.nodes[c].path) > Len(old)
    BY <1>3, <2>1
  <2>5. i.nodes[c].path # <<>>
    <3>1. Len(old) \in Nat
      BY LenProperties DEF Path
    <3>2. Len(<<>>) = 0
      BY EmptySeq
    <3>. SUFFICES ASSUME i.nodes[c].path = <<>> PROVE FALSE
      OBVIOUS
    <3>. QED
      BY <3>1, <3>2, <2>3, <2>4
  <2>6. on.child[c] = i.child[c]
    BY <1>2, <2>1, <2>2 DEF Put
  <2>. QED
    BY <1>2, <1>5, <2>1, <2>2, <2>3, <2>4, <2>5, <2>6
<1>7. AllBelow(on, below, old)
  BY <1>2, <1>6 DEF AllBelow
<1>8. IsFiniteSet(below)
  <2>. DEFINE n == i.lastID
              S == (0..n) \X BOOLEAN
  <2>1. n \in Nat /\ \A x \in DOMAIN i.nodes : x \in Id /\ x[1] =< n
    BY <1>1 DEF Good, NodesType
  <2>2. below \subseteq S
    <3>. SUFFICES ASSUME NEW c \in below PROVE c \in S
      OBVIOUS
    <3>1. c \in Id /\ c[1] =< n
      BY <1>5, <2>1
    <3>. HIDE DEF n
    <3>. QED
      BY <2>1, <3>1 DEF Id
  <2>. HIDE DEF n
  <2>3. IsFiniteSet(0..n)
    <3>1. 0 \in Int /\ n \in Int
      BY <2>1
    <3>. QED
      BY <3>1, FS_Interval
  <2>4. IsFiniteSet(BOOLEAN)
    <3>1. IsFiniteSet({TRUE}) /\ IsFiniteSet({FALSE})
      BY FS_Singleton
    <3>2. IsFiniteSet({TRUE} \cup {FALSE})
      BY <3>1, FS_AddElement
    <3>3. BOOLEAN = {TRUE} \cup {FALSE}
      OBVIOUS
    <3>. QED
      BY <3>2, <3>3
  <2>5. IsFiniteSet(S)
    BY <2>3, <2>4, FS_Product
  <2>. HIDE DEF S
  <2>. QED
    BY <2>2, <2>5, FS_Subset
<1>. DEFINE r == [c \in below |-> Len(i.nodes[c].path)]
<1>9. r \in [below -> Nat]
  BY <1>6
<1>10. PICK v \in Seqs!SetToSeqs(below) :
         \A x, y \in 1..Cardinality(below) : r[v[x]] < r[v[y]] => x < y
  BY <1>8, <1>9, RankedOrder
<1>11. v \in [1..Cardinality(below) -> below]
  BY OrdersOf
<1>12. ASSUME NEW x \in DOMAIN v, NEW y \in DOMAIN v, on.child[v[x]] = v[y]
       PROVE  y < x
  <2>1. v[x] \in below /\ v[y] \in below /\ x \in 1..Cardinality(below) /\ y \in 1..Cardinality(below)
    BY <1>11
  <2>2. i.child[v[x]] = v[y]
    BY <1>6, <1>12, <2>1
  <2>3. r[v[y]] < r[v[x]]
    BY <1>6, <2>1, <2>2
  <2>. QED
    BY <1>10, <2>1, <2>3
<1>. QED
  BY <1>3, <1>7, <1>8, <1>10, <1>12 DEF below

AppendedStore(s, x) == [s EXCEPT !.data = @ \o x]
SettledOf(r, id, size, new) ==
  [Charge(r, id, size) EXCEPT !.grams = AddToIndex(@, Base(new), id)]

\* A path is stored and nothing points to it.
LEMMA AppendStep ==
  ASSUME NEW s, Fits(s), NEW x \in Path
  PROVE  /\ Fits(AppendedStore(s, x)) /\ Mapped(AppendedStore(s, x)) = Mapped(s)
         /\ Frame(s, AppendedStore(s, x), {})
<1>. DEFINE D == s.data \o x
            r == AppendedStore(s, x)
<1>1. /\ Sound(s.nodes, s.pathMap, s.pathHash, s.data) /\ DOMAIN s.wdMap \subseteq Id
      /\ s.data \in Path /\ NodesFit(s.data, s.nodes) /\ IsStore(s)
  BY DEF Fits, Sound
<1>2. r = [s EXCEPT !.data = D]
  BY DEF AppendedStore
<1>3. NodesFit(D, s.nodes) /\ ViewNodes(s.nodes, D) = ViewNodes(s.nodes, s.data)
  BY <1>1, AppendedNodes
<1>4. Sound(s.nodes, s.pathMap, s.pathHash, D)
  <2>1. \A p \in DOMAIN s.pathHash \ {<<>>} :
          /\ s.pathMap[s.pathHash[p]] \in DOMAIN s.nodes
          /\ PathKey(s.nodes[s.pathMap[s.pathHash[p]]]) = PathKey(s.nodes[s.pathMap[s.pathHash[p]]])
    BY <1>1 DEF Sound, Resolves
  <2>. QED
    BY <1>1, <1>3, <2>1, SoundAppended
<1>. HIDE DEF D, r
<1>5. r = Rec(s.nodes, s.pathMap, s.pathHash, s.tree, s.child, s.grams, s.lastID, D,
              s.wdMap, s.pathToWd)
  BY <1>1, <1>2, SetData
<1>6. /\ Fits(r)
      /\ Mapped(r) = [nodes |-> ViewNodes(s.nodes, D), lookup |-> ViewLookup(s.pathMap, s.pathHash),
                      tree |-> s.tree, child |-> s.child, grams |-> s.grams, lastID |-> s.lastID]
  BY <1>1, <1>4, <1>5, FitsRec
<1>7. /\ IsIndex(Mapped(s)) /\ Mapped(s).nodes = ViewNodes(s.nodes, s.data)
      /\ Mapped(s).lookup = ViewLookup(s.pathMap, s.pathHash)
      /\ Mapped(s).tree = s.tree /\ Mapped(s).child = s.child
      /\ Mapped(s).grams = s.grams /\ Mapped(s).lastID = s.lastID
  BY MappedParts
<1>8. Mapped(r) = Mapped(s)
  BY <1>3, <1>6, <1>7 DEF IsIndex
<1>9. Frame(s, r, {})
  BY <1>5, RecFields DEF Frame
<1>. QED
  BY <1>6, <1>8, <1>9 DEF r

\* The size is charged to the new ancestors and the new name is indexed.
LEMMA SettleStep ==
  ASSUME NEW r, Fits(r), NEW id, NEW size \in Int, NEW new,
         Mapped(r).nodes[id].size = size, Mapped(r).nodes[id].name = Base(new)
  PROVE  /\ Fits(SettledOf(r, id, size, new))
         /\ Mapped(SettledOf(r, id, size, new)) = Settle(Mapped(r), id)
         /\ KeepsWatches(r, SettledOf(r, id, size, new))
<1>. DEFINE i == Mapped(r)
            c == Charge(r, id, size)
            G == AddToIndex(c.grams, Base(new), id)
            N == UpsertParentSize(i.nodes, r.child, id, size)
            q == SettledOf(r, id, size, new)
<1>1. q = GramsStore(c, G)
  BY DEF SettledOf, GramsStore
<1>2. /\ IsIndex(i) /\ i.tree = r.tree /\ i.child = r.child /\ i.grams = r.grams
      /\ i.lastID = r.lastID
  BY MappedParts
<1>3. /\ Fits(c)
      /\ Mapped(c) = [Mapped(r) EXCEPT !.nodes = UpsertParentSize(@, r.child, id, size)]
      /\ c.tree = r.tree /\ c.child = r.child /\ c.grams = r.grams /\ c.lastID = r.lastID
      /\ Frame(r, c, {})
  BY ChargeStep
<1>4. Mapped(c) = [i EXCEPT !.nodes = N]
  BY <1>3
<1>5. i.nodes[id].size = size /\ i.nodes[id].name = Base(new)
  OBVIOUS
<1>. HIDE DEF c, G, N, i, q
<1>6. Mapped(c) = [nodes |-> N, lookup |-> i.lookup, tree |-> i.tree, child |-> i.child,
                   grams |-> i.grams, lastID |-> i.lastID]
  BY <1>2, <1>4, SetIndexNodes
<1>7. Fits(q) /\ Mapped(q) = [nodes |-> Mapped(c).nodes, lookup |-> Mapped(c).lookup,
                              tree |-> c.tree, child |-> c.child, grams |-> G, lastID |-> c.lastID]
  BY <1>1, <1>3, FieldStep
<1>8. Mapped(c).nodes = N /\ Mapped(c).lookup = i.lookup
  BY <1>6
<1>9. N = UpsertParentSize(i.nodes, i.child, id, i.nodes[id].size)
      /\ G = AddToIndex(i.grams, i.nodes[id].name, id)
  BY <1>2, <1>3, <1>5 DEF N, G
<1>10. Mapped(q) = Settle(i, id)
  BY <1>2, <1>3, <1>7, <1>8, <1>9 DEF Settle
<1>11. KeepsWatches(r, q)
  <2>1. q = Rec(c.nodes, c.pathMap, c.pathHash, c.tree, c.child, G, c.lastID,
                c.data, c.wdMap, c.pathToWd)
    BY <1>1, <1>3, FieldStep
  <2>2. Frame(c, q, {})
    BY <2>1, RecFields DEF Frame
  <2>. QED
    BY <1>3, <2>2, FrameKeeps DEF KeepsWatches
<1>. QED
  BY <1>7, <1>10, <1>11 DEF i, q

\* RenameNode by its stages.
SeenOf(s, on, key, id, new) ==
  IF IsDir(id) THEN PutWd(DeleteWd(on, key), GetUint64(Len(s.data), Len(new)), id) ELSE on
RenameFails(on, id, old) ==
  \/ \E c \in Renamed(on.tree, id) : c \notin DOMAIN on.nodes \/ on.nodes[c].pathLen < Len(old)
  \/ id \in Ancestors(on.child, id)

\* RenameNode is these stages in a row.
LEMMA RenameStages ==
  ASSUME NEW s, NEW old, NEW new, NEW t,
         LET id == IdAt(s, GetPathOff(s, old))
         IN  OffOf(s, old).nodes[id] = s.nodes[id] /\ OffOf(s, old).data = s.data
  PROVE  LET key == GetPathOff(s, old)
             id == IdAt(s, key)
             off == OffOf(s, old)
             above == GetPathOff(off, Dir(new))
             on == OnOf(off, id, new, t, IdAt(off, above))
         IN  /\ key \notin DOMAIN s.pathMap => StoreRename(s, old, new, t) = {s}
             /\ key \in DOMAIN s.pathMap /\ above \notin DOMAIN off.pathMap =>
                  StoreRename(s, old, new, t) = {AppendedStore(off, new)}
             /\ key \in DOMAIN s.pathMap /\ above \in DOMAIN off.pathMap =>
                  StoreRename(s, old, new, t) =
                    IF RenameFails(on, id, old) THEN {}
                    ELSE {SettledOf(MoveAll(SeenOf(s, on, key, id, new), v, old, new), id,
                                    s.nodes[id].size, new)
                            : v \in Visits(on, Renamed(on.tree, id))}
<1>. DEFINE key == GetPathOff(s, old)
            id == IdAt(s, key)
            off == OffOf(s, old)
            above == GetPathOff(off, Dir(new))
            parent == IdAt(off, above)
            node == [s.nodes[id] EXCEPT !.parent = parent, !.mtime = t]
            raw == [Store(off, new, id) EXCEPT
                      !.nodes[id] = Placed(node, Len(s.data), Len(new)),
                      !.tree = Link(@, parent, id), !.child = Put(@, id, parent)]
            on == OnOf(off, id, new, t, parent)
<1>1. on = raw
  <2>. HIDE DEF off, id, parent
  <2>. QED
    BY DEF OnOf, off, id
<1>. DEFINE seen == IF IsDir(id)
                    THEN PutWd(DeleteWd(raw, key), GetUint64(Len(s.data), Len(new)), id) ELSE raw
            below == Renamed(raw.tree, id)
            settled(r) == [Charge(r, id, s.nodes[id].size) EXCEPT
                             !.grams = AddToIndex(@, Base(new), id)]
<1>2. StoreRename(s, old, new, t) =
        IF key \notin DOMAIN s.pathMap THEN {s}
        ELSE IF above \notin DOMAIN off.pathMap THEN {[off EXCEPT !.data = @ \o new]}
        ELSE IF \/ \E c \in below : c \notin DOMAIN raw.nodes \/ raw.nodes[c].pathLen < Len(old)
                \/ id \in Ancestors(raw.child, id)
        THEN {}
        ELSE {settled(MoveAll(seen, v, old, new)) : v \in Visits(raw, below)}
  BY DEF StoreRename, OffOf
<1>3. seen = SeenOf(s, on, key, id, new) /\ below = Renamed(on.tree, id)
  BY <1>1 DEF SeenOf
<1>4. \A r : settled(r) = SettledOf(r, id, s.nodes[id].size, new)
  BY DEF SettledOf
<1>5. (\/ \E c \in below : c \notin DOMAIN raw.nodes \/ raw.nodes[c].pathLen < Len(old)
       \/ id \in Ancestors(raw.child, id)) <=> RenameFails(on, id, old)
  BY <1>1 DEF RenameFails
<1>6. [off EXCEPT !.data = @ \o new] = AppendedStore(off, new)
  BY DEF AppendedStore
<1>. HIDE DEF raw, on, seen, below, settled, off, above, key, id
<1>7. {settled(MoveAll(seen, v, old, new)) : v \in Visits(raw, below)}
        = {SettledOf(MoveAll(SeenOf(s, on, key, id, new), v, old, new), id, s.nodes[id].size, new)
             : v \in Visits(on, Renamed(on.tree, id))}
  BY <1>1, <1>3, <1>4
<1>. QED
  BY <1>2, <1>5, <1>6, <1>7 DEF on, off, above, key, id, parent

\* The watch of a renamed directory changes nothing of the index.
LEMMA SeenStep ==
  ASSUME NEW s, NEW on, Fits(on), NEW key, NEW id \in Id, NEW new
  PROVE  LET r == SeenOf(s, on, key, id, new)
         IN  Fits(r) /\ Mapped(r) = Mapped(on) /\ r.lastID = on.lastID
<1>. DEFINE w == DeleteWd(on, key)
            k == GetUint64(Len(s.data), Len(new))
<1>1. Fits(w) /\ Mapped(w) = Mapped(on)
  BY WatchStep
<1>. HIDE DEF w, k
<1>2. Fits(PutWd(w, k, id)) /\ Mapped(PutWd(w, k, id)) = Mapped(w)
  BY <1>1, WatchStep
<1>. DEFINE r == SeenOf(s, on, key, id, new)
<1>3. Fits(r) /\ Mapped(r) = Mapped(on)
  BY <1>1, <1>2 DEF SeenOf, w, k
<1>4. \A x : Mapped(x).lastID = x.lastID
  BY MappedParts
<1>. QED
  BY <1>3, <1>4

\* Both give up for the same reasons.
LEMMA FailsAlike ==
  ASSUME NEW s, Fits(s), NEW id, NEW old
  PROVE  LET i == Mapped(s)
         IN  RenameFails(s, id, old)
               <=> SliceFails(i, Renamed(i.tree, id), old) \/ id \in Ancestors(i.child, id)
<1>. DEFINE i == Mapped(s)
<1>1. s.data \in Path /\ NodesFit(s.data, s.nodes)
  BY DEF Fits, Sound
<1>2. i.nodes = ViewNodes(s.nodes, s.data) /\ i.tree = s.tree /\ i.child = s.child
  BY MappedParts
<1>. HIDE DEF i
<1>3. DOMAIN i.nodes = DOMAIN s.nodes
  BY <1>2 DEF ViewNodes
<1>4. ASSUME NEW c \in DOMAIN s.nodes
      PROVE  Len(i.nodes[c].path) = s.nodes[c].pathLen
  <2>1. i.nodes[c].path = Spelled(s.data, s.nodes[c])
    BY <1>2 DEF ViewNodes, View
  <2>2. NodeFits(s.data, c, s.nodes[c])
    BY <1>1 DEF NodesFit
  <2>. QED
    BY <1>1, <2>1, <2>2, SpelledFacts
<1>5. (\E c \in Renamed(s.tree, id) : c \notin DOMAIN s.nodes \/ s.nodes[c].pathLen < Len(old))
        <=> SliceFails(i, Renamed(i.tree, id), old)
  BY <1>2, <1>3, <1>4 DEF SliceFails
<1>. QED
  BY <1>2, <1>5 DEF RenameFails, i

\* The node id of the index i, attached at new in the store on ...
Followable(i, on, id, old, new, size, t) ==
  /\ IxInv(i) /\ TiedIndex(i) /\ id \in Proper(i.nodes) /\ id \in Id
  /\ ~Held(i.lookup, i.tree, id)
  /\ old \in Path /\ i.nodes[id].path = old
  /\ new \in Path /\ new # <<>> /\ ~IsPrefix(old, new) /\ ~IsPrefix(new, old)
  /\ Dir(new) \in DOMAIN i.lookup
  /\ Fits(on) /\ Mapped(on) = Attach(i, id, new, t) /\ ~RenameFails(on, id, old)
  /\ size \in Int /\ size = i.nodes[id].size

\* ... and the subtree that follows it, in some order.
Followed(s, on, key, id, old, new, size) ==
  LET moving == Renamed(on.tree, id)
      seen == SeenOf(s, on, key, id, new)
  IN  /\ Visits(on, moving) # {}
      /\ \A v \in Visits(on, moving) :
           LET r == SettledOf(MoveAll(seen, v, old, new), id, size, new)
           IN  /\ Fits(r) /\ KeepsWatches(seen, r)
               /\ \E m \in MovePaths(Mapped(on), Renamed(Mapped(on).tree, id), old, new) :
                    Mapped(r) = Settle(m, id)

\* From the placed node to the end.
LEMMA FollowStep ==
  ASSUME NEW s, NEW i, NEW on, NEW id, NEW old, NEW new, NEW size, NEW t, NEW key,
         Followable(i, on, id, old, new, size, t)
  PROVE  Followed(s, on, key, id, old, new, size)
<1>0. /\ IxInv(i) /\ TiedIndex(i) /\ id \in Proper(i.nodes) /\ id \in Id
      /\ ~Held(i.lookup, i.tree, id)
      /\ old \in Path /\ i.nodes[id].path = old
      /\ new \in Path /\ new # <<>> /\ ~IsPrefix(old, new) /\ ~IsPrefix(new, old)
      /\ Dir(new) \in DOMAIN i.lookup
      /\ Fits(on) /\ Mapped(on) = Attach(i, id, new, t) /\ ~RenameFails(on, id, old)
      /\ size \in Int /\ size = i.nodes[id].size
  BY DEF Followable
<1>. USE <1>0
<1>. DEFINE o == Mapped(on)
            moving == Renamed(on.tree, id)
            seen == SeenOf(s, on, key, id, new)
<1>1. /\ IsIndex(o) /\ o.tree = on.tree /\ o.child = on.child /\ o.nodes = ViewNodes(on.nodes, on.data)
  BY MappedParts
<1>2. DOMAIN o.nodes = DOMAIN on.nodes
  BY <1>1 DEF ViewNodes
<1>. HIDE DEF o
<1>3. o = Attach(i, id, new, t) /\ o = Mapped(on)
  BY DEF o
<1>4. moving = Renamed(o.tree, id) /\ moving \subseteq DOMAIN o.nodes
  BY <1>1, <1>2 DEF RenameFails
<1>. HIDE DEF moving
<1>5. /\ AllBelow(o, moving, old) /\ id \notin moving /\ IsFiniteSet(moving)
      /\ \E v \in Seqs!SetToSeqs(moving) :
           \A x, y \in DOMAIN v : o.child[v[x]] = v[y] => y < x
  BY <1>3, <1>4, VisitOrder
<1>6. Visits(on, moving) # {}
  BY <1>1, <1>5 DEF Visits
<1>7. Fits(seen) /\ Mapped(seen) = o /\ seen.lastID = o.lastID
  <2>1. o.lastID = on.lastID
    BY <1>3, MappedParts
  <2>. QED
    BY <1>3, <2>1, SeenStep
<1>10. \A c \in moving : c[1] =< seen.lastID
  <2>1. DOMAIN o.nodes = DOMAIN i.nodes /\ o.lastID = i.lastID
    BY <1>3 DEF Attach
  <2>2. \A c \in DOMAIN i.nodes : c[1] =< i.lastID
    BY DEF IxInv, Counted
  <2>. QED
    BY <1>4, <1>7, <2>1, <2>2
<1>. HIDE DEF seen
<1>8. o.nodes[id].size = size /\ o.nodes[id].name = Base(new) /\ id \in DOMAIN o.nodes
  <2>1. id \in DOMAIN i.nodes
    BY DEF Proper
  <2>2. i.nodes[id] \in Node
    BY <2>1 DEF IxInv, IndexType
  <2>. DEFINE v == [i.nodes[id] EXCEPT !.parent = i.lookup[Dir(new)], !.mtime = t,
                                       !.path = new, !.name = Base(new)]
  <2>3. o.nodes = [i.nodes EXCEPT ![id] = v]
    BY <1>3 DEF Attach
  <2>4. v.size = i.nodes[id].size /\ v.name = Base(new)
    BY <2>2 DEF Node
  <2>. HIDE DEF v
  <2>. QED
    BY <2>1, <2>3, <2>4
<1>9. ASSUME NEW v \in Visits(on, moving)
      PROVE  LET r == SettledOf(MoveAll(seen, v, old, new), id, size, new)
             IN  /\ Fits(r) /\ KeepsWatches(seen, r)
                 /\ \E m \in MovePaths(o, moving, old, new) : Mapped(r) = Settle(m, id)
  <2>. DEFINE q == MoveAll(seen, v, old, new)
              j == Mapped(q)
  <2>1. Lists(v, moving)
    <3>1. v \in Seqs!SetToSeqs(moving)
      BY DEF Visits
    <3>. QED
      BY <1>5, <3>1, OrderNamesAll
  <2>2. Fits(q) /\ MovedBy(o, moving, old, new, j) /\ KeepsWatches(seen, q)
    <3>1. AllBelow(Mapped(seen), moving, old)
      BY <1>5, <1>7
    <3>. QED
      BY <1>7, <1>10, <2>1, <3>1, MoveAllStep
  <2>3. IsIndex(j)
    BY MappedParts
  <2>. HIDE DEF q, j
  <2>4. j \in MovePaths(o, moving, old, new)
    BY <1>1, <2>2, <2>3, MovedByIs
  <2>5. j.nodes[id] = o.nodes[id]
    BY <1>5, <1>8, <2>2 DEF MovedBy, MovedNodes
  <2>6. Mapped(q).nodes[id].size = size /\ Mapped(q).nodes[id].name = Base(new)
    BY <1>8, <2>5 DEF j
  <2>7. /\ Fits(SettledOf(q, id, size, new)) /\ Mapped(SettledOf(q, id, size, new)) = Settle(j, id)
        /\ KeepsWatches(q, SettledOf(q, id, size, new))
    BY <2>2, <2>6, SettleStep DEF j
  <2>8. KeepsWatches(seen, SettledOf(q, id, size, new))
    BY <2>2, <2>7 DEF KeepsWatches
  <2>. QED
    BY <2>4, <2>7, <2>8 DEF q
<1>. QED
  BY <1>3, <1>4, <1>6, <1>9 DEF moving, seen, Followed

\* Once the old place is given up, the store finds the new parent exactly if
\* the index does.
LEMMA AboveFound ==
  ASSUME NEW s, NEW off, Fits(off), NEW old, off.pathHash = Without(s.pathHash, {old}),
         NEW new, Reachable(s, new)
  PROVE  LET above == GetPathOff(off, Dir(new))
         IN  /\ above \in DOMAIN off.pathMap <=> Dir(new) \in DOMAIN Mapped(off).lookup
             /\ above \in DOMAIN off.pathMap => IdAt(off, above) = Mapped(off).lookup[Dir(new)]
<1>1. CASE Dir(new) # <<>>
  BY <1>1, KnownFacts
<1>2. CASE Dir(new) = <<>>
  <2>1. new \in Path /\ new # <<>> /\ (Len(new) > 1 \/ <<>> \notin DOMAIN s.pathHash)
    BY DEF Reachable
  <2>2. ~ (Len(new) > 1)
    <3>1. Len(new) \in Nat /\ Len(<<>>) = 0
      BY <2>1, LenProperties, EmptySeq DEF Path
    <3>. SUFFICES ASSUME Len(new) > 1 PROVE FALSE
      OBVIOUS
    <3>2. Len(Dir(new)) = Len(new) - 1
      BY <2>1, DirFacts
    <3>. QED
      <4>1. Len(Dir(new)) = 0
        BY <3>1, <1>2
      <4>. DEFINE n == Len(new)
                  d == Len(Dir(new))
      <4>2. n \in Nat /\ n > 1 /\ d = n - 1 /\ d = 0
        BY <3>1, <3>2, <4>1
      <4>. HIDE DEF n, d
      <4>. QED
        BY <4>2
  <2>3. <<>> \notin DOMAIN off.pathHash
    BY <2>1, <2>2 DEF Without
  <2>4. GetPathOff(off, Dir(new)) = NoKey
    BY <1>2, <2>3 DEF GetPathOff
  <2>5. NoKey \notin DOMAIN off.pathMap
    BY DEF Fits, Sound
  <2>6. <<>> \notin DOMAIN Mapped(off).lookup
    <3>1. Mapped(off).lookup = ViewLookup(off.pathMap, off.pathHash)
      BY MappedParts
    <3>. QED
      BY <3>1 DEF ViewLookup
  <2>. QED
    BY <1>2, <2>4, <2>5, <2>6
<1>. QED
  BY <1>1, <1>2

\* RenameNode on offsets has the outcomes RenameNode has on the index, and
\* panics only where it does.
LEMMA RenameStep ==
  ASSUME NEW s, StoreInv(s), NEW old \in Path, old # <<>>, NEW new, Reachable(s, new),
         ~IsPrefix(old, new), ~IsPrefix(new, old), NEW t \in Int
  PROVE  /\ StoreRename(s, old, new, t) = {} => RenameNode(Mapped(s), old, new, t) = {}
         /\ \A r \in StoreRename(s, old, new, t) :
              /\ StoreInv(r) /\ Mapped(r) \in RenameNode(Mapped(s), old, new, t)
              /\ KeepsWatches(s, r)
<1>. DEFINE i == Mapped(s)
            key == GetPathOff(s, old)
            id == IdAt(s, key)
            off == OffOf(s, old)
            above == GetPathOff(off, Dir(new))
            on == OnOf(off, id, new, t, IdAt(off, above))
            Res == StoreRename(s, old, new, t)
            Out == RenameNode(i, old, new, t)
<1>1. Fits(s) /\ Healthy(i) /\ IxInv(i) /\ TiedIndex(i)
  BY DEF StoreInv, Healthy
<1>2. new \in Path /\ new # <<>>
  BY DEF Reachable
<1>3. SUFFICES /\ Res = {} => Out = {}
               /\ \A r \in Res : Fits(r) /\ Mapped(r) \in Out /\ KeepsWatches(s, r)
  <2>. HIDE DEF Res, Out, i
  <2>1. \A j \in Out : Healthy(j)
    BY <1>1, <1>2, RenameHealthy DEF Out
  <2>2. \A r \in Res : StoreInv(r) /\ Mapped(r) \in Out /\ KeepsWatches(s, r)
    BY <1>3, <2>1 DEF StoreInv
  <2>. QED
    BY <1>3, <2>2 DEF Res, Out, i
<1>4. key \in DOMAIN s.pathMap <=> old \in DOMAIN i.lookup
  BY <1>1, KnownFacts
<1>5. ASSUME old \notin DOMAIN i.lookup
      PROVE  /\ Res = {} => Out = {}
             /\ \A r \in Res : Fits(r) /\ Mapped(r) \in Out /\ KeepsWatches(s, r)
  <2>1. Res = {s}
    BY <1>4, <1>5 DEF StoreRename
  <2>2. Out = {i}
    BY <1>5 DEF RenameNode
  <2>. QED
    BY <1>1, <2>1, <2>2 DEF KeepsWatches
<1>6. ASSUME old \in DOMAIN i.lookup
      PROVE  /\ Res = {} => Out = {}
             /\ \A r \in Res : Fits(r) /\ Mapped(r) \in Out /\ KeepsWatches(s, r)
  <2>. DEFINE I == Mapped(off)
              o == Attach(I, id, new, t)
              size == s.nodes[id].size
  <2>1. /\ Fits(off) /\ I = Detach(i, i.lookup[old], old)
        /\ id \in DOMAIN off.nodes /\ off.nodes[id] = s.nodes[id]
        /\ off.data = s.data /\ off.pathHash = Without(s.pathHash, {old})
        /\ off.lastID = s.lastID /\ Frame(s, off, {})
    BY <1>6, DetachStep
  <2>2. /\ id = i.lookup[old] /\ id # NoId /\ id \in Id /\ s.nodes[id] \in Stored
        /\ ~s.nodes[id].invalid
    BY <1>1, <1>6, KnownFacts
  <2>3. /\ IxInv(I) /\ TiedIndex(I) /\ id \in Proper(I.nodes) /\ I.nodes[id].path = old
        /\ ~Held(I.lookup, I.tree, id) /\ \A p \in DOMAIN I.lookup : I.lookup[p] # id
    <3>. HIDE DEF I, id, i
    <3>1. i.lookup[old] = id
      BY <2>2
    <3>4. I = Detach(i, i.lookup[old], old)
      BY <2>1
    <3>2. IxInv(I) /\ \A p \in DOMAIN I.lookup : I.lookup[p] # id
      <4>1. LET f == Detach(i, i.lookup[old], old)
            IN  IxInv(f) /\ \A p \in DOMAIN f.lookup : f.lookup[p] # i.lookup[old]
        <5>. HIDE <3>1, <3>4
        <5>. QED
          BY <1>1, <1>6, DetachInv
      <4>. QED
        BY <3>1, <3>4, <4>1
    <3>3. /\ TiedIndex(I) /\ id \in Proper(I.nodes) /\ I.nodes[id].path = old
          /\ ~Held(I.lookup, I.tree, id)
      BY <1>1, <1>6, <3>4, <3>1, DetachTied
    <3>. QED
      BY <3>2, <3>3
  <2>4. /\ above \in DOMAIN off.pathMap <=> Dir(new) \in DOMAIN I.lookup
        /\ above \in DOMAIN off.pathMap => IdAt(off, above) = I.lookup[Dir(new)]
    <3>. HIDE DEF off
    <3>. QED
      BY <2>1, AboveFound
  <2>5. /\ key \in DOMAIN s.pathMap
        /\ above \notin DOMAIN off.pathMap => Res = {AppendedStore(off, new)}
        /\ above \in DOMAIN off.pathMap =>
             Res = IF RenameFails(on, id, old) THEN {}
                   ELSE {SettledOf(MoveAll(SeenOf(s, on, key, id, new), v, old, new), id, size, new)
                           : v \in Visits(on, Renamed(on.tree, id))}
    BY <1>4, <1>6, <2>1, RenameStages
  <2>6. Out = IF Dir(new) \notin DOMAIN I.lookup THEN {I}
              ELSE IF SliceFails(o, Renamed(o.tree, id), old) \/ id \in Ancestors(o.child, id)
              THEN {}
              ELSE {Settle(r, id) : r \in MovePaths(o, Renamed(o.tree, id), old, new)}
    <3>. HIDE DEF I, id, i
    <3>1. id = i.lookup[old] /\ I = Detach(i, id, old)
      BY <2>1, <2>2
    <3>. QED
      BY <1>6, <3>1 DEF RenameNode
  <2>. HIDE DEF Res, Out
  <2>7. ASSUME Dir(new) \notin DOMAIN I.lookup
        PROVE  /\ Res = {} => Out = {}
               /\ \A r \in Res : Fits(r) /\ Mapped(r) \in Out /\ KeepsWatches(s, r)
    <3>1. Res = {AppendedStore(off, new)} /\ Out = {I}
      BY <2>4, <2>5, <2>6, <2>7
    <3>2. /\ Fits(AppendedStore(off, new)) /\ Mapped(AppendedStore(off, new)) = I
          /\ Frame(off, AppendedStore(off, new), {})
      <4>. HIDE DEF off
      <4>. QED
        BY <1>2, <2>1, AppendStep
    <3>3. KeepsWatches(s, AppendedStore(off, new))
      <4>. HIDE DEF off
      <4>. QED
        BY <2>1, <3>2, FrameKeeps DEF KeepsWatches
    <3>. QED
      BY <3>1, <3>2, <3>3
  <2>8. ASSUME Dir(new) \in DOMAIN I.lookup
        PROVE  /\ Res = {} => Out = {}
               /\ \A r \in Res : Fits(r) /\ Mapped(r) \in Out /\ KeepsWatches(s, r)
    <3>. DEFINE parent == IdAt(off, above)
                moving == Renamed(on.tree, id)
                seen == SeenOf(s, on, key, id, new)
                after(v) == SettledOf(MoveAll(seen, v, old, new), id, size, new)
    <3>1. Res = IF RenameFails(on, id, old) THEN {} ELSE {after(v) : v \in Visits(on, moving)}
      BY <2>4, <2>5, <2>8
    <3>2. Out = IF SliceFails(o, Renamed(o.tree, id), old) \/ id \in Ancestors(o.child, id)
                THEN {}
                ELSE {Settle(r, id) : r \in MovePaths(o, Renamed(o.tree, id), old, new)}
      BY <2>6, <2>8
    <3>3. parent = I.lookup[Dir(new)] /\ parent \in Id
      <4>1. parent = I.lookup[Dir(new)]
        BY <2>4, <2>8
      <4>2. I.lookup[Dir(new)] \in Id
        BY <2>3, <2>8 DEF IxInv, IndexType
      <4>. QED
        BY <4>1, <4>2
    <3>4. Fits(on) /\ Mapped(on) = o /\ Rekeys(off, on, id, new)
      <4>. HIDE DEF off, id, parent, above
      <4>1. on = OnOf(off, id, new, t, parent)
        BY DEF parent
      <4>2. ~off.nodes[id].invalid
        BY <2>1, <2>2
      <4>. HIDE DEF on
      <4>. QED
        BY <1>2, <2>1, <2>2, <2>3, <3>3, <4>1, <4>2, AttachStep
    <3>8. KeepsWatches(s, seen)
      <4>1. id[1] =< s.lastID
        BY <2>2, StoreFacts, KnownFacts, <1>1, <1>6
      <4>. HIDE DEF off, id, parent, above, on, I, o
      <4>2. NodesFit(off.data, off.nodes) /\ off.data \in Path
        BY <2>1 DEF Fits, Sound
      <4>3. id[1] =< off.lastID
        BY <2>1, <4>1
      <4>4. seen = IF IsDir(id)
                   THEN PutWd(DeleteWd(on, key), GetUint64(Len(off.data), Len(new)), id) ELSE on
        BY <2>1 DEF SeenOf
      <4>. HIDE DEF seen, key
      <4>5. KeepsWatches(off, seen)
        BY <1>2, <2>2, <3>4, <4>2, <4>3, <4>4, RekeyWatched
      <4>. QED
        BY <2>1, <4>5, FrameKeeps DEF KeepsWatches
    <3>. HIDE DEF on, I, id, off, parent, above, key
    <3>5. RenameFails(on, id, old)
            <=> SliceFails(o, Renamed(o.tree, id), old) \/ id \in Ancestors(o.child, id)
      <4>. HIDE DEF o
      <4>. QED
        BY <3>4, FailsAlike
    <3>6. CASE RenameFails(on, id, old)
      BY <3>1, <3>2, <3>5, <3>6
    <3>7. ASSUME ~RenameFails(on, id, old)
          PROVE  /\ Res = {} => Out = {}
                 /\ \A r \in Res : Fits(r) /\ Mapped(r) \in Out /\ KeepsWatches(s, r)
      <4>1. size \in Int /\ size = I.nodes[id].size
        <5>1. size \in Int
          BY <2>2 DEF Stored
        <5>2. I.nodes[id].size = off.nodes[id].size
          BY <2>1, NameOfView DEF I
        <5>. QED
          BY <2>1, <5>1, <5>2
      <4>. HIDE DEF size
      <4>2. /\ Visits(on, moving) # {}
            /\ \A v \in Visits(on, moving) :
                 /\ Fits(after(v)) /\ KeepsWatches(seen, after(v))
                 /\ \E m \in MovePaths(Mapped(on), Renamed(Mapped(on).tree, id), old, new) :
                      Mapped(after(v)) = Settle(m, id)
        <5>. HIDE DEF i, o
        <5>1. Mapped(on) = Attach(I, id, new, t)
          BY <3>4 DEF o
        <5>2. Followable(I, on, id, old, new, size, t)
          BY <1>2, <2>2, <2>3, <2>8, <3>4, <3>7, <4>1, <5>1 DEF Followable
        <5>3. Followed(s, on, key, id, old, new, size)
          BY <5>2, FollowStep
        <5>. QED
          BY <5>3 DEF Followed, moving, seen, after
      <4>3. \A v \in Visits(on, moving) :
              /\ Fits(after(v)) /\ KeepsWatches(s, after(v))
              /\ \E m \in MovePaths(o, Renamed(o.tree, id), old, new) :
                   Mapped(after(v)) = Settle(m, id)
        <5>. HIDE DEF after, seen
        <5>1. \A v \in Visits(on, moving) : KeepsWatches(s, after(v))
          BY <3>8, <4>2 DEF KeepsWatches
        <5>. QED
          BY <3>4, <4>2, <5>1
      <4>4. Out = {Settle(r, id) : r \in MovePaths(o, Renamed(o.tree, id), old, new)}
        BY <3>2, <3>5, <3>7
      <4>5. Res = {after(v) : v \in Visits(on, moving)}
        BY <3>1, <3>7
      <4>. HIDE DEF after, o, moving
      <4>6. Res # {}
        BY <4>2, <4>5
      <4>7. ASSUME NEW r \in Res PROVE Fits(r) /\ Mapped(r) \in Out /\ KeepsWatches(s, r)
        <5>1. PICK v \in Visits(on, moving) : r = after(v)
          BY <4>5
        <5>2. /\ Fits(r) /\ KeepsWatches(s, r)
              /\ \E m \in MovePaths(o, Renamed(o.tree, id), old, new) : Mapped(r) = Settle(m, id)
          BY <4>3, <5>1
        <5>. QED
          BY <4>4, <5>2
      <4>. QED
        BY <4>6, <4>7
    <3>. QED
      BY <3>6, <3>7
  <2>. QED
    BY <2>7, <2>8
<1>. QED
  BY <1>5, <1>6

\* Rewriting the block.  The recursion of FlattenSeq has a solution,
LEMMA LaidExists ==
  ASSUME NEW n \in Nat, NEW ss
  PROVE  \E f : f = [i \in 1..n |-> IF i = 1 THEN ss[i] ELSE f[i-1] \o ss[i]]
<1>. DEFINE Is(f, m) == f = [i \in 1..m |-> IF i = 1 THEN ss[i] ELSE f[i-1] \o ss[i]]
            T == {m \in Nat : ~ \E f : Is(f, m)}
<1>1. SUFFICES T = {}
  OBVIOUS
<1>2. SUFFICES ASSUME T # {} PROVE FALSE
  OBVIOUS
<1>3. PICK m \in T : \A k \in T : m =< k
  BY <1>2, LeastNat, T \subseteq Nat
<1>4. m # 0
  <2>1. Is(<<>>, 0)
    OBVIOUS
  <2>. QED
    BY <2>1
<1>5. PICK f : Is(f, m-1)
  <2>1. m-1 \in Nat /\ ~ (m =< m-1)
    BY <1>4
  <2>2. m-1 \notin T
    BY <1>3, <2>1
  <2>. HIDE DEF Is
  <2>. QED
    BY <2>1, <2>2
<1>. DEFINE g == [i \in 1..m |-> IF i = m THEN IF i = 1 THEN ss[i] ELSE f[i-1] \o ss[i]
                                ELSE f[i]]
<1>6. Is(g, m)
  <2>. DEFINE h == [i \in 1..m |-> IF i = 1 THEN ss[i] ELSE g[i-1] \o ss[i]]
  <2>1. ASSUME NEW i \in 1..m PROVE g[i] = h[i]
    <3>1. CASE i = m
      BY <3>1, <1>4
    <3>2. CASE i # m
      <4>1. i \in 1..(m-1) /\ g[i] = f[i]
        BY <3>2, <1>4
      <4>2. f[i] = IF i = 1 THEN ss[i] ELSE f[i-1] \o ss[i]
        BY <1>5, <4>1
      <4>3. i # 1 => g[i-1] = f[i-1]
        BY <4>1
      <4>. QED
        BY <4>1, <4>2, <4>3
    <3>. QED
      BY <3>1, <3>2
  <2>. QED
    BY <2>1
<1>. QED
  BY <1>3, <1>6

\* a block is a slice of itself,
LEMMA WholeSlice ==
  ASSUME NEW b \in Path
  PROVE  Get(b, 0, Len(b)) = b
<1>1. <<>> \in Path /\ Len(<<>>) = 0
  BY EmptySeq DEF Path
<1>2. <<>> \o b = b
  BY DEF Path
<1>3. Get(<<>> \o b, Len(<<>>), Len(b)) = b
  BY <1>1, SliceOfNew
<1>. QED
  BY <1>1, <1>2, <1>3

\* What is laid one after the other is found at its offset.
Lays(D, B, off, n) ==
  \A i \in 1..n : /\ off[i] \in Nat /\ off[i] + Len(B[i]) =< Len(D)
                  /\ Get(D, off[i], Len(B[i])) = B[i]

\* and the bytes of node after node lie where the offsets say.
LEMMA FlattenLays ==
  ASSUME NEW n \in Nat, NEW B \in [1..n -> Path], NEW off, off[1] = 0,
         \A i \in 1..n : off[i + 1] = off[i] + Len(B[i])
  PROVE  Seqs!FlattenSeq(B) \in Path /\ Lays(Seqs!FlattenSeq(B), B, off, n)
<1>. DEFINE flatten[i \in 1..n] == IF i = 1 THEN B[i] ELSE flatten[i-1] \o B[i]
<1>1. flatten = [i \in 1..n |-> IF i = 1 THEN B[i] ELSE flatten[i-1] \o B[i]]
  BY LaidExists
<1>2. Len(B) = n
  OBVIOUS
<1>3. CASE n = 0
  <2>1. B = <<>>
    BY <1>3
  <2>2. Seqs!FlattenSeq(B) = B
    BY <1>2, <1>3 DEF Seqs!FlattenSeq
  <2>3. <<>> \in Path
    BY DEF Path
  <2>4. 1..n = {}
    BY <1>3
  <2>5. Lays(B, B, off, n)
    BY <2>4 DEF Lays
  <2>. QED
    BY <2>1, <2>2, <2>3, <2>5
<1>4. CASE n # 0
  <2>1. Seqs!FlattenSeq(B) = flatten[n]
    BY <1>2, <1>4 DEF Seqs!FlattenSeq
  <2>. HIDE DEF flatten
  <2>. DEFINE Fine(i) == /\ flatten[i] \in Path /\ Lays(flatten[i], B, off, i)
                         /\ Len(flatten[i]) = off[i + 1]
              T == {i \in 1..n : ~ Fine(i)}
  <2>2. SUFFICES T = {}
    <3>1. n \in 1..n
      BY <1>4
    <3>2. Fine(n)
      BY <2>2, <3>1
    <3>. QED
      BY <2>1, <3>2
  <2>3. SUFFICES ASSUME T # {} PROVE FALSE
    OBVIOUS
  <2>4. PICK m \in T : \A k \in T : m =< k
    <3>1. T \subseteq Nat
      OBVIOUS
    <3>. HIDE DEF T
    <3>. QED
      BY <2>3, <3>1, LeastNat
  <2>5. m \in 1..n /\ B[m] \in Path /\ Len(B[m]) \in Nat /\ m \in Nat
    <3>1. m \in 1..n /\ B[m] \in Path
      OBVIOUS
    <3>. QED
      BY <3>1, LenProperties DEF Path
  <2>6. CASE m = 1
    <3>1. flatten[1] = B[1]
      BY <1>1, <2>5, <2>6
    <3>2. off[2] = Len(B[1])
      BY <2>5, <2>6
    <3>3. Get(B[1], 0, Len(B[1])) = B[1]
      BY <2>5, <2>6, WholeSlice
    <3>4. Lays(B[1], B, off, 1)
      BY <2>5, <2>6, <3>3 DEF Lays
    <3>5. Fine(1)
      BY <2>5, <2>6, <3>1, <3>2, <3>4
    <3>. QED
      BY <2>6, <3>5
  <2>7. CASE m # 1
    <3>. DEFINE l == m - 1
                F == flatten[l]
    <3>1. l \in 1..n /\ l < m /\ l + 1 = m
      BY <2>5, <2>7
    <3>2. Fine(l)
      <4>1. l \notin T
        BY <2>4, <2>5, <3>1
      <4>. HIDE DEF Fine
      <4>. QED
        BY <3>1, <4>1
    <3>3. flatten[m] = F \o B[m]
      BY <1>1, <2>5, <2>7
    <3>4. F \in Path /\ Lays(F, B, off, l) /\ Len(F) = off[m]
      BY <3>1, <3>2
    <3>. HIDE DEF F, Fine
    <3>5. /\ Get(F \o B[m], Len(F), Len(B[m])) = B[m] /\ F \o B[m] \in Path
          /\ Len(F \o B[m]) = Len(F) + Len(B[m])
      BY <2>5, <3>4, SliceOfNew
    <3>6. Len(F) \in Nat
      BY <3>4, LenProperties DEF Path
    <3>7. off[m + 1] = Len(F) + Len(B[m])
      BY <2>5, <3>4
    <3>8. ASSUME NEW i \in 1..m
          PROVE  /\ off[i] \in Nat /\ off[i] + Len(B[i]) =< Len(F \o B[m])
                 /\ Get(F \o B[m], off[i], Len(B[i])) = B[i]
      <4>1. CASE i = m
        BY <4>1, <2>5, <3>4, <3>5, <3>6
      <4>2. CASE i # m
        <5>1. i \in 1..l /\ i \in 1..n /\ B[i] \in Path
          BY <4>2, <2>5, <3>1
        <5>2. off[i] \in Nat /\ off[i] + Len(B[i]) =< Len(F) /\ Get(F, off[i], Len(B[i])) = B[i]
          BY <5>1, <3>4 DEF Lays
        <5>3. Len(B[i]) \in Nat
          BY <5>1, LenProperties DEF Path
        <5>4. Get(F \o B[m], off[i], Len(B[i])) = Get(F, off[i], Len(B[i]))
          BY <5>2, <5>3, <2>5, <3>4, SliceOfAppended
        <5>. QED
          BY <5>2, <5>3, <5>4, <3>5, <3>6, <2>5
      <4>. QED
        BY <4>1, <4>2
    <3>9. Lays(flatten[m], B, off, m)
      BY <3>3, <3>8 DEF Lays
    <3>10. Fine(m)
      BY <3>3, <3>5, <3>7, <3>9 DEF Fine
    <3>. QED
      BY <3>10 DEF Fine
  <2>. QED
    BY <2>6, <2>7
<1>. QED
  BY <1>3, <1>4

\* The offsets at which Compact puts the strings.
OffsIn(f, n, s, order) ==
  f = [i \in 1..n + 1 |-> IF i = 1 THEN 0 ELSE f[i - 1] + Width(s.nodes[order[i - 1]])]

\* The offsets of nodes written in some order.
LEMMA OffsExists ==
  ASSUME NEW n \in Nat, NEW s, NEW order
  PROVE  \E f : OffsIn(f, n, s, order)
<1>. DEFINE Next1(a, i) == a + Width(s.nodes[order[i - 1]])
            Is(f, m) == f = [i \in 1..m + 1 |-> IF i = 1 THEN 0 ELSE Next1(f[i - 1], i)]
            T == {m \in Nat : ~ \E f : Is(f, m)}
<1>. HIDE DEF Next1
<1>1. SUFFICES T = {}
  BY DEF Next1, OffsIn
<1>2. SUFFICES ASSUME T # {} PROVE FALSE
  OBVIOUS
<1>3. PICK m \in T : \A k \in T : m =< k
  BY <1>2, LeastNat, T \subseteq Nat
<1>4. m # 0
  <2>. DEFINE f == [i \in 1..0 + 1 |-> 0]
  <2>1. Is(f, 0)
    OBVIOUS
  <2>. HIDE DEF f, Is
  <2>2. 0 \notin T
    BY <2>1
  <2>. QED
    BY <2>2
<1>5. PICK f : Is(f, m-1)
  <2>1. m-1 \in Nat /\ ~ (m =< m-1)
    BY <1>4
  <2>2. m-1 \notin T
    BY <1>3, <2>1
  <2>. HIDE DEF Is
  <2>. QED
    BY <2>1, <2>2
<1>. DEFINE g == [i \in 1..m + 1 |-> IF i = m + 1 THEN Next1(f[i - 1], i) ELSE f[i]]
<1>6. Is(g, m)
  <2>. DEFINE h == [i \in 1..m + 1 |-> IF i = 1 THEN 0 ELSE Next1(g[i - 1], i)]
  <2>1. ASSUME NEW i \in 1..m + 1 PROVE g[i] = h[i]
    <3>1. CASE i = m + 1
      <4>1. i - 1 \in 1..m + 1 /\ i - 1 # m + 1 /\ i # 1
        BY <3>1, <1>4
      <4>2. g[i - 1] = f[i - 1]
        BY <4>1
      <4>. QED
        BY <3>1, <4>1, <4>2
    <3>2. CASE i # m + 1
      <4>1. i \in 1..((m-1) + 1) /\ g[i] = f[i]
        BY <3>2, <1>4
      <4>2. f[i] = IF i = 1 THEN 0 ELSE Next1(f[i - 1], i)
        BY <1>5, <4>1
      <4>3. i # 1 => g[i-1] = f[i-1]
        BY <4>1
      <4>. QED
        BY <4>1, <4>2, <4>3
    <3>. QED
      BY <3>1, <3>2
  <2>. QED
    BY <2>1
<1>. QED
  BY <1>3, <1>6

\* A sequence that visits every element of S, and nothing else.
Covers(order, S) ==
  /\ Len(order) \in Nat /\ order \in [1..Len(order) -> S]
  /\ \A x \in S : \E k \in 1..Len(order) : order[k] = x

\* An order names every node once,
LEMMA OneOrder ==
  ASSUME NEW S, IsFiniteSet(S)
  PROVE  Covers(Seqs!SetToSeq(S), S)
<1>. DEFINE n == Cardinality(S)
            inj(f) == \A x, y \in 1..n : f[x] = f[y] => x = y
<1>1. n \in Nat
  BY FS_CardinalityType
<1>2. Seqs!Cardinality(S) = n
  BY DEF Seqs!Cardinality, Cardinality
<1>3. Seqs!SetToSeq(S) = CHOOSE f \in [1..n -> S] : inj(f)
  BY <1>2 DEF Seqs!SetToSeq, Seqs!IsInjective
<1>4. \E f \in [1..n -> S] : inj(f)
  <2>. DEFINE r == [x \in S |-> 0]
  <2>1. r \in [S -> Nat]
    OBVIOUS
  <2>2. PICK v \in Seqs!SetToSeqs(S) : TRUE
    <3>. HIDE DEF r
    <3>. QED
      BY <2>1, RankedOrder
  <2>3. v \in [1..n -> S] /\ \A x, y \in 1..n : x # y => v[x] # v[y]
    BY <2>2, OrdersOf
  <2>. QED
    BY <2>3
<1>. DEFINE g == Seqs!SetToSeq(S)
<1>5. g \in [1..n -> S] /\ inj(g)
  BY <1>3, <1>4
<1>. HIDE DEF g
<1>6. Len(g) = n
  BY <1>1, <1>5
<1>7. Lists(g, S)
  <2>1. g \in Seqs!SetToSeqs(S)
    BY <1>5, OrdersOf
  <2>. QED
    BY <2>1, OrderNamesAll
<1>. QED
  BY <1>1, <1>5, <1>6, <1>7 DEF Lists, Covers, g

\* also when it begins elsewhere and goes round.
LEMMA RoundFacts ==
  ASSUME NEW S, IsFiniteSet(S), NEW order \in Rounds(S)
  PROVE  Covers(order, S)
<1>. DEFINE some == Seqs!SetToSeq(S)
            m == Len(some)
<1>1. Covers(some, S)
  BY OneOrder
<1>. HIDE DEF some
<1>2. m \in Nat /\ some \in [1..m -> S]
  BY <1>1 DEF Covers
<1>3. PICK n \in 0..m - 1 : order = SubSeq(some, n + 1, m) \o SubSeq(some, 1, n)
  BY DEF Rounds, some
<1>. DEFINE a == SubSeq(some, n + 1, m)
            b == SubSeq(some, 1, n)
<1>4. n \in Nat /\ n < m
  BY <1>2
<1>5. /\ a \in Seq(S) /\ Len(a) = m - n /\ \A k \in 1..m - n : a[k] = some[n + k]
      /\ b \in Seq(S) /\ Len(b) = n /\ \A k \in 1..n : b[k] = some[k]
  BY <1>2, <1>4
<1>. HIDE DEF a, b, m
<1>6. /\ Len(a \o b) = m /\ a \o b \in [1..m -> S]
      /\ \A k \in 1..m : (a \o b)[k] = IF k =< m - n THEN a[k] ELSE b[k - (m - n)]
  <2>1. Len(a) \in Nat /\ Len(b) \in Nat /\ Len(a) + Len(b) = m
    BY <1>2, <1>4, <1>5
  <2>2. a \o b \in Seq(S) /\ Len(a \o b) = m
    BY <2>1, <1>5, ConcatProperties
  <2>3. \A k \in 1..m : (a \o b)[k] = IF k =< Len(a) THEN a[k] ELSE b[k - Len(a)]
    BY <2>1, <1>5, ConcatProperties
  <2>4. a \o b \in [1..m -> S]
    BY <2>2, LenProperties
  <2>. QED
    BY <2>2, <2>3, <2>4, <1>5
<1>7. ASSUME NEW x \in S PROVE \E k \in 1..m : (a \o b)[k] = x
  <2>1. PICK j \in 1..m : some[j] = x
    BY <1>1 DEF Covers, m
  <2>2. CASE j > n
    <3>1. j - n \in 1..m - n /\ j - n \in 1..m
      BY <2>2, <1>2, <1>4
    <3>2. (a \o b)[j - n] = some[j]
      BY <3>1, <1>5, <1>6, <1>2, <1>4
    <3>. QED
      BY <2>1, <3>1, <3>2
  <2>3. CASE ~ (j > n)
    <3>1. j + (m - n) \in 1..m /\ j \in 1..n
      BY <2>3, <1>2, <1>4
    <3>2. (a \o b)[j + (m - n)] = b[j]
      <4>. DEFINE k == j + (m - n)
      <4>1. ~ (k =< m - n) /\ k - (m - n) = j
        BY <3>1, <1>2, <1>4
      <4>2. (a \o b)[k] = IF k =< m - n THEN a[k] ELSE b[k - (m - n)]
        BY <3>1, <1>6
      <4>. QED
        BY <4>1, <4>2
    <3>. QED
      BY <2>1, <3>1, <3>2, <1>5
  <2>. QED
    BY <2>2, <2>3
<1>8. order = a \o b
  BY <1>3 DEF a, b, m
<1>. QED
  BY <1>2, <1>6, <1>7, <1>8 DEF Covers

\* The bytes Compact carries over for a node.
BytesOf(D, node) == IF node.invalid THEN Get(D, node.nameOff, node.nameLen) ELSE Spelled(D, node)

\* What Compact copies of a node.
LEMMA BytesFacts ==
  ASSUME NEW D \in Path, NEW id, NEW node, NodeFits(D, id, node)
  PROVE  BytesOf(D, node) \in Path /\ Len(BytesOf(D, node)) = Width(node) /\ Width(node) \in Nat
<1>1. /\ node.pathLen \in Nat /\ node.invalid \in BOOLEAN
      /\ node.nameOff \in Nat /\ node.nameLen \in Nat /\ node.nameOff + node.nameLen =< Len(D)
  BY DEF NodeFits, Stored
<1>2. Spelled(D, node) \in Path /\ Len(Spelled(D, node)) = node.pathLen
  BY SpelledFacts
<1>3. Get(D, node.nameOff, node.nameLen) \in Path /\ Len(Get(D, node.nameOff, node.nameLen)) = node.nameLen
  BY <1>1, SliceOf
<1>. QED
  BY <1>1, <1>2, <1>3 DEF BytesOf, Width

\* A name that is the last byte of its path still is when both have moved.
LEMMA LastOfSlice ==
  ASSUME NEW D \in Path, NEW off \in Nat, NEW len \in Nat, len > 0, off + len =< Len(D)
  PROVE  /\ Get(D, off + len - 1, 1) # <<>>
         /\ Base(Get(D, off + len - 1, 1)) = Base(Get(D, off, len))
<1>. DEFINE g == Get(D, off, len)
            k == off + len - 1
            b == Get(D, k, 1)
<1>1. Len(D) \in Nat /\ k \in Nat /\ k + 1 =< Len(D) /\ k + 1 = off + len
  BY LenProperties DEF Path
<1>2. Len(g) = len /\ \A i \in 1..len : g[i] = D[off + i]
  BY SliceOf
<1>3. Len(b) = 1 /\ \A i \in 1..1 : b[i] = D[k + i]
  <2>. HIDE DEF k
  <2>1. ASSUME NEW n \in Nat, k + n =< Len(D)
        PROVE  Len(Get(D, k, n)) = n /\ \A i \in 1..n : Get(D, k, n)[i] = D[k + i]
    BY <1>1, <2>1, SliceOf
  <2>. QED
    BY <1>1, <2>1
<1>. HIDE DEF g, b, k
<1>4. g[len] = D[off + len] /\ b[1] = D[k + 1]
  BY <1>2, <1>3
<1>5. b # <<>>
  <2>1. Len(<<>>) = 0
    BY EmptySeq
  <2>. SUFFICES ASSUME b = <<>> PROVE FALSE
    OBVIOUS
  <2>. QED
    BY <1>3, <2>1
<1>6. Base(b) = Base(g)
  BY <1>1, <1>2, <1>3, <1>4 DEF Base
<1>. QED
  BY <1>5, <1>6 DEF b, g, k

-----------------------------------------------------------------------------
(* Compact: the nodes and the block.                                       *)

\* A node whose bytes lie elsewhere is seen unchanged.
LEMMA ViewOfMoved ==
  ASSUME NEW D \in Path, NEW D2 \in Path, NEW id, NEW node, NodeFits(D, id, node),
         NEW off \in Nat, off + Width(node) =< Len(D2),
         Get(D2, off, Width(node)) = BytesOf(D, node),
         id # NoId /\ ~node.invalid => Titled(D, node) = Base(Spelled(D, node))
  PROVE  LET m == MovedTo(node, off)
         IN  NodeFits(D2, id, m) /\ View(D2, m) = View(D, node)
<1>. DEFINE m == MovedTo(node, off)
<1>1. /\ node \in Stored /\ node.pathLen \in Nat /\ node.invalid \in BOOLEAN
      /\ node.pathOff \in Nat /\ node.nameOff \in Nat /\ node.nameLen \in Nat
      /\ Len(D2) \in Nat
  BY LenProperties DEF NodeFits, Stored, Path
<1>2. /\ id = NoId => node.pathLen = 0 /\ node.nameLen = 0 /\ ~node.invalid
      /\ id # NoId => node.nameLen = 1
      /\ id # NoId /\ node.invalid => node.pathOff = 0 /\ node.pathLen = 0
      /\ id # NoId /\ ~node.invalid => node.pathLen > 0
  BY DEF NodeFits
<1>3. ASSUME node.invalid
      PROVE  NodeFits(D2, id, m) /\ Spelled(D2, m) = Spelled(D, node) /\ Titled(D2, m) = Titled(D, node)
             /\ m.parent = node.parent /\ m.size = node.size /\ m.mtime = node.mtime
             /\ m.invalid = node.invalid
  <2>1. m = [node EXCEPT !.nameOff = off] /\ Width(node) = node.nameLen
    BY <1>3 DEF MovedTo, Width
  <2>2. /\ m \in Stored /\ m.pathOff = 0 /\ m.pathLen = 0 /\ m.nameOff = off
        /\ m.nameLen = node.nameLen /\ m.parent = node.parent /\ m.size = node.size
        /\ m.mtime = node.mtime /\ m.invalid = node.invalid
    BY <1>1, <1>2, <1>3, <2>1 DEF Stored
  <2>. HIDE DEF m
  <2>3. Get(D2, off, node.nameLen) = Get(D, node.nameOff, node.nameLen)
    BY <1>3, <2>1 DEF BytesOf
  <2>4. Titled(D2, m) = Titled(D, node)
    BY <2>2, <2>3 DEF Titled
  <2>5. Spelled(D2, m) = <<>> /\ Spelled(D, node) = <<>>
    BY <1>2, <1>3, <2>2 DEF Spelled, GetPathUint64, PathKey, GetUint64
  <2>6. NodeFits(D2, id, m)
    BY <1>1, <1>2, <1>3, <2>1, <2>2 DEF NodeFits
  <2>. QED
    BY <2>2, <2>4, <2>5, <2>6
<1>4. ASSUME ~node.invalid
      PROVE  NodeFits(D2, id, m) /\ Spelled(D2, m) = Spelled(D, node) /\ Titled(D2, m) = Titled(D, node)
             /\ m.parent = node.parent /\ m.size = node.size /\ m.mtime = node.mtime
             /\ m.invalid = node.invalid
  <2>. DEFINE at == off + node.pathLen - node.nameLen
  <2>1. m = [node EXCEPT !.pathOff = off, !.nameOff = at] /\ Width(node) = node.pathLen
    BY <1>4 DEF MovedTo, Width
  <2>0. at \in Nat
    BY <1>1, <1>2, <1>4
  <2>2. /\ m \in Stored /\ m.pathOff = off /\ m.pathLen = node.pathLen /\ m.nameOff = at
        /\ m.nameLen = node.nameLen /\ m.parent = node.parent /\ m.size = node.size
        /\ m.mtime = node.mtime /\ m.invalid = node.invalid
    <3>. HIDE DEF at
    <3>. QED
      BY <1>1, <2>0, <2>1 DEF Stored
  <2>. HIDE DEF m
  <2>3. Spelled(D2, m) = Spelled(D, node)
    <3>1. Get(D2, off, node.pathLen) = Spelled(D, node)
      BY <1>4, <2>1 DEF BytesOf
    <3>2. node.pathLen = 0 => Spelled(D, node) = <<>>
      BY DEF Spelled, GetPathUint64, PathKey, GetUint64
    <3>3. Spelled(D2, m) = IF node.pathLen = 0 THEN <<>> ELSE Get(D2, off, node.pathLen)
      BY <2>2 DEF Spelled, GetPathUint64, PathKey, GetUint64
    <3>. QED
      BY <3>1, <3>2, <3>3
  <2>4. NodeFits(D2, id, m)
    <3>1. m.pathOff + m.pathLen =< Len(D2) /\ m.nameOff + m.nameLen =< Len(D2)
      BY <1>1, <2>1, <2>2
    <3>. QED
      BY <1>2, <1>4, <2>2, <3>1 DEF NodeFits
  <2>5. Titled(D2, m) = Titled(D, node)
    <3>1. ASSUME id # NoId
          PROVE  Titled(D2, m) = Titled(D, node)
      <4>1. at = off + node.pathLen - 1 /\ node.pathLen > 0 /\ m.nameLen = 1
        BY <1>2, <1>4, <2>2, <3>1
      <4>2. /\ Get(D2, at, 1) # <<>>
            /\ Base(Get(D2, at, 1)) = Base(Get(D2, off, node.pathLen))
        BY <1>1, <2>1, <4>1, LastOfSlice
      <4>3. Titled(D2, m) = Base(Get(D2, at, 1))
        BY <2>2, <4>1, <4>2 DEF Titled
      <4>4. Get(D2, off, node.pathLen) = Spelled(D, node)
        BY <1>4, <2>1 DEF BytesOf
      <4>. QED
        BY <1>4, <3>1, <4>2, <4>3, <4>4
    <3>2. ASSUME id = NoId
          PROVE  Titled(D2, m) = Titled(D, node)
      <4>1. m.nameLen = 0 /\ node.nameLen = 0
        BY <1>2, <2>2, <3>2
      <4>2. \A E \in Path, o \in Nat : o + 0 =< Len(E) => Get(E, o, 0) = <<>>
        BY SliceOf, EmptySeq DEF Path
      <4>3. Get(D2, m.nameOff, 0) = <<>> /\ Get(D, node.nameOff, 0) = <<>>
        <5>1. m.nameOff + 0 =< Len(D2) /\ m.nameOff \in Nat
          BY <2>4, <4>1 DEF NodeFits, Stored
        <5>2. node.nameOff + 0 =< Len(D) /\ node.nameOff \in Nat
          BY <4>1 DEF NodeFits, Stored
        <5>. QED
          BY <4>2, <5>1, <5>2
      <4>. QED
        BY <4>1, <4>3 DEF Titled
    <3>. QED
      BY <3>1, <3>2
  <2>. QED
    BY <2>2, <2>3, <2>4, <2>5
<1>5. View(D2, m) = View(D, node)
  <2>. HIDE DEF m
  <2>. QED
    BY <1>1, <1>3, <1>4 DEF View
<1>. QED
  BY <1>1, <1>3, <1>4, <1>5

RewrittenStore(r, N, D) == [r EXCEPT !.data = D, !.nodes = N]

LEMMA SetRewritten ==
  ASSUME NEW r, IsStore(r), NEW N, NEW D
  PROVE  RewrittenStore(r, N, D) =
           Rec(N, r.pathMap, r.pathHash, r.tree, r.child, r.grams, r.lastID, D, r.wdMap, r.pathToWd)
<1>. DEFINE a1 == [r EXCEPT !.data = D]
<1>1. a1 = Rec(r.nodes, r.pathMap, r.pathHash, r.tree, r.child, r.grams, r.lastID, D,
               r.wdMap, r.pathToWd)
  BY DEF Rec, IsStore
<1>. HIDE DEF a1
<1>. DEFINE a2 == [a1 EXCEPT !.nodes = N]
<1>2. a2 = Rec(N, r.pathMap, r.pathHash, r.tree, r.child, r.grams, r.lastID, D,
               r.wdMap, r.pathToWd)
  BY <1>1 DEF Rec
<1>. HIDE DEF a2
<1>. QED
  BY <1>2 DEF a1, a2, RewrittenStore

\* What holds of a store whatever its lookup maps say.
Bedded(s) ==
  /\ IsStore(s) /\ s.data \in Path /\ NodesFit(s.data, s.nodes) /\ DOMAIN s.wdMap \subseteq Id
  /\ Healthy(Mapped(s))

LEMMA BeddedFacts ==
  ASSUME NEW s, Bedded(s)
  PROVE  /\ IsFiniteSet(DOMAIN s.nodes)
         /\ \A x \in DOMAIN s.nodes :
              /\ NodeFits(s.data, x, s.nodes[x])
              /\ Mapped(s).nodes[x] = View(s.data, s.nodes[x])
              /\ x # NoId /\ ~s.nodes[x].invalid =>
                   /\ Titled(s.data, s.nodes[x]) = Base(Spelled(s.data, s.nodes[x]))
                   /\ Spelled(s.data, s.nodes[x]) # <<>>
         /\ DOMAIN Mapped(s).nodes = DOMAIN s.nodes
<1>. DEFINE i == Mapped(s)
<1>1. /\ IsStore(s) /\ s.data \in Path /\ NodesFit(s.data, s.nodes)
      /\ IxInv(i) /\ TiedIndex(i)
  BY DEF Bedded, Healthy
<1>2. i.nodes = ViewNodes(s.nodes, s.data)
  BY MappedParts
<1>. HIDE DEF i
<1>3. DOMAIN i.nodes = DOMAIN s.nodes /\ \A x \in DOMAIN s.nodes : i.nodes[x] = View(s.data, s.nodes[x])
  BY <1>2 DEF ViewNodes
<1>4. \A x \in DOMAIN s.nodes : NodeFits(s.data, x, s.nodes[x])
  BY <1>1 DEF NodesFit
<1>5. IsFiniteSet(DOMAIN s.nodes)
  <2>1. DOMAIN i.nodes \subseteq Id /\ i.lastID \in Nat /\ \A x \in DOMAIN i.nodes : x[1] =< i.lastID
    BY <1>1 DEF IxInv, IndexType, Counted
  <2>. DEFINE box == (0 .. i.lastID) \X BOOLEAN
  <2>2. DOMAIN i.nodes \subseteq box
    BY <2>1 DEF Id
  <2>3. IsFiniteSet(0 .. i.lastID)
    <3>1. 0 \in Int /\ i.lastID \in Int
      BY <2>1
    <3>. QED
      BY <3>1, FS_Interval
  <2>4. IsFiniteSet(BOOLEAN)
    <3>1. BOOLEAN = {TRUE, FALSE}
      OBVIOUS
    <3>2. IsFiniteSet({TRUE, FALSE})
      <4>1. IsFiniteSet({TRUE})
        BY FS_Singleton
      <4>2. {TRUE, FALSE} = {TRUE} \cup {FALSE}
        OBVIOUS
      <4>. QED
        BY <4>1, <4>2, FS_AddElement
    <3>. QED
      BY <3>1, <3>2
  <2>5. IsFiniteSet(box)
    BY <2>3, <2>4, FS_Product
  <2>. HIDE DEF box
  <2>. QED
    BY <1>3, <2>2, <2>5, FS_Subset
<1>6. ASSUME NEW x \in DOMAIN s.nodes, x # NoId, ~s.nodes[x].invalid
      PROVE  /\ Titled(s.data, s.nodes[x]) = Base(Spelled(s.data, s.nodes[x]))
             /\ Spelled(s.data, s.nodes[x]) # <<>>
  <2>. DEFINE v == View(s.data, s.nodes[x])
  <2>1. v.path = Spelled(s.data, s.nodes[x]) /\ v.name = Titled(s.data, s.nodes[x])
        /\ v.invalid = s.nodes[x].invalid
    BY DEF View
  <2>. HIDE DEF v
  <2>2. i.nodes[x] = v
    BY <1>3 DEF v
  <2>3. x \in Proper(i.nodes)
    BY <1>3, <1>6, <2>1, <2>2 DEF Proper
  <2>4. NamesMatch(i.nodes)
    BY <1>1 DEF TiedIndex, Tied
  <2>. QED
    BY <2>1, <2>2, <2>3, <2>4 DEF NamesMatch
<1>. QED
  BY <1>3, <1>4, <1>5, <1>6 DEF i

\* The block is rewritten and nothing is to be seen of it in the index.
LEMMA RewrittenStep ==
  ASSUME NEW s, Bedded(s), NEW order \in Rounds(DOMAIN s.nodes)
  PROVE  LET r == Rewritten(s, order)
         IN  /\ Bedded(r) /\ Mapped(r) = Mapped(s)
             /\ DOMAIN r.nodes = DOMAIN s.nodes
             /\ r.pathMap = s.pathMap /\ r.pathHash = s.pathHash
             /\ r.wdMap = s.wdMap /\ r.pathToWd = s.pathToWd /\ r.lastID = s.lastID
             /\ \A x \in DOMAIN s.nodes : /\ r.nodes[x].invalid = s.nodes[x].invalid
                                          /\ r.nodes[x].pathLen = s.nodes[x].pathLen
                                          /\ View(r.data, r.nodes[x]) = View(s.data, s.nodes[x])
<1>. DEFINE n == Len(order)
            B == [k \in DOMAIN order |-> Bytes(s, order[k])]
            off[k \in 1..n + 1] == IF k = 1 THEN 0 ELSE off[k - 1] + Width(s.nodes[order[k - 1]])
            at == [id \in DOMAIN s.nodes |-> off[CHOOSE k \in DOMAIN order : order[k] = id]]
            D == Seqs!FlattenSeq(B)
            N == [id \in DOMAIN s.nodes |-> MovedTo(s.nodes[id], at[id])]
<1>1. /\ IsStore(s) /\ s.data \in Path /\ NodesFit(s.data, s.nodes)
      /\ DOMAIN s.wdMap \subseteq Id /\ Healthy(Mapped(s))
  BY DEF Bedded
<1>2. IsFiniteSet(DOMAIN s.nodes)
  BY BeddedFacts
<1>3. /\ n \in Nat /\ order \in [1..n -> DOMAIN s.nodes] /\ DOMAIN order = 1..n
      /\ \A x \in DOMAIN s.nodes : \E k \in 1..n : order[k] = x
  BY <1>2, RoundFacts DEF Covers
<1>4. Rewritten(s, order) = RewrittenStore(s, N, D)
  BY DEF Rewritten, RewrittenStore
<1>5. off = [k \in 1..n + 1 |-> IF k = 1 THEN 0 ELSE off[k - 1] + Width(s.nodes[order[k - 1]])]
  <2>1. \E f : f = [k \in 1..n + 1 |-> IF k = 1 THEN 0
                                      ELSE f[k - 1] + Width(s.nodes[order[k - 1]])]
    <3>. HIDE DEF n, B, D, N, at
    <3>1. \E f : OffsIn(f, n, s, order)
      BY <1>3, OffsExists
    <3>. QED
      BY <3>1 DEF OffsIn
  <2>. QED
    BY <2>1
<1>. HIDE DEF off
<1>6. /\ off[1] = 0
      /\ \A k \in 1..n : off[k + 1] = off[k] + Width(s.nodes[order[k]])
  <2>1. off[1] = 0
    BY <1>3, <1>5
  <2>2. ASSUME NEW k \in 1..n PROVE off[k + 1] = off[k] + Width(s.nodes[order[k]])
    <3>1. k + 1 \in 1..n + 1 /\ k + 1 # 1 /\ (k + 1) - 1 = k
      BY <1>3
    <3>. QED
      BY <3>1, <1>5
  <2>. QED
    BY <2>1, <2>2
<1>7. \A k \in 1..n : /\ order[k] \in DOMAIN s.nodes
                      /\ B[k] = BytesOf(s.data, s.nodes[order[k]])
                      /\ B[k] \in Path /\ Len(B[k]) = Width(s.nodes[order[k]])
  <2>. SUFFICES ASSUME NEW k \in 1..n
                PROVE  /\ order[k] \in DOMAIN s.nodes
                       /\ B[k] = BytesOf(s.data, s.nodes[order[k]])
                       /\ B[k] \in Path /\ Len(B[k]) = Width(s.nodes[order[k]])
    OBVIOUS
  <2>1. order[k] \in DOMAIN s.nodes /\ B[k] = Bytes(s, order[k])
    BY <1>3
  <2>2. Bytes(s, order[k]) = BytesOf(s.data, s.nodes[order[k]])
    BY DEF Bytes, BytesOf, PathOf, Spelled
  <2>3. NodeFits(s.data, order[k], s.nodes[order[k]])
    BY <1>1, <2>1 DEF NodesFit
  <2>. HIDE DEF B
  <2>. QED
    BY <1>1, <2>1, <2>2, <2>3, BytesFacts
<1>8. B \in [1..n -> Path]
  <2>1. B = [k \in 1..n |-> B[k]]
    BY <1>3
  <2>. QED
    BY <1>7, <2>1
<1>. HIDE DEF B
<1>9. D \in Path /\ Lays(D, B, off, n)
  <2>1. \A k \in 1..n : off[k + 1] = off[k] + Len(B[k])
    BY <1>6, <1>7
  <2>. QED
    BY <1>3, <1>6, <1>8, <2>1, FlattenLays
<1>. HIDE DEF D
<1>10. ASSUME NEW x \in DOMAIN s.nodes
       PROVE  /\ NodeFits(D, x, MovedTo(s.nodes[x], at[x]))
              /\ View(D, MovedTo(s.nodes[x], at[x])) = View(s.data, s.nodes[x])
  <2>. DEFINE k == CHOOSE k \in DOMAIN order : order[k] = x
  <2>1. k \in 1..n /\ order[k] = x
    BY <1>3
  <2>2. at[x] = off[k]
    OBVIOUS
  <2>. HIDE DEF k, at
  <2>3. /\ off[k] \in Nat /\ off[k] + Width(s.nodes[x]) =< Len(D)
        /\ Get(D, off[k], Width(s.nodes[x])) = BytesOf(s.data, s.nodes[x])
    BY <1>7, <1>9, <2>1 DEF Lays
  <2>4. /\ NodeFits(s.data, x, s.nodes[x])
        /\ x # NoId /\ ~s.nodes[x].invalid =>
             Titled(s.data, s.nodes[x]) = Base(Spelled(s.data, s.nodes[x]))
    BY BeddedFacts
  <2>. QED
    BY <1>1, <1>9, <2>2, <2>3, <2>4, ViewOfMoved
<1>. HIDE DEF at
<1>11. ViewNodes(N, D) = ViewNodes(s.nodes, s.data) /\ NodesFit(D, N)
  <2>1. DOMAIN N = DOMAIN s.nodes /\ DOMAIN s.nodes \subseteq Id
    BY <1>1 DEF NodesFit
  <2>2. \A x \in DOMAIN s.nodes : N[x] = MovedTo(s.nodes[x], at[x])
    OBVIOUS
  <2>. HIDE DEF N
  <2>3. NodesFit(D, N)
    BY <1>10, <2>1, <2>2 DEF NodesFit
  <2>4. \A x \in DOMAIN s.nodes : View(D, N[x]) = View(s.data, s.nodes[x])
    BY <1>10, <2>2
  <2>. QED
    BY <2>1, <2>3, <2>4 DEF ViewNodes
<1>12. DOMAIN N = DOMAIN s.nodes
       /\ \A x \in DOMAIN s.nodes : View(D, N[x]) = View(s.data, s.nodes[x])
                                    /\ NodeFits(D, x, N[x])
  BY <1>10
<1>. HIDE DEF N
<1>. DEFINE r == Rewritten(s, order)
<1>13. r = Rec(N, s.pathMap, s.pathHash, s.tree, s.child, s.grams, s.lastID, D, s.wdMap, s.pathToWd)
  BY <1>1, <1>4, SetRewritten
<1>. HIDE DEF r
<1>14. /\ r.nodes = N /\ r.data = D /\ r.pathMap = s.pathMap /\ r.pathHash = s.pathHash
       /\ r.wdMap = s.wdMap /\ r.pathToWd = s.pathToWd /\ r.lastID = s.lastID
  BY <1>13, RecFields
<1>15. IsStore(r) /\ Mapped(r) = [nodes |-> ViewNodes(N, D), lookup |-> ViewLookup(s.pathMap, s.pathHash),
                                  tree |-> s.tree, child |-> s.child, grams |-> s.grams,
                                  lastID |-> s.lastID]
  BY <1>13, MappedRec
<1>16. Mapped(r) = Mapped(s)
  <2>. DEFINE i == Mapped(s)
  <2>1. /\ IsIndex(i) /\ i.nodes = ViewNodes(s.nodes, s.data)
        /\ i.lookup = ViewLookup(s.pathMap, s.pathHash)
        /\ i.tree = s.tree /\ i.child = s.child /\ i.grams = s.grams /\ i.lastID = s.lastID
    BY MappedParts
  <2>. HIDE DEF i
  <2>2. i = [nodes |-> i.nodes, lookup |-> i.lookup, tree |-> i.tree, child |-> i.child,
             grams |-> i.grams, lastID |-> i.lastID]
    BY <2>1 DEF IsIndex
  <2>. QED
    BY <1>11, <1>15, <2>1, <2>2 DEF i
<1>17. Bedded(r)
  BY <1>1, <1>9, <1>11, <1>14, <1>15, <1>16 DEF Bedded
<1>18. ASSUME NEW x \in DOMAIN s.nodes
       PROVE  N[x].invalid = s.nodes[x].invalid /\ N[x].pathLen = s.nodes[x].pathLen
  <2>1. \A E, m : View(E, m).invalid = m.invalid /\ View(E, m).path = Spelled(E, m)
    BY DEF View
  <2>2. N[x].invalid = s.nodes[x].invalid /\ Spelled(D, N[x]) = Spelled(s.data, s.nodes[x])
    BY <1>12, <2>1
  <2>3. Len(Spelled(D, N[x])) = N[x].pathLen
    BY <1>9, <1>12, SpelledFacts
  <2>4. Len(Spelled(s.data, s.nodes[x])) = s.nodes[x].pathLen
    BY <1>1, SpelledFacts DEF NodesFit
  <2>. QED
    BY <2>2, <2>3, <2>4
<1>. QED
  BY <1>12, <1>14, <1>16, <1>17, <1>18 DEF r

\* Every node with a path is what its path leads to ...
Led(s) ==
  \A x \in Pathed(s) \ {NoId} :
    /\ Spelled(s.data, s.nodes[x]) \in DOMAIN Mapped(s).lookup
    /\ Mapped(s).lookup[Spelled(s.data, s.nodes[x])] = x

\* ... and no key is the one that stands for an unknown path.
NoZero(s) == \A x \in Pathed(s) : PathKey(s.nodes[x]) # NoKey

\* In the middle of Compact the watches have the old keys, and keys tells what
\* has become of each.
CarriedWatch(s, keys, wd) ==
  /\ ~s.nodes[wd].invalid /\ s.wdMap[wd] \in DOMAIN keys
  /\ keys[s.wdMap[wd]] = PathKey(s.nodes[wd])
  /\ s.wdMap[wd] \in DOMAIN s.pathToWd /\ s.pathToWd[s.wdMap[wd]] = wd
Carried(s, keys) ==
  /\ Watching(s)
  /\ \A wd \in DOMAIN s.wdMap \cap DOMAIN s.nodes : CarriedWatch(s, keys, wd)
  /\ \A k, l \in DOMAIN keys : keys[k] = keys[l] => k = l

\* With that, a key names one node.
LEMMA KeysDiffer ==
  ASSUME NEW s, Bedded(s), Led(s), NEW x \in Pathed(s), NEW y \in Pathed(s),
         PathKey(s.nodes[x]) = PathKey(s.nodes[y])
  PROVE  x = y
<1>1. x \in DOMAIN s.nodes /\ y \in DOMAIN s.nodes /\ ~s.nodes[x].invalid /\ ~s.nodes[y].invalid
  BY DEF Pathed
<1>2. NodeFits(s.data, x, s.nodes[x]) /\ NodeFits(s.data, y, s.nodes[y])
  BY <1>1, BeddedFacts
<1>3. s.nodes[x].pathLen = s.nodes[y].pathLen
  BY DEF PathKey, GetUint64
<1>4. Spelled(s.data, s.nodes[x]) = Spelled(s.data, s.nodes[y])
  BY DEF Spelled
<1>5. x = NoId <=> y = NoId
  BY <1>1, <1>2, <1>3 DEF NodeFits
<1>. QED
  BY <1>4, <1>5 DEF Led

\* The first half of Compact: nodes and block rewritten, nothing seen changes,
\* and the old keys lead to the nodes until the maps follow.
LEMMA BlockStep ==
  ASSUME NEW s, StoreInv(s), NEW order \in Rounds(DOMAIN s.nodes)
  PROVE  LET r == Rewritten(s, order)
             keys == [key \in {PathKey(s.nodes[id]) : id \in Pathed(s)} |->
                        PathKey(r.nodes[CHOOSE id \in Pathed(s) : PathKey(s.nodes[id]) = key])]
         IN  /\ Bedded(r) /\ Mapped(r) = Mapped(s)
             /\ Stranded(s) = {} => Led(r)
             /\ Stranded(s) = {} /\ (\A key \in DOMAIN keys : keys[key] # NoKey) => NoZero(r)
             /\ keys = NoMove => Fits(r)
             /\ Stranded(s) = {} /\ Watched(s) => Carried(r, keys)
<1>. DEFINE r == Rewritten(s, order)
            keys == [key \in {PathKey(s.nodes[id]) : id \in Pathed(s)} |->
                       PathKey(r.nodes[CHOOSE id \in Pathed(s) : PathKey(s.nodes[id]) = key])]
            i == Mapped(s)
<1>1. Fits(s) /\ Healthy(i) /\ Sound(s.nodes, s.pathMap, s.pathHash, s.data)
  BY DEF StoreInv, Fits
<1>2. Bedded(s)
  BY <1>1 DEF Bedded, Fits, Sound
<1>3. /\ Bedded(r) /\ Mapped(r) = i
      /\ DOMAIN r.nodes = DOMAIN s.nodes
      /\ r.pathMap = s.pathMap /\ r.pathHash = s.pathHash
      /\ r.wdMap = s.wdMap /\ r.pathToWd = s.pathToWd /\ r.lastID = s.lastID
      /\ \A x \in DOMAIN s.nodes : /\ r.nodes[x].invalid = s.nodes[x].invalid
                                   /\ r.nodes[x].pathLen = s.nodes[x].pathLen
                                   /\ View(r.data, r.nodes[x]) = View(s.data, s.nodes[x])
  BY <1>2, RewrittenStep
<1>. HIDE DEF r
<1>4. \A x \in DOMAIN s.nodes : Spelled(r.data, r.nodes[x]) = Spelled(s.data, s.nodes[x])
  <2>1. \A E, m : View(E, m).path = Spelled(E, m)
    BY DEF View
  <2>. QED
    BY <1>3, <2>1
<1>5. Pathed(r) = Pathed(s) /\ Pathed(s) \subseteq DOMAIN s.nodes
  BY <1>3 DEF Pathed
<1>6. ASSUME Stranded(s) = {} PROVE Led(s) /\ Led(r)
  <2>1. ASSUME NEW x \in Pathed(s) \ {NoId}
        PROVE  /\ Spelled(s.data, s.nodes[x]) \in DOMAIN i.lookup
               /\ i.lookup[Spelled(s.data, s.nodes[x])] = x
    <3>. DEFINE p == PathOf(s, x)
    <3>1. IdAt(s, GetPathOff(s, p)) = x
      BY <1>6 DEF Stranded
    <3>2. p = Spelled(s.data, s.nodes[x])
      BY DEF PathOf, Spelled
    <3>3. p # <<>>
      BY <1>2, <3>2, BeddedFacts DEF Pathed
    <3>. HIDE DEF p, i
    <3>4. /\ p \notin DOMAIN Mapped(s).lookup => IdAt(s, GetPathOff(s, p)) = NoId
          /\ p \in DOMAIN Mapped(s).lookup => IdAt(s, GetPathOff(s, p)) = Mapped(s).lookup[p]
      BY <1>1, <3>3, KnownFacts
    <3>. QED
      BY <3>1, <3>2, <3>4 DEF i
  <2>. QED
    BY <1>3, <1>4, <1>5, <2>1 DEF Led
<1>9. ASSUME Stranded(s) = {}, NEW x \in Pathed(s)
      PROVE  PathKey(s.nodes[x]) \in DOMAIN keys /\ keys[PathKey(s.nodes[x])] = PathKey(r.nodes[x])
  <2>. DEFINE key == PathKey(s.nodes[x])
              y == CHOOSE id \in Pathed(s) : PathKey(s.nodes[id]) = key
  <2>1. y \in Pathed(s) /\ PathKey(s.nodes[y]) = PathKey(s.nodes[x])
    OBVIOUS
  <2>2. keys[key] = PathKey(r.nodes[y]) /\ key \in DOMAIN keys
    OBVIOUS
  <2>. HIDE DEF y, keys
  <2>3. y = x
    BY <1>2, <1>6, <1>9, <2>1, KeysDiffer
  <2>. QED
    BY <2>2, <2>3
<1>7. ASSUME Stranded(s) = {}, \A key \in DOMAIN keys : keys[key] # NoKey PROVE NoZero(r)
  <2>. HIDE DEF keys
  <2>1. ASSUME NEW x \in Pathed(s) PROVE PathKey(r.nodes[x]) # NoKey
    BY <1>7, <1>9
  <2>. QED
    BY <1>5, <2>1 DEF NoZero
<1>10. \A k \in DOMAIN keys : \E x \in Pathed(s) : k = PathKey(s.nodes[x])
  OBVIOUS
<1>11. ASSUME Stranded(s) = {}, Watched(s) PROVE Carried(r, keys)
  <2>. HIDE DEF keys
  <2>1. ASSUME NEW wd \in DOMAIN r.wdMap \cap DOMAIN r.nodes PROVE CarriedWatch(r, keys, wd)
    <3>1. wd \in DOMAIN s.wdMap \cap DOMAIN s.nodes /\ WatchTrue(s, wd)
      BY <1>3, <1>11 DEF Watched, WatchedBut
    <3>2. wd \in Pathed(s) /\ ~r.nodes[wd].invalid
      BY <1>3, <3>1 DEF Pathed, WatchTrue
    <3>3. PathKey(s.nodes[wd]) \in DOMAIN keys /\ keys[PathKey(s.nodes[wd])] = PathKey(r.nodes[wd])
      BY <1>9, <1>11, <3>2
    <3>. QED
      BY <1>3, <3>1, <3>2, <3>3 DEF WatchTrue, CarriedWatch
  <2>2. ASSUME NEW k \in DOMAIN keys, NEW l \in DOMAIN keys, keys[k] = keys[l] PROVE k = l
    <3>1. PICK x \in Pathed(s) : k = PathKey(s.nodes[x])
      BY <1>10
    <3>2. PICK y \in Pathed(s) : l = PathKey(s.nodes[y])
      BY <1>10
    <3>3. PathKey(r.nodes[x]) = PathKey(r.nodes[y])
      BY <1>9, <1>11, <2>2, <3>1, <3>2
    <3>4. x = y
      BY <1>3, <1>5, <1>6, <1>11, <3>3, KeysDiffer
    <3>. QED
      BY <3>1, <3>2, <3>4
  <2>3. Watching(r)
    BY <1>3, <1>11 DEF Watched, WatchedBut, Watching
  <2>. QED
    BY <2>1, <2>2, <2>3 DEF Carried
<1>8. ASSUME keys = NoMove PROVE Fits(r)
  <2>1. Pathed(s) = {}
    <3>1. DOMAIN keys = {}
      BY <1>8 DEF NoMove
    <3>. QED
      BY <3>1
  <2>2. ASSUME NEW p \in DOMAIN s.pathHash \ {<<>>} PROVE FALSE
    <3>1. s.pathMap[s.pathHash[p]] \in DOMAIN s.nodes /\ ~s.nodes[s.pathMap[s.pathHash[p]]].invalid
      BY <1>1, ResolvedFacts
    <3>. QED
      BY <2>1, <3>1 DEF Pathed
  <2>3. Resolves(r.nodes, r.pathMap, r.pathHash, r.data)
    BY <1>3, <2>2 DEF Resolves
  <2>. QED
    BY <1>1, <1>3, <2>3 DEF Fits, Sound, Bedded
<1>. QED
  BY <1>3, <1>6, <1>7, <1>8, <1>11 DEF r, i

-----------------------------------------------------------------------------
(* Compact: the watch tables and the maps.                                 *)

MapStore(s, M, H) == [s EXCEPT !.pathMap = M, !.pathHash = H]

\* The watch tables are out of sight.
LEMMA WatchesStep ==
  ASSUME NEW s, Bedded(s), Led(s), NoZero(s), NEW keys
  PROVE  LET u == UpdatePathToWd(s, keys)
         IN  /\ Bedded(u) /\ Led(u) /\ NoZero(u) /\ Mapped(u) = Mapped(s)
             /\ Carried(s, keys) => Watched(u)
<1>. DEFINE i == Mapped(s)
            u == UpdatePathToWd(s, keys)
            W == [wd \in {wd \in DOMAIN s.wdMap : s.wdMap[wd] \in DOMAIN keys} |-> keys[s.wdMap[wd]]]
            old == DOMAIN s.pathToWd \cap DOMAIN keys
            V == [key \in {keys[k] : k \in old} |-> s.pathToWd[CHOOSE k \in old : keys[k] = key]]
<1>1. /\ IsStore(s) /\ s.data \in Path /\ NodesFit(s.data, s.nodes)
      /\ DOMAIN s.wdMap \subseteq Id /\ Healthy(i)
  BY DEF Bedded
<1>2. u = WatchStore(s, W, V)
  BY DEF UpdatePathToWd, WatchStore
<1>3. DOMAIN W \subseteq Id
  BY <1>1
<1>11. /\ DOMAIN W \subseteq DOMAIN s.wdMap
       /\ \A wd \in DOMAIN W : s.wdMap[wd] \in DOMAIN keys /\ W[wd] = keys[s.wdMap[wd]]
  OBVIOUS
<1>12. ASSUME Carried(s, keys), NEW k \in old
       PROVE  keys[k] \in DOMAIN V /\ V[keys[k]] = s.pathToWd[k]
  <2>. DEFINE l == CHOOSE l \in old : keys[l] = keys[k]
  <2>1. l \in old /\ keys[l] = keys[k]
    OBVIOUS
  <2>2. keys[k] \in DOMAIN V /\ V[keys[k]] = s.pathToWd[l]
    OBVIOUS
  <2>. HIDE DEF l, V
  <2>3. l = k
    BY <1>12, <2>1 DEF Carried
  <2>. QED
    BY <2>2, <2>3
<1>. HIDE DEF u, W, V
<1>4. u = Rec(s.nodes, s.pathMap, s.pathHash, s.tree, s.child, s.grams, s.lastID, s.data, W, V)
  BY <1>1, <1>2, SetWatches DEF WatchStore
<1>5. /\ IsStore(u) /\ u.nodes = s.nodes /\ u.data = s.data /\ u.wdMap = W
      /\ u.pathToWd = V /\ u.lastID = s.lastID
  BY <1>4, RecFields, MappedRec
<1>6. Mapped(u) = [nodes |-> ViewNodes(s.nodes, s.data), lookup |-> ViewLookup(s.pathMap, s.pathHash),
                   tree |-> s.tree, child |-> s.child, grams |-> s.grams, lastID |-> s.lastID]
  BY <1>4, MappedRec
<1>7. Mapped(u) = i
  <2>1. /\ IsIndex(i) /\ i.nodes = ViewNodes(s.nodes, s.data)
        /\ i.lookup = ViewLookup(s.pathMap, s.pathHash)
        /\ i.tree = s.tree /\ i.child = s.child /\ i.grams = s.grams /\ i.lastID = s.lastID
    BY MappedParts
  <2>. HIDE DEF i
  <2>2. i = [nodes |-> i.nodes, lookup |-> i.lookup, tree |-> i.tree, child |-> i.child,
             grams |-> i.grams, lastID |-> i.lastID]
    BY <2>1 DEF IsIndex
  <2>. QED
    BY <1>6, <2>1, <2>2
<1>8. Bedded(u)
  BY <1>1, <1>3, <1>5, <1>7 DEF Bedded
<1>9. Pathed(u) = Pathed(s)
  BY <1>5 DEF Pathed
<1>10. Led(u) /\ NoZero(u)
  <2>. HIDE DEF i
  <2>. QED
    BY <1>5, <1>7, <1>9 DEF Led, NoZero, i
<1>13. ASSUME Carried(s, keys) PROVE Watched(u)
  <2>1. ASSUME NEW wd \in DOMAIN W \cap DOMAIN s.nodes PROVE WatchTrue(u, wd)
    <3>. DEFINE k == s.wdMap[wd]
    <3>1. CarriedWatch(s, keys, wd) /\ W[wd] = keys[k]
      BY <1>11, <1>13 DEF Carried
    <3>2. k \in old /\ s.pathToWd[k] = wd /\ keys[k] = PathKey(s.nodes[wd]) /\ ~s.nodes[wd].invalid
      BY <3>1 DEF CarriedWatch
    <3>. HIDE DEF k
    <3>3. keys[k] \in DOMAIN V /\ V[keys[k]] = wd
      BY <1>12, <1>13, <3>2
    <3>. QED
      BY <1>5, <3>1, <3>2, <3>3 DEF WatchTrue
  <2>2. Watching(u)
    BY <1>5, <1>11, <1>13 DEF Carried, Watching
  <2>. QED
    BY <1>5, <2>1, <2>2 DEF Watched, WatchedBut
<1>. QED
  BY <1>7, <1>8, <1>10, <1>13 DEF u, i

\* The lookup maps are built anew, and the store is sound again.
LEMMA RebuildStep ==
  ASSUME NEW s, Bedded(s), Led(s), NoZero(s), NEW r \in RebuildAllMaps(s)
  PROVE  StoreInv(r) /\ Mapped(r) = Mapped(s) /\ KeepsWatches(s, r)
<1>. DEFINE i == Mapped(s)
            path == [id \in Pathed(s) |-> PathOf(s, id)]
            paths == {path[id] : id \in Pathed(s)}
            M == [key \in {PathKey(s.nodes[id]) : id \in Pathed(s)} |->
                    CHOOSE id \in Pathed(s) : PathKey(s.nodes[id]) = key]
            H(own) == [p \in paths |-> PathKey(s.nodes[CHOOSE id \in own : path[id] = p])]
<1>1. /\ IsStore(s) /\ s.data \in Path /\ NodesFit(s.data, s.nodes)
      /\ DOMAIN s.wdMap \subseteq Id /\ Healthy(i)
  BY DEF Bedded
<1>5. PICK own \in SUBSET Pathed(s) : {path[id] : id \in own} = paths /\ r = MapStore(s, M, H(own))
  BY DEF RebuildAllMaps, MapStore
<1>2. \A x \in Pathed(s) : path[x] = Spelled(s.data, s.nodes[x])
  BY DEF PathOf, Spelled
<1>6. ASSUME NEW p \in paths, p # <<>>
      PROVE  \E x \in Pathed(s) \ {NoId} :
               /\ path[x] = p /\ H(own)[p] = PathKey(s.nodes[x])
               /\ H(own)[p] \in DOMAIN M /\ M[H(own)[p]] = x
               /\ p \in DOMAIN i.lookup /\ i.lookup[p] = x
  <2>. DEFINE x == CHOOSE id \in own : path[id] = p
              y == CHOOSE id \in Pathed(s) : PathKey(s.nodes[id]) = PathKey(s.nodes[x])
  <2>1. x \in own /\ x \in Pathed(s) /\ path[x] = p /\ path[x] = Spelled(s.data, s.nodes[x])
    <3>1. \E id \in own : path[id] = p
      BY <1>5
    <3>2. x \in own /\ path[x] = p
      BY <3>1
    <3>. QED
      BY <3>2, <1>2
  <2>2. H(own)[p] = PathKey(s.nodes[x]) /\ H(own)[p] \in DOMAIN M /\ M[H(own)[p]] = y
    BY <2>1
  <2>3. y \in Pathed(s) /\ PathKey(s.nodes[y]) = PathKey(s.nodes[x])
    BY <2>1
  <2>. HIDE DEF x, y, M, H, path
  <2>4. y = x
    BY <2>1, <2>3, KeysDiffer
  <2>5. x # NoId
    <3>1. NodeFits(s.data, x, s.nodes[x])
      BY <2>1, BeddedFacts DEF Pathed
    <3>2. x = NoId => s.nodes[x].pathLen = 0
      BY <3>1 DEF NodeFits
    <3>3. s.nodes[x].pathLen = 0 => Spelled(s.data, s.nodes[x]) = <<>>
      BY DEF Spelled, GetPathUint64, PathKey, GetUint64
    <3>. QED
      BY <1>6, <2>1, <3>2, <3>3
  <2>6. p \in DOMAIN i.lookup /\ i.lookup[p] = x
    BY <2>1, <2>5 DEF Led
  <2>. QED
    BY <2>1, <2>2, <2>4, <2>5, <2>6
<1>7. ASSUME NEW p \in DOMAIN i.lookup
      PROVE  p \in paths \ {<<>>}
  <2>1. i.lookup = ViewLookup(s.pathMap, s.pathHash)
    BY MappedParts
  <2>2. p # <<>>
    BY <2>1 DEF ViewLookup
  <2>3. Good(i.nodes, i.lookup, i.tree, i.child, i.grams, i.lastID)
    BY <1>1, GoodParts DEF Healthy, IxInv
  <2>. HIDE DEF i
  <2>4. i.lookup[p] \in DOMAIN i.nodes /\ i.nodes[i.lookup[p]].path = p /\ ~i.nodes[i.lookup[p]].invalid
    BY <2>3 DEF Good
  <2>5. i.lookup[p] \in DOMAIN s.nodes /\ i.nodes[i.lookup[p]] = View(s.data, s.nodes[i.lookup[p]])
    BY <2>4, BeddedFacts DEF i
  <2>6. \A E, m : View(E, m).invalid = m.invalid /\ View(E, m).path = Spelled(E, m)
    BY DEF View
  <2>7. i.lookup[p] \in Pathed(s) /\ Spelled(s.data, s.nodes[i.lookup[p]]) = p
    BY <2>4, <2>5, <2>6 DEF Pathed
  <2>8. path[i.lookup[p]] = p
    BY <2>7, <1>2
  <2>. QED
    BY <2>2, <2>7, <2>8
<1>. DEFINE F == H(own)
<1>8. DOMAIN F = paths
  OBVIOUS
<1>9. r = MapStore(s, M, F)
  BY <1>5
<1>10. NoKey \notin DOMAIN M
  BY DEF NoZero
<1>11. \A p \in paths \ {<<>>} : F[p] = H(own)[p]
  OBVIOUS
<1>. HIDE DEF M, F, H, paths
<1>3. r = Rec(s.nodes, M, F, s.tree, s.child, s.grams, s.lastID, s.data, s.wdMap, s.pathToWd)
  BY <1>1, <1>9, SetMaps DEF MapStore
<1>12. Resolves(s.nodes, M, F, s.data)
  <2>. SUFFICES ASSUME NEW p \in DOMAIN F \ {<<>>}
                PROVE  /\ F[p] \in DOMAIN M /\ M[F[p]] \in DOMAIN s.nodes
                       /\ PathKey(s.nodes[M[F[p]]]) = F[p]
                       /\ GetPathUint64(s.data, F[p]) = p
    BY DEF Resolves
  <2>1. PICK x \in Pathed(s) \ {NoId} :
               /\ path[x] = p /\ F[p] = PathKey(s.nodes[x])
               /\ F[p] \in DOMAIN M /\ M[F[p]] = x
    BY <1>6, <1>8, <1>11
  <2>2. x \in DOMAIN s.nodes /\ path[x] = Spelled(s.data, s.nodes[x])
    BY <2>1, <1>2 DEF Pathed
  <2>. HIDE DEF path
  <2>. QED
    BY <2>1, <2>2 DEF Spelled
<1>13. Sound(s.nodes, M, F, s.data)
  BY <1>1, <1>10, <1>12 DEF Sound
<1>14. ViewLookup(M, F) = i.lookup
  <2>1. {q \in DOMAIN F \ {<<>>} : F[q] \in DOMAIN M} = DOMAIN i.lookup
    BY <1>6, <1>7, <1>8, <1>11
  <2>2. \A p \in DOMAIN i.lookup : M[F[p]] = i.lookup[p]
    BY <1>6, <1>7, <1>11
  <2>3. i.lookup = ViewLookup(s.pathMap, s.pathHash)
    BY MappedParts
  <2>4. i.lookup = [p \in DOMAIN i.lookup |-> i.lookup[p]]
    BY <2>3 DEF ViewLookup
  <2>. HIDE DEF i
  <2>. QED
    BY <2>1, <2>2, <2>4 DEF ViewLookup
<1>15. Fits(r) /\ Mapped(r) = [nodes |-> ViewNodes(s.nodes, s.data), lookup |-> ViewLookup(M, F),
                               tree |-> s.tree, child |-> s.child, grams |-> s.grams,
                               lastID |-> s.lastID]
  BY <1>1, <1>3, <1>13, FitsRec
<1>16. Mapped(r) = i
  <2>1. /\ IsIndex(i) /\ i.nodes = ViewNodes(s.nodes, s.data)
        /\ i.tree = s.tree /\ i.child = s.child /\ i.grams = s.grams /\ i.lastID = s.lastID
    BY MappedParts
  <2>. HIDE DEF i
  <2>2. i = [nodes |-> i.nodes, lookup |-> i.lookup, tree |-> i.tree, child |-> i.child,
             grams |-> i.grams, lastID |-> i.lastID]
    BY <2>1 DEF IsIndex
  <2>. QED
    BY <1>14, <1>15, <2>1, <2>2
<1>17. r.nodes = s.nodes /\ r.wdMap = s.wdMap /\ r.pathToWd = s.pathToWd /\ r.lastID = s.lastID
  BY <1>3, RecFields
<1>18. KeepsWatches(s, r)
  BY <1>17, FrameKeeps DEF Frame
<1>. QED
  BY <1>1, <1>15, <1>16, <1>18 DEF StoreInv

\* Both together.
LEMMA MapsStep ==
  ASSUME NEW s, Bedded(s), Led(s), NoZero(s), NEW keys,
         NEW r \in RebuildAllMaps(UpdatePathToWd(s, keys))
  PROVE  StoreInv(r) /\ Mapped(r) = Mapped(s) /\ (Carried(s, keys) => Watched(r))
<1>. DEFINE u == UpdatePathToWd(s, keys)
<1>1. /\ Bedded(u) /\ Led(u) /\ NoZero(u) /\ Mapped(u) = Mapped(s)
      /\ Carried(s, keys) => Watched(u)
  BY WatchesStep
<1>. HIDE DEF u
<1>2. r \in RebuildAllMaps(u)
  BY DEF u
<1>. QED
  BY <1>1, <1>2, RebuildStep DEF KeepsWatches

\* The empty store.
LEMMA EmptyStep == StoreInv(EmptyStore) /\ Mapped(EmptyStore) = EmptyIndex
<1>. DEFINE s == EmptyStore
<1>1. s = Rec(<<>>, <<>>, <<>>, <<>>, <<>>, {}, 0, <<>>, <<>>, <<>>)
  BY DEF EmptyStore, Rec
<1>2. DOMAIN <<>> = {}
  OBVIOUS
<1>3. Sound(<<>>, <<>>, <<>>, <<>>)
  <2>1. <<>> \in Path
    BY DEF Path
  <2>. QED
    BY <1>2, <2>1 DEF Sound, NodesFit, Resolves
<1>4. Fits(s) /\ Mapped(s) = [nodes |-> ViewNodes(<<>>, <<>>), lookup |-> ViewLookup(<<>>, <<>>),
                              tree |-> <<>>, child |-> <<>>, grams |-> {}, lastID |-> 0]
  <2>1. DOMAIN <<>> \subseteq Id
    BY <1>2
  <2>. QED
    BY <1>1, <1>3, <2>1, FitsRec
<1>5. ViewNodes(<<>>, <<>>) = <<>> /\ ViewLookup(<<>>, <<>>) = <<>>
  BY <1>2 DEF ViewNodes, ViewLookup
<1>6. Mapped(s) = EmptyIndex
  BY <1>4, <1>5 DEF EmptyIndex
<1>7. Rooted(EmptyIndex)
  BY <1>2 DEF EmptyIndex, Rooted, Acyclic
<1>. QED
  BY <1>4, <1>6, <1>7, EmptyInv, EmptyTied DEF StoreInv, Healthy

-----------------------------------------------------------------------------
(* The invariant.                                                          *)

\* Between two sections the store is sound; in the middle of Compact only its
\* nodes are, and every path still leads, through the old keys, to its node;
\* after a race the block is all that can be relied on.
StoreTrue ==
  /\ up \in BOOLEAN /\ races \subseteq {"stranded", "zero", "torn"}
  /\ Bedded(st)
  /\ races = {} => IF moved = NoMove THEN Fits(st) ELSE Led(st) /\ NoZero(st)

\* At rest the invariant is what the handlers need.
LEMMA Settled ==
  ASSUME NEW s
  PROVE  /\ StoreInv(s) => Bedded(s) /\ Fits(s)
         /\ Bedded(s) /\ Fits(s) => StoreInv(s)
  BY DEF StoreInv, Bedded, Fits, Sound

\* It holds at first.
LEMMA StoreTrueInit == Init => StoreTrue
<1>. SUFFICES ASSUME Init PROVE StoreTrue
  OBVIOUS
<1>1. PICK t \in Times : st = StoreUpsertDir(EmptyStore, Root, t)
  BY DEF Init
<1>2. Reachable(EmptyStore, Root) /\ t \in Int
  BY StoreAssumption DEF Reachable, EmptyStore
<1>3. StoreInv(st)
  BY <1>1, <1>2, EmptyStep, UpsertDirStep
<1>. QED
  BY <1>3, Settled DEF StoreTrue, Init

\* A path that callers name, at any store.
LEMMA PathsReachable ==
  \A s, p : p \in Paths => Reachable(s, p) /\ p \in Path /\ p # <<>>
<1>. SUFFICES ASSUME NEW s, NEW p \in Paths PROVE Reachable(s, p) /\ p \in Path /\ p # <<>>
  OBVIOUS
<1>1. p \in Path /\ Len(p) > 1
  BY StoreAssumption
<1>2. p # <<>>
  <2>1. Len(<<>>) = 0
    BY EmptySeq
  <2>. SUFFICES ASSUME p = <<>> PROVE FALSE
    OBVIOUS
  <2>. QED
    BY <1>1, <2>1
<1>. QED
  BY <1>1, <1>2 DEF Reachable

\* What one section of a handler does, on the store and on the index.
LEMMA HandleStep ==
  ASSUME StoreTrue, NEW outcomes, Handle(outcomes), \A r \in outcomes : StoreInv(r)
  PROVE  StoreTrue'
<1>1. up \in BOOLEAN /\ races = {} /\ moved = NoMove /\ Bedded(st) /\ Fits(st)
  BY DEF Handle, Free, StoreTrue
<1>2. races' = {} /\ moved' = NoMove
  BY <1>1 DEF Handle
<1>3. CASE outcomes = {}
  BY <1>1, <1>2, <1>3 DEF Handle, StoreTrue
<1>4. CASE outcomes # {}
  <2>1. StoreInv(st') /\ up' \in BOOLEAN
    BY <1>1, <1>4 DEF Handle
  <2>2. Bedded(st') /\ Fits(st')
    BY <2>1, Settled
  <2>. QED
    BY <1>2, <2>1, <2>2 DEF StoreTrue
<1>. QED
  BY <1>3, <1>4

-----------------------------------------------------------------------------
(* FileIndex's operators.                                                  *)

\* The operators of FileIndex, seen through the instance, are those of IndexOps.
LEMMA SameMaps ==
  /\ \A m, x, v : Index!Put(m, x, v) = Put(m, x, v)
  /\ \A m, S : Index!Without(m, S) = Without(m, S)
  /\ \A m, x : Index!At(m, x) = At(m, x)
  /\ Index!NoId = NoId /\ Index!NoName = NoName /\ Index!ZeroNode = ZeroNode
  /\ Index!EmptyIndex = EmptyIndex
  /\ \A n, b : Index!SetRealID(n, b) = SetRealID(n, b)
  /\ \A id : Index!IsDir(id) = IsDir(id)
  /\ \A p : Index!Dir(p) = Dir(p) /\ Index!Base(p) = Base(p)
  /\ \A p, q : Index!IsPrefix(p, q) = IsPrefix(p, q)
  /\ \A p, old, new : Index!Rebase(p, old, new) = Rebase(p, old, new)
  BY DEF Index!Put, Put, Index!Without, Without, Index!At, At, Index!NoId, NoId, Index!NoName, NoName,
     Index!ZeroNode, ZeroNode, Index!EmptyIndex, EmptyIndex, Index!SetRealID, SetRealID,
     Index!IsDir, IsDir, Index!Dir, Dir, Index!Base, Base, Index!IsPrefix, IsPrefix,
     Index!Rebase, Rebase

LEMMA SameReach ==
  /\ \A start, succ : Index!Reach(start, succ) = Reach(start, succ)
  /\ \A child, id : Index!Ancestors(child, id) = Ancestors(child, id)
<1>1. \A T, succ : Index!Spread(T, succ) = Spread(T, succ) /\ Index!Closed(T, succ) = Closed(T, succ)
  BY DEF Index!Spread, Spread, Index!Closed, Closed
<1>2. \A start, succ : Index!Reach(start, succ) = Reach(start, succ)
  BY <1>1 DEF Index!Reach, Reach
<1>. QED
  BY <1>2 DEF Index!Ancestors, Ancestors

LEMMA SameHelpers ==
  /\ \A nodes, child, id, delta :
       Index!UpsertParentSize(nodes, child, id, delta) = UpsertParentSize(nodes, child, id, delta)
  /\ \A i, p : Index!LookupId(i, p) = LookupId(i, p)
  /\ \A name : Index!NameGrams(name) = NameGrams(name)
  /\ \A grams, name, id : Index!AddToIndex(grams, name, id) = AddToIndex(grams, name, id)
                          /\ Index!RemoveFromIndex(grams, name, id) = RemoveFromIndex(grams, name, id)
  /\ \A tree, parent, id : Index!Link(tree, parent, id) = Link(tree, parent, id)
                           /\ Index!Unlink(tree, parent, id) = Unlink(tree, parent, id)
  /\ \A parent, p, size, t : Index!NewNode(parent, p, size, t) = NewNode(parent, p, size, t)
  /\ \A name, t : Index!InvalidNode(name, t) = InvalidNode(name, t)
<1>1. \A nodes, child, id, delta :
        Index!UpsertParentSize(nodes, child, id, delta) = UpsertParentSize(nodes, child, id, delta)
  BY SameMaps, SameReach DEF Index!UpsertParentSize, UpsertParentSize
<1>2. \A i, p : Index!LookupId(i, p) = LookupId(i, p)
  BY SameMaps DEF Index!LookupId, LookupId
<1>3. \A name : Index!NameGrams(name) = NameGrams(name)
  BY DEF Index!NameGrams, NameGrams
<1>4. \A grams, name, id : Index!AddToIndex(grams, name, id) = AddToIndex(grams, name, id)
                          /\ Index!RemoveFromIndex(grams, name, id) = RemoveFromIndex(grams, name, id)
  BY <1>3 DEF Index!AddToIndex, AddToIndex, Index!RemoveFromIndex, RemoveFromIndex
<1>5. \A tree, parent, id : Index!Link(tree, parent, id) = Link(tree, parent, id)
                           /\ Index!Unlink(tree, parent, id) = Unlink(tree, parent, id)
  BY SameMaps DEF Index!Link, Link, Index!Unlink, Unlink
<1>6. \A parent, p, size, t : Index!NewNode(parent, p, size, t) = NewNode(parent, p, size, t)
  BY SameMaps DEF Index!NewNode, NewNode
<1>7. \A name, t : Index!InvalidNode(name, t) = InvalidNode(name, t)
  BY SameMaps DEF Index!InvalidNode, InvalidNode
<1>. QED
  BY <1>1, <1>2, <1>3, <1>4, <1>5, <1>6, <1>7

LEMMA SameHandlers ==
  /\ \A i, p, b, size, t : Index!Insert(i, p, b, size, t) = Insert(i, p, b, size, t)
  /\ \A i, p, info : Index!Upsert(i, p, info) = Upsert(i, p, info)
  /\ \A i, p, t : Index!UpsertDir(i, p, t) = UpsertDir(i, p, t)
  /\ \A i, name, t : Index!SaveName(i, name, t) = SaveName(i, name, t)
  /\ \A i, id : Index!DeleteInvalid(i, id) = DeleteInvalid(i, id)
<1>1. \A i, p, b, size, t : Index!Insert(i, p, b, size, t) = Insert(i, p, b, size, t)
  BY SameMaps, SameHelpers DEF Index!Insert, Insert
<1>2. \A i, p, info : Index!Upsert(i, p, info) = Upsert(i, p, info)
  BY <1>1, SameMaps, SameHelpers DEF Index!Upsert, Upsert
<1>3. \A i, p, t : Index!UpsertDir(i, p, t) = UpsertDir(i, p, t)
  BY <1>1, SameMaps, SameHelpers DEF Index!UpsertDir, UpsertDir
<1>4. \A i, name, t : Index!SaveName(i, name, t) = SaveName(i, name, t)
  BY SameMaps, SameHelpers DEF Index!SaveName, SaveName
<1>5. \A i, id : Index!DeleteInvalid(i, id) = DeleteInvalid(i, id)
  BY SameMaps, SameHelpers DEF Index!DeleteInvalid, DeleteInvalid
<1>. QED
  BY <1>1, <1>2, <1>3, <1>4, <1>5

LEMMA SameRemove == \A i, p, isDir : Index!Remove(i, p, isDir) = Remove(i, p, isDir)
<1>1. \A i, id : Index!WalkDeleted(i, id) = WalkDeleted(i, id)
  BY SameMaps, SameReach DEF Index!WalkDeleted, WalkDeleted
<1>2. \A i, id : Index!RemoveDir(i, id) = RemoveDir(i, id)
  BY <1>1, SameMaps, SameHelpers DEF Index!RemoveDir, RemoveDir
<1>3. \A i, id, p : Index!RemoveFile(i, id, p) = RemoveFile(i, id, p)
  BY SameMaps, SameHelpers DEF Index!RemoveFile, RemoveFile
<1>. QED
  BY <1>2, <1>3 DEF Index!Remove, Remove

\* The moved subtree, given where its nodes go and which lookups stay.
Shifted(i, K, target, kept) ==
  {[i EXCEPT !.nodes = [x \in DOMAIN @ |-> IF x \in K THEN [@[x] EXCEPT !.path = target[x]]
                                            ELSE @[x]],
             !.lookup = [q \in DOMAIN kept \cup DOMAIN own |->
                           IF q \in DOMAIN own THEN own[q] ELSE kept[q]]]
     : own \in {own \in [{target[c] : c \in K} -> K] : \A q \in DOMAIN own : target[own[q]] = q}}

LEMMA SameMovePaths ==
  \A i, K, old, new : Index!MovePaths(i, K, old, new) = MovePaths(i, K, old, new)
<1>. SUFFICES ASSUME NEW i, NEW K, NEW old, NEW new
              PROVE  Index!MovePaths(i, K, old, new) = MovePaths(i, K, old, new)
  OBVIOUS
<1>. DEFINE t1 == [c \in K |-> Index!Rebase(i.nodes[c].path, old, new)]
            t2 == [c \in K |-> Rebase(i.nodes[c].path, old, new)]
            k1 == Index!Without(i.lookup, {i.nodes[c].path : c \in K})
            k2 == Without(i.lookup, {i.nodes[c].path : c \in K})
<1>1. Index!MovePaths(i, K, old, new) = Shifted(i, K, t1, k1)
  BY DEF Index!MovePaths, Shifted
<1>2. MovePaths(i, K, old, new) = Shifted(i, K, t2, k2)
  BY DEF MovePaths, Shifted
<1>3. t1 = t2 /\ k1 = k2
  BY SameMaps
<1>. HIDE DEF t1, t2, k1, k2
<1>. QED
  BY <1>1, <1>2, <1>3

LEMMA SameAttach ==
  \A i, id, new, t : Index!Attach(i, id, new, t) = Attach(i, id, new, t)
<1>. SUFFICES ASSUME NEW i, NEW id, NEW new, NEW t
              PROVE  Index!Attach(i, id, new, t) = Attach(i, id, new, t)
  OBVIOUS
<1>. DEFINE N(parent, b) == [i.nodes EXCEPT ![id] =
                               [@ EXCEPT !.parent = parent, !.mtime = t, !.path = new, !.name = b]]
            p1 == i.lookup[Index!Dir(new)]
            p2 == i.lookup[Dir(new)]
            n1 == N(p1, Index!Base(new))
            n2 == N(p2, Base(new))
<1>1. Index!Attach(i, id, new, t) =
        [nodes |-> n1, lookup |-> Index!Put(i.lookup, new, id), tree |-> Index!Link(i.tree, p1, id),
         child |-> Index!Put(i.child, id, p1), grams |-> i.grams, lastID |-> i.lastID]
  BY DEF Index!Attach
<1>2. Attach(i, id, new, t) =
        [nodes |-> n2, lookup |-> Put(i.lookup, new, id), tree |-> Link(i.tree, p2, id),
         child |-> Put(i.child, id, p2), grams |-> i.grams, lastID |-> i.lastID]
  BY DEF Attach
<1>3. Index!Dir(new) = Dir(new) /\ Index!Base(new) = Base(new)
  BY SameMaps
<1>4. p1 = p2
  BY <1>3
<1>. HIDE DEF N, p1, p2
<1>5. n1 = n2
  BY <1>3, <1>4
<1>. HIDE DEF n1, n2
<1>. QED
  BY <1>1, <1>2, <1>4, <1>5, SameMaps, SameHelpers

LEMMA SameRename == \A i, old, new, t : Index!RenameNode(i, old, new, t) = RenameNode(i, old, new, t)
<1>1. \A i, id, old : Index!Detach(i, id, old) = Detach(i, id, old)
  BY SameMaps, SameHelpers DEF Index!Detach, Detach
<1>2. \A tree, id : Index!Renamed(tree, id) = Renamed(tree, id)
  BY SameMaps, SameReach DEF Index!Renamed, Renamed
<1>3. \A i, K, old : Index!SliceFails(i, K, old) = SliceFails(i, K, old)
  BY DEF Index!SliceFails, SliceFails
<1>4. \A i, id : Index!Settle(i, id) = Settle(i, id)
  BY SameHelpers DEF Index!Settle, Settle
<1>. SUFFICES ASSUME NEW i, NEW old, NEW new, NEW t
              PROVE  Index!RenameNode(i, old, new, t) = RenameNode(i, old, new, t)
  OBVIOUS
<1>. DEFINE id == i.lookup[old]
            off1 == Index!Detach(i, id, old)
            off2 == Detach(i, id, old)
            on1 == Index!Attach(off1, id, new, t)
            on2 == Attach(off2, id, new, t)
            K1 == Index!Renamed(on1.tree, id)
            K2 == Renamed(on2.tree, id)
            M1 == Index!MovePaths(on1, K1, old, new)
            M2 == MovePaths(on2, K2, old, new)
            R1 == {Index!Settle(r, id) : r \in M1}
            R2 == {Settle(r, id) : r \in M2}
<1>5. Index!RenameNode(i, old, new, t) =
        IF old \notin DOMAIN i.lookup THEN {i}
        ELSE IF Index!Dir(new) \notin DOMAIN off1.lookup THEN {off1}
        ELSE IF Index!SliceFails(on1, K1, old) \/ id \in Index!Ancestors(on1.child, id) THEN {}
        ELSE R1
  BY DEF Index!RenameNode
<1>6. RenameNode(i, old, new, t) =
        IF old \notin DOMAIN i.lookup THEN {i}
        ELSE IF Dir(new) \notin DOMAIN off2.lookup THEN {off2}
        ELSE IF SliceFails(on2, K2, old) \/ id \in Ancestors(on2.child, id) THEN {}
        ELSE R2
  BY DEF RenameNode
<1>. HIDE DEF id
<1>7. off1 = off2
  BY <1>1
<1>. HIDE DEF off1, off2
<1>8. on1 = on2
  BY <1>7, SameAttach
<1>. HIDE DEF on1, on2
<1>9. K1 = K2
  BY <1>2, <1>8
<1>. HIDE DEF K1, K2
<1>10. M1 = M2
  BY <1>8, <1>9, SameMovePaths
<1>. HIDE DEF M1, M2
<1>11. R1 = R2
  BY <1>4, <1>10
<1>. HIDE DEF R1, R2
<1>12. Index!Dir(new) = Dir(new)
  BY SameMaps
<1>13. Index!SliceFails(on1, K1, old) <=> SliceFails(on2, K2, old)
  BY <1>3, <1>8, <1>9
<1>14. Index!Ancestors(on1.child, id) = Ancestors(on2.child, id)
  BY <1>8, SameReach
<1>. QED
  BY <1>5, <1>6, <1>7, <1>11, <1>12, <1>13, <1>14

\* A section of a handler that has one outcome.
LEMMA OneOutcome ==
  ASSUME StoreTrue, NEW r, Handle({r}), StoreInv(r)
  PROVE  /\ StoreTrue' /\ st' = r /\ up /\ up' = up
<1>1. StoreTrue'
  <2>1. \A q \in {r} : StoreInv(q)
    OBVIOUS
  <2>. QED
    BY <2>1, HandleStep
<1>2. st' = r /\ up /\ up' = up
  BY DEF Handle, Free
<1>. QED
  BY <1>1, <1>2

-----------------------------------------------------------------------------
(* Every step keeps the invariant and is a step of the index.              *)

\* A handler runs only on a store at rest.
LEMMA AtRest ==
  ASSUME StoreTrue, NEW outcomes, Handle(outcomes)
  PROVE  StoreInv(st) /\ up /\ Mapped(st).lastID = st.lastID /\ races' = {}
<1>1. races = {} /\ moved = NoMove /\ up /\ races' = races
  BY DEF Handle, Free
<1>2. Fits(st) /\ Bedded(st)
  BY <1>1 DEF StoreTrue
<1>. QED
  BY <1>1, <1>2, Settled, MappedParts

\* Each call keeps the invariant and is the index's call of that name.
LEMMA UpsertNext ==
  ASSUME StoreTrue, NEW p \in Paths, NEW info \in Index!Info, UpsertCall(p, info)
  PROVE  StoreTrue' /\ KeepsWatches(st, st') /\ Index!UpsertCall(p, info)
<1>1. Handle({StoreUpsert(st, p, info)})
  BY DEF UpsertCall
<1>2. StoreInv(st) /\ up /\ Mapped(st).lastID = st.lastID
  BY <1>1, AtRest
<1>3. info.dir \in BOOLEAN /\ info.size \in Int /\ info.mtime \in Int
  <2>1. info.dir \in BOOLEAN
    BY DEF Index!Info
  <2>2. info.size \in Sizes /\ info.mtime \in Times
    BY DEF Index!Info
  <2>3. \A n \in Sizes : n \in Int
    BY StoreAssumption
  <2>4. \A n \in Times : n \in Int
    BY StoreAssumption
  <2>. QED
    BY <2>1, <2>2, <2>3, <2>4
<1>. DEFINE r == StoreUpsert(st, p, info)
<1>4. StoreInv(r) /\ KeepsWatches(st, r) /\ Mapped(r) = Upsert(Mapped(st), p, info)
  <2>1. Reachable(st, p)
    BY PathsReachable
  <2>. QED
    BY <1>2, <1>3, <2>1, UpsertStep
<1>. HIDE DEF r
<1>5. StoreTrue' /\ st' = r /\ up' = up
  BY <1>1, <1>4, OneOutcome DEF r
<1>6. Mapped(st)' = Mapped(r)
  BY <1>5
<1>7. Mapped(st)' = Index!Upsert(Mapped(st), p, info)
  BY <1>4, <1>6, SameHandlers
<1>. QED
  BY <1>2, <1>4, <1>5, <1>7 DEF UpsertCall, Index!UpsertCall

LEMMA UpsertDirNext ==
  ASSUME StoreTrue, NEW p \in Paths, NEW t \in Times, UpsertDirCall(p, t)
  PROVE  /\ StoreTrue' /\ Index!UpsertDirCall(p, t)
         /\ FindsDir(Mapped(st), p) => KeepsWatches(st, st')
<1>1. Handle({StoreUpsertDir(st, p, t)})
  BY DEF UpsertDirCall
<1>2. StoreInv(st) /\ up /\ Mapped(st).lastID = st.lastID
  BY <1>1, AtRest
<1>3. t \in Int
  BY StoreAssumption
<1>. DEFINE r == StoreUpsertDir(st, p, t)
<1>4. /\ StoreInv(r) /\ Mapped(r) = UpsertDir(Mapped(st), p, t)
      /\ FindsDir(Mapped(st), p) => KeepsWatches(st, r)
  BY <1>2, <1>3, PathsReachable, UpsertDirStep
<1>. HIDE DEF r
<1>5. StoreTrue' /\ st' = r /\ up' = up
  BY <1>1, <1>4, OneOutcome DEF r
<1>6. Mapped(st)' = Index!UpsertDir(Mapped(st), p, t)
  BY <1>4, <1>5, SameHandlers
<1>. QED
  BY <1>2, <1>4, <1>5, <1>6 DEF UpsertDirCall, Index!UpsertDirCall

LEMMA RemoveNext ==
  ASSUME StoreTrue, NEW p \in Paths, NEW isDir, RemoveCall(p, isDir)
  PROVE  StoreTrue' /\ KeepsWatches(st, st') /\ Index!RemoveCall(p, isDir)
<1>1. Handle({StoreRemove(st, p, isDir)})
  BY DEF RemoveCall
<1>2. StoreInv(st) /\ up
  BY <1>1, AtRest
<1>. DEFINE r == StoreRemove(st, p, isDir)
<1>4. StoreInv(r) /\ KeepsWatches(st, r) /\ Mapped(r) = Remove(Mapped(st), p, isDir)
  BY <1>2, PathsReachable, RemoveStep
<1>. HIDE DEF r
<1>5. StoreTrue' /\ st' = r /\ up' = up
  BY <1>1, <1>4, OneOutcome DEF r
<1>6. Mapped(st)' = Index!Remove(Mapped(st), p, isDir)
  BY <1>4, <1>5, SameRemove
<1>. QED
  BY <1>2, <1>4, <1>5, <1>6 DEF RemoveCall, Index!RemoveCall

LEMMA NameNext ==
  ASSUME StoreTrue, NEW name \in HandNames, NEW t \in Times, SaveNameCall(name, t)
  PROVE  StoreTrue' /\ KeepsWatches(st, st') /\ Index!SaveNameCall(name, t)
<1>1. Handle({StoreName(st, name, t)})
  BY DEF SaveNameCall
<1>2. StoreInv(st) /\ up /\ Mapped(st).lastID = st.lastID
  BY <1>1, AtRest
<1>3. t \in Int /\ name \in Names
  BY StoreAssumption
<1>. DEFINE r == StoreName(st, name, t)
<1>4. StoreInv(r) /\ KeepsWatches(st, r) /\ Mapped(r) = SaveName(Mapped(st), name, t)
  BY <1>2, <1>3, NameStep
<1>. HIDE DEF r
<1>5. StoreTrue' /\ st' = r /\ up' = up
  BY <1>1, <1>4, OneOutcome DEF r
<1>6. Mapped(st)' = Index!SaveName(Mapped(st), name, t)
  BY <1>4, <1>5, SameHandlers
<1>. QED
  BY <1>2, <1>4, <1>5, <1>6 DEF SaveNameCall, Index!SaveNameCall

LEMMA DropNameNext ==
  ASSUME StoreTrue, NEW id \in DOMAIN st.nodes, DeleteInvalidCall(id)
  PROVE  StoreTrue' /\ KeepsWatches(st, st') /\ Index!DeleteInvalidCall(id) /\ id \in DOMAIN Mapped(st).nodes
<1>1. Handle({StoreDropName(st, id)})
  BY DEF DeleteInvalidCall
<1>2. StoreInv(st) /\ up
  BY <1>1, AtRest
<1>. DEFINE r == StoreDropName(st, id)
<1>4. StoreInv(r) /\ KeepsWatches(st, r) /\ Mapped(r) = DeleteInvalid(Mapped(st), id)
  BY <1>2, DropNameStep
<1>. HIDE DEF r
<1>5. StoreTrue' /\ st' = r /\ up' = up
  BY <1>1, <1>4, OneOutcome DEF r
<1>6. Mapped(st)' = Index!DeleteInvalid(Mapped(st), id)
  BY <1>4, <1>5, SameHandlers
<1>7. id \in DOMAIN Mapped(st).nodes
  BY <1>2, StoreFacts
<1>. QED
  BY <1>2, <1>4, <1>5, <1>6, <1>7 DEF DeleteInvalidCall, Index!DeleteInvalidCall

LEMMA RenameNext ==
  ASSUME StoreTrue, NEW m \in Index!Renames, NEW t \in Times, RenameCall(m[1], m[2], t)
  PROVE  StoreTrue' /\ KeepsWatches(st, st') /\ Index!RenameCall(m[1], m[2], t)
<1>. DEFINE old == m[1]
            new == m[2]
            Res == StoreRename(st, old, new, t)
            Out == RenameNode(Mapped(st), old, new, t)
<1>1. Handle(Res)
  BY DEF RenameCall
<1>2. StoreInv(st) /\ up
  BY <1>1, AtRest
<1>3. t \in Int /\ old \in Paths /\ new \in Paths /\ ~IsPrefix(old, new) /\ ~IsPrefix(new, old)
  BY StoreAssumption, SameMaps DEF Index!Renames
<1>4. Reachable(st, new) /\ old \in Path /\ old # <<>>
  BY <1>3, PathsReachable
<1>. HIDE DEF old, new
<1>5. /\ Res = {} => Out = {}
      /\ \A r \in Res : StoreInv(r) /\ Mapped(r) \in Out /\ KeepsWatches(st, r)
  BY <1>2, <1>3, <1>4, RenameStep
<1>6. old \in DOMAIN Mapped(st).lookup =>
        GetPathOff(st, old) # NoKey /\ IdAt(st, GetPathOff(st, old)) = Mapped(st).lookup[old]
  BY <1>2, <1>4, KnownFacts DEF StoreInv
<1>7. old \in DOMAIN Mapped(st).lookup => Index!IsDir(Mapped(st).lookup[old]) \in KindsOf[new]
  BY <1>6, SameMaps DEF RenameCall, old, new
<1>8. Out = Index!RenameNode(Mapped(st), old, new, t)
  BY SameRename
<1>9. StoreTrue'
  <2>. HIDE DEF Res
  <2>. QED
    BY <1>1, <1>5, HandleStep
<1>10. /\ IF Out = {} THEN up' = FALSE /\ Mapped(st)' = Mapped(st) ELSE Mapped(st)' \in Out /\ up' = up
       /\ KeepsWatches(st, st')
  <2>. HIDE DEF Out
  <2>1. CASE Res = {}
    <3>1. st' = st /\ up' = FALSE
      BY <1>1, <2>1 DEF Handle
    <3>. QED
      BY <1>5, <2>1, <3>1 DEF KeepsWatches
  <2>2. CASE Res # {}
    <3>1. st' \in Res /\ up' = up
      BY <1>1, <2>2 DEF Handle
    <3>. HIDE DEF Res
    <3>. QED
      BY <1>5, <3>1
  <2>. QED
    BY <2>1, <2>2
<1>. HIDE DEF Out
<1>. QED
  BY <1>2, <1>7, <1>8, <1>9, <1>10 DEF Index!RenameCall, old, new

\* Compact, seen from the index, does nothing.
LEMMA BlockNext ==
  ASSUME StoreTrue, Free, NEW order \in Rounds(DOMAIN st.nodes), CompactBlock(order)
  PROVE  /\ StoreTrue' /\ UNCHANGED <<Mapped(st), up>>
         /\ races' = {} /\ Watched(st) => Carried(st', moved')
<1>. DEFINE new == Rewritten(st, order)
            keys == [key \in {PathKey(st.nodes[id]) : id \in Pathed(st)} |->
                       PathKey(new.nodes[CHOOSE id \in Pathed(st) : PathKey(st.nodes[id]) = key])]
<1>1. StoreInv(st) /\ up \in BOOLEAN /\ races = {}
  BY Settled DEF StoreTrue, Free
<1>2. /\ Bedded(new) /\ Mapped(new) = Mapped(st)
      /\ Stranded(st) = {} => Led(new)
      /\ Stranded(st) = {} /\ (\A key \in DOMAIN keys : keys[key] # NoKey) => NoZero(new)
      /\ keys = NoMove => Fits(new)
      /\ Stranded(st) = {} /\ Watched(st) => Carried(new, keys)
  BY <1>1, BlockStep
<1>3. /\ st' = new /\ moved' = keys /\ up' = up
      /\ races' = races \cup (IF Stranded(st) # {} THEN {"stranded"} ELSE {})
                        \cup (IF \E key \in DOMAIN keys : keys[key] = NoKey THEN {"zero"} ELSE {})
  BY DEF CompactBlock
<1>. HIDE DEF new, keys
<1>4. races' \subseteq {"stranded", "zero", "torn"}
  BY <1>1, <1>3
<1>5. ASSUME races' = {}
      PROVE  Stranded(st) = {} /\ \A key \in DOMAIN keys : keys[key] # NoKey
  BY <1>3, <1>5
<1>6. races' = {} => IF moved' = NoMove THEN Fits(st') ELSE Led(st') /\ NoZero(st')
  BY <1>2, <1>3, <1>5
<1>7. StoreTrue'
  BY <1>1, <1>2, <1>3, <1>4, <1>6 DEF StoreTrue
<1>8. Mapped(st)' = Mapped(st)
  BY <1>2, <1>3
<1>9. races' = {} /\ Watched(st) => Carried(st', moved')
  BY <1>2, <1>3, <1>5
<1>. QED
  BY <1>3, <1>7, <1>8, <1>9

\* The second half of Compact.
LEMMA MapsNext ==
  ASSUME StoreTrue, CompactMaps
  PROVE  /\ StoreTrue' /\ UNCHANGED <<Mapped(st), up>>
         /\ Carried(st, moved) => Watched(st')
<1>1. Bedded(st) /\ Led(st) /\ NoZero(st) /\ up \in BOOLEAN /\ races = {}
  BY DEF StoreTrue, CompactMaps
<1>2. /\ st' \in RebuildAllMaps(UpdatePathToWd(st, moved)) /\ moved' = NoMove
      /\ up' = up /\ races' = races
  BY DEF CompactMaps
<1>3. StoreInv(st') /\ Mapped(st') = Mapped(st) /\ (Carried(st, moved) => Watched(st'))
  BY <1>1, <1>2, MapsStep
<1>4. Bedded(st') /\ Fits(st')
  BY <1>3, Settled
<1>5. StoreTrue'
  BY <1>1, <1>2, <1>4 DEF StoreTrue
<1>6. Mapped(st)' = Mapped(st)
  BY <1>3
<1>. QED
  BY <1>2, <1>3, <1>5, <1>6

\* The event loop changes neither the store nor, without a race, anything else.
LEMMA ReaderNext ==
  ASSUME StoreTrue
  PROVE  /\ \A wd : TakeKey(wd) => StoreTrue' /\ UNCHANGED <<Mapped(st), up>>
         /\ ReadPath => StoreTrue' /\ (races' # {} \/ UNCHANGED <<Mapped(st), up>>)
<1>1. ASSUME NEW wd, TakeKey(wd) PROVE StoreTrue' /\ UNCHANGED <<Mapped(st), up>>
  <2>1. st' = st /\ up' = up /\ moved' = moved /\ races' = races
    BY <1>1 DEF TakeKey
  <2>. QED
    BY <2>1 DEF StoreTrue
<1>2. ASSUME ReadPath PROVE StoreTrue' /\ (races' # {} \/ UNCHANGED <<Mapped(st), up>>)
  <2>. DEFINE fits == InBlock(st.data, reader.key[1], reader.key[2])
              true == GetPathUint64(st.data, reader.key) = reader.path
  <2>1. /\ races = {} /\ up = TRUE /\ st' = st /\ moved' = moved /\ up' = fits
        /\ races' = IF fits /\ true THEN races ELSE races \cup {"torn"}
    BY <1>2 DEF ReadPath, StoreTrue
  <2>2. fits \in BOOLEAN
    BY DEF InBlock
  <2>. HIDE DEF fits, true
  <2>3. races' # {} \/ (up' = up /\ Mapped(st)' = Mapped(st))
    BY <2>1, <2>2
  <2>4. StoreTrue'
    BY <2>1, <2>2 DEF StoreTrue
  <2>. QED
    BY <2>3, <2>4
<1>. QED
  BY <1>1, <1>2

\* Every step, then.
LEMMA StoreNext ==
  ASSUME StoreTrue, [Next]_vars
  PROVE  StoreTrue' /\ [Index!Next \/ races' # {}]_<<Mapped(st), up>>
<1>1. ASSUME NEW p \in Paths, NEW info \in Index!Info, UpsertCall(p, info)
      PROVE  StoreTrue' /\ Index!Next
  BY <1>1, UpsertNext DEF Index!Next
<1>2. ASSUME NEW p \in Paths, NEW t \in Times, UpsertDirCall(p, t)
      PROVE  StoreTrue' /\ Index!Next
  BY <1>2, UpsertDirNext DEF Index!Next
<1>3. ASSUME NEW p \in Paths, NEW isDir \in BOOLEAN, RemoveCall(p, isDir)
      PROVE  StoreTrue' /\ Index!Next
  BY <1>3, RemoveNext DEF Index!Next
<1>4. ASSUME NEW m \in Index!Renames, NEW t \in Times, RenameCall(m[1], m[2], t)
      PROVE  StoreTrue' /\ Index!Next
  BY <1>4, RenameNext DEF Index!Next
<1>5. ASSUME NEW name \in HandNames, NEW t \in Times, SaveNameCall(name, t)
      PROVE  StoreTrue' /\ Index!Next
  BY <1>5, NameNext DEF Index!Next
<1>6. ASSUME NEW id \in DOMAIN st.nodes, DeleteInvalidCall(id)
      PROVE  StoreTrue' /\ Index!Next
  BY <1>6, DropNameNext DEF Index!Next
<1>7. ASSUME UNCHANGED vars
      PROVE  StoreTrue' /\ UNCHANGED <<Mapped(st), up>>
  BY <1>7 DEF vars, StoreTrue
<1>. QED
  BY <1>1, <1>2, <1>3, <1>4, <1>5, <1>6, <1>7, BlockNext, MapsNext, ReaderNext DEF Next

LEMMA StoreInductive == Spec => []StoreTrue
<1>1. StoreTrue /\ [Next]_vars => StoreTrue'
  BY StoreNext
<1>. QED
  BY <1>1, StoreTrueInit, PTL DEF Spec

-----------------------------------------------------------------------------
(* The theorems.                                                           *)

\* For any layout, any callers and any number of compactions: the maps keep
\* their types, and no offset or length ever leaves the block, whether a
\* handler or half of Compact has run (file_string_store.go:60-130).
THEOREM StoreTypes == Spec => []TypeOK
<1>1. StoreTrue => TypeOK
  <2>. SUFFICES ASSUME StoreTrue PROVE TypeOK
    OBVIOUS
  <2>1. Bedded(st) /\ IxInv(Mapped(st))
    BY DEF StoreTrue, Bedded, Healthy
  <2>2. ASSUME NEW id \in DOMAIN st.nodes
        PROVE  LET node == st.nodes[id]
               IN  /\ InBlock(st.data, node.pathOff, node.pathLen)
                   /\ InBlock(st.data, node.nameOff, node.nameLen)
    BY <2>1 DEF Bedded, NodesFit, NodeFits, InBlock
  <2>. QED
    BY <2>1, <2>2 DEF TypeOK, StoreTrue, IxInv, Bedded
<1>. QED
  BY <1>1, StoreInductive, PTL

\* Whenever neither half of Compact is missing, a path leads through both maps
\* to a node whose own bytes spell it and end in its name
\* (file_string_store.go:114-130, 197-215).
THEOREM KeysAlwaysResolve == Spec => []KeysResolve
<1>1. StoreTrue => KeysResolve
  <2>. SUFFICES ASSUME StoreTrue, moved = NoMove, races = {}
                PROVE  /\ \A p \in DOMAIN st.pathHash \ {<<>>} :
                            LET key == st.pathHash[p]
                            IN  /\ key \in DOMAIN st.pathMap
                                /\ st.pathMap[key] \in DOMAIN st.nodes
                                /\ PathKey(st.nodes[st.pathMap[key]]) = key
                                /\ GetPathUint64(st.data, key) = p
                       /\ \A id \in Pathed(st) \ {NoId} :
                            PathOf(st, id) # <<>> /\ NameOf(st, id) = Base(PathOf(st, id))
    BY DEF KeysResolve
  <2>1. Bedded(st) /\ Resolves(st.nodes, st.pathMap, st.pathHash, st.data)
    BY DEF StoreTrue, Fits, Sound
  <2>2. ASSUME NEW id \in Pathed(st) \ {NoId}
        PROVE  PathOf(st, id) # <<>> /\ NameOf(st, id) = Base(PathOf(st, id))
    <3>1. PathOf(st, id) = Spelled(st.data, st.nodes[id]) /\ NameOf(st, id) = Titled(st.data, st.nodes[id])
      BY DEF PathOf, Spelled, NameOf, Titled
    <3>2. id \in DOMAIN st.nodes /\ id # NoId /\ ~st.nodes[id].invalid
      BY DEF Pathed
    <3>. QED
      BY <2>1, <3>1, <3>2, BeddedFacts
  <2>. QED
    BY <2>1, <2>2 DEF Resolves
<1>. QED
  BY <1>1, StoreInductive, PTL

\* The refinement: whatever the offsets are, a handler on the store is that
\* handler on the index, and Compact, the event loop and the watch tables do
\* nothing to it, up to the step in which one of the named races happens.
THEOREM StoreImplementsIndex == Spec => ImplementsIndex
<1>1. Init => Index!Init
  <2>. SUFFICES ASSUME Init PROVE Index!Init
    OBVIOUS
  <2>1. PICK t \in Times : st = StoreUpsertDir(EmptyStore, Root, t)
    BY DEF Init
  <2>2. Reachable(EmptyStore, Root) /\ t \in Int
    BY StoreAssumption DEF Reachable, EmptyStore
  <2>3. Mapped(st) = UpsertDir(EmptyIndex, Root, t)
    BY <2>1, <2>2, EmptyStep, UpsertDirStep
  <2>4. Mapped(st) = Index!UpsertDir(Index!EmptyIndex, Root, t)
    BY <2>3, SameMaps, SameHandlers
  <2>. QED
    BY <2>4 DEF Init, Index!Init
<1>2. StoreTrue /\ [Next]_vars => [Index!Next \/ races' # {}]_<<Mapped(st), up>>
  BY StoreNext
<1>. QED
  BY <1>1, <1>2, StoreInductive, PTL DEF Spec, ImplementsIndex

-----------------------------------------------------------------------------
(* The watches.                                                            *)

\* As in FileIndexProofs: K tells the one kind a path ever has, callers find
\* it with that kind, what lies above a path is a directory, and moving a
\* directory changes the kind of nothing below it.
FixedKinds(K) ==
  /\ K \in [Path -> BOOLEAN]
  /\ \A p \in Paths : KindsOf[p] \subseteq {K[p]}
  /\ K[Root]
  /\ \A p \in Paths \cup {Root} : Len(p) > 1 => K[Dir(p)]
  /\ \A m \in Index!Renames : \A p \in Path :
       Len(p) > Len(m[1]) /\ IsPrefix(m[1], p) => K[Rebase(p, m[1], m[2])] = K[p]

\* Then every step of the index leaves each node of the kind of its path.
LEMMA IndexKinds ==
  ASSUME NEW K, FixedKinds(K), IxInv(Mapped(st)), TiedIndex(Mapped(st)),
         KindsFit(Mapped(st).nodes, Mapped(st).tree, K), Index!Next
  PROVE  KindsFit(Mapped(st)'.nodes, Mapped(st)'.tree, K)
<1>. DEFINE i == Mapped(st)
            j == Mapped(st)'
            Fit == KindsFit(j.nodes, j.tree, K)
<1>0. /\ \A p \in Paths : p \in Path /\ p # <<>>
      /\ Times \subseteq Int /\ Sizes \subseteq Int /\ HandNames \subseteq Names
  BY StoreAssumption, PathsReachable
<1>1. IxInv(i) /\ TiedIndex(i) /\ KindsFit(i.nodes, i.tree, K)
  OBVIOUS
<1>3. \A p \in Paths : Len(p) > 1 => K[Dir(p)]
  BY DEF FixedKinds
<1>4. \A p \in Paths : \A b \in KindsOf[p] : K[p] = b
  BY DEF FixedKinds
<1>5. ASSUME NEW p \in Paths, NEW info \in Index!Info, Index!UpsertCall(p, info)
      PROVE  Fit
  <2>1. info.dir \in BOOLEAN /\ info.size \in Int /\ info.mtime \in Int
    BY <1>0 DEF Index!Info
  <2>2. j = Index!Upsert(i, p, info) /\ K[p] = info.dir
    BY <1>4, <1>5 DEF Index!UpsertCall
  <2>3. j = Upsert(i, p, info)
    BY <2>2, SameHandlers
  <2>. HIDE DEF i, j
  <2>. QED
    BY <1>0, <1>1, <1>3, <2>1, <2>2, <2>3, UpsertKinds
<1>6. ASSUME NEW p \in Paths, NEW t \in Times, Index!UpsertDirCall(p, t)
      PROVE  Fit
  <2>1. j = Index!UpsertDir(i, p, t) /\ K[p] = TRUE
    BY <1>4, <1>6 DEF Index!UpsertDirCall
  <2>2. j = UpsertDir(i, p, t)
    BY <2>1, SameHandlers
  <2>. HIDE DEF i, j
  <2>. QED
    BY <1>0, <1>1, <1>3, <2>1, <2>2, UpsertDirKinds
<1>7. ASSUME NEW p \in Paths, NEW isDir \in BOOLEAN, Index!RemoveCall(p, isDir)
      PROVE  Fit
  <2>1. j = Remove(i, p, isDir)
    BY <1>7, SameRemove DEF Index!RemoveCall
  <2>. HIDE DEF i, j
  <2>. QED
    BY <1>1, <2>1, RemoveKinds
<1>8. ASSUME NEW m \in Index!Renames, NEW t \in Times, Index!RenameCall(m[1], m[2], t)
      PROVE  Fit
  <2>. DEFINE old == m[1]
              new == m[2]
  <2>1. /\ old \in Path /\ new \in Path /\ new # <<>> /\ ~IsPrefix(old, new)
        /\ new \in Paths
    BY <1>0, SameMaps DEF Index!Renames
  <2>2. j = i \/ j \in RenameNode(i, old, new, t)
    <3>1. j = i \/ j \in Index!RenameNode(i, old, new, t)
      BY <1>8 DEF Index!RenameCall
    <3>. QED
      BY <3>1, SameRename
  <2>3. old \in DOMAIN i.lookup => K[new] = IsDir(i.lookup[old])
    <3>1. old \in DOMAIN i.lookup => Index!IsDir(i.lookup[old]) \in KindsOf[new]
      BY <1>8 DEF Index!RenameCall
    <3>. QED
      BY <1>4, <2>1, <3>1, SameMaps
  <2>4. /\ \A p \in Path : Len(p) > Len(old) /\ IsPrefix(old, p) => K[Rebase(p, old, new)] = K[p]
        /\ Len(new) > 1 => K[Dir(new)]
        /\ t \in Int
    BY <1>0, <1>3, <2>1 DEF FixedKinds
  <2>. HIDE DEF i, j, old, new
  <2>5. CASE j = i
    BY <1>1, <2>5
  <2>6. CASE j \in RenameNode(i, old, new, t)
    BY <1>1, <2>1, <2>3, <2>4, <2>6, RenameKinds
  <2>. QED
    BY <2>2, <2>5, <2>6
<1>9. ASSUME NEW name \in HandNames, NEW t \in Times, Index!SaveNameCall(name, t)
      PROVE  Fit
  <2>1. j = SaveName(i, name, t)
    BY <1>9, SameHandlers DEF Index!SaveNameCall
  <2>. HIDE DEF i, j
  <2>. QED
    BY <1>0, <1>1, <2>1, SaveNameKinds
<1>10. ASSUME NEW id, Index!DeleteInvalidCall(id)
       PROVE  Fit
  <2>1. j = DeleteInvalid(i, id)
    BY <1>10, SameHandlers DEF Index!DeleteInvalidCall
  <2>. HIDE DEF i, j
  <2>. QED
    BY <1>1, <2>1, DeleteInvalidKinds
<1>. HIDE DEF i, j
<1>. QED
  BY <1>5, <1>6, <1>7, <1>8, <1>9, <1>10 DEF Index!Next, i, j

\* So what a path of a directory leads to is a directory.
LEMMA KindsFind ==
  ASSUME NEW i, IxInv(i), NEW K, KindsFit(i.nodes, i.tree, K), NEW p, K[p] = TRUE
  PROVE  FindsDir(i, p)
<1>. SUFFICES ASSUME p \in DOMAIN i.lookup PROVE IsDir(i.lookup[p])
  BY DEF FindsDir
<1>1. Good(i.nodes, i.lookup, i.tree, i.child, i.grams, i.lastID)
  BY GoodParts DEF IxInv
<1>2. i.lookup[p] \in Proper(i.nodes) /\ i.nodes[i.lookup[p]].path = p
  BY <1>1 DEF Good, Proper
<1>. QED
  BY <1>2 DEF KindsFit

\* The invariant: kinds are as K says; the watches are true, or Compact is
\* under way and what it moved tells how to make them true.
KindsHold(K) == races = {} => KindsFit(Mapped(st).nodes, Mapped(st).tree, K)
WatchesHold == races = {} => IF moved = NoMove THEN Watched(st) ELSE Carried(st, moved)
WatchInv(K) == StoreTrue /\ KindsHold(K) /\ WatchesHold

\* It holds at first,
LEMMA WatchInit ==
  ASSUME NEW K, FixedKinds(K), Init
  PROVE  WatchInv(K)
<1>1. PICK t \in Times : st = StoreUpsertDir(EmptyStore, Root, t)
  BY DEF Init
<1>2. /\ Reachable(EmptyStore, Root) /\ t \in Int /\ Root \in Path /\ Root # <<>>
      /\ K[Root] = TRUE /\ (Len(Root) > 1 => K[Dir(Root)])
  BY StoreAssumption DEF Reachable, EmptyStore, FixedKinds
<1>3. Mapped(st) = UpsertDir(EmptyIndex, Root, t) /\ KeepsWatches(EmptyStore, st)
  <2>1. FindsDir(EmptyIndex, Root)
    BY DEF FindsDir, EmptyIndex
  <2>. QED
    BY <1>1, <1>2, <2>1, EmptyStep, UpsertDirStep
<1>4. Watched(EmptyStore)
  BY DEF EmptyStore, Watched, WatchedBut, Watching
<1>5. KindsFit(Mapped(st).nodes, Mapped(st).tree, K)
  <2>1. KindsFit(EmptyIndex.nodes, EmptyIndex.tree, K)
    BY DEF KindsFit, Proper, EmptyIndex
  <2>. QED
    BY <1>2, <1>3, <2>1, EmptyInv, EmptyTied, UpsertDirKinds
<1>6. moved = NoMove
  BY DEF Init
<1>. QED
  BY <1>3, <1>4, <1>5, <1>6, StoreTrueInit DEF WatchInv, KindsHold, WatchesHold, KeepsWatches

\* No step takes a race back.
LEMMA RacesStay ==
  ASSUME [Next]_vars, races' = {}
  PROVE  races = {}
<1>1. \A outcomes : Handle(outcomes) => races = {}
  BY DEF Handle, Free
<1>. QED
  BY <1>1 DEF Next, vars, UpsertCall, UpsertDirCall, RemoveCall, RenameCall, SaveNameCall,
            DeleteInvalidCall, CompactMaps, TakeKey, ReadPath, Free

\* What a handler keeps, the invariant has again.
LEMMA HandleWatches ==
  ASSUME WatchesHold, NEW outcomes, Handle(outcomes), KeepsWatches(st, st')
  PROVE  WatchesHold'
  BY DEF WatchesHold, Handle, Free, KeepsWatches

\* and after every step.
LEMMA WatchNext ==
  ASSUME NEW K, FixedKinds(K), WatchInv(K), [Next]_vars
  PROVE  WatchInv(K)'
<1>1. StoreTrue /\ KindsHold(K) /\ WatchesHold
  BY DEF WatchInv
<1>2. StoreTrue' /\ [Index!Next \/ races' # {}]_<<Mapped(st), up>>
  BY <1>1, StoreNext
<1>3. KindsHold(K)'
  <2>. SUFFICES ASSUME races' = {} PROVE KindsFit(Mapped(st)'.nodes, Mapped(st)'.tree, K)
    BY DEF KindsHold
  <2>1. KindsFit(Mapped(st).nodes, Mapped(st).tree, K)
    BY <1>1, RacesStay DEF KindsHold
  <2>2. IxInv(Mapped(st)) /\ TiedIndex(Mapped(st))
    BY <1>1 DEF StoreTrue, Bedded, Healthy
  <2>3. CASE Index!Next
    BY <2>1, <2>2, <2>3, IndexKinds
  <2>4. CASE Mapped(st)' = Mapped(st)
    BY <2>1, <2>4
  <2>. QED
    BY <1>2, <2>3, <2>4
<1>4. ASSUME NEW p \in Paths, NEW info \in Index!Info, UpsertCall(p, info) PROVE WatchesHold'
  BY <1>1, <1>4, UpsertNext, HandleWatches DEF UpsertCall
<1>5. ASSUME NEW p \in Paths, NEW t \in Times, UpsertDirCall(p, t) PROVE WatchesHold'
  <2>1. races = {} /\ Handle({StoreUpsertDir(st, p, t)}) /\ TRUE \in KindsOf[p]
    BY <1>5 DEF UpsertDirCall, Handle, Free
  <2>2. K[p] = TRUE
    BY <2>1 DEF FixedKinds
  <2>3. FindsDir(Mapped(st), p)
    <3>1. IxInv(Mapped(st)) /\ KindsFit(Mapped(st).nodes, Mapped(st).tree, K)
      BY <1>1, <2>1 DEF StoreTrue, Bedded, Healthy, KindsHold
    <3>. QED
      BY <2>2, <3>1, KindsFind
  <2>4. KeepsWatches(st, st')
    BY <1>1, <1>5, <2>3, UpsertDirNext
  <2>. QED
    BY <1>1, <2>1, <2>4, HandleWatches
<1>6. ASSUME NEW p \in Paths, NEW isDir \in BOOLEAN, RemoveCall(p, isDir) PROVE WatchesHold'
  BY <1>1, <1>6, RemoveNext, HandleWatches DEF RemoveCall
<1>7. ASSUME NEW m \in Index!Renames, NEW t \in Times, RenameCall(m[1], m[2], t)
      PROVE  WatchesHold'
  BY <1>1, <1>7, RenameNext, HandleWatches DEF RenameCall
<1>8. ASSUME NEW name \in HandNames, NEW t \in Times, SaveNameCall(name, t) PROVE WatchesHold'
  BY <1>1, <1>8, NameNext, HandleWatches DEF SaveNameCall
<1>9. ASSUME NEW id \in DOMAIN st.nodes, DeleteInvalidCall(id) PROVE WatchesHold'
  BY <1>1, <1>9, DropNameNext, HandleWatches DEF DeleteInvalidCall
<1>10. ASSUME Free, NEW order \in Rounds(DOMAIN st.nodes), CompactBlock(order) PROVE WatchesHold'
  <2>1. races' = {} => Carried(st', moved')
    BY <1>1, <1>10, BlockNext DEF WatchesHold, Free
  <2>2. \A s : Carried(s, NoMove) => Watched(s)
    <3>1. DOMAIN NoMove = {}
      BY DEF NoMove
    <3>. QED
      BY <3>1 DEF Carried, CarriedWatch, Watched, WatchedBut
  <2>. QED
    BY <2>1, <2>2 DEF WatchesHold
<1>11. ASSUME CompactMaps PROVE WatchesHold'
  BY <1>1, <1>11, MapsNext DEF WatchesHold, CompactMaps
<1>12. ASSUME st' = st, moved' = moved, races = {} \/ races' = races PROVE WatchesHold'
  BY <1>1, <1>12 DEF WatchesHold
<1>13. ASSUME NEW wd, TakeKey(wd) PROVE WatchesHold'
  BY <1>12, <1>13 DEF TakeKey
<1>14. ASSUME ReadPath PROVE WatchesHold'
  BY <1>12, <1>14 DEF ReadPath
<1>15. ASSUME UNCHANGED vars PROVE WatchesHold'
  BY <1>12, <1>15 DEF vars
<1>16. WatchesHold'
  BY <1>4, <1>5, <1>6, <1>7, <1>8, <1>9, <1>10, <1>11, <1>13, <1>14, <1>15 DEF Next
<1>. QED
  BY <1>2, <1>3, <1>16 DEF WatchInv

\* Where a path only ever has one kind, the watch of an indexed directory
\* carries the key of its node and leads back from it, after any renames,
\* removals and compactions (file_string_store.go:164-193).  Without that a
\* directory seen at the path of a file still indexed puts the file's key under
\* watch (file_watcher.go:334-345), and RenameNode moves the watches of
\* directories only (789-792).
THEOREM WatchesAlwaysTrue ==
  ASSUME NEW K, FixedKinds(K)
  PROVE  Spec => []WatchPathsTrue
<1>1. Init => WatchInv(K)
  BY WatchInit
<1>2. WatchInv(K) /\ [Next]_vars => WatchInv(K)'
  BY WatchNext
<1>3. WatchInv(K) => WatchPathsTrue
  BY DEF WatchInv, WatchesHold, Watched, WatchedBut, WatchTrue, WatchPathsTrue
<1>. QED
  BY <1>1, <1>2, <1>3, PTL DEF Spec
=============================================================================
