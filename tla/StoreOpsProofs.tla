--------------------------- MODULE StoreOpsProofs ---------------------------
(***************************************************************************)
(* Proofs about the string store's handlers.  Seen through its offsets a   *)
(* store is an index of FileIndex, and Upsert, UpsertDir, Remove and the   *)
(* names entered by hand do to what is seen exactly what FileIndex's       *)
(* handlers do, and keep the watch tables true.  Renames, compaction and   *)
(* the theorems: StringStoreProofs.                                        *)
(***************************************************************************)
EXTENDS StringStore, IndexOpsProofs

-----------------------------------------------------------------------------
(* The block.                                                              *)

\* What a slice of the block holds.
LEMMA SliceOf ==
  ASSUME NEW D \in Path, NEW off \in Nat, NEW len \in Nat, off + len =< Len(D)
  PROVE  /\ Get(D, off, len) \in Path /\ Len(Get(D, off, len)) = len
         /\ \A k \in 1..len : Get(D, off, len)[k] = D[off + k]
<1>. DEFINE g == SubSeq(D, off + 1, off + len)
<1>1. Get(D, off, len) = g
  BY DEF Get, InBlock
<1>2. D \in Seq(Names) /\ Len(D) \in Nat
  BY DEF Path
<1>3. CASE len = 0
  <2>1. g = <<>>
    BY <1>2, <1>3
  <2>. HIDE DEF g
  <2>. QED
    BY <1>1, <1>3, <2>1 DEF Path
<1>4. CASE len # 0
  <2>1. off + 1 \in 1..Len(D) /\ off + len \in (off + 1)..Len(D)
    BY <1>2, <1>4
  <2>2. g \in Seq(Names) /\ Len(g) = len /\ \A k \in 1..len : g[k] = D[off + k]
    BY <1>2, <2>1, SubSeqProperties
  <2>. QED
    BY <1>1, <2>2 DEF Path
<1>. QED
  BY <1>3, <1>4

\* What is appended changes nothing before it, and can be read back.
LEMMA SliceOfAppended ==
  ASSUME NEW D \in Path, NEW x \in Path, NEW off \in Nat, NEW len \in Nat, off + len =< Len(D)
  PROVE  Get(D \o x, off, len) = Get(D, off, len)
<1>1. D \in Seq(Names) /\ x \in Seq(Names) /\ Len(D) \in Nat /\ Len(x) \in Nat
  BY DEF Path
<1>. DEFINE E == D \o x
<1>2. E \in Path /\ Len(E) = Len(D) + Len(x)
  BY <1>1, ConcatProperties DEF Path
<1>3. \A k \in 1..Len(D) : E[k] = D[k]
  BY <1>1, <1>2, ConcatProperties
<1>. HIDE DEF E
<1>. DEFINE g == Get(E, off, len)
            h == Get(D, off, len)
<1>4. g \in Path /\ Len(g) = len /\ \A k \in 1..len : g[k] = E[off + k]
  BY <1>1, <1>2, SliceOf
<1>5. h \in Path /\ Len(h) = len /\ \A k \in 1..len : h[k] = D[off + k]
  BY SliceOf
<1>. HIDE DEF g, h
<1>6. \A k \in 1..len : g[k] = h[k]
  BY <1>1, <1>3, <1>4, <1>5
<1>7. g = h
  BY <1>4, <1>5, <1>6, SeqEqual DEF Path
<1>. QED
  BY <1>7 DEF g, h, E

\* What is appended is read back by its offset and length.
LEMMA SliceOfNew ==
  ASSUME NEW D \in Path, NEW x \in Path
  PROVE  /\ Get(D \o x, Len(D), Len(x)) = x
         /\ D \o x \in Path /\ Len(D \o x) = Len(D) + Len(x)
<1>1. D \in Seq(Names) /\ x \in Seq(Names) /\ Len(D) \in Nat /\ Len(x) \in Nat
  BY DEF Path
<1>. DEFINE E == D \o x
            g == Get(E, Len(D), Len(x))
<1>2. E \in Path /\ Len(E) = Len(D) + Len(x)
  BY <1>1, ConcatProperties DEF Path
<1>3. \A k \in 1..Len(x) : E[Len(D) + k] = x[k]
  BY <1>1, <1>2, ConcatProperties
<1>. HIDE DEF E
<1>4. g \in Path /\ Len(g) = Len(x) /\ \A k \in 1..Len(x) : g[k] = E[Len(D) + k]
  BY <1>1, <1>2, SliceOf
<1>. HIDE DEF g
<1>5. g = x
  BY <1>1, <1>3, <1>4, SeqEqual DEF Path
<1>. QED
  BY <1>2, <1>5 DEF g, E

-----------------------------------------------------------------------------
(* A stored node as the index sees it.                                     *)

Stored == [parent : Id, size : Int, mtime : Int, invalid : BOOLEAN,
           pathOff : Nat, pathLen : Nat, nameOff : Nat, nameLen : Nat]

\* A node has bytes for its path and its name; an invalid one only for a
\* name, and Nodes[0] for neither.
NodeFits(D, id, node) ==
  /\ node \in Stored
  /\ node.pathOff + node.pathLen =< Len(D)
  /\ node.nameOff + node.nameLen =< Len(D)
  /\ IF id = NoId THEN node.pathLen = 0 /\ node.nameLen = 0 /\ ~node.invalid
     ELSE /\ node.nameLen = 1
          /\ IF node.invalid THEN node.pathOff = 0 /\ node.pathLen = 0 ELSE node.pathLen > 0

NodesFit(D, N) == DOMAIN N \subseteq Id /\ \A id \in DOMAIN N : NodeFits(D, id, N[id])

Spelled(D, node) == GetPathUint64(D, PathKey(node))
Titled(D, node) ==
  LET name == Get(D, node.nameOff, node.nameLen)
  IN  IF name = <<>> THEN NoName ELSE Base(name)

View(D, node) ==
  [parent |-> node.parent, size |-> node.size, mtime |-> node.mtime,
   invalid |-> node.invalid, path |-> Spelled(D, node), name |-> Titled(D, node)]

ViewNodes(N, D) == [id \in DOMAIN N |-> View(D, N[id])]
ViewLookup(M, H) == [p \in {q \in DOMAIN H \ {<<>>} : H[q] \in DOMAIN M} |-> M[H[p]]]

\* The index that is seen, field by field.
LEMMA MappedParts ==
  \A s : LET i == Mapped(s)
         IN  /\ IsIndex(i)
             /\ i.nodes = ViewNodes(s.nodes, s.data)
             /\ i.lookup = ViewLookup(s.pathMap, s.pathHash)
             /\ i.tree = s.tree /\ i.child = s.child /\ i.grams = s.grams /\ i.lastID = s.lastID
<1>. TAKE s
<1>. DEFINE N == ViewNodes(s.nodes, s.data)
            L == ViewLookup(s.pathMap, s.pathHash)
<1>1. Mapped(s) = [nodes |-> N, lookup |-> L, tree |-> s.tree, child |-> s.child,
                   grams |-> s.grams, lastID |-> s.lastID]
  BY DEF Mapped, ViewNodes, ViewLookup, View, Spelled, Titled, PathOf, NameOf
<1>. HIDE DEF N, L
<1>2. LET r == [nodes |-> N, lookup |-> L, tree |-> s.tree, child |-> s.child,
                grams |-> s.grams, lastID |-> s.lastID]
      IN  IsIndex(r) /\ r.nodes = N /\ r.lookup = L /\ r.tree = s.tree /\ r.child = s.child
          /\ r.grams = s.grams /\ r.lastID = s.lastID
  BY RecordIsIndex
<1>. QED
  BY <1>1, <1>2 DEF N, L

\* The path a stored node spells has the length the node says.
LEMMA SpelledFacts ==
  ASSUME NEW D \in Path, NEW id, NEW node, NodeFits(D, id, node)
  PROVE  /\ Spelled(D, node) \in Path /\ Len(Spelled(D, node)) = node.pathLen
         /\ PathKey(node)[2] = node.pathLen /\ PathKey(node)[1] = node.pathOff
<1>1. PathKey(node) = <<node.pathOff, node.pathLen>>
  BY DEF PathKey, GetUint64
<1>2. node.pathOff \in Nat /\ node.pathLen \in Nat /\ node.pathOff + node.pathLen =< Len(D)
  BY DEF NodeFits, Stored
<1>3. CASE node.pathLen = 0
  <2>1. Spelled(D, node) = <<>>
    BY <1>1, <1>3 DEF Spelled, GetPathUint64
  <2>. QED
    BY <1>1, <1>3, <2>1 DEF Path
<1>4. CASE node.pathLen # 0
  <2>1. Spelled(D, node) = Get(D, node.pathOff, node.pathLen)
    BY <1>1, <1>4 DEF Spelled, GetPathUint64
  <2>. QED
    BY <1>1, <1>2, <2>1, SliceOf
<1>. QED
  BY <1>3, <1>4

\* Appending to the block moves nothing.
LEMMA ViewOfAppended ==
  ASSUME NEW D \in Path, NEW x \in Path, NEW id, NEW node, NodeFits(D, id, node)
  PROVE  NodeFits(D \o x, id, node) /\ View(D \o x, node) = View(D, node)
<1>1. /\ node.pathOff \in Nat /\ node.pathLen \in Nat /\ node.pathOff + node.pathLen =< Len(D)
      /\ node.nameOff \in Nat /\ node.nameLen \in Nat /\ node.nameOff + node.nameLen =< Len(D)
  BY DEF NodeFits, Stored
<1>2. Len(D \o x) = Len(D) + Len(x) /\ Len(D) \in Nat /\ Len(x) \in Nat
  BY SliceOfNew DEF Path
<1>3. Get(D \o x, node.pathOff, node.pathLen) = Get(D, node.pathOff, node.pathLen)
  BY <1>1, SliceOfAppended
<1>4. Get(D \o x, node.nameOff, node.nameLen) = Get(D, node.nameOff, node.nameLen)
  BY <1>1, SliceOfAppended
<1>5. NodeFits(D \o x, id, node)
  BY <1>1, <1>2 DEF NodeFits
<1>6. Spelled(D \o x, node) = Spelled(D, node)
  BY <1>3 DEF Spelled, GetPathUint64, PathKey, GetUint64
<1>7. Titled(D \o x, node) = Titled(D, node)
  BY <1>4 DEF Titled
<1>. QED
  BY <1>5, <1>6, <1>7 DEF View

\* A node by its fields.
LEMMA ViewIsNode ==
  ASSUME NEW D \in Path, NEW id, NEW node, NodeFits(D, id, node)
  PROVE  LET v == View(D, node)
         IN  /\ v.parent = node.parent /\ v.size = node.size /\ v.mtime = node.mtime
             /\ v.invalid = node.invalid /\ v.path = Spelled(D, node) /\ v.name = Titled(D, node)
             /\ v = [parent |-> v.parent, size |-> v.size, mtime |-> v.mtime,
                     path |-> v.path, name |-> v.name, invalid |-> v.invalid]
  BY DEF View

\* A view follows the fields that are not about bytes.
LEMMA ViewOfResized ==
  ASSUME NEW D, NEW node \in Stored, NEW n \in Int
  PROVE  LET m == [node EXCEPT !.size = n]
         IN  m \in Stored /\ View(D, m) = [View(D, node) EXCEPT !.size = n]
             /\ PathKey(m) = PathKey(node)
             /\ \A id : NodeFits(D, id, node) => NodeFits(D, id, m)
<1>. DEFINE m == [node EXCEPT !.size = n]
<1>1. m \in Stored /\ m.size = n /\ m.parent = node.parent /\ m.mtime = node.mtime
      /\ m.invalid = node.invalid /\ m.pathOff = node.pathOff /\ m.pathLen = node.pathLen
      /\ m.nameOff = node.nameOff /\ m.nameLen = node.nameLen
  BY DEF Stored
<1>. HIDE DEF m
<1>2. PathKey(m) = PathKey(node)
  BY <1>1 DEF PathKey
<1>3. Spelled(D, m) = Spelled(D, node) /\ Titled(D, m) = Titled(D, node)
  BY <1>1, <1>2 DEF Spelled, Titled
<1>4. View(D, m) = [View(D, node) EXCEPT !.size = n]
  BY <1>1, <1>3 DEF View
<1>5. \A id : NodeFits(D, id, node) => NodeFits(D, id, m)
  BY <1>1 DEF NodeFits
<1>. QED
  BY <1>1, <1>2, <1>4, <1>5 DEF m

LEMMA ViewOfZero ==
  ASSUME NEW D \in Path, NEW n \in Int
  PROVE  LET m == [StoredZero EXCEPT !.size = n]
         IN  NodeFits(D, NoId, m) /\ View(D, m) = [ZeroNode EXCEPT !.size = n]
<1>. DEFINE m == [StoredZero EXCEPT !.size = n]
<1>1. m = [parent |-> NoId, size |-> n, mtime |-> 0, invalid |-> FALSE,
           pathOff |-> 0, pathLen |-> 0, nameOff |-> 0, nameLen |-> 0]
  <2>. DEFINE o == 0
              F == FALSE
              z == [parent |-> NoId, size |-> o, mtime |-> o, invalid |-> F,
                    pathOff |-> o, pathLen |-> o, nameOff |-> o, nameLen |-> o]
  <2>. HIDE DEF o, F
  <2>1. [z EXCEPT !.size = n] = [parent |-> NoId, size |-> n, mtime |-> o, invalid |-> F,
                    pathOff |-> o, pathLen |-> o, nameOff |-> o, nameLen |-> o]
    OBVIOUS
  <2>. QED
    BY <2>1 DEF o, F, StoredZero
<1>2. m \in Stored
  <2>1. NoId \in Id
    BY NoIdType
  <2>. DEFINE o == 0
              F == FALSE
              z == [parent |-> NoId, size |-> n, mtime |-> o, invalid |-> F,
                    pathOff |-> o, pathLen |-> o, nameOff |-> o, nameLen |-> o]
  <2>2. o \in Int /\ o \in Nat /\ F \in BOOLEAN
    OBVIOUS
  <2>. HIDE DEF o, F
  <2>3. z \in Stored
    BY <2>1, <2>2 DEF Stored
  <2>. QED
    BY <1>1, <2>3 DEF o, F
<1>3. m.parent = NoId /\ m.size = n /\ m.mtime = 0 /\ m.invalid = FALSE
      /\ m.pathOff = 0 /\ m.pathLen = 0 /\ m.nameOff = 0 /\ m.nameLen = 0
  BY <1>1
<1>. HIDE DEF m
<1>4. Len(D) \in Nat
  BY DEF Path
<1>5. NodeFits(D, NoId, m)
  BY <1>2, <1>3, <1>4 DEF NodeFits
<1>6. Spelled(D, m) = <<>>
  BY <1>3 DEF Spelled, GetPathUint64, PathKey, GetUint64
<1>7. Get(D, 0, 0) = <<>>
  <2>1. SubSeq(D, 1, 0) = <<>>
    BY DEF Path
  <2>. QED
    BY <2>1, <1>4 DEF Get, InBlock
<1>8. Titled(D, m) = NoName
  BY <1>3, <1>7 DEF Titled
<1>9. View(D, m) = [parent |-> NoId, size |-> n, mtime |-> 0, path |-> <<>>,
                    name |-> NoName, invalid |-> FALSE]
  BY <1>3, <1>6, <1>8 DEF View
<1>10. [ZeroNode EXCEPT !.size = n] = [parent |-> NoId, size |-> n, mtime |-> 0, path |-> <<>>,
             name |-> NoName, invalid |-> FALSE]
  <2>. DEFINE o == 0
              F == FALSE
              e == <<>>
              z == [parent |-> NoId, size |-> o, mtime |-> o, path |-> e,
                    name |-> NoName, invalid |-> F]
  <2>. HIDE DEF o, F, e
  <2>1. [z EXCEPT !.size = n] = [parent |-> NoId, size |-> n, mtime |-> o, path |-> e,
                    name |-> NoName, invalid |-> F]
    OBVIOUS
  <2>. QED
    BY <2>1 DEF o, F, e, ZeroNode
<1>. QED
  BY <1>5, <1>9, <1>10 DEF m

-----------------------------------------------------------------------------
(* The fields of a store.                                                  *)

Rec(N, M, H, T, C, G, n, D, W, V) ==
  [nodes |-> N, pathMap |-> M, pathHash |-> H, tree |-> T, child |-> C,
   grams |-> G, lastID |-> n, data |-> D, wdMap |-> W, pathToWd |-> V]

\* A field at a time.
LEMMA RecFields ==
  \A N, M, H, T, C, G, n, D, W, V :
    LET r == Rec(N, M, H, T, C, G, n, D, W, V)
    IN  /\ r.nodes = N /\ r.pathMap = M /\ r.pathHash = H /\ r.tree = T /\ r.child = C
        /\ r.grams = G /\ r.lastID = n /\ r.data = D /\ r.wdMap = W /\ r.pathToWd = V
  BY DEF Rec

IsStore(s) ==
  s = Rec(s.nodes, s.pathMap, s.pathHash, s.tree, s.child, s.grams, s.lastID, s.data,
          s.wdMap, s.pathToWd)

\* The fields a handler sets, one group at a time.
LEMMA SetNodes ==
  ASSUME NEW r, IsStore(r), NEW N
  PROVE  [r EXCEPT !.nodes = N] =
           Rec(N, r.pathMap, r.pathHash, r.tree, r.child,
               r.grams, r.lastID, r.data, r.wdMap, r.pathToWd)
  BY DEF Rec, IsStore

\* One lemma for each way a handler writes fields, so that each step of a
\* handler can be followed as a record written out.
LEMMA SetTree ==
  ASSUME NEW r, IsStore(r), NEW T
  PROVE  [r EXCEPT !.tree = T] =
           Rec(r.nodes, r.pathMap, r.pathHash, T, r.child,
               r.grams, r.lastID, r.data, r.wdMap, r.pathToWd)
  BY DEF Rec, IsStore

LEMMA SetGrams ==
  ASSUME NEW r, IsStore(r), NEW G
  PROVE  [r EXCEPT !.grams = G] =
           Rec(r.nodes, r.pathMap, r.pathHash, r.tree, r.child,
               G, r.lastID, r.data, r.wdMap, r.pathToWd)
  BY DEF Rec, IsStore

LEMMA SetData ==
  ASSUME NEW r, IsStore(r), NEW D
  PROVE  [r EXCEPT !.data = D] =
           Rec(r.nodes, r.pathMap, r.pathHash, r.tree, r.child,
               r.grams, r.lastID, D, r.wdMap, r.pathToWd)
  BY DEF Rec, IsStore

LEMMA SetMaps ==
  ASSUME NEW r, IsStore(r), NEW M, NEW H
  PROVE  [r EXCEPT !.pathMap = M, !.pathHash = H] =
           Rec(r.nodes, M, H, r.tree, r.child, r.grams, r.lastID, r.data, r.wdMap, r.pathToWd)
<1>. DEFINE a1 == [r EXCEPT !.pathMap = M]
<1>1. a1 = Rec(r.nodes, M, r.pathHash, r.tree, r.child,
                r.grams, r.lastID, r.data, r.wdMap, r.pathToWd)
  BY DEF Rec, IsStore
<1>. HIDE DEF a1
<1>. DEFINE a2 == [a1 EXCEPT !.pathHash = H]
<1>2. a2 = Rec(r.nodes, M, H, r.tree, r.child, r.grams, r.lastID, r.data, r.wdMap, r.pathToWd)
  BY <1>1 DEF Rec
<1>. HIDE DEF a2
<1>. QED
  BY <1>2 DEF a1, a2

LEMMA SetStored ==
  ASSUME NEW r, IsStore(r), NEW D, NEW M, NEW H
  PROVE  [r EXCEPT !.data = D, !.pathMap = M, !.pathHash = H] =
           Rec(r.nodes, M, H, r.tree, r.child, r.grams, r.lastID, D, r.wdMap, r.pathToWd)
<1>. DEFINE a1 == [r EXCEPT !.data = D]
<1>1. a1 = Rec(r.nodes, r.pathMap, r.pathHash, r.tree, r.child,
                r.grams, r.lastID, D, r.wdMap, r.pathToWd)
  BY DEF Rec, IsStore
<1>. HIDE DEF a1
<1>. DEFINE a2 == [a1 EXCEPT !.pathMap = M]
<1>2. a2 = Rec(r.nodes, M, r.pathHash, r.tree, r.child,
                r.grams, r.lastID, D, r.wdMap, r.pathToWd)
  BY <1>1 DEF Rec
<1>. HIDE DEF a2
<1>. DEFINE a3 == [a2 EXCEPT !.pathHash = H]
<1>3. a3 = Rec(r.nodes, M, H, r.tree, r.child, r.grams, r.lastID, D, r.wdMap, r.pathToWd)
  BY <1>2 DEF Rec
<1>. HIDE DEF a3
<1>. QED
  BY <1>3 DEF a1, a2, a3

LEMMA SetWatches ==
  ASSUME NEW r, IsStore(r), NEW W, NEW V
  PROVE  [r EXCEPT !.wdMap = W, !.pathToWd = V] =
           Rec(r.nodes, r.pathMap, r.pathHash, r.tree, r.child,
               r.grams, r.lastID, r.data, W, V)
<1>. DEFINE a1 == [r EXCEPT !.wdMap = W]
<1>1. a1 = Rec(r.nodes, r.pathMap, r.pathHash, r.tree, r.child,
                r.grams, r.lastID, r.data, W, r.pathToWd)
  BY DEF Rec, IsStore
<1>. HIDE DEF a1
<1>. DEFINE a2 == [a1 EXCEPT !.pathToWd = V]
<1>2. a2 = Rec(r.nodes, r.pathMap, r.pathHash, r.tree, r.child,
                r.grams, r.lastID, r.data, W, V)
  BY <1>1 DEF Rec
<1>. HIDE DEF a2
<1>. QED
  BY <1>2 DEF a1, a2

LEMMA SetDropped ==
  ASSUME NEW r, IsStore(r), NEW N, NEW G
  PROVE  [r EXCEPT !.nodes = N, !.grams = G] =
           Rec(N, r.pathMap, r.pathHash, r.tree, r.child,
               G, r.lastID, r.data, r.wdMap, r.pathToWd)
<1>. DEFINE a1 == [r EXCEPT !.nodes = N]
<1>1. a1 = Rec(N, r.pathMap, r.pathHash, r.tree, r.child,
                r.grams, r.lastID, r.data, r.wdMap, r.pathToWd)
  BY DEF Rec, IsStore
<1>. HIDE DEF a1
<1>. DEFINE a2 == [a1 EXCEPT !.grams = G]
<1>2. a2 = Rec(N, r.pathMap, r.pathHash, r.tree, r.child,
                G, r.lastID, r.data, r.wdMap, r.pathToWd)
  BY <1>1 DEF Rec
<1>. HIDE DEF a2
<1>. QED
  BY <1>2 DEF a1, a2

PlacedStore(r, N, T, C) == [r EXCEPT !.nodes = N, !.tree = T, !.child = C]

LEMMA SetPlaced ==
  ASSUME NEW r, IsStore(r), NEW N, NEW T, NEW C
  PROVE  PlacedStore(r, N, T, C) =
           Rec(N, r.pathMap, r.pathHash, T, C, r.grams, r.lastID, r.data, r.wdMap, r.pathToWd)
<1>. DEFINE a1 == [r EXCEPT !.nodes = N]
<1>1. a1 = Rec(N, r.pathMap, r.pathHash, r.tree, r.child,
                r.grams, r.lastID, r.data, r.wdMap, r.pathToWd)
  BY DEF Rec, IsStore
<1>. HIDE DEF a1
<1>. DEFINE a2 == [a1 EXCEPT !.tree = T]
<1>2. a2 = Rec(N, r.pathMap, r.pathHash, T, r.child,
                r.grams, r.lastID, r.data, r.wdMap, r.pathToWd)
  BY <1>1 DEF Rec
<1>. HIDE DEF a2
<1>. DEFINE a3 == [a2 EXCEPT !.child = C]
<1>3. a3 = Rec(N, r.pathMap, r.pathHash, T, C, r.grams, r.lastID, r.data, r.wdMap, r.pathToWd)
  BY <1>2 DEF Rec
<1>. HIDE DEF a3
<1>. QED
  BY <1>3 DEF a1, a2, a3, PlacedStore

NamedStore(r, N, D, G, n) == [r EXCEPT !.nodes = N, !.data = D, !.grams = G, !.lastID = n]
GoneStore(r, N, T, C, G) == [r EXCEPT !.nodes = N, !.tree = T, !.child = C, !.grams = G]

LEMMA SetGone ==
  ASSUME NEW r, IsStore(r), NEW N, NEW T, NEW C, NEW G
  PROVE  GoneStore(r, N, T, C, G) =
           Rec(N, r.pathMap, r.pathHash, T, C, G, r.lastID, r.data, r.wdMap, r.pathToWd)
<1>. DEFINE a1 == [r EXCEPT !.nodes = N]
<1>1. a1 = Rec(N, r.pathMap, r.pathHash, r.tree, r.child,
                r.grams, r.lastID, r.data, r.wdMap, r.pathToWd)
  BY DEF Rec, IsStore
<1>. HIDE DEF a1
<1>. DEFINE a2 == [a1 EXCEPT !.tree = T]
<1>2. a2 = Rec(N, r.pathMap, r.pathHash, T, r.child,
                r.grams, r.lastID, r.data, r.wdMap, r.pathToWd)
  BY <1>1 DEF Rec
<1>. HIDE DEF a2
<1>. DEFINE a3 == [a2 EXCEPT !.child = C]
<1>3. a3 = Rec(N, r.pathMap, r.pathHash, T, C, r.grams, r.lastID, r.data, r.wdMap, r.pathToWd)
  BY <1>2 DEF Rec
<1>. HIDE DEF a3
<1>. DEFINE a4 == [a3 EXCEPT !.grams = G]
<1>4. a4 = Rec(N, r.pathMap, r.pathHash, T, C, G, r.lastID, r.data, r.wdMap, r.pathToWd)
  BY <1>3 DEF Rec
<1>. HIDE DEF a4
<1>. QED
  BY <1>4 DEF a1, a2, a3, a4, GoneStore

LEMMA SetNamed ==
  ASSUME NEW r, IsStore(r), NEW N, NEW D, NEW G, NEW n
  PROVE  NamedStore(r, N, D, G, n) =
           Rec(N, r.pathMap, r.pathHash, r.tree, r.child, G, n, D, r.wdMap, r.pathToWd)
<1>. DEFINE a1 == [r EXCEPT !.nodes = N]
<1>1. a1 = Rec(N, r.pathMap, r.pathHash, r.tree, r.child,
                r.grams, r.lastID, r.data, r.wdMap, r.pathToWd)
  BY DEF Rec, IsStore
<1>. HIDE DEF a1
<1>. DEFINE a2 == [a1 EXCEPT !.data = D]
<1>2. a2 = Rec(N, r.pathMap, r.pathHash, r.tree, r.child,
                r.grams, r.lastID, D, r.wdMap, r.pathToWd)
  BY <1>1 DEF Rec
<1>. HIDE DEF a2
<1>. DEFINE a3 == [a2 EXCEPT !.grams = G]
<1>3. a3 = Rec(N, r.pathMap, r.pathHash, r.tree, r.child, G, r.lastID, D, r.wdMap, r.pathToWd)
  BY <1>2 DEF Rec
<1>. HIDE DEF a3
<1>. DEFINE a4 == [a3 EXCEPT !.lastID = n]
<1>4. a4 = Rec(N, r.pathMap, r.pathHash, r.tree, r.child, G, n, D, r.wdMap, r.pathToWd)
  BY <1>3 DEF Rec
<1>. HIDE DEF a4
<1>. QED
  BY <1>4 DEF a1, a2, a3, a4, NamedStore

LEMMA SetFresh ==
  ASSUME NEW r, IsStore(r), NEW N, NEW T, NEW C, NEW G, NEW n
  PROVE  [r EXCEPT !.nodes = N, !.tree = T, !.child = C, !.grams = G, !.lastID = n] =
           Rec(N, r.pathMap, r.pathHash, T, C, G, n, r.data, r.wdMap, r.pathToWd)
<1>. DEFINE a1 == [r EXCEPT !.nodes = N]
<1>1. a1 = Rec(N, r.pathMap, r.pathHash, r.tree, r.child,
                r.grams, r.lastID, r.data, r.wdMap, r.pathToWd)
  BY DEF Rec, IsStore
<1>. HIDE DEF a1
<1>. DEFINE a2 == [a1 EXCEPT !.tree = T]
<1>2. a2 = Rec(N, r.pathMap, r.pathHash, T, r.child,
                r.grams, r.lastID, r.data, r.wdMap, r.pathToWd)
  BY <1>1 DEF Rec
<1>. HIDE DEF a2
<1>. DEFINE a3 == [a2 EXCEPT !.child = C]
<1>3. a3 = Rec(N, r.pathMap, r.pathHash, T, C, r.grams, r.lastID, r.data, r.wdMap, r.pathToWd)
  BY <1>2 DEF Rec
<1>. HIDE DEF a3
<1>. DEFINE a4 == [a3 EXCEPT !.grams = G]
<1>4. a4 = Rec(N, r.pathMap, r.pathHash, T, C, G, r.lastID, r.data, r.wdMap, r.pathToWd)
  BY <1>3 DEF Rec
<1>. HIDE DEF a4
<1>. DEFINE a5 == [a4 EXCEPT !.lastID = n]
<1>5. a5 = Rec(N, r.pathMap, r.pathHash, T, C, G, n, r.data, r.wdMap, r.pathToWd)
  BY <1>4 DEF Rec
<1>. HIDE DEF a5
<1>. QED
  BY <1>5 DEF a1, a2, a3, a4, a5


\* The index of a store by its parts.
LEMMA MappedRec ==
  \A N, M, H, T, C, G, n, D, W, V :
    LET r == Rec(N, M, H, T, C, G, n, D, W, V)
    IN  /\ IsStore(r)
        /\ Mapped(r) = [nodes |-> ViewNodes(N, D), lookup |-> ViewLookup(M, H), tree |-> T,
                        child |-> C, grams |-> G, lastID |-> n]
<1>. TAKE N, M, H, T, C, G, n, D, W, V
<1>. DEFINE r == Rec(N, M, H, T, C, G, n, D, W, V)
<1>1. /\ r.nodes = N /\ r.pathMap = M /\ r.pathHash = H /\ r.tree = T /\ r.child = C
      /\ r.grams = G /\ r.lastID = n /\ r.data = D /\ r.wdMap = W /\ r.pathToWd = V
  BY RecFields
<1>2. IsStore(r)
  BY <1>1, Zenon DEF IsStore
<1>. HIDE DEF r
<1>3. Mapped(r) = [nodes |-> Mapped(r).nodes, lookup |-> Mapped(r).lookup, tree |-> Mapped(r).tree,
                   child |-> Mapped(r).child, grams |-> Mapped(r).grams,
                   lastID |-> Mapped(r).lastID]
  BY MappedParts DEF IsIndex
<1>4. /\ Mapped(r).nodes = ViewNodes(N, D) /\ Mapped(r).lookup = ViewLookup(M, H)
      /\ Mapped(r).tree = T /\ Mapped(r).child = C /\ Mapped(r).grams = G /\ Mapped(r).lastID = n
  BY <1>1, MappedParts, Zenon
<1>. QED
  BY <1>2, <1>3, <1>4, Zenon DEF r

-----------------------------------------------------------------------------
(* UpsertParentSize over stored nodes.                                     *)

Charged(N, C, id, delta) ==
  LET sized == UpsertParentSize(N, C, id, delta)
  IN  IF Ancestors(C, id) \subseteq DOMAIN N THEN sized
      ELSE Put(sized, NoId, [StoredZero EXCEPT !.size = delta])

\* upsertParentSize touches the nodes alone,
LEMMA ChargeRec ==
  \A s, id, delta :
    Charge(s, id, delta) = [s EXCEPT !.nodes = Charged(s.nodes, s.child, id, delta)]
  BY DEF Charge, Charged

\* Every node but Nodes[0] keeps all but its size, and the nodes that are not
\* above id keep that too.
SameBytes(N, M) ==
  /\ DOMAIN N \subseteq DOMAIN M
  /\ DOMAIN M \subseteq DOMAIN N \cup {NoId}
  /\ \A x \in DOMAIN N \ {NoId} :
       /\ M[x] = [N[x] EXCEPT !.size = M[x].size] /\ M[x].size \in Int
       /\ PathKey(M[x]) = PathKey(N[x])

\* and what is seen of them is what UpsertParentSize of the index makes.
LEMMA ChargedView ==
  ASSUME NEW D \in Path, NEW N, NodesFit(D, N), NEW C, NEW id, NEW delta \in Int
  PROVE  LET M == Charged(N, C, id, delta)
         IN  /\ SameBytes(N, M) /\ NodesFit(D, M)
             /\ ViewNodes(M, D) = UpsertParentSize(ViewNodes(N, D), C, id, delta)
             /\ \A x \in DOMAIN N \ {NoId} : x \notin Ancestors(C, id) => M[x] = N[x]
<1>. DEFINE above == Ancestors(C, id)
            grown == [x \in DOMAIN N |-> IF x \in above THEN [N[x] EXCEPT !.size = @ + delta] ELSE N[x]]
            VN == ViewNodes(N, D)
            vgrown == [x \in DOMAIN VN |-> IF x \in above THEN [VN[x] EXCEPT !.size = @ + delta]
                                           ELSE VN[x]]
            M == Charged(N, C, id, delta)
            zero == [StoredZero EXCEPT !.size = delta]
            vzero == [ZeroNode EXCEPT !.size = delta]
<1>1. M = IF above \subseteq DOMAIN N THEN grown ELSE Put(Put(grown, NoId, vzero), NoId, zero)
  BY DEF Charged, UpsertParentSize
<1>2. UpsertParentSize(VN, C, id, delta) =
        IF above \subseteq DOMAIN VN THEN vgrown ELSE Put(vgrown, NoId, vzero)
  BY DEF UpsertParentSize
<1>3. DOMAIN VN = DOMAIN N /\ \A x \in DOMAIN N : VN[x] = View(D, N[x])
  BY DEF ViewNodes
<1>4. NodeFits(D, NoId, zero) /\ View(D, zero) = vzero
  BY ViewOfZero
<1>5. DOMAIN grown = DOMAIN N /\ DOMAIN vgrown = DOMAIN VN
  OBVIOUS
<1>. HIDE DEF above, zero, vzero
<1>6. ASSUME NEW x \in DOMAIN N
      PROVE  /\ NodeFits(D, x, grown[x]) /\ View(D, grown[x]) = vgrown[x]
             /\ grown[x] = [N[x] EXCEPT !.size = grown[x].size]
             /\ PathKey(grown[x]) = PathKey(N[x])
             /\ grown[x].size \in Int
             /\ x \notin above => grown[x] = N[x]
  <2>. DEFINE node == N[x]
              n == node.size + delta
  <2>1. node \in Stored /\ NodeFits(D, x, node)
    BY DEF NodesFit, NodeFits
  <2>2. node.size \in Int /\ n \in Int
    BY <2>1 DEF Stored
  <2>3. CASE x \notin above
    <3>1. grown[x] = node /\ vgrown[x] = View(D, node)
      BY <2>3, <1>3
    <3>2. node = [node EXCEPT !.size = node.size]
      BY <2>1 DEF Stored
    <3>. HIDE DEF grown, vgrown
    <3>. QED
      BY <2>1, <2>2, <3>1, <3>2
  <2>4. CASE x \in above
    <3>1. View(D, node).size = node.size
      BY DEF View
    <3>2. grown[x] = [node EXCEPT !.size = n] /\ vgrown[x] = [View(D, node) EXCEPT !.size = n]
      BY <2>4, <1>3, <3>1
    <3>3. LET m == [node EXCEPT !.size = n]
          IN  m \in Stored /\ View(D, m) = [View(D, node) EXCEPT !.size = n]
             /\ PathKey(m) = PathKey(node)
             /\ \A i : NodeFits(D, i, node) => NodeFits(D, i, m)
      BY <2>1, <2>2, ViewOfResized
    <3>4. [node EXCEPT !.size = n].size = n
      BY <2>1 DEF Stored
    <3>. HIDE DEF grown, vgrown, n
    <3>. QED
      BY <2>1, <2>2, <2>4, <3>2, <3>3, <3>4
  <2>. QED
    BY <2>3, <2>4
<1>. HIDE DEF grown, vgrown, M, VN
<1>7. CASE above \subseteq DOMAIN N
  <2>1. M = grown /\ UpsertParentSize(VN, C, id, delta) = vgrown
    BY <1>1, <1>2, <1>3, <1>7
  <2>2. ViewNodes(M, D) = [x \in DOMAIN N |-> View(D, grown[x])]
    BY <2>1, <1>5 DEF ViewNodes
  <2>3. vgrown = [x \in DOMAIN N |-> vgrown[x]]
    BY <1>5, <1>3 DEF vgrown
  <2>4. ViewNodes(M, D) = vgrown
    BY <2>2, <2>3, <1>6
  <2>5. NodesFit(D, M)
    BY <2>1, <1>5, <1>6 DEF NodesFit
  <2>6. SameBytes(N, M)
    BY <2>1, <1>5, <1>6 DEF SameBytes
  <2>. QED
    BY <2>1, <2>4, <2>5, <2>6, <1>6 DEF M, above, VN
<1>8. CASE ~(above \subseteq DOMAIN N)
  <2>1. M = Put(Put(grown, NoId, vzero), NoId, zero)
        /\ UpsertParentSize(VN, C, id, delta) = Put(vgrown, NoId, vzero)
    BY <1>1, <1>2, <1>3, <1>8
  <2>2. DOMAIN M = DOMAIN N \cup {NoId} /\ M[NoId] = zero
        /\ \A x \in DOMAIN N \ {NoId} : M[x] = grown[x]
    BY <2>1, <1>5 DEF Put
  <2>3. \A x \in DOMAIN M : View(D, M[x]) = IF x = NoId THEN vzero ELSE vgrown[x]
    BY <2>2, <1>4, <1>6
  <2>4. ViewNodes(M, D) = [x \in DOMAIN N \cup {NoId} |-> IF x = NoId THEN vzero ELSE vgrown[x]]
    BY <2>2, <2>3 DEF ViewNodes
  <2>5. ViewNodes(M, D) = Put(vgrown, NoId, vzero)
    BY <2>4, <1>5, <1>3 DEF Put
  <2>6. NodesFit(D, M)
    BY <2>2, <1>4, <1>6, NoIdType DEF NodesFit
  <2>7. SameBytes(N, M)
    BY <2>2, <1>6 DEF SameBytes
  <2>. QED
    BY <2>1, <2>2, <2>5, <2>6, <2>7, <1>6 DEF M, above, VN
<1>. QED
  BY <1>7, <1>8

-----------------------------------------------------------------------------
(* Both maps.                                                              *)

\* A path other than the empty one leads through both maps to a node that has
\* this key, and the bytes behind the key spell the path.
Resolves(N, M, H, D) ==
  \A p \in DOMAIN H \ {<<>>} :
    /\ H[p] \in DOMAIN M /\ M[H[p]] \in DOMAIN N
    /\ PathKey(N[M[H[p]]]) = H[p]
    /\ GetPathUint64(D, H[p]) = p

Sound(N, M, H, D) ==
  D \in Path /\ NodesFit(D, N) /\ NoKey \notin DOMAIN M /\ Resolves(N, M, H, D)

\* What a lookup leads to is a node with bytes.
LEMMA ResolvedFacts ==
  ASSUME NEW N, NEW M, NEW H, NEW D, Sound(N, M, H, D), NEW p \in DOMAIN H \ {<<>>}
  PROVE  LET x == M[H[p]]
         IN  /\ x \in DOMAIN N /\ x # NoId /\ Spelled(D, N[x]) = p /\ p \in Path
             /\ H[p][2] > 0 /\ H[p][1] + H[p][2] =< Len(D) /\ H[p][1] \in Nat /\ H[p][2] \in Nat
             /\ H[p] # NoKey /\ ~N[x].invalid /\ N[x].pathLen = Len(p)
             /\ p \in DOMAIN ViewLookup(M, H) /\ ViewLookup(M, H)[p] = x
<1>. DEFINE x == M[H[p]]
            node == N[x]
<1>1. H[p] \in DOMAIN M /\ x \in DOMAIN N /\ PathKey(node) = H[p] /\ GetPathUint64(D, H[p]) = p
  BY DEF Sound, Resolves
<1>2. D \in Path /\ NodeFits(D, x, node) /\ NoKey \notin DOMAIN M
  BY <1>1 DEF Sound, NodesFit
<1>3. Spelled(D, node) = p
  BY <1>1 DEF Spelled
<1>4. p \in Path /\ Len(p) = node.pathLen /\ H[p][2] = node.pathLen /\ H[p][1] = node.pathOff
  BY <1>1, <1>2, <1>3, SpelledFacts
<1>5. Len(p) # 0
  <2>1. p # <<>> /\ p \in Seq(Names)
    BY <1>4 DEF Path
  <2>. QED
    BY <2>1, EmptySeq
<1>6. node.pathOff \in Nat /\ node.pathLen \in Nat /\ node.pathOff + node.pathLen =< Len(D)
  BY <1>2 DEF NodeFits, Stored
<1>7. x # NoId /\ ~node.invalid
  BY <1>2, <1>4, <1>5 DEF NodeFits
<1>8. H[p] # NoKey
  BY <1>1, <1>2
<1>9. p \in DOMAIN ViewLookup(M, H) /\ ViewLookup(M, H)[p] = x
  BY <1>1 DEF ViewLookup
<1>. HIDE DEF node
<1>. QED
  BY <1>1, <1>3, <1>4, <1>5, <1>6, <1>7, <1>8, <1>9 DEF node

\* The domain of the lookups, and what GetPathOff and PathMap answer.
LEMMA LookupFacts ==
  ASSUME NEW s, Sound(s.nodes, s.pathMap, s.pathHash, s.data), NEW p, p # <<>>
  PROVE  LET L == ViewLookup(s.pathMap, s.pathHash)
             key == GetPathOff(s, p)
         IN  /\ p \in DOMAIN L <=> p \in DOMAIN s.pathHash
             /\ p \in DOMAIN L <=> key # NoKey
             /\ p \in DOMAIN L <=> key \in DOMAIN s.pathMap
             /\ p \in DOMAIN L => /\ key = s.pathHash[p] /\ IdAt(s, key) = L[p]
                                  /\ s.pathMap[key] = L[p]
             /\ p \notin DOMAIN L => IdAt(s, key) = NoId
<1>1. CASE p \in DOMAIN s.pathHash
  <2>1. p \in DOMAIN ViewLookup(s.pathMap, s.pathHash)
        /\ ViewLookup(s.pathMap, s.pathHash)[p] = s.pathMap[s.pathHash[p]]
        /\ s.pathHash[p] # NoKey
    BY <1>1, ResolvedFacts
  <2>2. s.pathHash[p] \in DOMAIN s.pathMap
    BY <1>1 DEF Sound, Resolves
  <2>. QED
    BY <1>1, <2>1, <2>2 DEF GetPathOff, IdAt
<1>2. CASE p \notin DOMAIN s.pathHash
  <2>1. p \notin DOMAIN ViewLookup(s.pathMap, s.pathHash)
    BY <1>2 DEF ViewLookup
  <2>2. NoKey \notin DOMAIN s.pathMap
    BY DEF Sound
  <2>. QED
    BY <1>2, <2>1, <2>2 DEF GetPathOff, IdAt
<1>. QED
  BY <1>1, <1>2

\* Other nodes under the same lookups.
LEMMA SoundNodes ==
  ASSUME NEW N, NEW M, NEW H, NEW D, Sound(N, M, H, D), NEW N2, NodesFit(D, N2),
         \A p \in DOMAIN H \ {<<>>} :
           M[H[p]] \in DOMAIN N2 /\ PathKey(N2[M[H[p]]]) = PathKey(N[M[H[p]]])
  PROVE  Sound(N2, M, H, D)
  BY DEF Sound, Resolves

\* No path and no name depends on a size.
LEMMA ChargedSound ==
  ASSUME NEW N, NEW M, NEW H, NEW D, Sound(N, M, H, D), NEW N2, NodesFit(D, N2), SameBytes(N, N2)
  PROVE  Sound(N2, M, H, D)
<1>1. ASSUME NEW p \in DOMAIN H \ {<<>>}
      PROVE  M[H[p]] \in DOMAIN N2 /\ PathKey(N2[M[H[p]]]) = PathKey(N[M[H[p]]])
  <2>1. M[H[p]] \in DOMAIN N \ {NoId}
    BY ResolvedFacts
  <2>. QED
    BY <2>1 DEF SameBytes
<1>. QED
  BY <1>1, SoundNodes

\* delete of the entries of some paths, in both maps, with whatever nodes are
\* left for the other paths.
LEMMA ForgetSound ==
  ASSUME NEW s, Sound(s.nodes, s.pathMap, s.pathHash, s.data), NEW P, <<>> \notin P,
         NEW N2, NodesFit(s.data, N2),
         \A p \in DOMAIN s.pathHash \ (P \cup {<<>>}) :
           LET x == s.pathMap[s.pathHash[p]]
           IN  x \in DOMAIN N2 /\ PathKey(N2[x]) = PathKey(s.nodes[x])
  PROVE  LET M == Without(s.pathMap, {GetPathOff(s, p) : p \in P})
             H == Without(s.pathHash, P)
         IN  /\ Sound(N2, M, H, s.data)
             /\ ViewLookup(M, H) = Without(ViewLookup(s.pathMap, s.pathHash), P)
<1>. DEFINE K == {GetPathOff(s, p) : p \in P}
            M == Without(s.pathMap, K)
            H == Without(s.pathHash, P)
            L == ViewLookup(s.pathMap, s.pathHash)
<1>1. DOMAIN M = DOMAIN s.pathMap \ K /\ \A k \in DOMAIN M : M[k] = s.pathMap[k]
  BY DEF Without
<1>2. DOMAIN H = DOMAIN s.pathHash \ P /\ \A p \in DOMAIN H : H[p] = s.pathHash[p]
  BY DEF Without
<1>3. ASSUME NEW q \in DOMAIN s.pathHash \ {<<>>}, q \notin P
      PROVE  s.pathHash[q] \notin K
  <2>1. SUFFICES ASSUME NEW p \in P, s.pathHash[q] = GetPathOff(s, p)
                 PROVE  FALSE
    OBVIOUS
  <2>2. s.pathHash[q] # NoKey /\ Spelled(s.data, s.nodes[s.pathMap[s.pathHash[q]]]) = q
    BY ResolvedFacts
  <2>3. p \in DOMAIN s.pathHash \ {<<>>} /\ s.pathHash[q] = s.pathHash[p]
    BY <2>1, <2>2 DEF GetPathOff
  <2>4. Spelled(s.data, s.nodes[s.pathMap[s.pathHash[p]]]) = p
    BY <2>3, ResolvedFacts
  <2>. QED
    BY <2>2, <2>3, <2>4, <1>3
<1>. HIDE DEF K, M, H
<1>4. ASSUME NEW p \in DOMAIN H \ {<<>>}
      PROVE  /\ p \in DOMAIN s.pathHash \ {<<>>} /\ p \notin P /\ H[p] = s.pathHash[p]
             /\ H[p] \in DOMAIN M /\ M[H[p]] = s.pathMap[s.pathHash[p]]
  <2>1. p \in DOMAIN s.pathHash \ {<<>>} /\ p \notin P /\ H[p] = s.pathHash[p]
    BY <1>2
  <2>2. s.pathHash[p] \in DOMAIN s.pathMap
    BY <2>1 DEF Sound, Resolves
  <2>. QED
    BY <1>1, <1>3, <2>1, <2>2
<1>5. Resolves(N2, M, H, s.data)
  <2>1. SUFFICES ASSUME NEW p \in DOMAIN H \ {<<>>}
                 PROVE  /\ H[p] \in DOMAIN M /\ M[H[p]] \in DOMAIN N2
                        /\ PathKey(N2[M[H[p]]]) = H[p]
                        /\ GetPathUint64(s.data, H[p]) = p
    BY DEF Resolves
  <2>2. /\ PathKey(s.nodes[s.pathMap[s.pathHash[p]]]) = s.pathHash[p]
        /\ GetPathUint64(s.data, s.pathHash[p]) = p
    BY <1>4 DEF Sound, Resolves
  <2>. QED
    BY <1>4, <2>2
<1>6. Sound(N2, M, H, s.data)
  <2>1. s.data \in Path /\ NoKey \notin DOMAIN s.pathMap
    BY DEF Sound
  <2>. QED
    BY <1>1, <1>5, <2>1 DEF Sound
<1>7. DOMAIN ViewLookup(M, H) = DOMAIN L \ P
      /\ \A p \in DOMAIN ViewLookup(M, H) : ViewLookup(M, H)[p] = L[p]
  <2>1. DOMAIN ViewLookup(M, H) = DOMAIN H \ {<<>>}
    <3>1. DOMAIN ViewLookup(M, H) = {q \in DOMAIN H \ {<<>>} : H[q] \in DOMAIN M}
      BY DEF ViewLookup
    <3>. QED
      BY <3>1, <1>4
  <2>2. DOMAIN L = DOMAIN s.pathHash \ {<<>>}
    <3>1. DOMAIN L = {q \in DOMAIN s.pathHash \ {<<>>} : s.pathHash[q] \in DOMAIN s.pathMap}
      BY DEF ViewLookup
    <3>. QED
      BY <3>1 DEF Sound, Resolves
  <2>3. \A p \in DOMAIN H \ {<<>>} : ViewLookup(M, H)[p] = M[H[p]]
    BY <1>4 DEF ViewLookup
  <2>4. \A p \in DOMAIN s.pathHash \ {<<>>} : L[p] = s.pathMap[s.pathHash[p]]
    BY ResolvedFacts
  <2>. HIDE DEF L
  <2>. QED
    BY <2>1, <2>2, <2>3, <2>4, <1>2, <1>4
<1>8. ViewLookup(M, H) = Without(L, P)
  <2>1. ViewLookup(M, H) = [p \in DOMAIN ViewLookup(M, H) |-> ViewLookup(M, H)[p]]
    BY DEF ViewLookup
  <2>. HIDE DEF L
  <2>. QED
    BY <1>7, <2>1 DEF Without
<1>. QED
  BY <1>6, <1>8 DEF M, H, K

\* A path stored for a node that no other path leads to.
LEMMA StoreSound ==
  ASSUME NEW N, NEW M, NEW H, NEW D, Sound(N, M, H, D), NEW p \in Path, p # <<>>, NEW id,
         NEW N2, NodesFit(D \o p, N2), id \in DOMAIN N2,
         PathKey(N2[id]) = GetUint64(Len(D), Len(p)),
         \A q \in DOMAIN H \ {<<>>} : LET x == M[H[q]]
                                      IN  x \in DOMAIN N2 /\ PathKey(N2[x]) = PathKey(N[x])
  PROVE  LET key == GetUint64(Len(D), Len(p))
             M2 == Put(M, key, id)
             H2 == Put(H, p, key)
         IN  /\ Sound(N2, M2, H2, D \o p)
             /\ ViewLookup(M2, H2) = Put(ViewLookup(M, H), p, id)
<1>. DEFINE key == GetUint64(Len(D), Len(p))
            M2 == Put(M, key, id)
            H2 == Put(H, p, key)
            E == D \o p
            L == ViewLookup(M, H)
<1>1. DOMAIN M2 = DOMAIN M \cup {key} /\ M2[key] = id
      /\ \A k \in DOMAIN M : k # key => M2[k] = M[k]
  BY DEF Put
<1>2. DOMAIN H2 = DOMAIN H \cup {p} /\ H2[p] = key /\ \A q \in DOMAIN H : q # p => H2[q] = H[q]
  BY DEF Put
<1>3. D \in Path /\ E \in Path /\ Get(E, Len(D), Len(p)) = p /\ Len(D) \in Nat /\ Len(p) \in Nat
  BY SliceOfNew DEF Sound, Path
<1>4. Len(p) # 0
  BY EmptySeq DEF Path
<1>5. key[1] = Len(D) /\ key[2] = Len(p) /\ key # NoKey
  BY <1>3, <1>4 DEF GetUint64, NoKey
<1>6. GetPathUint64(E, key) = p
  BY <1>3, <1>4, <1>5 DEF GetPathUint64
<1>. HIDE DEF key, M2, H2, E
<1>7. ASSUME NEW q \in DOMAIN H \ {<<>>}
      PROVE  /\ H[q] # key /\ H[q] \in DOMAIN M2 /\ M2[H[q]] = M[H[q]]
             /\ GetPathUint64(E, H[q]) = q
             /\ PathKey(N[M[H[q]]]) = H[q]
  <2>1. /\ H[q][2] > 0 /\ H[q][1] + H[q][2] =< Len(D) /\ H[q][1] \in Nat /\ H[q][2] \in Nat
    BY ResolvedFacts
  <2>2. H[q] \in DOMAIN M /\ PathKey(N[M[H[q]]]) = H[q] /\ GetPathUint64(D, H[q]) = q
    BY DEF Sound, Resolves
  <2>3. H[q] # key
    BY <1>3, <1>5, <2>1
  <2>4. Get(E, H[q][1], H[q][2]) = Get(D, H[q][1], H[q][2])
    BY <1>3, <2>1, SliceOfAppended DEF E
  <2>. QED
    BY <1>1, <2>2, <2>3, <2>4 DEF GetPathUint64
<1>8. Resolves(N2, M2, H2, E)
  <2>1. SUFFICES ASSUME NEW q \in DOMAIN H2 \ {<<>>}
                 PROVE  /\ H2[q] \in DOMAIN M2 /\ M2[H2[q]] \in DOMAIN N2
                        /\ PathKey(N2[M2[H2[q]]]) = H2[q]
                        /\ GetPathUint64(E, H2[q]) = q
    BY DEF Resolves
  <2>2. CASE q = p
    BY <2>2, <1>1, <1>2, <1>6 DEF key
  <2>3. CASE q # p
    <3>1. q \in DOMAIN H \ {<<>>} /\ H2[q] = H[q]
      BY <2>3, <1>2
    <3>. QED
      BY <3>1, <1>7
  <2>. QED
    BY <2>2, <2>3
<1>9. Sound(N2, M2, H2, E)
  <2>1. NoKey \notin DOMAIN M
    BY DEF Sound
  <2>. QED
    BY <1>1, <1>3, <1>5, <1>8, <2>1 DEF Sound, E
<1>10. DOMAIN L = DOMAIN H \ {<<>>} /\ \A q \in DOMAIN H \ {<<>>} : L[q] = M[H[q]]
  <2>1. DOMAIN L = {q \in DOMAIN H \ {<<>>} : H[q] \in DOMAIN M}
    BY DEF ViewLookup
  <2>2. \A q \in DOMAIN H \ {<<>>} : q \in DOMAIN L /\ L[q] = M[H[q]]
    BY ResolvedFacts
  <2>. HIDE DEF L
  <2>. QED
    BY <2>1, <2>2
<1>11. DOMAIN ViewLookup(M2, H2) = DOMAIN L \cup {p}
       /\ \A q \in DOMAIN ViewLookup(M2, H2) : ViewLookup(M2, H2)[q] = IF q = p THEN id ELSE L[q]
  <2>1. \A q \in DOMAIN H2 \ {<<>>} : H2[q] \in DOMAIN M2
    BY <1>8 DEF Resolves
  <2>2. DOMAIN ViewLookup(M2, H2) = DOMAIN H2 \ {<<>>}
        /\ \A q \in DOMAIN H2 \ {<<>>} : ViewLookup(M2, H2)[q] = M2[H2[q]]
    BY <2>1 DEF ViewLookup
  <2>3. \A q \in DOMAIN H \ {<<>>} : q # p => M2[H2[q]] = L[q]
    BY <1>2, <1>7, <1>10
  <2>. HIDE DEF L
  <2>. QED
    BY <2>2, <2>3, <1>1, <1>2, <1>10
<1>12. ViewLookup(M2, H2) = Put(L, p, id)
  <2>1. ViewLookup(M2, H2) = [q \in DOMAIN ViewLookup(M2, H2) |-> ViewLookup(M2, H2)[q]]
    BY DEF ViewLookup
  <2>. HIDE DEF L
  <2>. QED
    BY <1>11, <2>1 DEF Put
<1>. QED
  BY <1>9, <1>12 DEF M2, H2, key, E

-----------------------------------------------------------------------------
(* No node is above itself: a rename that would make it so never returns.  *)

\* The parents above a node.
LEMMA AncestorsFacts ==
  \A C, id :
    /\ id \in DOMAIN C => C[id] \in Ancestors(C, id)
    /\ \A y \in Ancestors(C, id) : y \in DOMAIN C => C[y] \in Ancestors(C, id)
    /\ \A S : /\ id \in DOMAIN C => C[id] \in S
              /\ \A y \in S : y \in DOMAIN C => C[y] \in S
              => Ancestors(C, id) \subseteq S
<1>. TAKE C, id
<1>. DEFINE all == DOMAIN C \cup {C[c] : c \in DOMAIN C} \cup {id}
            above == [x \in all |-> IF x \in DOMAIN C THEN {C[x]} ELSE {}]
            R == Reach(above[id], above)
<1>1. Ancestors(C, id) = R
  BY DEF Ancestors
<1>2. DOMAIN above = all /\ id \in all /\ \A x \in all : above[x] = IF x \in DOMAIN C THEN {C[x]} ELSE {}
  OBVIOUS
<1>3. \A x \in all : above[x] \subseteq all
  OBVIOUS
<1>4. DOMAIN C \subseteq all
  OBVIOUS
<1>. HIDE DEF all, above, R
<1>5. above[id] \subseteq R /\ R \subseteq all /\ \A y \in R : above[y] \subseteq R
  BY <1>2, <1>3, ReachFacts DEF R
<1>6. ASSUME NEW S, id \in DOMAIN C => C[id] \in S, \A y \in S : y \in DOMAIN C => C[y] \in S
      PROVE  R \subseteq S
  <2>. DEFINE T == S \cap all
  <2>1. T \subseteq DOMAIN above /\ above[id] \subseteq T
    BY <1>2, <1>3, <1>6
  <2>2. \A y \in T : above[y] \subseteq T
    BY <1>2, <1>3, <1>6
  <2>3. R \subseteq T
    BY <2>1, <2>2, ReachWithin DEF R
  <2>. QED
    BY <2>3
<1>7. id \in DOMAIN C => C[id] \in R
  BY <1>2, <1>5
<1>8. \A y \in R : y \in DOMAIN C => C[y] \in R
  BY <1>2, <1>4, <1>5
<1>. QED
  BY <1>1, <1>6, <1>7, <1>8

Acyclic(C) == \A x \in DOMAIN C : x \notin Ancestors(C, x)

\* Without some nodes, or with one more that is not above itself, no node is
\* above itself.
LEMMA AcyclicWithout ==
  ASSUME NEW C, Acyclic(C), NEW gone
  PROVE  Acyclic(Without(C, gone))
<1>. DEFINE B == Without(C, gone)
<1>1. DOMAIN B \subseteq DOMAIN C /\ \A x \in DOMAIN B : B[x] = C[x]
  BY DEF Without
<1>. HIDE DEF B
<1>2. ASSUME NEW x \in DOMAIN B
      PROVE  Ancestors(B, x) \subseteq Ancestors(C, x)
  <2>. DEFINE S == Ancestors(C, x)
  <2>1. /\ x \in DOMAIN B => B[x] \in S
        /\ \A y \in S : y \in DOMAIN B => B[y] \in S
    BY <1>1, AncestorsFacts
  <2>. HIDE DEF S
  <2>2. Ancestors(B, x) \subseteq S
    BY <2>1, AncestorsFacts
  <2>. QED
    BY <2>2 DEF S
<1>3. Acyclic(B)
  BY <1>1, <1>2 DEF Acyclic
<1>. QED
  BY <1>3 DEF B

LEMMA AcyclicPut ==
  ASSUME NEW C, Acyclic(C), NEW id, NEW parent, id \notin Ancestors(Put(C, id, parent), id)
  PROVE  Acyclic(Put(C, id, parent))
<1>. DEFINE B == Put(C, id, parent)
<1>1. DOMAIN B = DOMAIN C \cup {id} /\ \A x \in DOMAIN B \ {id} : x \in DOMAIN C /\ B[x] = C[x]
      /\ \A y \in DOMAIN C \ {id} : y \in DOMAIN B
  BY DEF Put
<1>. HIDE DEF B
<1>2. SUFFICES ASSUME NEW x \in DOMAIN B, x # id, x \in Ancestors(B, x)
               PROVE  FALSE
  BY DEF Acyclic, B
<1>. DEFINE S == Ancestors(C, x)
            T == Ancestors(B, x)
            U == Ancestors(B, id)
<1>3. x \in DOMAIN C /\ x \notin S
  BY <1>1, <1>2 DEF Acyclic
<1>4. /\ C[x] \in S /\ \A y \in S : y \in DOMAIN C => C[y] \in S
      /\ \A R : C[x] \in R /\ (\A y \in R : y \in DOMAIN C => C[y] \in R) => S \subseteq R
  BY <1>3, AncestorsFacts
<1>5. /\ B[x] \in T /\ \A y \in T : y \in DOMAIN B => B[y] \in T
      /\ \A R : B[x] \in R /\ (\A y \in R : y \in DOMAIN B => B[y] \in R) => T \subseteq R
  BY AncestorsFacts
<1>6. id \in DOMAIN B
  BY <1>1
<1>7. /\ B[id] \in U /\ \A y \in U : y \in DOMAIN B => B[y] \in U
      /\ \A R : B[id] \in R /\ (\A y \in R : y \in DOMAIN B => B[y] \in R) => U \subseteq R
  BY <1>6, AncestorsFacts
<1>8. id \notin U /\ x \in T
  BY <1>2 DEF B
<1>. HIDE DEF S, T, U
<1>9. id \in T
  <2>1. SUFFICES ASSUME id \notin T PROVE FALSE
    OBVIOUS
  <2>2. \A y \in T : y \in DOMAIN C => C[y] \in T
    BY <2>1, <1>1, <1>5
  <2>3. C[x] \in T
    BY <1>1, <1>2, <1>5
  <2>. QED
    BY <2>2, <2>3, <1>1, <1>3, <1>4, <1>5, <1>8, <2>1
<1>10. x \in U
  <2>. DEFINE R == S \cup U
  <2>1. B[x] \in R
    BY <1>1, <1>2, <1>4
  <2>2. \A y \in R : y \in DOMAIN B => B[y] \in R
    BY <1>1, <1>4, <1>7
  <2>. HIDE DEF R
  <2>3. T \subseteq R
    BY <2>1, <2>2, <1>5
  <2>. QED
    BY <2>3, <1>3, <1>8 DEF R
<1>11. T \subseteq U
  <2>1. B[x] \in U
    BY <1>7, <1>10
  <2>. QED
    BY <2>1, <1>5, <1>7
<1>. QED
  BY <1>8, <1>9, <1>11

\* A fresh id is nobody's parent.
LEMMA AcyclicFresh ==
  ASSUME NEW C, Acyclic(C), NEW id, NEW parent, parent # id,
         \A x \in DOMAIN C : C[x] # id
  PROVE  Acyclic(Put(C, id, parent))
<1>. DEFINE B == Put(C, id, parent)
            S == {B[x] : x \in DOMAIN B}
<1>1. \A x \in DOMAIN B : B[x] # id
  BY DEF Put
<1>2. id \in DOMAIN B => B[id] \in S
  OBVIOUS
<1>3. \A y \in S : y \in DOMAIN B => B[y] \in S
  OBVIOUS
<1>. HIDE DEF B
<1>4. Ancestors(B, id) \subseteq S
  BY <1>2, <1>3, AncestorsFacts
<1>5. id \notin Ancestors(B, id)
  BY <1>1, <1>4
<1>. QED
  BY <1>5, AcyclicPut DEF B

\* The index invariant of the other proofs, with what the store needs of it.
Rooted(i) ==
  /\ Acyclic(i.child)
  /\ \A x \in DOMAIN i.child : i.child[x][1] =< i.lastID

Healthy(i) == IxInv(i) /\ TiedIndex(i) /\ Rooted(i)

\* Every handler of the index keeps that shape.
LEMMA InsertRooted ==
  ASSUME NEW i, Healthy(i), NEW p, NEW b \in BOOLEAN, NEW s, NEW t
  PROVE  Rooted(Insert(i, p, b, s, t))
<1>. DEFINE id == SetRealID(i.lastID + 1, b)
            parent == LookupId(i, Dir(p))
            j == Insert(i, p, b, s, t)
<1>1. j.child = Put(i.child, id, parent) /\ j.lastID = i.lastID + 1
  BY DEF Insert
<1>2. i.lastID \in Nat
  BY DEF Healthy, IxInv, IndexType
<1>3. id[1] = i.lastID + 1
  BY <1>2, FreshId
<1>4. parent \in Id /\ parent[1] =< i.lastID
  <2>1. parent \in Id
    BY LookupIdType DEF Healthy
  <2>2. CASE Dir(p) \in DOMAIN i.lookup
    <3>1. parent \in DOMAIN i.nodes
      BY <2>2 DEF LookupId, Healthy, IxInv, LookupsResolve
    <3>. QED
      BY <2>1, <3>1 DEF Healthy, IxInv, Counted
  <2>3. CASE Dir(p) \notin DOMAIN i.lookup
    <3>1. parent = NoId
      BY <2>3 DEF LookupId
    <3>. QED
      BY <2>1, <3>1, <1>2, NoIdType
  <2>. QED
    BY <2>2, <2>3
<1>5. \A x \in DOMAIN i.child : i.child[x][1] =< i.lastID /\ i.child[x] \in Id
  BY DEF Healthy, Rooted, IxInv, IndexType
<1>. HIDE DEF id, parent, j
<1>6. parent # id /\ \A x \in DOMAIN i.child : i.child[x] # id
  <2>1. \A y \in Id : y[1] =< i.lastID => y # id
    BY <1>2, <1>3 DEF Id
  <2>. QED
    BY <1>4, <1>5, <2>1
<1>7. Acyclic(j.child)
  BY <1>1, <1>6, AcyclicFresh DEF Healthy, Rooted
<1>8. \A x \in DOMAIN j.child : j.child[x][1] =< j.lastID
  <2>1. \A y \in Id : y[1] \in Nat
    BY DEF Id
  <2>2. \A x \in DOMAIN j.child : j.child[x] = parent \/ (x \in DOMAIN i.child /\ j.child[x] = i.child[x])
    BY <1>1 DEF Put
  <2>4. \A x \in DOMAIN j.child : j.child[x] \in Id /\ j.child[x][1] =< i.lastID
    BY <1>4, <1>5, <2>2
  <2>. QED
    BY <1>1, <1>2, <2>1, <2>4
<1>9. Rooted(j)
  BY <1>7, <1>8 DEF Rooted
<1>. QED
  BY <1>9 DEF j

LEMMA RootedSame ==
  ASSUME NEW i, Rooted(i), NEW j, j.child = i.child, i.lastID \in Nat, j.lastID \in Nat,
         i.lastID =< j.lastID, \A x \in DOMAIN i.child : i.child[x] \in Id
  PROVE  Rooted(j)
<1>1. ASSUME NEW x \in DOMAIN j.child
      PROVE  j.child[x][1] =< j.lastID
  <2>1. j.child[x] \in Id /\ j.child[x][1] =< i.lastID
    BY DEF Rooted
  <2>2. j.child[x][1] \in Nat
    BY <2>1 DEF Id
  <2>. QED
    BY <2>1, <2>2
<1>. QED
  BY <1>1 DEF Rooted

LEMMA RootedWithout ==
  ASSUME NEW i, Rooted(i), NEW j, NEW gone, j.child = Without(i.child, gone),
         j.lastID = i.lastID
  PROVE  Rooted(j)
<1>1. Acyclic(j.child)
  BY AcyclicWithout DEF Rooted
<1>2. \A x \in DOMAIN j.child : x \in DOMAIN i.child /\ j.child[x] = i.child[x]
  BY DEF Without
<1>. QED
  BY <1>1, <1>2 DEF Rooted

\* All that a handler may rely on, and keeps.
LEMMA UpsertHealthy ==
  ASSUME NEW i, Healthy(i), NEW p \in Path, p # <<>>, NEW info,
         info.dir \in BOOLEAN, info.size \in Int, info.mtime \in Int
  PROVE  Healthy(Upsert(i, p, info))
<1>. DEFINE j == Upsert(i, p, info)
            k == Insert(i, p, info.dir, info.size, info.mtime)
<1>1. IxInv(j) /\ TiedIndex(j)
  BY UpsertInv, UpsertTied DEF Healthy
<1>2. \/ p \in DOMAIN i.lookup /\ j.child = i.child /\ j.lastID = i.lastID
      \/ j.child = k.child /\ j.lastID = k.lastID
  <2>1. CASE p \in DOMAIN i.lookup
    <3>1. j.child = i.child
      BY <2>1, UpsertShape DEF OnlySizes, Healthy
    <3>2. \A X : [i EXCEPT !.nodes = X].lastID = i.lastID
      <4>1. IsIndex(i)
        BY DEF Healthy, IxInv
      <4>. QED
        BY <4>1 DEF IsIndex
    <3>3. j.lastID = i.lastID
      BY <2>1, <3>2 DEF Upsert
    <3>. QED
      BY <2>1, <3>1, <3>3
  <2>2. CASE p \notin DOMAIN i.lookup
    <3>1. IsIndex(k)
      BY RecordIsIndex DEF Insert
    <3>2. \A X : [k EXCEPT !.nodes = X].lastID = k.lastID /\ [k EXCEPT !.nodes = X].child = k.child
      <4>. HIDE DEF k
      <4>. QED
        BY <3>1 DEF IsIndex
    <3>3. j = [k EXCEPT !.nodes = UpsertParentSize(k.nodes, k.child, k.lookup[p], info.size)]
      BY <2>2 DEF Upsert
    <3>. HIDE DEF k, j
    <3>. QED
      BY <3>2, <3>3
  <2>. QED
    BY <2>1, <2>2
<1>3. Rooted(k) /\ Rooted(i) /\ i.lastID \in Nat /\ k.lastID \in Nat /\ IxInv(k)
  BY InsertRooted, InsertInv DEF Healthy, IxInv, IndexType
<1>4. /\ \A x \in DOMAIN i.child : i.child[x] \in Id
      /\ \A x \in DOMAIN k.child : k.child[x] \in Id
      /\ j.lastID \in Nat
  BY <1>1, <1>3 DEF Healthy, IxInv, IndexType
<1>. HIDE DEF j, k
<1>5. Rooted(j)
  BY <1>2, <1>3, <1>4, RootedSame
<1>. QED
  BY <1>1, <1>5 DEF Healthy, j

LEMMA UpsertDirHealthy ==
  ASSUME NEW i, Healthy(i), NEW p \in Path, p # <<>>, NEW t \in Int
  PROVE  Healthy(UpsertDir(i, p, t))
<1>. DEFINE j == UpsertDir(i, p, t)
            k == Insert(i, p, TRUE, 0, t)
<1>1. IxInv(j) /\ TiedIndex(j)
  BY UpsertDirInv, UpsertDirTied DEF Healthy
<1>2. CASE p \in DOMAIN i.lookup
  <2>1. j.child = i.child
    BY <1>2, UpsertDirShape DEF OnlySizes, Healthy
  <2>2. \A X : [i EXCEPT !.nodes = X].lastID = i.lastID
    <3>1. IsIndex(i)
      BY DEF Healthy, IxInv
    <3>. QED
      BY <3>1 DEF IsIndex
  <2>3. j.lastID = i.lastID
    BY <1>2, <2>2 DEF UpsertDir
  <2>4. i.lastID \in Nat /\ (\A x \in DOMAIN i.child : i.child[x] \in Id) /\ Rooted(i)
    BY DEF Healthy, IxInv, IndexType
  <2>. HIDE DEF j
  <2>5. Rooted(j)
    BY <2>1, <2>3, <2>4, RootedSame
  <2>. QED
    BY <1>1, <2>5 DEF Healthy, j
<1>3. CASE p \notin DOMAIN i.lookup
  <2>1. j = k
    BY <1>3 DEF UpsertDir
  <2>2. Rooted(k)
    BY InsertRooted
  <2>. QED
    BY <1>1, <2>1, <2>2 DEF Healthy
<1>. QED
  BY <1>2, <1>3

LEMMA RemoveHealthy ==
  ASSUME NEW i, Healthy(i), NEW p, NEW isDir
  PROVE  Healthy(Remove(i, p, isDir))
<1>. DEFINE j == Remove(i, p, isDir)
<1>1. IxInv(j) /\ TiedIndex(j)
  BY RemoveInv, RemoveTied DEF Healthy
<1>2. j = i \/ \E gone : j.child = Without(i.child, gone) /\ j.lastID = i.lastID
  BY DEF Remove, RemoveDir, RemoveFile
<1>. HIDE DEF j
<1>3. Rooted(j)
  BY <1>2, RootedWithout DEF Healthy
<1>. QED
  BY <1>1, <1>3 DEF Healthy, j

LEMMA NameHealthy ==
  ASSUME NEW i, Healthy(i)
  PROVE  /\ \A name \in Names, t \in Int : Healthy(SaveName(i, name, t))
         /\ \A id : Healthy(DeleteInvalid(i, id))
<1>1. i.lastID \in Nat /\ (\A x \in DOMAIN i.child : i.child[x] \in Id) /\ Rooted(i)
  BY DEF Healthy, IxInv, IndexType
<1>2. ASSUME NEW name \in Names, NEW t \in Int
      PROVE  Healthy(SaveName(i, name, t))
  <2>. DEFINE j == SaveName(i, name, t)
  <2>1. IxInv(j) /\ TiedIndex(j)
    BY SaveNameInv, SaveNameTied DEF Healthy
  <2>2. j.child = i.child /\ j.lastID = i.lastID + 1
    BY DEF SaveName
  <2>. HIDE DEF j
  <2>3. Rooted(j)
    BY <1>1, <2>2, RootedSame
  <2>. QED
    BY <2>1, <2>3 DEF Healthy, j
<1>3. ASSUME NEW id
      PROVE  Healthy(DeleteInvalid(i, id))
  <2>. DEFINE j == DeleteInvalid(i, id)
  <2>1. IxInv(j) /\ TiedIndex(j)
    BY DeleteInvalidInv, DeleteInvalidTied DEF Healthy
  <2>2. j.child = i.child /\ j.lastID = i.lastID
    BY DEF DeleteInvalid
  <2>. HIDE DEF j
  <2>3. Rooted(j)
    BY <1>1, <2>2, RootedSame
  <2>. QED
    BY <2>1, <2>3 DEF Healthy, j
<1>. QED
  BY <1>2, <1>3

LEMMA RenameHealthy ==
  ASSUME NEW i, Healthy(i), NEW old \in Path, NEW new \in Path, new # <<>>,
         ~IsPrefix(old, new), NEW t \in Int, NEW j \in RenameNode(i, old, new, t)
  PROVE  Healthy(j)
<1>1. IxInv(j) /\ TiedIndex(j)
  BY RenameInv, RenameTied DEF Healthy
<1>. DEFINE id == i.lookup[old]
            off == Detach(i, id, old)
            parent == off.lookup[Dir(new)]
            on == Attach(off, id, new, t)
            below == Renamed(on.tree, id)
<1>2. off.child = i.child /\ off.lastID = i.lastID /\ off.lookup = Without(i.lookup, {old})
  BY DEF Detach
<1>3. on.child = Put(i.child, id, parent) /\ on.lastID = i.lastID
  BY <1>2 DEF Attach
<1>4. \/ j = i
      \/ old \in DOMAIN i.lookup /\ j = off
      \/ /\ old \in DOMAIN i.lookup /\ Dir(new) \in DOMAIN off.lookup
         /\ id \notin Ancestors(on.child, id)
         /\ \E r \in MovePaths(on, below, old, new) : j = Settle(r, id)
  BY DEF RenameNode
<1>5. i.lastID \in Nat /\ (\A x \in DOMAIN i.child : i.child[x] \in Id) /\ Rooted(i)
  BY DEF Healthy, IxInv, IndexType
<1>6. \A r \in MovePaths(on, below, old, new) : r.child = on.child /\ r.lastID = on.lastID
  <2>1. IsIndex(on)
    BY RecordIsIndex DEF Attach
  <2>. HIDE DEF on, below
  <2>3. \A r \in MovePaths(on, below, old, new) :
          \E X, Y : r = [on EXCEPT !.nodes = X, !.lookup = Y]
    BY DEF MovePaths
  <2>4. SUFFICES ASSUME NEW r \in MovePaths(on, below, old, new)
                 PROVE  r.child = on.child /\ r.lastID = on.lastID
    OBVIOUS
  <2>5. PICK X, Y : r = [on EXCEPT !.nodes = X, !.lookup = Y]
    BY <2>3
  <2>. QED
    BY <2>1, <2>5 DEF IsIndex
<1>. HIDE DEF off, on, below
<1>7. CASE j = i
  BY <1>7
<1>8. CASE j = off
  <2>1. Rooted(j)
    BY <1>2, <1>5, <1>8, RootedSame
  <2>. QED
    BY <1>1, <2>1 DEF Healthy
<1>9. CASE /\ Dir(new) \in DOMAIN off.lookup
           /\ id \notin Ancestors(on.child, id)
           /\ \E r \in MovePaths(on, below, old, new) : j = Settle(r, id)
  <2>1. j.child = on.child /\ j.lastID = on.lastID
    BY <1>6, <1>9 DEF Settle
  <2>2. parent \in DOMAIN i.nodes
    BY <1>2, <1>9 DEF Without, Healthy, IxInv, LookupsResolve
  <2>3. parent[1] =< i.lastID
    BY <2>2 DEF Healthy, IxInv, Counted
  <2>. HIDE DEF parent
  <2>4. Acyclic(j.child)
    BY <1>3, <1>5, <1>9, <2>1, AcyclicPut DEF Rooted
  <2>5. \A x \in DOMAIN j.child : j.child[x][1] =< j.lastID
    <3>1. \A x \in DOMAIN j.child : j.child[x] = parent \/ (x \in DOMAIN i.child /\ j.child[x] = i.child[x])
      BY <1>3, <2>1 DEF Put
    <3>. QED
      BY <1>3, <1>5, <2>1, <2>3, <3>1 DEF Rooted
  <2>. QED
    BY <1>1, <2>4, <2>5 DEF Healthy, Rooted
<1>. QED
  BY <1>4, <1>7, <1>8, <1>9

-----------------------------------------------------------------------------
(* The handlers on stores and on what they are seen as.                    *)

\* A store that means an index.
Fits(s) == IsStore(s) /\ Sound(s.nodes, s.pathMap, s.pathHash, s.data) /\ DOMAIN s.wdMap \subseteq Id

\* The helpers by the fields they set.
LEMMA ChargeIs ==
  \A s, id, delta : IsStore(s) =>
    Charge(s, id, delta) = Rec(Charged(s.nodes, s.child, id, delta), s.pathMap, s.pathHash,
                               s.tree, s.child, s.grams, s.lastID, s.data, s.wdMap, s.pathToWd)
<1>. TAKE s, id, delta
<1>. DEFINE X == Charged(s.nodes, s.child, id, delta)
<1>1. Charge(s, id, delta) = [s EXCEPT !.nodes = X]
  BY ChargeRec
<1>. HIDE DEF X
<1>. QED
  BY <1>1, SetNodes DEF X

\* The two maps, when a path goes and when one comes.
LEMMA ForgetIs ==
  \A s, P : IsStore(s) =>
    Forget(s, P) = Rec(s.nodes, Without(s.pathMap, {GetPathOff(s, p) : p \in P}),
                       Without(s.pathHash, P), s.tree, s.child, s.grams, s.lastID, s.data,
                       s.wdMap, s.pathToWd)
<1>. TAKE s, P
<1>. DEFINE M == Without(s.pathMap, {GetPathOff(s, p) : p \in P})
            H == Without(s.pathHash, P)
<1>1. Forget(s, P) = [s EXCEPT !.pathMap = M, !.pathHash = H]
  BY DEF Forget
<1>. HIDE DEF M, H
<1>. QED
  BY <1>1, SetMaps DEF M, H

LEMMA StoreIs ==
  \A s, p, id : IsStore(s) =>
    LET key == GetUint64(Len(s.data), Len(p))
    IN  Store(s, p, id) = Rec(s.nodes, Put(s.pathMap, key, id), Put(s.pathHash, p, key),
                              s.tree, s.child, s.grams, s.lastID, s.data \o p,
                              s.wdMap, s.pathToWd)
<1>. TAKE s, p, id
<1>. DEFINE key == GetUint64(Len(s.data), Len(p))
            M == Put(s.pathMap, key, id)
            H == Put(s.pathHash, p, key)
            D == s.data \o p
<1>1. Store(s, p, id) = [s EXCEPT !.data = D, !.pathMap = M, !.pathHash = H]
  BY DEF Store
<1>. HIDE DEF M, H, D
<1>2. IsStore(s) => Store(s, p, id) = Rec(s.nodes, M, H, s.tree, s.child, s.grams, s.lastID, D,
                                          s.wdMap, s.pathToWd)
  BY <1>1, SetStored
<1>. QED
  BY <1>2 DEF M, H, D

\* PutWd, DeleteWd and AddWatch.
LEMMA WatchIs ==
  \A s, key, wd : IsStore(s) =>
    \A r \in {PutWd(s, key, wd), DeleteWd(s, key), AddWatch(s, key, wd)} :
      \E W, V : /\ r = Rec(s.nodes, s.pathMap, s.pathHash, s.tree, s.child, s.grams, s.lastID,
                           s.data, W, V)
                /\ DOMAIN W \subseteq DOMAIN s.wdMap \cup {wd}
                /\ r = DeleteWd(s, key) => DOMAIN W \subseteq DOMAIN s.wdMap
<1>. SUFFICES ASSUME NEW s, NEW key, NEW wd, IsStore(s)
              PROVE  \A r \in {PutWd(s, key, wd), DeleteWd(s, key), AddWatch(s, key, wd)} :
      \E W, V : /\ r = Rec(s.nodes, s.pathMap, s.pathHash, s.tree, s.child, s.grams, s.lastID,
                           s.data, W, V)
                /\ DOMAIN W \subseteq DOMAIN s.wdMap \cup {wd}
                /\ r = DeleteWd(s, key) => DOMAIN W \subseteq DOMAIN s.wdMap
  OBVIOUS
<1>. DEFINE W1 == Put(s.wdMap, wd, key)
            V1 == Put(s.pathToWd, key, wd)
            W2 == Without(s.wdMap, {s.pathToWd[key]})
            V2 == Without(s.pathToWd, {key})
            Same(W, V) == Rec(s.nodes, s.pathMap, s.pathHash, s.tree, s.child, s.grams, s.lastID,
                              s.data, W, V)
<1>1. PutWd(s, key, wd) = [s EXCEPT !.wdMap = W1, !.pathToWd = V1]
  BY DEF PutWd
<1>2. DeleteWd(s, key) = s \/ DeleteWd(s, key) = [s EXCEPT !.wdMap = W2, !.pathToWd = V2]
  BY DEF DeleteWd
<1>3. DOMAIN W1 \subseteq DOMAIN s.wdMap \cup {wd} /\ DOMAIN W2 \subseteq DOMAIN s.wdMap
  BY DEF Put, Without
<1>. HIDE DEF W1, V1, W2, V2
<1>4. PutWd(s, key, wd) = Same(W1, V1)
  BY <1>1, SetWatches
<1>5. DeleteWd(s, key) = s \/ DeleteWd(s, key) = Same(W2, V2)
  BY <1>2, SetWatches
<1>6. s = Same(s.wdMap, s.pathToWd)
  BY DEF IsStore
<1>7. AddWatch(s, key, wd) = s \/ AddWatch(s, key, wd) = PutWd(s, key, wd)
  BY DEF AddWatch
<1>. HIDE DEF Same
<1>8. \A r \in {PutWd(s, key, wd), DeleteWd(s, key), AddWatch(s, key, wd)} :
        r = s \/ r = Same(W2, V2) \/ (r = Same(W1, V1))
  BY <1>4, <1>5, <1>7
<1>9. Same(W1, V1) = DeleteWd(s, key) =>
        Same(W1, V1) = s \/ Same(W1, V1) = Same(W2, V2)
  BY <1>5
<1>. QED
  BY <1>3, <1>6, <1>8, <1>9 DEF Same

\* A record of sound parts fits, and what is seen of it.
LEMMA FitsRec ==
  \A N, M, H, T, C, G, n, D, W, V :
    Sound(N, M, H, D) /\ DOMAIN W \subseteq Id =>
      LET r == Rec(N, M, H, T, C, G, n, D, W, V)
      IN  /\ Fits(r)
          /\ Mapped(r) = [nodes |-> ViewNodes(N, D), lookup |-> ViewLookup(M, H), tree |-> T,
                          child |-> C, grams |-> G, lastID |-> n]
<1>. TAKE N, M, H, T, C, G, n, D, W, V
<1>. DEFINE r == Rec(N, M, H, T, C, G, n, D, W, V)
<1>1. /\ r.nodes = N /\ r.pathMap = M /\ r.pathHash = H /\ r.data = D /\ r.wdMap = W
  BY RecFields
<1>2. IsStore(r)
      /\ Mapped(r) = [nodes |-> ViewNodes(N, D), lookup |-> ViewLookup(M, H), tree |-> T,
                          child |-> C, grams |-> G, lastID |-> n]
  BY MappedRec
<1>. HIDE DEF r
<1>. QED
  BY <1>1, <1>2 DEF Fits, r

\* The name of a path is its last byte.
LEMMA LastByte ==
  ASSUME NEW D \in Path, NEW p \in Path, p # <<>>
  PROVE  /\ Get(D \o p, Len(D) + Len(p) - 1, 1) # <<>>
         /\ Base(Get(D \o p, Len(D) + Len(p) - 1, 1)) = Base(p)
         /\ Len(D \o p) = Len(D) + Len(p) /\ Len(D) \in Nat /\ Len(p) \in Nat /\ Len(p) > 0
<1>. DEFINE E == D \o p
            off == Len(D) + Len(p) - 1
            g == Get(E, off, 1)
<1>1. Len(D) \in Nat /\ Len(p) \in Nat /\ Len(p) # 0
  BY EmptySeq DEF Path
<1>2. E \in Path /\ Len(E) = Len(D) + Len(p)
  BY SliceOfNew
<1>3. E[Len(D) + Len(p)] = p[Len(p)]
  BY <1>1, ConcatProperties DEF Path
<1>. HIDE DEF E
<1>4. off \in Nat /\ off + 1 =< Len(E) /\ off + 1 = Len(D) + Len(p)
  BY <1>1, <1>2
<1>. HIDE DEF off
<1>5. g \in Path /\ Len(g) = 1 /\ g[1] = E[off + 1]
  <2>1. 1 \in Nat /\ 1 \in 1..1
    OBVIOUS
  <2>. QED
    BY <1>2, <1>4, <2>1, SliceOf
<1>. HIDE DEF g
<1>6. g # <<>> /\ Base(g) = p[Len(p)]
  <2>0. Len(<<>>) = 0
    BY EmptySeq
  <2>1. g # <<>>
    <3>. SUFFICES ASSUME g = <<>> PROVE FALSE
      OBVIOUS
    <3>1. Len(g) = Len(<<>>)
      OBVIOUS
    <3>. HIDE DEF g
    <3>2. 1 = 0
      BY <1>5, <2>0, <3>1, Zenon
    <3>. QED
      BY <3>2
  <2>2. Base(g) = g[1]
    BY <1>5 DEF Base
  <2>3. g[1] = E[Len(D) + Len(p)]
    BY <1>4, <1>5
  <2>. QED
    BY <1>3, <2>1, <2>2, <2>3
<1>. QED
  BY <1>1, <1>2, <1>6 DEF g, off, E, Base

\* A node placed at fresh bytes is seen with the path they spell.
LEMMA ViewOfPlaced ==
  ASSUME NEW D \in Path, NEW p \in Path, p # <<>>, NEW id, id # NoId,
         NEW node \in Stored, ~node.invalid
  PROVE  LET m == Placed(node, Len(D), Len(p))
         IN  /\ NodeFits(D \o p, id, m)
             /\ PathKey(m) = GetUint64(Len(D), Len(p))
             /\ m.parent = node.parent /\ m.size = node.size /\ m.mtime = node.mtime
             /\ View(D \o p, m) = [parent |-> node.parent, size |-> node.size,
                                   mtime |-> node.mtime, path |-> p, name |-> Base(p),
                                   invalid |-> FALSE]
<1>. DEFINE off == Len(D)
            len == Len(p)
            at == off + len - 1
            m == Placed(node, off, len)
            E == D \o p
<1>1. /\ Get(E, at, 1) # <<>> /\ Base(Get(E, at, 1)) = Base(p)
      /\ Len(E) = off + len /\ off \in Nat /\ len \in Nat /\ len > 0
  BY LastByte
<1>2. Get(E, off, len) = p /\ E \in Path
  BY SliceOfNew
<1>. HIDE DEF off, len, E
<1>3. at \in Nat /\ at + 1 =< Len(E) /\ off + len =< Len(E)
  BY <1>1
<1>. HIDE DEF at
<1>4. m = [node EXCEPT !.pathOff = off, !.pathLen = len, !.nameOff = at, !.nameLen = 1]
  BY DEF Placed, at
<1>5. /\ m \in Stored /\ m.pathOff = off /\ m.pathLen = len /\ m.nameOff = at /\ m.nameLen = 1
      /\ m.parent = node.parent /\ m.size = node.size /\ m.mtime = node.mtime
      /\ m.invalid = node.invalid
  <2>. DEFINE one == 1
  <2>0. one \in Nat
    OBVIOUS
  <2>. HIDE DEF one
  <2>. DEFINE r1 == [node EXCEPT !.pathOff = off]
  <2>1. /\ r1 \in Stored /\ r1.pathOff = off
       /\ r1.parent = node.parent /\ r1.size = node.size /\ r1.mtime = node.mtime /\ r1.invalid = node.invalid
    BY <1>1, <1>3 DEF Stored
  <2>. HIDE DEF r1
  <2>. DEFINE r2 == [r1 EXCEPT !.pathLen = len]
  <2>2. /\ r2 \in Stored /\ r2.pathOff = off /\ r2.pathLen = len
       /\ r2.parent = node.parent /\ r2.size = node.size /\ r2.mtime = node.mtime /\ r2.invalid = node.invalid
    BY <2>1, <1>1, <1>3 DEF Stored
  <2>. HIDE DEF r2
  <2>. DEFINE r3 == [r2 EXCEPT !.nameOff = at]
  <2>3. /\ r3 \in Stored /\ r3.pathOff = off /\ r3.pathLen = len /\ r3.nameOff = at
       /\ r3.parent = node.parent /\ r3.size = node.size /\ r3.mtime = node.mtime /\ r3.invalid = node.invalid
    BY <2>2, <1>1, <1>3 DEF Stored
  <2>. HIDE DEF r3
  <2>. DEFINE r4 == [r3 EXCEPT !.nameLen = one]
  <2>4. /\ r4 \in Stored /\ r4.pathOff = off /\ r4.pathLen = len /\ r4.nameOff = at /\ r4.nameLen = one
       /\ r4.parent = node.parent /\ r4.size = node.size /\ r4.mtime = node.mtime /\ r4.invalid = node.invalid
    BY <2>0, <2>3, <1>1, <1>3 DEF Stored
  <2>. HIDE DEF r4
  <2>5. m = r4
    BY <1>4 DEF r4, r3, r2, r1, one
  <2>. QED
    BY <2>4, <2>5 DEF one
<1>. HIDE DEF m
<1>6. NodeFits(E, id, m)
  BY <1>1, <1>3, <1>5 DEF NodeFits
<1>7. PathKey(m) = GetUint64(off, len)
  BY <1>5 DEF PathKey
<1>8. Spelled(E, m) = p
  BY <1>1, <1>2, <1>7 DEF Spelled, GetPathUint64, GetUint64
<1>9. Titled(E, m) = Base(p)
  BY <1>1, <1>5 DEF Titled
<1>10. m.invalid = FALSE
  BY <1>5 DEF Stored
<1>11. View(E, m) = [parent |-> node.parent, size |-> node.size,
                     mtime |-> node.mtime, path |-> p, name |-> Base(p), invalid |-> FALSE]
  BY <1>5, <1>8, <1>9, <1>10 DEF View
<1>. QED
  BY <1>5, <1>6, <1>7, <1>11 DEF m, off, len, E

\* What is appended to the block changes no node.
LEMMA AppendedNodes ==
  ASSUME NEW D \in Path, NEW x \in Path, NEW N, NodesFit(D, N)
  PROVE  NodesFit(D \o x, N) /\ ViewNodes(N, D \o x) = ViewNodes(N, D)
<1>1. \A id \in DOMAIN N : NodeFits(D \o x, id, N[id]) /\ View(D \o x, N[id]) = View(D, N[id])
  BY ViewOfAppended DEF NodesFit
<1>. QED
  BY <1>1 DEF NodesFit, ViewNodes

\* Writing and dropping nodes, as they are seen.
LEMMA PutNodes ==
  ASSUME NEW D, NEW N, NodesFit(D, N), NEW id \in Id, NEW node, NodeFits(D, id, node)
  PROVE  /\ NodesFit(D, Put(N, id, node))
         /\ ViewNodes(Put(N, id, node), D) = Put(ViewNodes(N, D), id, View(D, node))
<1>. DEFINE P == Put(N, id, node)
            VN == ViewNodes(N, D)
<1>1. DOMAIN P = DOMAIN N \cup {id} /\ P[id] = node /\ \A x \in DOMAIN N : x # id => P[x] = N[x]
  BY DEF Put
<1>2. DOMAIN VN = DOMAIN N /\ \A x \in DOMAIN N : VN[x] = View(D, N[x])
  BY DEF ViewNodes
<1>. HIDE DEF P, VN
<1>3. NodesFit(D, P)
  BY <1>1 DEF NodesFit
<1>4. ViewNodes(P, D) = [x \in DOMAIN N \cup {id} |-> View(D, P[x])]
  BY <1>1 DEF ViewNodes
<1>5. Put(VN, id, View(D, node)) = [x \in DOMAIN N \cup {id} |-> IF x = id THEN View(D, node) ELSE VN[x]]
  BY <1>2 DEF Put
<1>6. \A x \in DOMAIN N \cup {id} : View(D, P[x]) = IF x = id THEN View(D, node) ELSE VN[x]
  BY <1>1, <1>2
<1>. QED
  BY <1>3, <1>4, <1>5, <1>6 DEF P, VN

LEMMA WithoutNodes ==
  ASSUME NEW D, NEW N, NodesFit(D, N), NEW gone
  PROVE  /\ NodesFit(D, Without(N, gone))
         /\ ViewNodes(Without(N, gone), D) = Without(ViewNodes(N, D), gone)
<1>. DEFINE P == Without(N, gone)
            VN == ViewNodes(N, D)
<1>1. DOMAIN P = DOMAIN N \ gone /\ \A x \in DOMAIN P : P[x] = N[x]
  BY DEF Without
<1>2. DOMAIN VN = DOMAIN N /\ \A x \in DOMAIN N : VN[x] = View(D, N[x])
  BY DEF ViewNodes
<1>3. Without(VN, gone) = [x \in DOMAIN VN \ gone |-> VN[x]]
  BY DEF Without
<1>. HIDE DEF P, VN
<1>4. NodesFit(D, P)
  BY <1>1 DEF NodesFit
<1>5. ViewNodes(P, D) = [x \in DOMAIN N \ gone |-> View(D, P[x])]
  BY <1>1 DEF ViewNodes
<1>. QED
  BY <1>1, <1>2, <1>3, <1>4, <1>5 DEF P, VN

-----------------------------------------------------------------------------
(* The watch tables.                                                       *)

\* Descriptors are ids of directories that exist or once did, and the watch of
\* an indexed one and the key of its node lead to each other; but for some.
Watching(s) ==
  /\ s.lastID \in Nat /\ DOMAIN s.wdMap \subseteq Id
  /\ \A wd \in DOMAIN s.wdMap : IsDir(wd) /\ wd[1] =< s.lastID
WatchTrue(s, wd) ==
  /\ ~s.nodes[wd].invalid /\ s.wdMap[wd] = PathKey(s.nodes[wd])
  /\ s.wdMap[wd] \in DOMAIN s.pathToWd /\ s.pathToWd[s.wdMap[wd]] = wd
WatchedBut(s, but) ==
  Watching(s) /\ \A wd \in (DOMAIN s.wdMap \cap DOMAIN s.nodes) \ but : WatchTrue(s, wd)
Watched(s) == WatchedBut(s, {})

KeepsWatches(s, r) == Watched(s) => Watched(r)

\* A change that leaves the tables alone and, but for some, all they are about.
Frame(s, r, but) ==
  /\ r.wdMap = s.wdMap /\ r.pathToWd = s.pathToWd
  /\ r.lastID = s.lastID \/ r.lastID = s.lastID + 1
  /\ \A x \in DOMAIN r.nodes \ but : IsDir(x) /\ x[1] =< s.lastID =>
       /\ x \in DOMAIN s.nodes /\ PathKey(r.nodes[x]) = PathKey(s.nodes[x])
       /\ r.nodes[x].invalid = s.nodes[x].invalid

\* It keeps the watches,
LEMMA FrameWatched ==
  ASSUME NEW s, NEW r, NEW but, Frame(s, r, but), WatchedBut(s, but)
  PROVE  WatchedBut(r, but)
<1>1. ASSUME NEW wd \in DOMAIN r.wdMap
      PROVE  IsDir(wd) /\ wd[1] =< r.lastID /\ wd[1] =< s.lastID /\ wd \in DOMAIN s.wdMap
  <2>1. /\ wd \in DOMAIN s.wdMap /\ s.lastID \in Nat
        /\ r.lastID = s.lastID \/ r.lastID = s.lastID + 1
    BY DEF Frame, WatchedBut, Watching
  <2>2. wd \in Id /\ wd[1] \in Nat
    BY <2>1 DEF Id, WatchedBut, Watching
  <2>3. IsDir(wd) /\ wd[1] =< s.lastID
    BY <2>1 DEF WatchedBut, Watching
  <2>. DEFINE n == wd[1]
  <2>4. n \in Nat /\ n =< s.lastID
    BY <2>2, <2>3
  <2>. HIDE DEF n
  <2>5. n =< r.lastID
    BY <2>1, <2>4
  <2>. QED
    BY <2>1, <2>3, <2>5 DEF n
<1>2. ASSUME NEW wd \in (DOMAIN r.wdMap \cap DOMAIN r.nodes) \ but
      PROVE  WatchTrue(r, wd)
  <2>1. /\ r.wdMap = s.wdMap /\ r.pathToWd = s.pathToWd
        /\ wd \in DOMAIN s.nodes /\ PathKey(r.nodes[wd]) = PathKey(s.nodes[wd])
        /\ r.nodes[wd].invalid = s.nodes[wd].invalid
    BY <1>1 DEF Frame
  <2>2. WatchTrue(s, wd)
    BY <1>1, <2>1 DEF WatchedBut
  <2>. QED
    BY <2>1, <2>2 DEF WatchTrue
<1>3. r.lastID \in Nat /\ DOMAIN r.wdMap \subseteq Id
  BY DEF Frame, WatchedBut, Watching
<1>. QED
  BY <1>1, <1>2, <1>3 DEF WatchedBut, Watching

\* all of them if there is no exception.
LEMMA FrameKeeps ==
  \A s, r : Frame(s, r, {}) => KeepsWatches(s, r)
  BY FrameWatched DEF KeepsWatches, Watched

\* The tables replaced, and nothing else.
WatchStore(s, W, V) == [s EXCEPT !.wdMap = W, !.pathToWd = V]

LEMMA TablesSet ==
  ASSUME NEW s, IsStore(s), NEW W, NEW V
  PROVE  LET r == WatchStore(s, W, V)
         IN  IsStore(r) /\ r.nodes = s.nodes /\ r.lastID = s.lastID /\ r.wdMap = W /\ r.pathToWd = V
             /\ r.data = s.data
<1>. DEFINE r == WatchStore(s, W, V)
<1>1. r = Rec(s.nodes, s.pathMap, s.pathHash, s.tree, s.child, s.grams, s.lastID, s.data, W, V)
  BY SetWatches DEF WatchStore
<1>. HIDE DEF r
<1>. QED
  BY <1>1, RecFields, MappedRec DEF r

\* DeleteWd lets go of one descriptor or of none.
LEMMA DeleteWatched ==
  ASSUME NEW s, IsStore(s), NEW but, WatchedBut(s, but), NEW key
  PROVE  LET r == DeleteWd(s, key)
         IN  IsStore(r) /\ WatchedBut(r, but) /\ r.nodes = s.nodes /\ r.lastID = s.lastID
<1>. DEFINE r == DeleteWd(s, key)
            W == Without(s.wdMap, {s.pathToWd[key]})
            V == Without(s.pathToWd, {key})
<1>1. CASE key \notin DOMAIN s.pathToWd
  BY <1>1 DEF DeleteWd
<1>2. CASE key \in DOMAIN s.pathToWd
  <2>1. r = WatchStore(s, W, V)
    BY <1>2 DEF DeleteWd, WatchStore
  <2>2. DOMAIN W = DOMAIN s.wdMap \ {s.pathToWd[key]} /\ \A wd \in DOMAIN W : W[wd] = s.wdMap[wd]
    BY DEF Without
  <2>3. DOMAIN V = DOMAIN s.pathToWd \ {key} /\ \A k \in DOMAIN V : V[k] = s.pathToWd[k]
    BY DEF Without
  <2>. HIDE DEF r, W, V
  <2>4. IsStore(r) /\ r.nodes = s.nodes /\ r.lastID = s.lastID /\ r.wdMap = W /\ r.pathToWd = V
    BY <2>1, TablesSet
  <2>5. ASSUME NEW wd \in (DOMAIN W \cap DOMAIN s.nodes) \ but PROVE WatchTrue(r, wd)
    <3>1. WatchTrue(s, wd) /\ wd \in DOMAIN s.wdMap /\ wd # s.pathToWd[key]
      BY <2>2 DEF WatchedBut
    <3>2. s.wdMap[wd] # key /\ s.wdMap[wd] \in DOMAIN s.pathToWd
      BY <3>1 DEF WatchTrue
    <3>. QED
      BY <2>2, <2>3, <2>4, <3>1, <3>2 DEF WatchTrue
  <2>6. Watching(r)
    BY <2>2, <2>4 DEF WatchedBut, Watching
  <2>. QED
    BY <2>4, <2>5, <2>6 DEF WatchedBut, r
<1>. QED
  BY <1>1, <1>2

\* PutWd is right about a directory whose key it is given, if no other
\* directory under watch has that key; it may have been wrong before.
LEMMA PutWatched ==
  ASSUME NEW s, IsStore(s), NEW wd \in Id, WatchedBut(s, {wd}), IsDir(wd), wd[1] =< s.lastID,
         NEW key, wd \in DOMAIN s.nodes => ~s.nodes[wd].invalid /\ PathKey(s.nodes[wd]) = key,
         \A x \in DOMAIN s.wdMap \cap DOMAIN s.nodes : x # wd => PathKey(s.nodes[x]) # key
  PROVE  Watched(PutWd(s, key, wd))
<1>. DEFINE r == PutWd(s, key, wd)
            W == Put(s.wdMap, wd, key)
            V == Put(s.pathToWd, key, wd)
<1>1. r = WatchStore(s, W, V)
  BY DEF PutWd, WatchStore
<1>2. DOMAIN W = DOMAIN s.wdMap \cup {wd} /\ W[wd] = key
      /\ \A x \in DOMAIN W : x # wd => W[x] = s.wdMap[x]
  BY DEF Put
<1>3. DOMAIN V = DOMAIN s.pathToWd \cup {key} /\ V[key] = wd
      /\ \A k \in DOMAIN V : k # key => V[k] = s.pathToWd[k]
  BY DEF Put
<1>. HIDE DEF r, W, V
<1>4. r.nodes = s.nodes /\ r.lastID = s.lastID /\ r.wdMap = W /\ r.pathToWd = V
  BY <1>1, TablesSet
<1>5. ASSUME NEW x \in DOMAIN W \cap DOMAIN s.nodes PROVE WatchTrue(r, x)
  <2>1. CASE x = wd
    BY <1>2, <1>3, <1>4, <2>1 DEF WatchTrue
  <2>2. CASE x # wd
    <3>1. x \in DOMAIN s.wdMap /\ WatchTrue(s, x) /\ PathKey(s.nodes[x]) # key
      BY <1>2, <2>2 DEF WatchedBut
    <3>2. s.wdMap[x] # key /\ s.wdMap[x] \in DOMAIN s.pathToWd
      BY <3>1 DEF WatchTrue
    <3>. QED
      BY <1>2, <1>3, <1>4, <2>2, <3>1, <3>2 DEF WatchTrue
  <2>. QED
    BY <2>1, <2>2
<1>6. Watching(r)
  BY <1>2, <1>4 DEF WatchedBut, Watching
<1>. QED
  BY <1>4, <1>5, <1>6 DEF Watched, WatchedBut, r

\* AddWatch on the key of a directory keeps what is there or puts it.
LEMMA AddWatched ==
  ASSUME NEW s, IsStore(s), NEW wd \in Id, Watched(s), IsDir(wd), wd[1] =< s.lastID,
         NEW key, wd \in DOMAIN s.nodes => ~s.nodes[wd].invalid /\ PathKey(s.nodes[wd]) = key
  PROVE  Watched(AddWatch(s, key, wd))
<1>1. WatchedBut(s, {wd})
  BY DEF Watched, WatchedBut
<1>2. CASE key \in DOMAIN s.pathToWd
  BY <1>2 DEF AddWatch
<1>3. CASE key \notin DOMAIN s.pathToWd
  <2>1. \A x \in DOMAIN s.wdMap \cap DOMAIN s.nodes : PathKey(s.nodes[x]) # key
    BY <1>3 DEF Watched, WatchedBut, WatchTrue
  <2>2. Watched(PutWd(s, key, wd))
    BY <1>1, <2>1, PutWatched
  <2>. QED
    BY <1>3, <2>2 DEF AddWatch
<1>. QED
  BY <1>2, <1>3

\* No node has the key of bytes still to be appended.
LEMMA FreshKey ==
  ASSUME NEW D \in Path, NEW p \in Path, p # <<>>, NEW x, NEW node, NodeFits(D, x, node)
  PROVE  PathKey(node) # GetUint64(Len(D), Len(p))
<1>. SUFFICES ASSUME PathKey(node) = GetUint64(Len(D), Len(p)) PROVE FALSE
  OBVIOUS
<1>1. node.pathOff = Len(D) /\ node.pathLen = Len(p)
  BY DEF PathKey, GetUint64
<1>2. node.pathOff + node.pathLen =< Len(D)
  BY DEF NodeFits
<1>3. Len(D) \in Nat /\ Len(p) \in Nat /\ Len(p) > 0
  BY LastByte
<1>. QED
  BY <1>1, <1>2, <1>3

-----------------------------------------------------------------------------
(* Upsert and UpsertDir.                                                   *)

\* A store whose index is in order.
StoreInv(s) == Fits(s) /\ Healthy(Mapped(s))

\* What the invariant of the index says of the store.
LEMMA StoreFacts ==
  ASSUME NEW s, StoreInv(s)
  PROVE  /\ IsStore(s) /\ s.data \in Path /\ NodesFit(s.data, s.nodes)
         /\ Sound(s.nodes, s.pathMap, s.pathHash, s.data)
         /\ DOMAIN s.wdMap \subseteq Id /\ s.lastID \in Nat
         /\ \A x \in DOMAIN s.nodes : x \in Id /\ x[1] =< s.lastID /\ NodeFits(s.data, x, s.nodes[x])
         /\ DOMAIN Mapped(s).nodes = DOMAIN s.nodes
         /\ \A x \in DOMAIN s.nodes : Mapped(s).nodes[x] = View(s.data, s.nodes[x])
         /\ Mapped(s).nodes = ViewNodes(s.nodes, s.data)
         /\ Mapped(s).lookup = ViewLookup(s.pathMap, s.pathHash)
         /\ Mapped(s).tree = s.tree /\ Mapped(s).child = s.child /\ Mapped(s).grams = s.grams
         /\ Mapped(s).lastID = s.lastID
<1>1. /\ Mapped(s).nodes = ViewNodes(s.nodes, s.data)
      /\ Mapped(s).lookup = ViewLookup(s.pathMap, s.pathHash)
      /\ Mapped(s).tree = s.tree /\ Mapped(s).child = s.child /\ Mapped(s).grams = s.grams
      /\ Mapped(s).lastID = s.lastID
  BY MappedParts
<1>2. DOMAIN Mapped(s).nodes = DOMAIN s.nodes
      /\ \A x \in DOMAIN s.nodes : Mapped(s).nodes[x] = View(s.data, s.nodes[x])
  BY <1>1 DEF ViewNodes
<1>3. Mapped(s).lastID \in Nat /\ \A x \in DOMAIN Mapped(s).nodes : x[1] =< Mapped(s).lastID
  BY DEF StoreInv, Healthy, IxInv, IndexType, Counted
<1>4. IsStore(s) /\ Sound(s.nodes, s.pathMap, s.pathHash, s.data) /\ DOMAIN s.wdMap \subseteq Id
  BY DEF StoreInv, Fits
<1>5. s.data \in Path /\ NodesFit(s.data, s.nodes)
  BY <1>4 DEF Sound
<1>6. \A x \in DOMAIN s.nodes : x \in Id /\ NodeFits(s.data, x, s.nodes[x])
  BY <1>5 DEF NodesFit
<1>. QED
  BY <1>1, <1>2, <1>3, <1>4, <1>5, <1>6

\* A new node has its own key, and the watches are as they were.
Added(s, r, id, key) ==
  /\ Frame(s, r, {}) /\ r.lastID = s.lastID + 1
  /\ id \in DOMAIN r.nodes /\ ~r.nodes[id].invalid /\ PathKey(r.nodes[id]) = key

\* A new node: what is stored, and what is seen (file_index.go, Upsert).
LEMMA NewIs ==
  ASSUME NEW s, Fits(s), s.lastID \in Nat, \A x \in DOMAIN s.nodes : x[1] =< s.lastID,
         NEW p \in Path, p # <<>>, Len(p) > 1 \/ <<>> \notin DOMAIN s.pathHash,
         LookupId(Mapped(s), Dir(p)) \in Id,
         NEW b \in BOOLEAN, NEW size \in Int, NEW mtime \in Int
  PROVE  LET r == StoreNew(s, p, b, size, mtime)
             id == SetRealID(s.lastID + 1, b)
             key == GetUint64(Len(s.data), Len(p))
         IN  /\ Fits(r) /\ Mapped(r) = Insert(Mapped(s), p, b, size, mtime)
             /\ GetPathOff(r, p) = key /\ IdAt(r, key) = id /\ id \in Id
             /\ r.child = Mapped(r).child /\ Added(s, r, id, key)
<1>. DEFINE id == SetRealID(s.lastID + 1, b)
            key == GetUint64(Len(s.data), Len(p))
            parent == IdAt(s, GetPathOff(s, Dir(p)))
            node == [StoredZero EXCEPT !.parent = parent, !.size = size, !.mtime = mtime]
            placed == Placed(node, Len(s.data), Len(p))
            put == Store(s, p, id)
            M == Put(s.pathMap, key, id)
            H == Put(s.pathHash, p, key)
            D == s.data \o p
            N == Put(s.nodes, id, placed)
            T == Link(s.tree, parent, id)
            C == Put(s.child, id, parent)
            G == AddToIndex(s.grams, Base(p), id)
            r == StoreNew(s, p, b, size, mtime)
            i == Mapped(s)
<1>1. IsStore(s) /\ Sound(s.nodes, s.pathMap, s.pathHash, s.data) /\ DOMAIN s.wdMap \subseteq Id
      /\ s.data \in Path /\ NodesFit(s.data, s.nodes)
  BY DEF Fits, Sound
<1>2. /\ i.nodes = ViewNodes(s.nodes, s.data)
      /\ i.lookup = ViewLookup(s.pathMap, s.pathHash)
      /\ i.tree = s.tree /\ i.child = s.child /\ i.grams = s.grams /\ i.lastID = s.lastID
  BY MappedParts
<1>3. id \in Id /\ id # NoId /\ id \notin DOMAIN s.nodes
  <2>1. id \in Id /\ id # NoId /\ id[1] = s.lastID + 1
    BY FreshId
  <2>. HIDE DEF id
  <2>. QED
    BY <2>1
<1>4. parent = LookupId(i, Dir(p)) /\ parent \in Id
  <2>1. CASE Dir(p) # <<>>
    BY <2>1, <1>1, <1>2, LookupFacts DEF LookupId
  <2>2. CASE Dir(p) = <<>>
    <3>1. ~ (Len(p) > 1)
      <4>. DEFINE n == Len(p)
                  k == Len(Dir(p))
      <4>1. n > 1 => k = n - 1
        BY DirFacts
      <4>2. n \in Nat
        BY DEF Path
      <4>3. Len(<<>>) = 0
        BY EmptySeq
      <4>4. k = 0
        BY <2>2, <4>3
      <4>. HIDE DEF n, k
      <4>5. ~ (n > 1)
        BY <4>1, <4>2, <4>4
      <4>. QED
        BY <4>5 DEF n
    <3>2. <<>> \notin DOMAIN s.pathHash /\ <<>> \notin DOMAIN i.lookup
      BY <1>2, <3>1 DEF ViewLookup
    <3>3. NoKey \notin DOMAIN s.pathMap
      BY <1>1 DEF Sound
    <3>. QED
      BY <2>2, <3>2, <3>3 DEF LookupId, GetPathOff, IdAt
  <2>. QED
    BY <2>1, <2>2
<1>5. node \in Stored /\ ~node.invalid /\ node.parent = parent /\ node.size = size
      /\ node.mtime = mtime
  <2>. DEFINE o == 0
              F == FALSE
              z == [parent |-> NoId, size |-> o, mtime |-> o, invalid |-> F,
                    pathOff |-> o, pathLen |-> o, nameOff |-> o, nameLen |-> o]
              a1 == [z EXCEPT !.parent = parent]
              a2 == [a1 EXCEPT !.size = size]
              a3 == [a2 EXCEPT !.mtime = mtime]
  <2>1. o \in Nat /\ o \in Int /\ F \in BOOLEAN /\ ~F
    OBVIOUS
  <2>. HIDE DEF o, F, parent
  <2>2. z \in Stored /\ ~z.invalid
    BY <2>1, NoIdType DEF Stored
  <2>. HIDE DEF z
  <2>3. a1 \in Stored /\ ~a1.invalid /\ a1.parent = parent
    BY <2>2, <1>4 DEF Stored
  <2>. HIDE DEF a1
  <2>4. a2 \in Stored /\ ~a2.invalid /\ a2.parent = parent /\ a2.size = size
    BY <2>3 DEF Stored
  <2>. HIDE DEF a2
  <2>5. a3 \in Stored /\ ~a3.invalid /\ a3.parent = parent /\ a3.size = size /\ a3.mtime = mtime
    BY <2>4 DEF Stored
  <2>6. node = a3
    BY DEF a1, a2, z, o, F, StoredZero
  <2>. QED
    BY <2>5, <2>6
<1>21. id[1] = s.lastID + 1
  BY FreshId
<1>. HIDE DEF id, parent, node
<1>6. put = Rec(s.nodes, M, H, s.tree, s.child, s.grams, s.lastID, D, s.wdMap, s.pathToWd)
  BY <1>1, StoreIs
<1>7. r = [put EXCEPT !.nodes = Put(@, id, placed), !.tree = Link(@, parent, id),
                      !.child = Put(@, id, parent), !.grams = AddToIndex(@, Base(p), id),
                      !.lastID = @ + 1]
  BY DEF StoreNew, id, parent, node
<1>. HIDE DEF put, M, H, D
<1>8. /\ put.nodes = s.nodes /\ put.pathMap = M /\ put.pathHash = H /\ put.tree = s.tree
      /\ put.child = s.child /\ put.grams = s.grams /\ put.lastID = s.lastID /\ put.data = D
      /\ put.wdMap = s.wdMap /\ put.pathToWd = s.pathToWd /\ IsStore(put)
  BY <1>6, RecFields DEF IsStore
<1>9. r = [put EXCEPT !.nodes = N, !.tree = T, !.child = C, !.grams = G,
                      !.lastID = s.lastID + 1]
  BY <1>7, <1>8
<1>. HIDE DEF r, N, T, C, G, placed
<1>10. r = Rec(N, M, H, T, C, G, s.lastID + 1, D, s.wdMap, s.pathToWd)
  <2>. DEFINE n1 == s.lastID + 1
              W == s.wdMap
              V == s.pathToWd
  <2>1. r = [put EXCEPT !.nodes = N, !.tree = T, !.child = C, !.grams = G, !.lastID = n1]
    BY <1>9
  <2>2. IsStore(put) /\ put.pathMap = M /\ put.pathHash = H /\ put.data = D /\ put.wdMap = W
        /\ put.pathToWd = V
    BY <1>8
  <2>. HIDE DEF n1, W, V
  <2>3. r = Rec(N, put.pathMap, put.pathHash, T, C, G, n1, put.data, put.wdMap, put.pathToWd)
    BY <2>1, <2>2, SetFresh
  <2>4. r = Rec(N, M, H, T, C, G, n1, D, W, V)
    BY <2>2, <2>3
  <2>. QED
    BY <2>4 DEF n1, W, V
<1>11. /\ NodeFits(D, id, placed) /\ PathKey(placed) = key
       /\ View(D, placed) = NewNode(parent, p, size, mtime)
  <2>. DEFINE E == s.data
              m == Placed(node, Len(E), Len(p))
  <2>0. E \in Path /\ placed = m /\ D = E \o p /\ key = GetUint64(Len(E), Len(p))
    BY <1>1 DEF placed, D
  <2>. HIDE DEF E, key
  <2>1. /\ NodeFits(E \o p, id, m) /\ PathKey(m) = GetUint64(Len(E), Len(p))
        /\ View(E \o p, m) = [parent |-> node.parent, size |-> node.size,
                              mtime |-> node.mtime, path |-> p, name |-> Base(p),
                              invalid |-> FALSE]
    BY <2>0, <1>3, <1>5, ViewOfPlaced
  <2>. HIDE DEF m
  <2>. QED
    BY <1>5, <2>0, <2>1 DEF NewNode
<1>12. NodesFit(D, s.nodes) /\ ViewNodes(s.nodes, D) = i.nodes
  BY <1>1, <1>2, AppendedNodes DEF D
<1>13. NodesFit(D, N) /\ ViewNodes(N, D) = Put(i.nodes, id, NewNode(parent, p, size, mtime))
  BY <1>3, <1>11, <1>12, PutNodes DEF N
<1>14. Sound(N, M, H, D) /\ ViewLookup(M, H) = Put(i.lookup, p, id)
  <2>1. N[id] = placed /\ id \in DOMAIN N /\ \A x \in DOMAIN s.nodes : x \in DOMAIN N /\ N[x] = s.nodes[x]
    BY <1>3 DEF N, Put
  <2>2. \A q \in DOMAIN s.pathHash \ {<<>>} : s.pathMap[s.pathHash[q]] \in DOMAIN s.nodes
    BY <1>1 DEF Sound, Resolves
  <2>3. NodesFit(s.data \o p, N)
    BY <1>13 DEF D
  <2>4. \A q \in DOMAIN s.pathHash \ {<<>>} :
          LET x == s.pathMap[s.pathHash[q]]
          IN  x \in DOMAIN N /\ PathKey(N[x]) = PathKey(s.nodes[x])
    BY <2>1, <2>2
  <2>5. PathKey(N[id]) = GetUint64(Len(s.data), Len(p))
    BY <2>1, <1>11
  <2>. HIDE DEF key
  <2>. QED
    BY <1>1, <1>2, <2>1, <2>3, <2>4, <2>5, StoreSound DEF M, H, D, key
<1>15. Fits(r) /\ Mapped(r) = [nodes |-> ViewNodes(N, D), lookup |-> ViewLookup(M, H), tree |-> T,
                               child |-> C, grams |-> G, lastID |-> s.lastID + 1]
  BY <1>1, <1>10, <1>14, FitsRec
<1>16. Mapped(r) = Insert(i, p, b, size, mtime)
  BY <1>2, <1>4, <1>13, <1>14, <1>15 DEF Insert, T, C, G, id
<1>17. r.pathHash = H /\ r.pathMap = M /\ r.child = C
  BY <1>10, RecFields
<1>18. GetPathOff(r, p) = key /\ IdAt(r, key) = id
  BY <1>17 DEF GetPathOff, IdAt, H, M, Put
<1>19. r.child = Mapped(r).child
  BY MappedParts
<1>20. Added(s, r, id, key)
  <2>1. /\ r.nodes = N /\ r.lastID = s.lastID + 1 /\ r.wdMap = s.wdMap /\ r.pathToWd = s.pathToWd
    BY <1>10, RecFields
  <2>2. N[id] = placed /\ DOMAIN N = DOMAIN s.nodes \cup {id}
        /\ \A x \in DOMAIN N : x # id => N[x] = s.nodes[x]
    BY DEF N, Put
  <2>3. ~placed.invalid
    <3>1. View(D, placed).invalid = placed.invalid
      BY DEF View
    <3>2. ~NewNode(parent, p, size, mtime).invalid
      BY DEF NewNode
    <3>. QED
      BY <1>11, <3>1, <3>2
  <2>4. ASSUME NEW x \in DOMAIN N, x[1] =< s.lastID
        PROVE  x # id
    BY <1>21, <2>4
  <2>. HIDE DEF key
  <2>. QED
    BY <1>11, <2>1, <2>2, <2>3, <2>4 DEF Added, Frame
<1>. QED
  BY <1>3, <1>15, <1>16, <1>18, <1>19, <1>20 DEF id, r

\* Assignments to one node.
LEMMA PutIsExcept ==
  \A N, id, m : id \in DOMAIN N => [N EXCEPT ![id] = m] = Put(N, id, m)
  BY DEF Put

LEMMA SetNodeAt ==
  ASSUME NEW r, IsStore(r), NEW id, id \in DOMAIN r.nodes, NEW m
  PROVE  [r EXCEPT !.nodes[id] = m] =
           Rec(Put(r.nodes, id, m), r.pathMap, r.pathHash, r.tree, r.child,
               r.grams, r.lastID, r.data, r.wdMap, r.pathToWd)
<1>. DEFINE N == [r.nodes EXCEPT ![id] = m]
<1>1. [r EXCEPT !.nodes[id] = m] = [r EXCEPT !.nodes = N]
  OBVIOUS
<1>2. N = Put(r.nodes, id, m)
  BY PutIsExcept
<1>. HIDE DEF N
<1>3. [r EXCEPT !.nodes = N] =
           Rec(N, r.pathMap, r.pathHash, r.tree, r.child,
               r.grams, r.lastID, r.data, r.wdMap, r.pathToWd)
  BY SetNodes
<1>. QED
  BY <1>1, <1>2, <1>3

LEMMA SetIndexNodes ==
  ASSUME NEW i, IsIndex(i), NEW N
  PROVE  [i EXCEPT !.nodes = N] = [nodes |-> N, lookup |-> i.lookup, tree |-> i.tree,
                                   child |-> i.child, grams |-> i.grams, lastID |-> i.lastID]
<1>. DEFINE L == i.lookup
            T == i.tree
            C == i.child
            G == i.grams
            n == i.lastID
            M == i.nodes
<1>1. i = [nodes |-> M, lookup |-> L, tree |-> T, child |-> C, grams |-> G, lastID |-> n]
  BY DEF IsIndex
<1>. HIDE DEF L, T, C, G, n, M
<1>2. [i EXCEPT !.nodes = N] = [nodes |-> N, lookup |-> L, tree |-> T, child |-> C,
                                grams |-> G, lastID |-> n]
  BY <1>1
<1>. QED
  BY <1>2 DEF L, T, C, G, n, M

\* Where no node but Nodes[0] comes, goes or moves, watches stay true.
LEMMA SameBytesFrame ==
  ASSUME NEW s, NodesFit(s.data, s.nodes), NEW N, SameBytes(s.nodes, N),
         NEW r, DOMAIN r.nodes \subseteq DOMAIN N, \A x \in DOMAIN r.nodes : r.nodes[x] = N[x],
         r.lastID = s.lastID, r.wdMap = s.wdMap, r.pathToWd = s.pathToWd
  PROVE  Frame(s, r, {})
<1>1. ASSUME NEW x \in DOMAIN N, IsDir(x)
      PROVE  /\ x \in DOMAIN s.nodes /\ PathKey(N[x]) = PathKey(s.nodes[x])
             /\ N[x].invalid = s.nodes[x].invalid
  <2>1. ~IsDir(NoId)
    BY DEF IsDir, NoId
  <2>2. x \in DOMAIN s.nodes \ {NoId}
    BY <1>1, <2>1 DEF SameBytes
  <2>3. N[x] = [s.nodes[x] EXCEPT !.size = N[x].size]
        /\ PathKey(N[x]) = PathKey(s.nodes[x])
    BY <2>2 DEF SameBytes
  <2>4. s.nodes[x] \in Stored
    BY <2>2 DEF NodesFit, NodeFits
  <2>5. \A n : [s.nodes[x] EXCEPT !.size = n].invalid = s.nodes[x].invalid
    BY <2>4 DEF Stored
  <2>6. N[x].invalid = s.nodes[x].invalid
    BY <2>3, <2>5
  <2>. QED
    BY <2>2, <2>3, <2>6
<1>. QED
  BY <1>1 DEF Frame

\* upsertParentSize on a store.
LEMMA ChargeStep ==
  ASSUME NEW s, Fits(s), NEW id, NEW delta \in Int
  PROVE  LET r == Charge(s, id, delta)
         IN  /\ Fits(r)
             /\ Mapped(r) = [Mapped(s) EXCEPT !.nodes = UpsertParentSize(@, s.child, id, delta)]
             /\ SameBytes(s.nodes, r.nodes)
             /\ \A x \in DOMAIN s.nodes \ {NoId} : x \notin Ancestors(s.child, id) => r.nodes[x] = s.nodes[x]
             /\ r.pathMap = s.pathMap /\ r.pathHash = s.pathHash /\ r.tree = s.tree
             /\ r.child = s.child /\ r.grams = s.grams /\ r.lastID = s.lastID /\ r.data = s.data
             /\ r.wdMap = s.wdMap /\ r.pathToWd = s.pathToWd
             /\ Frame(s, r, {})
<1>. DEFINE N == s.nodes
            M == Charged(N, s.child, id, delta)
            r == Charge(s, id, delta)
            i == Mapped(s)
            U == UpsertParentSize(i.nodes, s.child, id, delta)
<1>1. IsStore(s) /\ Sound(N, s.pathMap, s.pathHash, s.data) /\ DOMAIN s.wdMap \subseteq Id
      /\ s.data \in Path /\ NodesFit(s.data, N)
  BY DEF Fits, Sound
<1>2. /\ i.nodes = ViewNodes(N, s.data) /\ IsIndex(i)
      /\ i.lookup = ViewLookup(s.pathMap, s.pathHash)
      /\ i.tree = s.tree /\ i.child = s.child /\ i.grams = s.grams /\ i.lastID = s.lastID
  BY MappedParts
<1>3. /\ SameBytes(N, M) /\ NodesFit(s.data, M)
      /\ ViewNodes(M, s.data) = UpsertParentSize(ViewNodes(N, s.data), s.child, id, delta)
      /\ \A x \in DOMAIN N \ {NoId} : x \notin Ancestors(s.child, id) => M[x] = N[x]
  BY <1>1, ChargedView
<1>4. r = Rec(M, s.pathMap, s.pathHash, s.tree, s.child, s.grams, s.lastID, s.data,
              s.wdMap, s.pathToWd)
  BY <1>1, ChargeIs
<1>5. ViewNodes(M, s.data) = U
  BY <1>2, <1>3
<1>. HIDE DEF M
<1>6. Sound(M, s.pathMap, s.pathHash, s.data)
  BY <1>1, <1>3, ChargedSound
<1>7. [i EXCEPT !.nodes = UpsertParentSize(@, s.child, id, delta)] = [i EXCEPT !.nodes = U]
  OBVIOUS
<1>. HIDE DEF r, U, i
<1>8. Fits(r) /\ Mapped(r) = [nodes |-> ViewNodes(M, s.data), lookup |-> ViewLookup(s.pathMap, s.pathHash),
                              tree |-> s.tree, child |-> s.child, grams |-> s.grams, lastID |-> s.lastID]
  BY <1>1, <1>4, <1>6, FitsRec
<1>9. [i EXCEPT !.nodes = U] = [nodes |-> U, lookup |-> i.lookup, tree |-> i.tree,
                                child |-> i.child, grams |-> i.grams, lastID |-> i.lastID]
  BY <1>2, SetIndexNodes
<1>10. Mapped(r) = [i EXCEPT !.nodes = U]
  BY <1>2, <1>5, <1>8, <1>9
<1>11. /\ r.nodes = M /\ r.pathMap = s.pathMap /\ r.pathHash = s.pathHash /\ r.tree = s.tree
       /\ r.child = s.child /\ r.grams = s.grams /\ r.lastID = s.lastID /\ r.data = s.data
       /\ r.wdMap = s.wdMap /\ r.pathToWd = s.pathToWd
  BY <1>4, RecFields
<1>12. Frame(s, r, {})
  BY <1>1, <1>3, <1>11, SameBytesFrame
<1>. QED
  BY <1>3, <1>7, <1>8, <1>10, <1>11, <1>12 DEF r, i

LEMMA ViewOfTimed ==
  ASSUME NEW D, NEW node \in Stored, NEW n \in Int
  PROVE  LET m == [node EXCEPT !.mtime = n]
         IN  m \in Stored /\ View(D, m) = [View(D, node) EXCEPT !.mtime = n]
             /\ PathKey(m) = PathKey(node)
             /\ \A id : NodeFits(D, id, node) => NodeFits(D, id, m)
<1>. DEFINE m == [node EXCEPT !.mtime = n]
<1>1. m \in Stored /\ m.mtime = n /\ m.parent = node.parent /\ m.size = node.size
      /\ m.invalid = node.invalid /\ m.pathOff = node.pathOff /\ m.pathLen = node.pathLen
      /\ m.nameOff = node.nameOff /\ m.nameLen = node.nameLen
  BY DEF Stored
<1>. HIDE DEF m
<1>2. PathKey(m) = PathKey(node)
  BY <1>1 DEF PathKey
<1>3. Spelled(D, m) = Spelled(D, node) /\ Titled(D, m) = Titled(D, node)
  BY <1>1, <1>2 DEF Spelled, Titled
<1>4. View(D, m) = [View(D, node) EXCEPT !.mtime = n]
  BY <1>1, <1>3 DEF View
<1>5. \A id : NodeFits(D, id, node) => NodeFits(D, id, m)
  BY <1>1 DEF NodeFits
<1>. QED
  BY <1>1, <1>2, <1>4, <1>5 DEF m

\* A node is given other fields, but keeps its path.
LEMMA NodePut ==
  ASSUME NEW s, Fits(s), NEW id \in DOMAIN s.nodes, NEW m, NodeFits(s.data, id, m),
         PathKey(m) = PathKey(s.nodes[id])
  PROVE  LET r == [s EXCEPT !.nodes[id] = m]
         IN  /\ Fits(r)
             /\ Mapped(r) = [Mapped(s) EXCEPT !.nodes = Put(@, id, View(s.data, m))]
             /\ m.invalid = s.nodes[id].invalid => Frame(s, r, {})
<1>. DEFINE N == s.nodes
            M == Put(N, id, m)
            r == [s EXCEPT !.nodes[id] = m]
            i == Mapped(s)
            U == Put(i.nodes, id, View(s.data, m))
<1>1. IsStore(s) /\ Sound(N, s.pathMap, s.pathHash, s.data) /\ DOMAIN s.wdMap \subseteq Id
      /\ s.data \in Path /\ NodesFit(s.data, N) /\ id \in Id
  BY DEF Fits, Sound, NodesFit
<1>2. /\ i.nodes = ViewNodes(N, s.data) /\ IsIndex(i)
      /\ i.lookup = ViewLookup(s.pathMap, s.pathHash)
      /\ i.tree = s.tree /\ i.child = s.child /\ i.grams = s.grams /\ i.lastID = s.lastID
  BY MappedParts
<1>3. r = Rec(M, s.pathMap, s.pathHash, s.tree, s.child, s.grams, s.lastID, s.data,
              s.wdMap, s.pathToWd)
  BY <1>1, SetNodeAt
<1>4. NodesFit(s.data, M) /\ ViewNodes(M, s.data) = U
  BY <1>1, <1>2, PutNodes
<1>5. \A x \in DOMAIN N : x \in DOMAIN M /\ PathKey(M[x]) = PathKey(N[x])
  BY DEF Put
<1>6. \A q \in DOMAIN s.pathHash \ {<<>>} : s.pathMap[s.pathHash[q]] \in DOMAIN N
  BY <1>1 DEF Sound, Resolves
<1>. HIDE DEF M
<1>7. Sound(M, s.pathMap, s.pathHash, s.data)
  BY <1>1, <1>4, <1>5, <1>6, SoundNodes
<1>8. [i EXCEPT !.nodes = Put(@, id, View(s.data, m))] = [i EXCEPT !.nodes = U]
  OBVIOUS
<1>. HIDE DEF r, U, i
<1>9. Fits(r) /\ Mapped(r) = [nodes |-> ViewNodes(M, s.data), lookup |-> ViewLookup(s.pathMap, s.pathHash),
                              tree |-> s.tree, child |-> s.child, grams |-> s.grams, lastID |-> s.lastID]
  BY <1>1, <1>3, <1>7, FitsRec
<1>10. [i EXCEPT !.nodes = U] = [nodes |-> U, lookup |-> i.lookup, tree |-> i.tree,
                                child |-> i.child, grams |-> i.grams, lastID |-> i.lastID]
  BY <1>2, SetIndexNodes
<1>11. Mapped(r) = [i EXCEPT !.nodes = U]
  BY <1>2, <1>4, <1>9, <1>10
<1>12. ASSUME m.invalid = s.nodes[id].invalid PROVE Frame(s, r, {})
  <2>1. r.nodes = M /\ r.lastID = s.lastID /\ r.wdMap = s.wdMap /\ r.pathToWd = s.pathToWd
    BY <1>3, RecFields
  <2>2. \A x \in DOMAIN M : x \in DOMAIN N /\ M[x] = IF x = id THEN m ELSE N[x]
    BY DEF M, Put
  <2>. QED
    BY <1>12, <2>1, <2>2 DEF Frame
<1>. QED
  BY <1>8, <1>9, <1>11, <1>12 DEF r, i

\* What a caller may name: no path whose Dir is the empty one, once a
\* compaction has given that an entry.
Reachable(s, p) == p \in Path /\ p # <<>> /\ (Len(p) > 1 \/ <<>> \notin DOMAIN s.pathHash)

\* The node a known path leads to.
LEMMA KnownFacts ==
  ASSUME NEW s, Fits(s), NEW p, p # <<>>
  PROVE  LET i == Mapped(s)
             key == GetPathOff(s, p)
             id == IdAt(s, key)
         IN  /\ p \in DOMAIN i.lookup <=> key # NoKey
             /\ p \in DOMAIN i.lookup <=> key \in DOMAIN s.pathMap
             /\ p \in DOMAIN i.lookup <=> p \in DOMAIN s.pathHash
             /\ p \notin DOMAIN i.lookup => id = NoId
             /\ p \in DOMAIN i.lookup =>
                  /\ id = i.lookup[p] /\ s.pathMap[key] = id /\ id \in DOMAIN s.nodes /\ id # NoId
                  /\ id \in Id /\ NodeFits(s.data, id, s.nodes[id])
                  /\ i.nodes[id] = View(s.data, s.nodes[id]) /\ s.nodes[id] \in Stored
                  /\ p \in Path /\ PathKey(s.nodes[id]) = key /\ ~s.nodes[id].invalid
                  /\ s.nodes[id].pathLen = Len(p) /\ PathOf(s, id) = p
<1>. DEFINE i == Mapped(s)
            L == ViewLookup(s.pathMap, s.pathHash)
            key == GetPathOff(s, p)
            id == IdAt(s, key)
<1>1. IsStore(s) /\ Sound(s.nodes, s.pathMap, s.pathHash, s.data)
      /\ s.data \in Path /\ NodesFit(s.data, s.nodes)
  BY DEF Fits, Sound
<1>2. i.lookup = L /\ i.nodes = ViewNodes(s.nodes, s.data)
  BY MappedParts
<1>3. /\ p \in DOMAIN L <=> p \in DOMAIN s.pathHash
      /\ p \in DOMAIN L <=> key # NoKey
      /\ p \in DOMAIN L <=> key \in DOMAIN s.pathMap
      /\ p \in DOMAIN L => /\ key = s.pathHash[p] /\ id = L[p]
                           /\ s.pathMap[key] = L[p]
      /\ p \notin DOMAIN L => id = NoId
  BY <1>1, LookupFacts
<1>4. ASSUME p \in DOMAIN L
      PROVE  /\ id \in DOMAIN s.nodes /\ id # NoId /\ p \in Path /\ ~s.nodes[id].invalid
             /\ s.nodes[id].pathLen = Len(p) /\ PathKey(s.nodes[id]) = key
             /\ Spelled(s.data, s.nodes[id]) = p
  <2>1. p \in DOMAIN s.pathHash \ {<<>>}
    BY <1>3, <1>4
  <2>2. id = s.pathMap[s.pathHash[p]] /\ key = s.pathHash[p]
    BY <1>3, <1>4
  <2>. HIDE DEF id, key
  <2>3. /\ id \in DOMAIN s.nodes /\ id # NoId /\ p \in Path /\ ~s.nodes[id].invalid
        /\ s.nodes[id].pathLen = Len(p) /\ Spelled(s.data, s.nodes[id]) = p
    BY <1>1, <2>1, <2>2, ResolvedFacts
  <2>4. PathKey(s.nodes[id]) = key
    BY <1>1, <2>1, <2>2 DEF Sound, Resolves
  <2>. QED
    BY <2>3, <2>4
<1>. HIDE DEF id, key, L
<1>5. ASSUME p \in DOMAIN L
      PROVE  /\ id \in Id /\ NodeFits(s.data, id, s.nodes[id]) /\ s.nodes[id] \in Stored
             /\ i.nodes[id] = View(s.data, s.nodes[id]) /\ PathOf(s, id) = p
  BY <1>1, <1>2, <1>4, <1>5 DEF NodesFit, NodeFits, ViewNodes, PathOf, Spelled
<1>. QED
  BY <1>2, <1>3, <1>4, <1>5 DEF id, key, i

\* An Upsert of a path that is known.
LEMMA KnownUpsert ==
  ASSUME NEW s, Fits(s), NEW p, p # <<>>, p \in DOMAIN Mapped(s).lookup,
         NEW info, info.size \in Int, info.mtime \in Int
  PROVE  LET r == StoreUpsert(s, p, info)
         IN  Fits(r) /\ Mapped(r) = Upsert(Mapped(s), p, info) /\ KeepsWatches(s, r)
<1>. DEFINE i == Mapped(s)
            key == GetPathOff(s, p)
            id == IdAt(s, key)
            node == s.nodes[id]
            d == info.size - node.size
            charged == Charge(s, id, d)
            m == [node EXCEPT !.size = info.size, !.mtime = info.mtime]
            r == StoreUpsert(s, p, info)
            v == View(s.data, node)
<1>1. /\ key # NoKey /\ key \in DOMAIN s.pathMap
      /\ id = i.lookup[p] /\ id \in DOMAIN s.nodes /\ id # NoId
      /\ NodeFits(s.data, id, node) /\ i.nodes[id] = v /\ node \in Stored
  BY KnownFacts
<1>2. r = IF node.size = info.size /\ node.mtime = info.mtime THEN s
          ELSE [charged EXCEPT !.nodes[id] = m]
  BY <1>1 DEF StoreUpsert
<1>3. v.size = node.size /\ v.mtime = node.mtime /\ i.child = s.child
  BY MappedParts DEF View
<1>4. node.size \in Int /\ d \in Int
  BY <1>1 DEF Stored
<1>. DEFINE sized == UpsertParentSize(i.nodes, i.child, id, info.size - v.size)
            w == [v EXCEPT !.size = info.size, !.mtime = info.mtime]
<1>5. Upsert(i, p, info) = IF node.size = info.size /\ node.mtime = info.mtime THEN i
                           ELSE [i EXCEPT !.nodes = Put(sized, id, w)]
  BY <1>1, <1>3 DEF Upsert
<1>6. UpsertParentSize(i.nodes, s.child, id, d) = sized
  BY <1>3
<1>. HIDE DEF r, d, node, id, key
<1>12. m.invalid = node.invalid
  BY <1>1 DEF Stored
<1>7. m \in Stored /\ View(s.data, m) = w /\ PathKey(m) = PathKey(node) /\ NodeFits(s.data, id, m)
  <2>. DEFINE a == info.size
              t == info.mtime
              D == s.data
  <2>1. a \in Int /\ t \in Int /\ node \in Stored /\ NodeFits(D, id, node)
    BY <1>1
  <2>. HIDE DEF a, t, D
  <2>. DEFINE m1 == [node EXCEPT !.size = a]
              w1 == [View(D, node) EXCEPT !.size = a]
              mm == [m1 EXCEPT !.mtime = t]
              ww == [w1 EXCEPT !.mtime = t]
  <2>2. m1 \in Stored /\ View(D, m1) = w1 /\ PathKey(m1) = PathKey(node) /\ NodeFits(D, id, m1)
    BY <2>1, ViewOfResized
  <2>. HIDE DEF m1, w1
  <2>5. mm \in Stored /\ View(D, mm) = [View(D, m1) EXCEPT !.mtime = t]
        /\ PathKey(mm) = PathKey(m1) /\ NodeFits(D, id, mm)
    BY <2>1, <2>2, ViewOfTimed
  <2>3. mm = m
    BY DEF m1, a, t
  <2>4. ww = w
    BY DEF w1, a, t, D
  <2>6. View(D, mm) = ww
    BY <2>2, <2>5
  <2>. HIDE DEF mm, ww, m, w, v
  <2>. QED
    BY <2>2, <2>3, <2>4, <2>5, <2>6 DEF D
<1>. HIDE DEF m, v, w
<1>8. /\ Fits(charged) /\ Mapped(charged) = [i EXCEPT !.nodes = sized]
      /\ SameBytes(s.nodes, charged.nodes) /\ charged.data = s.data /\ Frame(s, charged, {})
  <2>1. /\ Fits(charged) /\ Mapped(charged) = [i EXCEPT !.nodes = UpsertParentSize(@, s.child, id, d)]
        /\ SameBytes(s.nodes, charged.nodes) /\ charged.data = s.data /\ Frame(s, charged, {})
    BY <1>4, ChargeStep
  <2>. QED
    BY <1>6, <2>1
<1>9. id \in DOMAIN charged.nodes /\ PathKey(charged.nodes[id]) = PathKey(node)
  BY <1>1, <1>8 DEF SameBytes, node
<1>13. charged.nodes[id].invalid = node.invalid
  <2>1. charged.nodes[id] = [node EXCEPT !.size = charged.nodes[id].size]
    BY <1>1, <1>8 DEF SameBytes, node
  <2>2. \A n : [node EXCEPT !.size = n].invalid = node.invalid
    BY <1>1 DEF Stored
  <2>. QED
    BY <2>1, <2>2
<1>. DEFINE q == [charged EXCEPT !.nodes[id] = m]
<1>. HIDE DEF charged, sized
<1>10. Fits(q) /\ Mapped(q) = [Mapped(charged) EXCEPT !.nodes = Put(@, id, w)]
       /\ Frame(charged, q, {})
  <2>1. NodeFits(charged.data, id, m) /\ View(charged.data, m) = w
    BY <1>7, <1>8
  <2>2. PathKey(m) = PathKey(charged.nodes[id]) /\ Fits(charged) /\ id \in DOMAIN charged.nodes
    BY <1>7, <1>8, <1>9
  <2>3. Fits(q) /\ Mapped(q) = [Mapped(charged) EXCEPT !.nodes = Put(@, id, View(charged.data, m))]
        /\ Frame(charged, q, {})
    BY <1>12, <1>13, <2>1, <2>2, NodePut
  <2>. QED
    BY <2>1, <2>3
<1>11. [Mapped(charged) EXCEPT !.nodes = Put(@, id, w)] = [i EXCEPT !.nodes = Put(sized, id, w)]
  <2>1. IsIndex(i)
    BY MappedParts
  <2>. HIDE DEF i
  <2>. DEFINE j == Mapped(charged)
  <2>2. j.nodes = sized
    BY <1>8, <2>1 DEF IsIndex
  <2>. HIDE DEF j
  <2>3. [j EXCEPT !.nodes = Put(@, id, w)] = [j EXCEPT !.nodes = Put(sized, id, w)]
    BY <2>2
  <2>. DEFINE P == Put(sized, id, w)
  <2>. HIDE DEF P
  <2>4. j = [i EXCEPT !.nodes = sized]
    BY <1>8 DEF j
  <2>5. [j EXCEPT !.nodes = P] = [i EXCEPT !.nodes = P]
    BY <2>4
  <2>. QED
    BY <2>3, <2>5 DEF P, j
<1>14. KeepsWatches(s, q)
  BY <1>8, <1>10, FrameKeeps DEF KeepsWatches
<1>. QED
  BY <1>2, <1>5, <1>10, <1>11, <1>14 DEF r, q, KeepsWatches

\* The watch tables are not part of what is seen.
LEMMA WatchStep ==
  ASSUME NEW s, Fits(s), NEW key, NEW wd,
         NEW r \in {PutWd(s, key, wd), DeleteWd(s, key), AddWatch(s, key, wd)},
         wd \in Id \/ r = DeleteWd(s, key)
  PROVE  /\ Fits(r) /\ Mapped(r) = Mapped(s)
         /\ r.nodes = s.nodes /\ r.pathMap = s.pathMap /\ r.pathHash = s.pathHash
         /\ r.tree = s.tree /\ r.child = s.child /\ r.grams = s.grams /\ r.lastID = s.lastID
         /\ r.data = s.data
<1>1. IsStore(s) /\ Sound(s.nodes, s.pathMap, s.pathHash, s.data) /\ DOMAIN s.wdMap \subseteq Id
  BY DEF Fits
<1>2. PICK W, V : /\ r = Rec(s.nodes, s.pathMap, s.pathHash, s.tree, s.child, s.grams, s.lastID,
                             s.data, W, V)
                  /\ DOMAIN W \subseteq DOMAIN s.wdMap \cup {wd}
                  /\ r = DeleteWd(s, key) => DOMAIN W \subseteq DOMAIN s.wdMap
  <2>. DEFINE Q(q) ==
         \E W, V : /\ q = Rec(s.nodes, s.pathMap, s.pathHash, s.tree, s.child, s.grams,
                              s.lastID, s.data, W, V)
                   /\ DOMAIN W \subseteq DOMAIN s.wdMap \cup {wd}
                   /\ q = DeleteWd(s, key) => DOMAIN W \subseteq DOMAIN s.wdMap
  <2>1. \A q \in {PutWd(s, key, wd), DeleteWd(s, key), AddWatch(s, key, wd)} : Q(q)
    BY <1>1, WatchIs
  <2>2. Q(r)
    BY <2>1
  <2>. QED
    BY <2>2
<1>3. DOMAIN W \subseteq Id
  BY <1>1, <1>2
<1>4. Fits(r) /\ Mapped(r) = [nodes |-> ViewNodes(s.nodes, s.data),
                              lookup |-> ViewLookup(s.pathMap, s.pathHash), tree |-> s.tree,
                              child |-> s.child, grams |-> s.grams, lastID |-> s.lastID]
  BY <1>1, <1>2, <1>3, FitsRec
<1>5. Mapped(s) = [nodes |-> ViewNodes(s.nodes, s.data),
                   lookup |-> ViewLookup(s.pathMap, s.pathHash), tree |-> s.tree,
                   child |-> s.child, grams |-> s.grams, lastID |-> s.lastID]
  BY MappedParts DEF IsIndex
<1>6. /\ r.nodes = s.nodes /\ r.pathMap = s.pathMap /\ r.pathHash = s.pathHash
      /\ r.tree = s.tree /\ r.child = s.child /\ r.grams = s.grams /\ r.lastID = s.lastID
      /\ r.data = s.data
  BY <1>2, RecFields
<1>. QED
  BY <1>4, <1>5, <1>6

\* A path nobody knows has the parent id 0.
LEMMA LookupIdId ==
  ASSUME NEW s, StoreInv(s), NEW q
  PROVE  LookupId(Mapped(s), q) \in Id
<1>1. IxInv(Mapped(s))
  BY DEF StoreInv, Healthy
<1>. QED
  BY <1>1, LookupIdType

\* Upsert on a store is Upsert on what is seen of it.
LEMMA UpsertStep ==
  ASSUME NEW s, StoreInv(s), NEW p, Reachable(s, p), NEW info,
         info.dir \in BOOLEAN, info.size \in Int, info.mtime \in Int
  PROVE  LET r == StoreUpsert(s, p, info)
         IN  StoreInv(r) /\ Mapped(r) = Upsert(Mapped(s), p, info) /\ KeepsWatches(s, r)
<1>. DEFINE i == Mapped(s)
            r == StoreUpsert(s, p, info)
            b == info.dir
            z == info.size
            t == info.mtime
            new == StoreNew(s, p, b, z, t)
            ins == Insert(i, p, b, z, t)
            id == SetRealID(s.lastID + 1, b)
            key == GetUint64(Len(s.data), Len(p))
<1>1. Fits(s) /\ Healthy(i) /\ p \in Path /\ p # <<>>
  BY DEF StoreInv, Reachable
<1>2. ASSUME p \in DOMAIN i.lookup
      PROVE  Fits(r) /\ Mapped(r) = Upsert(i, p, info) /\ KeepsWatches(s, r)
  BY <1>1, <1>2, KnownUpsert
<1>3. ASSUME p \notin DOMAIN i.lookup
      PROVE  Fits(r) /\ Mapped(r) = Upsert(i, p, info) /\ KeepsWatches(s, r)
  <2>1. GetPathOff(s, p) = NoKey
    BY <1>1, <1>3, KnownFacts
  <2>2. r = Charge(new, IdAt(new, GetPathOff(new, p)), z)
    BY <2>1 DEF StoreUpsert
  <2>3. s.lastID \in Nat /\ \A x \in DOMAIN s.nodes : x[1] =< s.lastID
    BY StoreFacts
  <2>4. LookupId(i, Dir(p)) \in Id
    BY LookupIdId
  <2>5. Len(p) > 1 \/ <<>> \notin DOMAIN s.pathHash
    BY DEF Reachable
  <2>6. b \in BOOLEAN /\ z \in Int /\ t \in Int
    OBVIOUS
  <2>. HIDE DEF b, z, t
  <2>7. /\ Fits(new) /\ Mapped(new) = ins
        /\ GetPathOff(new, p) = key /\ IdAt(new, key) = id /\ id \in Id
        /\ new.child = Mapped(new).child /\ Added(s, new, id, key)
    BY <1>1, <2>3, <2>4, <2>5, <2>6, NewIs
  <2>8. r = Charge(new, id, z)
    BY <2>2, <2>7
  <2>9. ins.lookup[p] = id
    <3>1. ins.lookup = Put(i.lookup, p, SetRealID(i.lastID + 1, b)) /\ i.lastID = s.lastID
      BY MappedParts DEF Insert
    <3>. QED
      BY <3>1 DEF Put
  <2>10. Upsert(i, p, info) = [ins EXCEPT !.nodes = UpsertParentSize(@, ins.child, ins.lookup[p], z)]
    BY <1>3 DEF Upsert, b, z, t
  <2>. HIDE DEF new, ins, id, r
  <2>11. Fits(Charge(new, id, z))
         /\ Mapped(Charge(new, id, z)) = [Mapped(new) EXCEPT !.nodes = UpsertParentSize(@, new.child, id, z)]
         /\ Frame(new, Charge(new, id, z), {})
    BY <2>6, <2>7, ChargeStep
  <2>12. Mapped(Charge(new, id, z)) = [ins EXCEPT !.nodes = UpsertParentSize(@, new.child, id, z)]
    BY <2>7, <2>11
  <2>13. new.child = ins.child
    BY <2>7
  <2>14. Upsert(i, p, info) = [ins EXCEPT !.nodes = UpsertParentSize(@, new.child, id, z)]
    BY <2>9, <2>10, <2>13
  <2>15. KeepsWatches(s, Charge(new, id, z))
    BY <2>7, <2>11, FrameKeeps DEF KeepsWatches, Added
  <2>. QED
    BY <2>8, <2>11, <2>12, <2>14, <2>15 DEF r
<1>4. Fits(r) /\ Mapped(r) = Upsert(i, p, info) /\ KeepsWatches(s, r)
  BY <1>2, <1>3
<1>. HIDE DEF r, i
<1>5. Healthy(Upsert(i, p, info))
  BY <1>1, UpsertHealthy
<1>. QED
  BY <1>4, <1>5 DEF StoreInv, r, i

\* What the path leads to, if anything, is a directory.
FindsDir(i, p) == p \in DOMAIN i.lookup => IsDir(i.lookup[p])

\* And so is UpsertDir.
LEMMA UpsertDirStep ==
  ASSUME NEW s, StoreInv(s), NEW p, Reachable(s, p), NEW t \in Int
  PROVE  LET r == StoreUpsertDir(s, p, t)
         IN  /\ StoreInv(r) /\ Mapped(r) = UpsertDir(Mapped(s), p, t)
             /\ FindsDir(Mapped(s), p) => KeepsWatches(s, r)
<1>. DEFINE i == Mapped(s)
            r == StoreUpsertDir(s, p, t)
            o == 0
            B == TRUE
            new == StoreNew(s, p, B, o, t)
            ins == Insert(i, p, B, o, t)
            id == SetRealID(s.lastID + 1, B)
            own == GetUint64(Len(s.data), Len(p))
            key == GetPathOff(s, p)
            old == IdAt(s, key)
            m == [s.nodes[old] EXCEPT !.mtime = t]
            timed == [s EXCEPT !.nodes[old] = m]
<1>1. Fits(s) /\ Healthy(i) /\ p \in Path /\ p # <<>>
  BY DEF StoreInv, Reachable
<1>2. ASSUME p \in DOMAIN i.lookup
      PROVE  /\ Fits(r) /\ Mapped(r) = UpsertDir(i, p, t)
             /\ FindsDir(i, p) => KeepsWatches(s, r)
  <2>1. /\ key # NoKey /\ key \in DOMAIN s.pathMap /\ old = i.lookup[p]
        /\ old \in DOMAIN s.nodes /\ old # NoId /\ old \in Id
        /\ NodeFits(s.data, old, s.nodes[old]) /\ i.nodes[old] = View(s.data, s.nodes[old])
        /\ s.nodes[old] \in Stored
    BY <1>1, <1>2, KnownFacts
  <2>2. r = AddWatch([s EXCEPT !.nodes[old].mtime = t], key, old)
    BY <2>1 DEF StoreUpsertDir
  <2>3. [s EXCEPT !.nodes[old].mtime = t] = timed
    OBVIOUS
  <2>4. UpsertDir(i, p, t) = [i EXCEPT !.nodes[old].mtime = t]
    BY <1>2, <2>1 DEF UpsertDir
  <2>. DEFINE n == s.nodes[old]
              v == View(s.data, n)
  <2>5. /\ m \in Stored /\ View(s.data, m) = [v EXCEPT !.mtime = t] /\ PathKey(m) = PathKey(n)
        /\ NodeFits(s.data, old, m)
    <3>. HIDE DEF n
    <3>. DEFINE mm == [n EXCEPT !.mtime = t]
    <3>1. /\ mm \in Stored /\ View(s.data, mm) = [v EXCEPT !.mtime = t] /\ PathKey(mm) = PathKey(n)
          /\ NodeFits(s.data, old, mm)
      BY <2>1, ViewOfTimed DEF n
    <3>2. mm = m
      BY DEF n
    <3>. QED
      BY <3>1, <3>2
  <2>. HIDE DEF m
  <2>10. m.invalid = s.nodes[old].invalid
    BY <2>1 DEF Stored, m
  <2>6. /\ Fits(timed) /\ Mapped(timed) = [i EXCEPT !.nodes = Put(@, old, View(s.data, m))]
        /\ Frame(s, timed, {})
    BY <1>1, <2>1, <2>5, <2>10, NodePut
  <2>11. timed.nodes = Put(s.nodes, old, m) /\ timed.lastID = s.lastID /\ IsStore(timed)
    <3>1. timed = Rec(Put(s.nodes, old, m), s.pathMap, s.pathHash, s.tree, s.child,
                      s.grams, s.lastID, s.data, s.wdMap, s.pathToWd)
      BY <1>1, <2>1, SetNodeAt DEF Fits
    <3>. HIDE DEF timed
    <3>. QED
      BY <3>1, RecFields, MappedRec
  <2>12. ~s.nodes[old].invalid /\ PathKey(s.nodes[old]) = key /\ old[1] =< s.lastID
    BY <1>1, <1>2, <2>1, KnownFacts, StoreFacts
  <2>7. [i EXCEPT !.nodes = Put(@, old, View(s.data, m))] = [i EXCEPT !.nodes[old].mtime = t]
    <3>. DEFINE I == i.nodes
                w == [I[old] EXCEPT !.mtime = t]
                J == [I EXCEPT ![old] = w]
    <3>1. [i EXCEPT !.nodes[old].mtime = t] = [i EXCEPT !.nodes = J]
      OBVIOUS
    <3>2. View(s.data, m) = w
      BY <2>1, <2>5
    <3>3. old \in DOMAIN I
      BY <2>1, MappedParts DEF ViewNodes
    <3>. HIDE DEF w, I
    <3>4. J = Put(I, old, w)
      BY <3>3, PutIsExcept
    <3>. HIDE DEF J
    <3>5. [i EXCEPT !.nodes = Put(@, old, View(s.data, m))] = [i EXCEPT !.nodes = J]
      BY <3>2, <3>4 DEF I
    <3>. QED
      BY <3>1, <3>5
  <2>. HIDE DEF timed, i, r
  <2>8. r = AddWatch(timed, key, old) /\ old \in Id
    BY <2>1, <2>2, <2>3
  <2>9. Fits(r) /\ Mapped(r) = Mapped(timed)
    BY <2>6, <2>8, WatchStep
  <2>13. ASSUME FindsDir(i, p), Watched(s) PROVE Watched(r)
    <3>1. IsDir(old)
      BY <1>2, <2>1, <2>13 DEF FindsDir
    <3>2. Watched(timed)
      BY <2>6, <2>13, FrameKeeps DEF KeepsWatches
    <3>3. ~timed.nodes[old].invalid /\ PathKey(timed.nodes[old]) = key /\ old[1] =< timed.lastID
      BY <2>5, <2>10, <2>11, <2>12 DEF Put
    <3>. QED
      BY <2>8, <2>11, <3>1, <3>2, <3>3, AddWatched
  <2>. QED
    BY <2>4, <2>6, <2>7, <2>9, <2>13 DEF KeepsWatches
<1>3. ASSUME p \notin DOMAIN i.lookup
      PROVE  /\ Fits(r) /\ Mapped(r) = UpsertDir(i, p, t)
             /\ FindsDir(i, p) => KeepsWatches(s, r)
  <2>1. key = NoKey
    BY <1>1, <1>3, KnownFacts
  <2>2. r = AddWatch(new, GetPathOff(new, p), IdAt(new, GetPathOff(new, p)))
    BY <2>1 DEF StoreUpsertDir
  <2>3. s.lastID \in Nat /\ \A x \in DOMAIN s.nodes : x[1] =< s.lastID
    BY StoreFacts
  <2>4. LookupId(i, Dir(p)) \in Id
    BY LookupIdId
  <2>5. Len(p) > 1 \/ <<>> \notin DOMAIN s.pathHash
    BY DEF Reachable
  <2>6. o \in Int /\ B \in BOOLEAN
    OBVIOUS
  <2>7. UpsertDir(i, p, t) = ins
    BY <1>3 DEF UpsertDir
  <2>. HIDE DEF o, B
  <2>8. /\ Fits(new) /\ Mapped(new) = ins
        /\ GetPathOff(new, p) = own /\ IdAt(new, own) = id /\ id \in Id /\ Added(s, new, id, own)
    BY <1>1, <2>3, <2>4, <2>5, <2>6, NewIs
  <2>11. IsDir(id) /\ id[1] = s.lastID + 1
    BY <2>3, FreshId DEF IsDir, SetRealID, B
  <2>. HIDE DEF new, id, own, r, ins
  <2>9. r = AddWatch(new, own, id)
    BY <2>2, <2>8
  <2>10. Fits(r) /\ Mapped(r) = Mapped(new)
    BY <2>8, <2>9, WatchStep
  <2>12. ASSUME Watched(s) PROVE Watched(r)
    <3>1. Watched(new) /\ IsStore(new)
      BY <2>8, <2>12, FrameKeeps DEF KeepsWatches, Added, Fits
    <3>2. ~new.nodes[id].invalid /\ PathKey(new.nodes[id]) = own /\ id[1] =< new.lastID
      BY <2>3, <2>8, <2>11 DEF Added
    <3>. QED
      BY <2>8, <2>9, <2>11, <3>1, <3>2, AddWatched
  <2>. QED
    BY <2>7, <2>8, <2>10, <2>12 DEF KeepsWatches
<1>4. /\ Fits(r) /\ Mapped(r) = UpsertDir(i, p, t)
      /\ FindsDir(i, p) => KeepsWatches(s, r)
  BY <1>2, <1>3
<1>. HIDE DEF r, i
<1>5. Healthy(UpsertDir(i, p, t))
  BY <1>1, UpsertDirHealthy
<1>. QED
  BY <1>4, <1>5 DEF StoreInv, r, i

\* What is appended disturbs no lookup.
LEMMA SoundAppended ==
  ASSUME NEW N, NEW M, NEW H, NEW D, Sound(N, M, H, D), NEW x \in Path, NEW N2,
         NodesFit(D \o x, N2),
         \A p \in DOMAIN H \ {<<>>} : M[H[p]] \in DOMAIN N2 /\ PathKey(N2[M[H[p]]]) = PathKey(N[M[H[p]]])
  PROVE  Sound(N2, M, H, D \o x)
<1>. DEFINE E == D \o x
<1>1. D \in Path /\ NoKey \notin DOMAIN M /\ Resolves(N, M, H, D)
  BY DEF Sound
<1>2. E \in Path
  BY <1>1, SliceOfNew
<1>3. ASSUME NEW p \in DOMAIN H \ {<<>>}
      PROVE  GetPathUint64(E, H[p]) = p
  <2>1. H[p][1] \in Nat /\ H[p][2] \in Nat /\ H[p][1] + H[p][2] =< Len(D)
    BY ResolvedFacts
  <2>2. Get(E, H[p][1], H[p][2]) = Get(D, H[p][1], H[p][2])
    BY <1>1, <2>1, SliceOfAppended
  <2>3. GetPathUint64(D, H[p]) = p
    BY <1>1 DEF Resolves
  <2>. HIDE DEF E
  <2>. QED
    BY <2>2, <2>3 DEF GetPathUint64
<1>. HIDE DEF E
<1>4. Resolves(N2, M, H, E)
  BY <1>1, <1>3 DEF Resolves
<1>. QED
  BY <1>1, <1>2, <1>4 DEF Sound, E

LEMMA ViewOfName ==
  ASSUME NEW D \in Path, NEW name \in Names, NEW id, id # NoId, NEW t \in Int
  PROVE  LET m == [StoredZero EXCEPT !.mtime = t, !.invalid = TRUE,
                                     !.nameOff = Len(D), !.nameLen = 1]
         IN  NodeFits(D \o <<name>>, id, m) /\ View(D \o <<name>>, m) = InvalidNode(name, t)
<1>. DEFINE x == <<name>>
            E == D \o x
            off == Len(D)
            m == [StoredZero EXCEPT !.mtime = t, !.invalid = TRUE, !.nameOff = Len(D), !.nameLen = 1]
<1>1. x \in Path /\ Len(x) = 1 /\ x[1] = name
  BY DEF Path
<1>. HIDE DEF x
<1>2. Get(E, off, 1) = x /\ E \in Path /\ Len(E) = off + 1 /\ off \in Nat
  <2>1. Get(D \o x, Len(D), Len(x)) = x /\ D \o x \in Path /\ Len(D \o x) = Len(D) + Len(x)
    BY <1>1, SliceOfNew
  <2>2. Len(D) \in Nat
    BY DEF Path
  <2>. QED
    BY <1>1, <2>1, <2>2
<1>. HIDE DEF E, off
<1>3. m = [parent |-> NoId, size |-> 0, mtime |-> t, invalid |-> TRUE,
           pathOff |-> 0, pathLen |-> 0, nameOff |-> off, nameLen |-> 1]
  <2>. DEFINE o == 0
              one == 1
              F == FALSE
              B == TRUE
              z == [parent |-> NoId, size |-> o, mtime |-> o, invalid |-> F,
                    pathOff |-> o, pathLen |-> o, nameOff |-> o, nameLen |-> o]
              z1 == [z EXCEPT !.mtime = t]
              z2 == [z1 EXCEPT !.invalid = B]
              z3 == [z2 EXCEPT !.nameOff = off]
              z4 == [z3 EXCEPT !.nameLen = one]
  <2>0. m = z4
    BY DEF StoredZero, z, o, F, B, one, off
  <2>. HIDE DEF o, F, B, one
  <2>1. z1 = [parent |-> NoId, size |-> o, mtime |-> t, invalid |-> F,
              pathOff |-> o, pathLen |-> o, nameOff |-> o, nameLen |-> o]
    OBVIOUS
  <2>. HIDE DEF z1
  <2>2. z2 = [parent |-> NoId, size |-> o, mtime |-> t, invalid |-> B,
              pathOff |-> o, pathLen |-> o, nameOff |-> o, nameLen |-> o]
    BY <2>1
  <2>. HIDE DEF z2
  <2>3. z3 = [parent |-> NoId, size |-> o, mtime |-> t, invalid |-> B,
              pathOff |-> o, pathLen |-> o, nameOff |-> off, nameLen |-> o]
    BY <2>2
  <2>. HIDE DEF z3
  <2>4. z4 = [parent |-> NoId, size |-> o, mtime |-> t, invalid |-> B,
              pathOff |-> o, pathLen |-> o, nameOff |-> off, nameLen |-> one]
    BY <2>3
  <2>. HIDE DEF z4
  <2>. QED
    BY <2>0, <2>4 DEF o, one, B
<1>. HIDE DEF m
<1>4. /\ m.parent = NoId /\ m.size = 0 /\ m.mtime = t /\ m.invalid = TRUE
      /\ m.pathOff = 0 /\ m.pathLen = 0 /\ m.nameOff = off /\ m.nameLen = 1
  BY <1>3
<1>5. m \in Stored
  <2>. DEFINE o == 0
              one == 1
              B == TRUE
              z == [parent |-> NoId, size |-> o, mtime |-> t, invalid |-> B,
                    pathOff |-> o, pathLen |-> o, nameOff |-> off, nameLen |-> one]
  <2>1. o \in Nat /\ o \in Int /\ one \in Nat /\ B \in BOOLEAN
    OBVIOUS
  <2>. HIDE DEF o, one, B
  <2>2. z \in Stored
    BY <1>2, <2>1, NoIdType DEF Stored
  <2>. QED
    BY <1>3, <2>2 DEF o, one, B
<1>6. NodeFits(E, id, m)
  BY <1>2, <1>4, <1>5 DEF NodeFits
<1>7. Spelled(E, m) = <<>>
  BY <1>4 DEF Spelled, GetPathUint64, PathKey, GetUint64
<1>8. Titled(E, m) = name
  <2>1. x # <<>>
    BY <1>1 DEF x
  <2>2. Base(x) = name
    BY <1>1 DEF Base
  <2>. QED
    BY <1>2, <1>4, <2>1, <2>2 DEF Titled
<1>9. View(E, m) = InvalidNode(name, t)
  BY <1>4, <1>7, <1>8 DEF View, InvalidNode
<1>. QED
  BY <1>6, <1>9 DEF E, x, m

LEMMA NameStep ==
  ASSUME NEW s, StoreInv(s), NEW name \in Names, NEW t \in Int
  PROVE  LET r == StoreName(s, name, t)
         IN  StoreInv(r) /\ Mapped(r) = SaveName(Mapped(s), name, t) /\ KeepsWatches(s, r)
<1>. DEFINE i == Mapped(s)
            r == StoreName(s, name, t)
            n1 == s.lastID + 1
            id == SetRealID(n1, FALSE)
            m == [StoredZero EXCEPT !.mtime = t, !.invalid = TRUE,
                                    !.nameOff = Len(s.data), !.nameLen = 1]
            x == <<name>>
            D == s.data \o x
            N == Put(s.nodes, id, m)
            G == AddToIndex(s.grams, name, id)
<1>1. /\ Sound(s.nodes, s.pathMap, s.pathHash, s.data) /\ DOMAIN s.wdMap \subseteq Id
      /\ s.data \in Path /\ NodesFit(s.data, s.nodes) /\ IsStore(s) /\ s.lastID \in Nat
      /\ \A y \in DOMAIN s.nodes : y[1] =< s.lastID
      /\ i.nodes = ViewNodes(s.nodes, s.data) /\ i.lookup = ViewLookup(s.pathMap, s.pathHash)
      /\ i.tree = s.tree /\ i.child = s.child /\ i.grams = s.grams /\ i.lastID = s.lastID
  BY StoreFacts
<1>2. id \in Id /\ id # NoId /\ id[1] = s.lastID + 1
  BY <1>1, FreshId
<1>3. x \in Path /\ Append(s.data, name) = D
  <2>1. s.data \in Seq(Names)
    BY <1>1 DEF Path
  <2>2. x \in Path
    BY DEF Path
  <2>. QED
    BY <2>1, <2>2, AppendIsConcat
<1>4. NodeFits(D, id, m) /\ View(D, m) = InvalidNode(name, t)
  BY <1>1, <1>2, ViewOfName
<1>5. r = [s EXCEPT !.nodes = N, !.data = Append(s.data, name), !.grams = G, !.lastID = n1]
  BY DEF StoreName
<1>6. r = Rec(N, s.pathMap, s.pathHash, s.tree, s.child, G, n1, D, s.wdMap, s.pathToWd)
  <2>1. r = [s EXCEPT !.nodes = N, !.data = D, !.grams = G, !.lastID = n1]
    BY <1>3, <1>5
  <2>2. IsStore(s)
    BY <1>1
  <2>. HIDE DEF r, N, D, G, n1
  <2>3. r = NamedStore(s, N, D, G, n1)
    BY <2>1 DEF NamedStore
  <2>. QED
    BY <2>2, <2>3, SetNamed
<1>. HIDE DEF m, id
<1>7. NodesFit(D, s.nodes) /\ ViewNodes(s.nodes, D) = i.nodes
  BY <1>1, <1>3, AppendedNodes
<1>8. NodesFit(D, N) /\ ViewNodes(N, D) = Put(i.nodes, id, InvalidNode(name, t))
  <2>. HIDE DEF D
  <2>. QED
    BY <1>2, <1>4, <1>7, PutNodes
<1>9. \A y \in DOMAIN s.nodes : y \in DOMAIN N /\ N[y] = s.nodes[y]
  BY <1>1, <1>2 DEF Put
<1>10. \A q \in DOMAIN s.pathHash \ {<<>>} : s.pathMap[s.pathHash[q]] \in DOMAIN s.nodes
  BY <1>1 DEF Sound, Resolves
<1>. HIDE DEF N
<1>11. Sound(N, s.pathMap, s.pathHash, D)
  <2>. HIDE DEF x
  <2>. QED
    BY <1>1, <1>3, <1>8, <1>9, <1>10, SoundAppended
<1>12. Fits(r) /\ Mapped(r) = [nodes |-> ViewNodes(N, D), lookup |-> ViewLookup(s.pathMap, s.pathHash),
                               tree |-> s.tree, child |-> s.child, grams |-> G, lastID |-> n1]
  <2>. HIDE DEF r, D, G, n1
  <2>. QED
    BY <1>1, <1>6, <1>11, FitsRec
<1>13. Mapped(r) = SaveName(i, name, t)
  <2>. HIDE DEF r, D, i
  <2>. QED
    BY <1>1, <1>8, <1>12 DEF SaveName, id
<1>14. Healthy(SaveName(i, name, t))
  BY NameHealthy DEF StoreInv
<1>. HIDE DEF r, i
<1>15. Frame(s, r, {})
  <2>1. r.nodes = N /\ r.lastID = s.lastID + 1 /\ r.wdMap = s.wdMap /\ r.pathToWd = s.pathToWd
    BY <1>6, RecFields
  <2>2. \A y \in DOMAIN N : y = id \/ (y \in DOMAIN s.nodes /\ N[y] = s.nodes[y])
    BY DEF N, Put
  <2>3. ~IsDir(id)
    BY DEF id, SetRealID, IsDir
  <2>. QED
    BY <2>1, <2>2, <2>3 DEF Frame
<1>. QED
  BY <1>12, <1>13, <1>14, <1>15, FrameKeeps DEF StoreInv, r, i

\* The name a handler reads is the name the index shows.
LEMMA NameOfView ==
  ASSUME NEW s, NEW id \in DOMAIN s.nodes
  PROVE  /\ NameOf(s, id) = Mapped(s).nodes[id].name
         /\ PathOf(s, id) = Mapped(s).nodes[id].path
         /\ Mapped(s).nodes[id].size = s.nodes[id].size
         /\ Mapped(s).nodes[id].invalid = s.nodes[id].invalid
         /\ Mapped(s).nodes[id].parent = s.nodes[id].parent
         /\ Mapped(s).nodes[id].mtime = s.nodes[id].mtime
<1>0. Mapped(s).nodes = ViewNodes(s.nodes, s.data)
  BY MappedParts
<1>1. Mapped(s).nodes[id] = View(s.data, s.nodes[id])
  BY <1>0 DEF ViewNodes
<1>2. NameOf(s, id) = Titled(s.data, s.nodes[id]) /\ PathOf(s, id) = Spelled(s.data, s.nodes[id])
  BY DEF NameOf, Titled, PathOf, Spelled
<1>. QED
  BY <1>1, <1>2 DEF View

LEMMA DropNameStep ==
  ASSUME NEW s, StoreInv(s), NEW id
  PROVE  LET r == StoreDropName(s, id)
         IN  StoreInv(r) /\ Mapped(r) = DeleteInvalid(Mapped(s), id) /\ KeepsWatches(s, r)
<1>. DEFINE i == Mapped(s)
            r == StoreDropName(s, id)
            N == Without(s.nodes, {id})
            G == RemoveFromIndex(s.grams, NameOf(s, id), id)
<1>1. /\ Sound(s.nodes, s.pathMap, s.pathHash, s.data) /\ DOMAIN s.wdMap \subseteq Id
      /\ s.data \in Path /\ NodesFit(s.data, s.nodes) /\ IsStore(s)
      /\ i.nodes = ViewNodes(s.nodes, s.data) /\ i.lookup = ViewLookup(s.pathMap, s.pathHash)
      /\ i.tree = s.tree /\ i.child = s.child /\ i.grams = s.grams /\ i.lastID = s.lastID
      /\ DOMAIN i.nodes = DOMAIN s.nodes
  BY StoreFacts
<1>2. CASE ~ (id \in DOMAIN s.nodes /\ s.nodes[id].invalid)
  <2>1. r = s
    BY <1>2 DEF StoreDropName
  <2>2. DeleteInvalid(i, id) = i
    BY <1>1, <1>2, NameOfView DEF DeleteInvalid
  <2>. QED
    BY <2>1, <2>2 DEF KeepsWatches
<1>3. CASE id \in DOMAIN s.nodes /\ s.nodes[id].invalid
  <2>1. r = [s EXCEPT !.nodes = N, !.grams = G]
    BY <1>3 DEF StoreDropName
  <2>2. NodesFit(s.data, N) /\ ViewNodes(N, s.data) = Without(i.nodes, {id})
    BY <1>1, WithoutNodes
  <2>3. ASSUME NEW p \in DOMAIN s.pathHash \ {<<>>}
        PROVE  LET x == s.pathMap[s.pathHash[p]]
               IN  x \in DOMAIN N /\ PathKey(N[x]) = PathKey(s.nodes[x])
    <3>. DEFINE x == s.pathMap[s.pathHash[p]]
    <3>1. x \in DOMAIN s.nodes /\ ~s.nodes[x].invalid
      BY <1>1, ResolvedFacts
    <3>. HIDE DEF x
    <3>2. x # id
      BY <1>3, <3>1
    <3>3. x \in DOMAIN N /\ N[x] = s.nodes[x]
      BY <3>1, <3>2 DEF Without
    <3>. QED
      BY <3>3 DEF x
  <2>4. NameOf(s, id) = i.nodes[id].name /\ i.nodes[id].invalid
    BY <1>3, NameOfView
  <2>. HIDE DEF N, G
  <2>5. Sound(N, s.pathMap, s.pathHash, s.data)
    BY <1>1, <2>2, <2>3, SoundNodes
  <2>. HIDE DEF r
  <2>6. r = Rec(N, s.pathMap, s.pathHash, s.tree, s.child, G, s.lastID, s.data, s.wdMap, s.pathToWd)
    BY <1>1, <2>1, SetDropped
  <2>7. Fits(r) /\ Mapped(r) = [nodes |-> ViewNodes(N, s.data), lookup |-> ViewLookup(s.pathMap, s.pathHash),
                                tree |-> s.tree, child |-> s.child, grams |-> G, lastID |-> s.lastID]
    BY <1>1, <2>5, <2>6, FitsRec
  <2>. HIDE DEF i
  <2>8. Mapped(r) = DeleteInvalid(i, id)
    BY <1>1, <1>3, <2>2, <2>4, <2>7 DEF DeleteInvalid, G
  <2>9. Healthy(DeleteInvalid(i, id))
    BY NameHealthy DEF StoreInv, i
  <2>10. Frame(s, r, {})
    <3>1. r.nodes = N /\ r.lastID = s.lastID /\ r.wdMap = s.wdMap /\ r.pathToWd = s.pathToWd
      BY <2>6, RecFields
    <3>2. \A y \in DOMAIN N : y \in DOMAIN s.nodes /\ N[y] = s.nodes[y]
      BY DEF N, Without
    <3>. QED
      BY <3>1, <3>2 DEF Frame
  <2>. QED
    BY <2>7, <2>8, <2>9, <2>10, FrameKeeps DEF StoreInv, r, i
<1>. QED
  BY <1>2, <1>3

\* Remove of a file,
LEMMA RemoveFileStep ==
  ASSUME NEW s, StoreInv(s), NEW p, p # <<>>, p \in DOMAIN Mapped(s).lookup
  PROVE  LET id == IdAt(s, GetPathOff(s, p))
             r == StoreRemoveFile(s, id, p)
         IN  Fits(r) /\ Mapped(r) = RemoveFile(Mapped(s), Mapped(s).lookup[p], p) /\ Frame(s, r, {})
<1>. DEFINE i == Mapped(s)
            id == IdAt(s, GetPathOff(s, p))
            r == StoreRemoveFile(s, id, p)
            node == s.nodes[id]
            d == node.parent
            charged == IF d \in DOMAIN s.tree THEN Charge(s, id, -node.size) ELSE s
            cut == Forget(charged, {p})
            sized == IF d \in DOMAIN i.tree THEN UpsertParentSize(i.nodes, i.child, id, -node.size)
                     ELSE i.nodes
<1>1. /\ Sound(s.nodes, s.pathMap, s.pathHash, s.data) /\ DOMAIN s.wdMap \subseteq Id
      /\ s.data \in Path /\ NodesFit(s.data, s.nodes) /\ IsStore(s)
      /\ i.nodes = ViewNodes(s.nodes, s.data) /\ i.lookup = ViewLookup(s.pathMap, s.pathHash)
      /\ i.tree = s.tree /\ i.child = s.child /\ i.grams = s.grams /\ i.lastID = s.lastID
      /\ DOMAIN i.nodes = DOMAIN s.nodes
  BY StoreFacts
<1>2. /\ id = i.lookup[p] /\ id \in DOMAIN s.nodes /\ id # NoId /\ id \in Id
      /\ node \in Stored /\ PathOf(s, id) = p
  <2>1. Fits(s)
    BY DEF StoreInv
  <2>. QED
    BY <2>1, KnownFacts
<1>3. NameOf(s, id) = i.nodes[id].name /\ i.nodes[id].size = node.size /\ i.nodes[id].parent = d
  BY <1>2, NameOfView
<1>4. r = [cut EXCEPT !.nodes = Without(@, {id}), !.tree = Without(Unlink(@, d, id), {id}),
                      !.child = Without(@, {id}), !.grams = RemoveFromIndex(@, NameOf(s, id), id)]
  BY DEF StoreRemoveFile
<1>5. /\ Fits(charged) /\ Mapped(charged).nodes = sized /\ Mapped(charged).lookup = i.lookup
      /\ SameBytes(s.nodes, charged.nodes)
      /\ charged.pathMap = s.pathMap /\ charged.pathHash = s.pathHash /\ charged.tree = s.tree
      /\ charged.child = s.child /\ charged.grams = s.grams /\ charged.lastID = s.lastID
      /\ charged.data = s.data /\ charged.wdMap = s.wdMap /\ charged.pathToWd = s.pathToWd
  <2>0. Fits(s)
    BY DEF StoreInv
  <2>1. CASE d \in DOMAIN s.tree
    <3>. DEFINE n == -node.size
                c == Charge(s, id, n)
    <3>1. n \in Int
      BY <1>2 DEF Stored
    <3>. HIDE DEF n
    <3>2. /\ Fits(c) /\ Mapped(c) = [i EXCEPT !.nodes = UpsertParentSize(@, s.child, id, n)]
          /\ SameBytes(s.nodes, c.nodes)
          /\ c.pathMap = s.pathMap /\ c.pathHash = s.pathHash /\ c.tree = s.tree
          /\ c.child = s.child /\ c.grams = s.grams /\ c.lastID = s.lastID
          /\ c.data = s.data /\ c.wdMap = s.wdMap /\ c.pathToWd = s.pathToWd
      BY <2>0, <3>1, ChargeStep
    <3>3. IsIndex(i)
      BY MappedParts
    <3>. HIDE DEF i, c
    <3>4. Mapped(c).nodes = UpsertParentSize(i.nodes, s.child, id, n) /\ Mapped(c).lookup = i.lookup
      BY <3>2, <3>3 DEF IsIndex
    <3>5. charged = c /\ sized = UpsertParentSize(i.nodes, s.child, id, n)
      BY <1>1, <2>1 DEF c, n
    <3>. HIDE DEF charged, sized
    <3>. QED
      BY <3>2, <3>4, <3>5
  <2>2. CASE d \notin DOMAIN s.tree
    <3>1. charged = s /\ sized = i.nodes
      BY <1>1, <2>2
    <3>2. SameBytes(s.nodes, s.nodes)
      <4>1. \A x \in DOMAIN s.nodes : s.nodes[x] \in Stored
        BY <1>1 DEF NodesFit, NodeFits
      <4>2. \A x \in DOMAIN s.nodes : s.nodes[x] = [s.nodes[x] EXCEPT !.size = s.nodes[x].size]
            /\ s.nodes[x].size \in Int
        BY <4>1 DEF Stored
      <4>. QED
        BY <4>2 DEF SameBytes
    <3>. HIDE DEF charged, sized
    <3>. QED
      BY <2>0, <3>1, <3>2
  <2>. QED
    BY <2>1, <2>2
<1>. HIDE DEF charged, sized
<1>. DEFINE N == Without(charged.nodes, {id})
            M == Without(s.pathMap, {GetPathOff(s, q) : q \in {p}})
            H == Without(s.pathHash, {p})
            T == Without(Unlink(s.tree, d, id), {id})
            C == Without(s.child, {id})
            G == RemoveFromIndex(s.grams, NameOf(s, id), id)
<1>6. /\ cut.nodes = charged.nodes /\ cut.tree = s.tree /\ cut.child = s.child
      /\ cut.grams = s.grams /\ IsStore(cut) /\ cut.pathMap = M /\ cut.pathHash = H
      /\ cut.lastID = s.lastID /\ cut.data = s.data /\ cut.wdMap = s.wdMap /\ cut.pathToWd = s.pathToWd
  <2>1. IsStore(charged)
    BY <1>5 DEF Fits
  <2>2. \A q : GetPathOff(charged, q) = GetPathOff(s, q)
    BY <1>5 DEF GetPathOff
  <2>3. {GetPathOff(charged, q) : q \in {p}} = {GetPathOff(s, q) : q \in {p}}
    BY <2>2
  <2>4. cut = Rec(charged.nodes, M, H, s.tree, s.child, s.grams, s.lastID, s.data, s.wdMap,
                  s.pathToWd)
    BY <1>5, <2>1, <2>3, ForgetIs
  <2>. HIDE DEF cut, M, H
  <2>. QED
    BY <2>4, RecFields, MappedRec
<1>. HIDE DEF cut
<1>7. r = GoneStore(cut, N, T, C, G)
  <2>1. r = [cut EXCEPT !.nodes = N, !.tree = T, !.child = C, !.grams = G]
    BY <1>4, <1>6
  <2>. QED
    BY <2>1 DEF GoneStore
<1>8. NodesFit(s.data, charged.nodes) /\ ViewNodes(charged.nodes, s.data) = sized
  BY <1>5, MappedParts DEF Fits, Sound
<1>9. NodesFit(s.data, N) /\ ViewNodes(N, s.data) = Without(sized, {id})
  BY <1>8, WithoutNodes
<1>10. Sound(N, M, H, s.data) /\ ViewLookup(M, H) = Without(i.lookup, {p})
  <2>1. ASSUME NEW q \in DOMAIN s.pathHash \ ({p} \cup {<<>>})
        PROVE  LET x == s.pathMap[s.pathHash[q]]
               IN  x \in DOMAIN N /\ PathKey(N[x]) = PathKey(s.nodes[x])
    <3>. DEFINE x == s.pathMap[s.pathHash[q]]
    <3>1. x \in DOMAIN s.nodes /\ x # NoId /\ Spelled(s.data, s.nodes[x]) = q
      BY <1>1, ResolvedFacts
    <3>. HIDE DEF x
    <3>2. x # id
      BY <1>2, <3>1 DEF PathOf, Spelled
    <3>3. x \in DOMAIN N /\ N[x] = charged.nodes[x]
      BY <1>5, <3>1, <3>2 DEF Without, SameBytes
    <3>4. PathKey(charged.nodes[x]) = PathKey(s.nodes[x])
      BY <1>5, <3>1 DEF SameBytes
    <3>. QED
      BY <3>3, <3>4 DEF x
  <2>. HIDE DEF N
  <2>. QED
    BY <1>1, <1>9, <2>1, ForgetSound
<1>. HIDE DEF N, M, H, T, C, G, r
<1>11. r = Rec(N, M, H, T, C, G, s.lastID, s.data, s.wdMap, cut.pathToWd)
  BY <1>6, <1>7, SetGone
<1>12. Fits(r) /\ Mapped(r) = [nodes |-> ViewNodes(N, s.data), lookup |-> ViewLookup(M, H), tree |-> T,
                               child |-> C, grams |-> G, lastID |-> s.lastID]
  BY <1>1, <1>10, <1>11, FitsRec
<1>. HIDE DEF i, id
<1>13. RemoveFile(i, id, p) = [nodes |-> Without(sized, {id}), lookup |-> Without(i.lookup, {p}),
                               tree |-> T, child |-> C, grams |-> G, lastID |-> s.lastID]
  BY <1>1, <1>3 DEF RemoveFile, sized, T, C, G
<1>14. Mapped(r) = RemoveFile(i, id, p)
  BY <1>9, <1>10, <1>12, <1>13
<1>15. Frame(s, r, {})
  <2>1. r.nodes = N /\ r.lastID = s.lastID /\ r.wdMap = s.wdMap /\ r.pathToWd = s.pathToWd
    BY <1>6, <1>11, RecFields
  <2>2. DOMAIN N \subseteq DOMAIN charged.nodes
        /\ \A x \in DOMAIN N : N[x] = charged.nodes[x]
    BY DEF N, Without
  <2>. DEFINE O == charged.nodes
  <2>3. SameBytes(s.nodes, O) /\ NodesFit(s.data, s.nodes)
    BY <1>1, <1>5
  <2>4. DOMAIN r.nodes \subseteq DOMAIN O /\ \A x \in DOMAIN r.nodes : r.nodes[x] = O[x]
    BY <2>1, <2>2
  <2>. HIDE DEF O
  <2>. QED
    BY <2>1, <2>3, <2>4, SameBytesFrame
<1>. QED
  BY <1>2, <1>12, <1>14, <1>15 DEF r, i, id

\* What walkDelete reaches is the start and members of child sets.
LEMMA WalkReaches ==
  \A i, id : WalkDeleted(i, id) \subseteq {id} \cup UNION {i.tree[x] : x \in DOMAIN i.tree}
<1>. TAKE i, id
<1>. DEFINE U == UNION {i.tree[x] : x \in DOMAIN i.tree}
            all == DOMAIN i.tree \cup U \cup {id}
            S == {id} \cup U
            succ == [x \in all |-> IF x \in DOMAIN i.nodes THEN At(i.tree, x) ELSE {}]
<1>1. WalkDeleted(i, id) = Reach({id}, succ)
  BY DEF WalkDeleted
<1>2. DOMAIN succ = all /\ \A x \in all : succ[x] \subseteq U
  BY DEF At
<1>3. S \subseteq all
  OBVIOUS
<1>. HIDE DEF succ
<1>4. Reach({id}, succ) \subseteq S
  <2>1. S \subseteq DOMAIN succ /\ {id} \subseteq S /\ \A y \in S : succ[y] \subseteq S
    BY <1>2, <1>3
  <2>. HIDE DEF S
  <2>. QED
    BY <2>1, ReachWithin
<1>. QED
  BY <1>1, <1>4

\* of a directory with all that is below it,
LEMMA RemoveDirStep ==
  ASSUME NEW s, StoreInv(s), NEW p, p # <<>>, p \in DOMAIN Mapped(s).lookup
  PROVE  LET key == GetPathOff(s, p)
             id == IdAt(s, key)
             r == StoreRemoveDir(s, key, id)
         IN  Fits(r) /\ Mapped(r) = RemoveDir(Mapped(s), Mapped(s).lookup[p]) /\ KeepsWatches(s, r)
<1>. DEFINE i == Mapped(s)
            key == GetPathOff(s, p)
            id == IdAt(s, key)
            r == StoreRemoveDir(s, key, id)
            gone == WalkDeleted(s, id)
            live == gone \cap DOMAIN s.nodes
            charged == Charge(s, id, -s.nodes[id].size)
            sized == UpsertParentSize(i.nodes, i.child, id, -s.nodes[id].size)
            P == {PathOf(s, x) : x \in live}
            cut == Forget(charged, P)
<1>1. /\ Sound(s.nodes, s.pathMap, s.pathHash, s.data) /\ DOMAIN s.wdMap \subseteq Id
      /\ s.data \in Path /\ NodesFit(s.data, s.nodes) /\ IsStore(s) /\ Fits(s)
      /\ i.nodes = ViewNodes(s.nodes, s.data) /\ i.lookup = ViewLookup(s.pathMap, s.pathHash)
      /\ i.tree = s.tree /\ i.child = s.child /\ i.grams = s.grams /\ i.lastID = s.lastID
      /\ DOMAIN i.nodes = DOMAIN s.nodes
  BY StoreFacts DEF StoreInv
<1>2. /\ id = i.lookup[p] /\ id \in DOMAIN s.nodes /\ id # NoId /\ id \in Id
      /\ s.nodes[id] \in Stored /\ ~s.nodes[id].invalid
  BY <1>1, KnownFacts
<1>3. \A x \in live : /\ NameOf(s, x) = i.nodes[x].name /\ PathOf(s, x) = i.nodes[x].path
  BY NameOfView
<1>4. i.nodes[id].size = s.nodes[id].size
  BY <1>2, NameOfView
<1>5. <<>> \notin P
  <2>1. ChildrenProper(i.nodes, i.tree, i.lastID)
    BY DEF StoreInv, Healthy, IxInv, Counted
  <2>2. SUFFICES ASSUME NEW x \in live
                 PROVE  PathOf(s, x) # <<>>
    OBVIOUS
  <2>3. x # NoId /\ ~s.nodes[x].invalid
    <3>1. CASE x = id
      BY <1>2, <3>1
    <3>2. CASE x # id
      <4>1. PICK d \in DOMAIN s.tree : x \in s.tree[d]
        BY <3>2, WalkReaches
      <4>2. x \in DOMAIN i.nodes /\ d \in DOMAIN i.tree /\ x \in i.tree[d]
        BY <1>1, <4>1
      <4>3. x # NoId /\ ~i.nodes[x].invalid
        BY <2>1, <4>2 DEF ChildrenProper
      <4>. QED
        BY <4>3, NameOfView
    <3>. QED
      BY <3>1, <3>2
  <2>4. NodeFits(s.data, x, s.nodes[x])
    BY <1>1 DEF NodesFit
  <2>5. Len(Spelled(s.data, s.nodes[x])) = s.nodes[x].pathLen /\ s.nodes[x].pathLen > 0
        /\ s.nodes[x].pathLen \in Nat
    <3>1. Len(Spelled(s.data, s.nodes[x])) = s.nodes[x].pathLen
      BY <1>1, <2>4, SpelledFacts
    <3>2. s.nodes[x].pathLen > 0 /\ s.nodes[x].pathLen \in Nat
      BY <2>3, <2>4 DEF NodeFits, Stored
    <3>. QED
      BY <3>1, <3>2
  <2>6. Len(<<>>) = 0
    BY EmptySeq
  <2>7. PathOf(s, x) = Spelled(s.data, s.nodes[x])
    BY DEF PathOf, Spelled
  <2>. DEFINE g == Spelled(s.data, s.nodes[x])
              n == s.nodes[x].pathLen
  <2>8. Len(g) = n /\ n > 0 /\ n \in Nat
    BY <2>5
  <2>. HIDE DEF g, n
  <2>9. g # <<>>
    <3>. SUFFICES ASSUME g = <<>> PROVE FALSE
      OBVIOUS
    <3>1. n = 0
      BY <2>6, <2>8, Zenon
    <3>. QED
      BY <2>8, <3>1
  <2>. QED
    BY <2>7, <2>9 DEF g
<1>6. WalkDeleted(i, id) = gone
  BY <1>1 DEF WalkDeleted
<1>7. /\ Fits(charged) /\ Mapped(charged).nodes = sized /\ Mapped(charged).lookup = i.lookup
      /\ SameBytes(s.nodes, charged.nodes)
      /\ charged.pathMap = s.pathMap /\ charged.pathHash = s.pathHash /\ charged.tree = s.tree
      /\ charged.child = s.child /\ charged.grams = s.grams /\ charged.lastID = s.lastID
      /\ charged.data = s.data /\ charged.wdMap = s.wdMap /\ charged.pathToWd = s.pathToWd
  <2>. DEFINE n == -s.nodes[id].size
              c == Charge(s, id, n)
  <2>1. n \in Int
    BY <1>2 DEF Stored
  <2>. HIDE DEF n
  <2>2. /\ Fits(c) /\ Mapped(c) = [i EXCEPT !.nodes = UpsertParentSize(@, s.child, id, n)]
        /\ SameBytes(s.nodes, c.nodes)
        /\ c.pathMap = s.pathMap /\ c.pathHash = s.pathHash /\ c.tree = s.tree
        /\ c.child = s.child /\ c.grams = s.grams /\ c.lastID = s.lastID
        /\ c.data = s.data /\ c.wdMap = s.wdMap /\ c.pathToWd = s.pathToWd
    BY <1>1, <2>1, ChargeStep
  <2>3. IsIndex(i)
    BY MappedParts
  <2>. HIDE DEF i, c
  <2>4. Mapped(c).nodes = UpsertParentSize(i.nodes, s.child, id, n) /\ Mapped(c).lookup = i.lookup
    BY <2>2, <2>3 DEF IsIndex
  <2>5. charged = c /\ sized = UpsertParentSize(i.nodes, s.child, id, n)
    BY <1>1 DEF c, n
  <2>. HIDE DEF charged, sized
  <2>. QED
    BY <2>2, <2>4, <2>5
<1>. DEFINE N == Without(charged.nodes, gone)
            M == Without(s.pathMap, {GetPathOff(s, q) : q \in P})
            H == Without(s.pathHash, P)
            T == Without(s.tree, gone)
            C == Without(s.child, gone)
            G == {e \in s.grams : ~ \E x \in live : e[2] = x /\ e[1] \in NameGrams(NameOf(s, x))}
            dropped == [cut EXCEPT !.nodes = Without(@, gone),
                           !.tree = Without(@, gone),
                           !.child = Without(@, gone),
                           !.grams = {e \in @ : ~ \E x \in live :
                              e[2] = x /\ e[1] \in NameGrams(NameOf(s, x))}]
<1>8. r = DeleteWd(dropped, key)
  BY DEF StoreRemoveDir
<1>. HIDE DEF charged, sized, P, gone
<1>9. /\ cut.nodes = charged.nodes /\ cut.tree = s.tree /\ cut.child = s.child
      /\ cut.grams = s.grams /\ IsStore(cut) /\ cut.pathMap = M /\ cut.pathHash = H
      /\ cut.lastID = s.lastID /\ cut.data = s.data /\ cut.wdMap = s.wdMap /\ cut.pathToWd = s.pathToWd
  <2>1. IsStore(charged)
    BY <1>7 DEF Fits
  <2>2. \A q : GetPathOff(charged, q) = GetPathOff(s, q)
    BY <1>7 DEF GetPathOff
  <2>3. {GetPathOff(charged, q) : q \in P} = {GetPathOff(s, q) : q \in P}
    BY <2>2
  <2>4. cut = Rec(charged.nodes, M, H, s.tree, s.child, s.grams, s.lastID, s.data, s.wdMap,
                  s.pathToWd)
    BY <1>7, <2>1, <2>3, ForgetIs
  <2>. HIDE DEF cut, M, H
  <2>. QED
    BY <2>4, RecFields, MappedRec
<1>. HIDE DEF cut
<1>10. dropped = GoneStore(cut, N, T, C, G)
  <2>1. dropped = [cut EXCEPT !.nodes = N, !.tree = T, !.child = C, !.grams = G]
    BY <1>9
  <2>. QED
    BY <2>1 DEF GoneStore
<1>11. NodesFit(s.data, charged.nodes) /\ ViewNodes(charged.nodes, s.data) = sized
  BY <1>7, MappedParts DEF Fits, Sound
<1>12. NodesFit(s.data, N) /\ ViewNodes(N, s.data) = Without(sized, gone)
  BY <1>11, WithoutNodes
<1>13. Sound(N, M, H, s.data) /\ ViewLookup(M, H) = Without(i.lookup, P)
  <2>1. ASSUME NEW q \in DOMAIN s.pathHash \ (P \cup {<<>>})
        PROVE  LET x == s.pathMap[s.pathHash[q]]
               IN  x \in DOMAIN N /\ PathKey(N[x]) = PathKey(s.nodes[x])
    <3>. DEFINE x == s.pathMap[s.pathHash[q]]
    <3>1. x \in DOMAIN s.nodes /\ x # NoId /\ Spelled(s.data, s.nodes[x]) = q
      BY <1>1, ResolvedFacts
    <3>. HIDE DEF x
    <3>2. x \notin gone
      <4>1. PathOf(s, x) = q
        BY <3>1 DEF PathOf, Spelled
      <4>2. x \notin live
        BY <4>1 DEF P
      <4>. QED
        BY <3>1, <4>2
    <3>3. x \in DOMAIN N /\ N[x] = charged.nodes[x]
      BY <1>7, <3>1, <3>2 DEF Without, SameBytes
    <3>4. PathKey(charged.nodes[x]) = PathKey(s.nodes[x])
      BY <1>7, <3>1 DEF SameBytes
    <3>. QED
      BY <3>3, <3>4 DEF x
  <2>. HIDE DEF N
  <2>. QED
    BY <1>1, <1>5, <1>12, <2>1, ForgetSound
<1>. HIDE DEF N, M, H, T, C, G, r, dropped
<1>14. dropped = Rec(N, M, H, T, C, G, s.lastID, s.data, s.wdMap, cut.pathToWd)
  BY <1>9, <1>10, SetGone
<1>15. Fits(dropped) /\ Mapped(dropped) = [nodes |-> ViewNodes(N, s.data), lookup |-> ViewLookup(M, H), tree |-> T,
                               child |-> C, grams |-> G, lastID |-> s.lastID]
  BY <1>1, <1>13, <1>14, FitsRec
<1>16. Fits(r) /\ Mapped(r) = Mapped(dropped)
  BY <1>8, <1>15, WatchStep
<1>19. KeepsWatches(s, r)
  <2>1. /\ dropped.nodes = N /\ dropped.lastID = s.lastID /\ dropped.wdMap = s.wdMap
        /\ dropped.pathToWd = s.pathToWd
    BY <1>9, <1>14, RecFields
  <2>2. Frame(s, dropped, {})
    <3>2. DOMAIN N \subseteq DOMAIN charged.nodes
          /\ \A x \in DOMAIN N : N[x] = charged.nodes[x]
      BY DEF N, Without
    <3>. DEFINE O == charged.nodes
    <3>3. SameBytes(s.nodes, O) /\ NodesFit(s.data, s.nodes)
      BY <1>1, <1>7
    <3>4. DOMAIN dropped.nodes \subseteq DOMAIN O
          /\ \A x \in DOMAIN dropped.nodes : dropped.nodes[x] = O[x]
      BY <2>1, <3>2
    <3>. HIDE DEF O
    <3>. QED
      BY <2>1, <3>3, <3>4, SameBytesFrame
  <2>3. IsStore(dropped)
    BY <1>15 DEF Fits
  <2>4. Watched(dropped) => Watched(r)
    BY <1>8, <2>3, DeleteWatched DEF Watched
  <2>. QED
    BY <2>2, <2>4, FrameKeeps DEF KeepsWatches
<1>. HIDE DEF i, id
<1>17. RemoveDir(i, id) = [nodes |-> Without(sized, gone), lookup |-> Without(i.lookup, P),
                               tree |-> T, child |-> C, grams |-> G, lastID |-> s.lastID]
  <2>1. {i.nodes[x].path : x \in live} = P
    BY <1>3 DEF P
  <2>2. {e \in i.grams : ~ \E x \in live : e[2] = x /\ e[1] \in NameGrams(i.nodes[x].name)} = G
    BY <1>1, <1>3 DEF G
  <2>3. UpsertParentSize(i.nodes, i.child, id, -i.nodes[id].size) = sized
    BY <1>4 DEF sized
  <2>. HIDE DEF live
  <2>4. RemoveDir(i, id) =
         [nodes |-> Without(UpsertParentSize(i.nodes, i.child, id, -i.nodes[id].size), gone),
          lookup |-> Without(i.lookup, {i.nodes[x].path : x \in live}),
          tree |-> Without(i.tree, gone), child |-> Without(i.child, gone),
          grams |-> {e \in i.grams : ~ \E x \in live : e[2] = x /\ e[1] \in NameGrams(i.nodes[x].name)},
          lastID |-> i.lastID]
    BY <1>1, <1>6 DEF RemoveDir, live
  <2>. QED
    BY <1>1, <2>1, <2>2, <2>3, <2>4 DEF T, C
<1>18. Mapped(r) = RemoveDir(i, id)
  BY <1>12, <1>13, <1>15, <1>16, <1>17
<1>. QED
  BY <1>2, <1>16, <1>18, <1>19 DEF r, i, id

\* and either.
LEMMA RemoveStep ==
  ASSUME NEW s, StoreInv(s), NEW p, p # <<>>, NEW isDir
  PROVE  LET r == StoreRemove(s, p, isDir)
         IN  StoreInv(r) /\ Mapped(r) = Remove(Mapped(s), p, isDir) /\ KeepsWatches(s, r)
<1>. DEFINE i == Mapped(s)
            r == StoreRemove(s, p, isDir)
            key == GetPathOff(s, p)
            id == IdAt(s, key)
<1>1. Fits(s) /\ Healthy(i)
  BY DEF StoreInv
<1>2. /\ p \in DOMAIN i.lookup <=> key \in DOMAIN s.pathMap
      /\ p \in DOMAIN i.lookup => id = i.lookup[p] /\ s.pathMap[key] = id
  BY <1>1, KnownFacts
<1>3. ASSUME p \notin DOMAIN i.lookup
      PROVE  Fits(r) /\ Mapped(r) = Remove(i, p, isDir) /\ KeepsWatches(s, r)
  <2>1. r = s /\ Remove(i, p, isDir) = i
    BY <1>2, <1>3 DEF StoreRemove, Remove
  <2>. QED
    BY <1>1, <2>1 DEF KeepsWatches
<1>4. ASSUME p \in DOMAIN i.lookup
      PROVE  Fits(r) /\ Mapped(r) = Remove(i, p, isDir) /\ KeepsWatches(s, r)
  <2>1. CASE isDir
    <3>1. r = StoreRemoveDir(s, key, id) /\ Remove(i, p, isDir) = RemoveDir(i, i.lookup[p])
      BY <1>2, <1>4, <2>1 DEF StoreRemove, Remove
    <3>. QED
      BY <1>4, <3>1, RemoveDirStep
  <2>2. CASE ~isDir
    <3>1. r = StoreRemoveFile(s, id, p) /\ Remove(i, p, isDir) = RemoveFile(i, i.lookup[p], p)
      BY <1>2, <1>4, <2>2 DEF StoreRemove, Remove
    <3>. QED
      BY <1>4, <3>1, RemoveFileStep, FrameKeeps
  <2>. QED
    BY <2>1, <2>2
<1>5. Fits(r) /\ Mapped(r) = Remove(i, p, isDir) /\ KeepsWatches(s, r)
  BY <1>3, <1>4
<1>. HIDE DEF r, i
<1>6. Healthy(Remove(i, p, isDir))
  BY <1>1, RemoveHealthy
<1>. QED
  BY <1>5, <1>6 DEF StoreInv, r, i
=============================================================================
