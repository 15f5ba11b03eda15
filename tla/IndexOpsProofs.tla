--------------------------- MODULE IndexOpsProofs ---------------------------
(***************************************************************************)
(* Proofs about the index operators.  First types, and that a path which   *)
(* resolves, resolves to a live node that carries it; then that n-grams,   *)
(* parents, child sets and paths describe one and the same tree.  Nothing  *)
(* here depends on who calls the operators, so every module that holds an  *)
(* index can cite it.                                                      *)
(***************************************************************************)
EXTENDS IndexOps, SequenceTheorems, FiniteSetTheorems, TLAPS

-----------------------------------------------------------------------------
(* Induction: a set of naturals that is not empty has a least element, so  *)
(* what holds at m when it holds below m has no least counterexample.      *)

\* From the well-foundedness of strict inclusion on finite sets, through the
\* initial segments 1..n.
LEMMA LeastNat ==
  ASSUME NEW T, T \subseteq Nat, T # {}
  PROVE  \E n \in T : \A m \in T : n =< m
<1>. DEFINE R == StrictSubsetOrdering(Nat)
            F == FiniteSubsetsOf(Nat)
            I == {1..n : n \in T}
<1>1. IsWellFoundedOn(R, F)
  BY FS_StrictSubsetOrderingWellFounded
<1>2. I \subseteq F
  BY FS_Interval DEF FiniteSubsetsOf
<1>3. I # {}
  OBVIOUS
<1>. HIDE DEF R, F
<1>4. \E x \in I : \A y \in I : ~ (<<y, x>> \in R)
  BY <1>1, <1>2, <1>3, WFMin
<1>5. PICK n \in T : \A m \in T : ~ (<<1..m, 1..n>> \in R)
  BY <1>4
<1>6. ASSUME NEW m \in T, m < n
      PROVE  FALSE
  <2>1. /\ 1..m \subseteq 1..n /\ n \in 1..n /\ n \notin 1..m
        /\ 1..n \subseteq Nat /\ 1..m \subseteq Nat
    BY <1>6
  <2>. QED
    BY <1>5, <2>1 DEF R, StrictSubsetOrdering
<1>. QED
  BY <1>6

-----------------------------------------------------------------------------
(* Small facts about the helpers.                                          *)

\* Maps of sets of ids stay such maps.
IdSets(t) == DOMAIN t \subseteq Id /\ \A x \in DOMAIN t : t[x] \subseteq Id

LEMMA LinkType ==
  \A t, d, c : IdSets(t) /\ d \in Id /\ c \in Id =>
    IdSets(Link(t, d, c)) /\ IdSets(Unlink(t, d, c))
<1>. SUFFICES ASSUME NEW t, NEW d, NEW c, IdSets(t), d \in Id, c \in Id
              PROVE  IdSets(Link(t, d, c)) /\ IdSets(Unlink(t, d, c))
  OBVIOUS
<1>1. At(t, d) \subseteq Id
  BY DEF At, IdSets
<1>2. IdSets(Put(t, d, At(t, d) \cup {c}))
  BY <1>1 DEF IdSets, Put
<1>3. d \in DOMAIN t => IdSets(Put(t, d, t[d] \ {c}))
  BY DEF IdSets, Put
<1>. QED
  BY <1>2, <1>3 DEF Link, Unlink

LEMMA LinkFacts ==
  \A t, d, c, x, y : x \in DOMAIN Link(t, d, c) /\ y \in Link(t, d, c)[x] =>
    y = c \/ (x \in DOMAIN t /\ y \in t[x])
<1>. SUFFICES ASSUME NEW t, NEW d, NEW c, NEW x \in DOMAIN Link(t, d, c),
                     NEW y \in Link(t, d, c)[x]
              PROVE  y = c \/ (x \in DOMAIN t /\ y \in t[x])
  OBVIOUS
<1>1. CASE d \in DOMAIN t
  <2>1. At(t, d) = t[d] /\ DOMAIN t \cup {d} = DOMAIN t
    BY <1>1 DEF At
  <2>2. Link(t, d, c) = [z \in DOMAIN t |-> IF z = d THEN t[d] \cup {c} ELSE t[z]]
    BY <2>1, Zenon DEF Link, Put
  <2>. QED
    BY <2>2
<1>2. CASE d \notin DOMAIN t
  <2>1. At(t, d) = {} /\ {} \cup {c} = {c}
    BY <1>2 DEF At
  <2>2. Link(t, d, c) = [z \in DOMAIN t \cup {d} |-> IF z = d THEN {c} ELSE t[z]]
    BY <2>1, Zenon DEF Link, Put
  <2>. QED
    BY <2>2
<1>. QED
  BY <1>1, <1>2

LEMMA UnlinkFacts ==
  \A t, d, c : \A x \in DOMAIN Unlink(t, d, c) :
    x \in DOMAIN t /\ Unlink(t, d, c)[x] \subseteq t[x]
  BY DEF Unlink, Put

LEMMA NoIdType == NoId \in Id /\ NoId[1] = 0
  BY DEF NoId, Id

LEMMA FreshId ==
  ASSUME NEW n \in Nat, NEW b \in BOOLEAN
  PROVE  /\ SetRealID(n + 1, b) \in Id
         /\ SetRealID(n + 1, b)[1] = n + 1
         /\ SetRealID(n + 1, b) # NoId
<1>1. SetRealID(n + 1, b) \in Id /\ SetRealID(n + 1, b)[1] = n + 1
  BY DEF SetRealID, Id
<1>. QED
  BY <1>1, NoIdType

NodesType(N) == DOMAIN N \subseteq Id /\ \A x \in DOMAIN N : N[x] \in Node

LEMMA ZeroNodeType ==
  ASSUME NEW n \in Int
  PROVE  [ZeroNode EXCEPT !.size = n] \in Node
<1>1. <<>> \in Path
  BY DEF Path
<1>2. ZeroNode \in Node
  BY <1>1, NoIdType DEF ZeroNode, Node
<1>. HIDE DEF ZeroNode
<1>. QED
  BY <1>2 DEF Node

\* The fields of a node that UpsertParentSize leaves alone.
SameButSize(a, b) ==
  /\ a.path = b.path
  /\ a.name = b.name
  /\ a.parent = b.parent
  /\ a.invalid = b.invalid

\* M is N with some sizes changed and at most Nodes[0] added.
Resized(N, M) ==
  /\ NodesType(M)
  /\ DOMAIN N \subseteq DOMAIN M
  /\ DOMAIN M \subseteq DOMAIN N \cup {NoId}
  /\ \A x \in DOMAIN N \ {NoId} : SameButSize(M[x], N[x])

\* UpsertParentSize changes sizes only, and at most adds Nodes[0].
LEMMA SizeFacts ==
  ASSUME NEW N, NodesType(N), NEW ch, NEW id, NEW delta \in Int
  PROVE  Resized(N, UpsertParentSize(N, ch, id, delta))
<1>. DEFINE anc == Ancestors(ch, id)
            zero == [ZeroNode EXCEPT !.size = delta]
<1>. HIDE DEF anc, zero
<1>. DEFINE grown == [x \in DOMAIN N |-> IF x \in anc
                        THEN [N[x] EXCEPT !.size = @ + delta] ELSE N[x]]
<1>1. \A x \in DOMAIN N : grown[x] \in Node /\ SameButSize(grown[x], N[x])
  BY DEF NodesType, Node, SameButSize
<1>2. zero \in Node
  BY ZeroNodeType DEF zero
<1>3. DOMAIN grown = DOMAIN N
  OBVIOUS
<1>. HIDE DEF grown
<1>4. Resized(N, grown)
  BY <1>1, <1>3 DEF NodesType, Resized
<1>5. Resized(N, Put(grown, NoId, zero))
  BY <1>1, <1>2, <1>3, NoIdType DEF NodesType, Resized, Put
<1>. QED
  BY <1>4, <1>5 DEF UpsertParentSize, anc, grown, zero

-----------------------------------------------------------------------------
(* The inductive invariant of the lookups: beside type and soundness, ids  *)
(* never exceed the counter (so that a new id is fresh), and neither a     *)
(* path nor a child set leads to id 0 (whose node UpsertParentSize may     *)
(* overwrite) or to an invalid name (which the API deletes without looking *)
(* at paths).                                                              *)

IsIndex(i) ==
  i = [nodes |-> i.nodes, lookup |-> i.lookup, tree |-> i.tree,
       child |-> i.child, grams |-> i.grams, lastID |-> i.lastID]

ChildrenProper(N, T, n) ==
  \A d \in DOMAIN T : \A c \in T[d] :
    c # NoId /\ c[1] =< n /\ (c \in DOMAIN N => ~N[c].invalid)

Counted(i) ==
  /\ \A id \in DOMAIN i.nodes : id[1] =< i.lastID
  /\ \A p \in DOMAIN i.lookup : /\ i.lookup[p] # NoId
                                /\ ~i.nodes[i.lookup[p]].invalid
  /\ ChildrenProper(i.nodes, i.tree, i.lastID)

IxInv(i) == IsIndex(i) /\ IndexType(i) /\ LookupsResolve(i) /\ Counted(i)

\* The same from parts, so that handlers can be taken apart.
Good(N, L, T, C, G, n) ==
  /\ NodesType(N)
  /\ DOMAIN L \subseteq Path
  /\ IdSets(T)
  /\ DOMAIN C \subseteq Id /\ \A x \in DOMAIN C : C[x] \in Id
  /\ G \subseteq Grams \X Id
  /\ n \in Nat
  /\ \A x \in DOMAIN N : x[1] =< n
  /\ \A p \in DOMAIN L : /\ L[p] \in DOMAIN N \ {NoId}
                         /\ N[L[p]].path = p
                         /\ ~N[L[p]].invalid
  /\ ChildrenProper(N, T, n)

LEMMA GoodParts ==
  \A i : IsIndex(i) => (IxInv(i) <=> Good(i.nodes, i.lookup, i.tree, i.child, i.grams, i.lastID))
  BY DEF IxInv, Good, IndexType, LookupsResolve, Counted, NodesType, IdSets

LEMMA RecordIsIndex ==
  \A N, L, T, C, G, n :
    LET r == [nodes |-> N, lookup |-> L, tree |-> T, child |-> C, grams |-> G, lastID |-> n]
    IN  IsIndex(r) /\ r.nodes = N /\ r.lookup = L /\ r.tree = T /\ r.child = C
        /\ r.grams = G /\ r.lastID = n
  BY DEF IsIndex

\* N-gram entries of an id are well typed.
LEMMA GramsType ==
  \A G, name, id : G \subseteq Grams \X Id /\ id \in Id =>
    AddToIndex(G, name, id) \subseteq Grams \X Id /\ RemoveFromIndex(G, name, id) \subseteq Grams \X Id
  BY GramsAssumption DEF AddToIndex, RemoveFromIndex, NameGrams

\* Resizing nodes disturbs none of it.
LEMMA ResizedGood ==
  \A N, M, L, T, C, G, n :
    Good(N, L, T, C, G, n) /\ Resized(N, M) => Good(M, L, T, C, G, n)
  BY NoIdType DEF Good, Resized, SameButSize, NodesType, ChildrenProper

-----------------------------------------------------------------------------
(* Every operation preserves it.                                           *)

LEMMA PathFacts ==
  ASSUME NEW p \in Path, p # <<>>
  PROVE  Base(p) \in Names
  BY DEF Path, Base

LEMMA LookupIdType ==
  \A i, p : IxInv(i) => LookupId(i, p) \in Id
  BY NoIdType DEF IxInv, IndexType, LookupId

LEMMA InsertInv ==
  ASSUME NEW i, IxInv(i), NEW p \in Path, p # <<>>, NEW b \in BOOLEAN,
         NEW s \in Int, NEW t \in Int
  PROVE  /\ IxInv(Insert(i, p, b, s, t))
         /\ Insert(i, p, b, s, t).lookup[p] \in Id
<1>. DEFINE id == SetRealID(i.lastID + 1, b)
            parent == LookupId(i, Dir(p))
            node == NewNode(parent, p, s, t)
            j == Insert(i, p, b, s, t)
<1>1. /\ Good(i.nodes, i.lookup, i.tree, i.child, i.grams, i.lastID)
      /\ parent \in Id
  BY GoodParts, LookupIdType DEF IxInv
<1>2. i.lastID \in Nat
  BY <1>1 DEF Good
<1>3. id \in Id /\ id[1] = i.lastID + 1 /\ id # NoId
  BY <1>2, FreshId
<1>4. id \notin DOMAIN i.nodes
  BY <1>1, <1>3, <1>2 DEF Good, NodesType, Id
<1>5. node \in Node /\ node.path = p /\ ~node.invalid
  BY <1>1, PathFacts DEF NewNode, Node
<1>6. /\ IsIndex(j)
      /\ j.nodes = Put(i.nodes, id, node)
      /\ j.lookup = Put(i.lookup, p, id)
      /\ j.tree = Link(i.tree, parent, id)
      /\ j.child = Put(i.child, id, parent)
      /\ j.grams = AddToIndex(i.grams, Base(p), id)
      /\ j.lastID = i.lastID + 1
  BY RecordIsIndex DEF Insert
<1>. HIDE DEF id, node, parent, j
<1>7. NodesType(Put(i.nodes, id, node))
  BY <1>1, <1>3, <1>5 DEF Good, NodesType, Put
<1>8. IdSets(Link(i.tree, parent, id)) /\ AddToIndex(i.grams, Base(p), id) \subseteq Grams \X Id
  BY <1>1, <1>3, LinkType, GramsType DEF Good
<1>9. \A x \in DOMAIN Put(i.nodes, id, node) : x[1] =< i.lastID + 1
  BY <1>1, <1>2, <1>3 DEF Good, NodesType, Id, Put
<1>10. \A q \in DOMAIN Put(i.lookup, p, id) :
         /\ Put(i.lookup, p, id)[q] \in DOMAIN Put(i.nodes, id, node) \ {NoId}
         /\ Put(i.nodes, id, node)[Put(i.lookup, p, id)[q]].path = q
         /\ ~Put(i.nodes, id, node)[Put(i.lookup, p, id)[q]].invalid
  BY <1>1, <1>3, <1>4, <1>5 DEF Good, Put
<1>11. DOMAIN Put(i.lookup, p, id) \subseteq Path
  BY <1>1 DEF Good, Put
<1>12. LET C == Put(i.child, id, parent)
       IN  DOMAIN C \subseteq Id /\ \A x \in DOMAIN C : C[x] \in Id
  BY <1>1, <1>3 DEF Good, Put
<1>13. ChildrenProper(Put(i.nodes, id, node), Link(i.tree, parent, id), i.lastID + 1)
  <2>1. \A d \in DOMAIN Link(i.tree, parent, id) : \A c \in Link(i.tree, parent, id)[d] :
          c = id \/ (d \in DOMAIN i.tree /\ c \in i.tree[d])
    BY LinkFacts, Zenon
  <2>2. \A d \in DOMAIN i.tree : \A c \in i.tree[d] :
          /\ c # NoId /\ c[1] \in Nat /\ c[1] =< i.lastID
          /\ c \in DOMAIN i.nodes => ~i.nodes[c].invalid
    <3>1. \A c \in Id : c[1] \in Nat
      BY DEF Id
    <3>. QED
      BY <1>1, <3>1 DEF Good, ChildrenProper, IdSets
  <2>3. \A c \in DOMAIN Put(i.nodes, id, node) \ {id} :
          c \in DOMAIN i.nodes /\ Put(i.nodes, id, node)[c] = i.nodes[c]
    BY DEF Put
  <2>4. ~Put(i.nodes, id, node)[id].invalid
    BY <1>5 DEF Put
  <2>. QED
    BY <1>2, <1>3, <2>1, <2>2, <2>3, <2>4 DEF ChildrenProper
<1>14. Good(j.nodes, j.lookup, j.tree, j.child, j.grams, j.lastID)
  BY <1>2, <1>6, <1>7, <1>8, <1>9, <1>10, <1>11, <1>12, <1>13 DEF Good
<1>15. j.lookup[p] = id
  BY <1>6 DEF Put
<1>. QED
  BY <1>3, <1>6, <1>14, <1>15, GoodParts DEF j

LEMMA UpsertInv ==
  ASSUME NEW i, IxInv(i), NEW p \in Path, p # <<>>, NEW info,
         info.dir \in BOOLEAN, info.size \in Int, info.mtime \in Int
  PROVE  IxInv(Upsert(i, p, info))
<1>1. Good(i.nodes, i.lookup, i.tree, i.child, i.grams, i.lastID)
  BY GoodParts DEF IxInv
<1>2. CASE p \in DOMAIN i.lookup
  <2>. DEFINE id == i.lookup[p]
              node == i.nodes[id]
              sized == UpsertParentSize(i.nodes, i.child, id, info.size - node.size)
              new == [node EXCEPT !.size = info.size, !.mtime = info.mtime]
              j == [i EXCEPT !.nodes = Put(sized, id, new)]
  <2>1. /\ id \in DOMAIN i.nodes \ {NoId}
        /\ node \in Node
        /\ id \in Id
    BY <1>1, <1>2 DEF Good, NodesType
  <2>. HIDE DEF node
  <2>2. new \in Node /\ new.path = node.path /\ new.invalid = node.invalid /\ node.size \in Int
    BY <2>1 DEF Node
  <2>. HIDE DEF id, new, sized
  <2>3. Resized(i.nodes, sized)
    BY <1>1, <2>2, SizeFacts DEF Good, sized
  <2>4. Good(sized, i.lookup, i.tree, i.child, i.grams, i.lastID)
    BY <1>1, <2>3, ResizedGood
  <2>5. sized[id].path = node.path /\ sized[id].invalid = node.invalid /\ id \in DOMAIN sized
    BY <2>1, <2>3 DEF Resized, SameButSize, node, id
  <2>6. Good(Put(sized, id, new), i.lookup, i.tree, i.child, i.grams, i.lastID)
    BY <2>1, <2>2, <2>4, <2>5 DEF Good, NodesType, Put, ChildrenProper
  <2>7. j = [nodes |-> Put(sized, id, new), lookup |-> i.lookup, tree |-> i.tree,
             child |-> i.child, grams |-> i.grams, lastID |-> i.lastID]
    BY DEF IxInv, IsIndex
  <2>. HIDE DEF j
  <2>8. IxInv(j)
    BY <2>6, <2>7, RecordIsIndex, GoodParts
  <2>9. Upsert(i, p, info) = i \/ Upsert(i, p, info) = j
    BY <1>2 DEF Upsert, j, id, node, sized, new
  <2>. QED
    BY <2>8, <2>9
<1>3. CASE p \notin DOMAIN i.lookup
  <2>. DEFINE k == Insert(i, p, info.dir, info.size, info.mtime)
              sized == UpsertParentSize(k.nodes, k.child, k.lookup[p], info.size)
              j == [k EXCEPT !.nodes = sized]
  <2>1. IxInv(k)
    BY InsertInv
  <2>. HIDE DEF k
  <2>2. Good(k.nodes, k.lookup, k.tree, k.child, k.grams, k.lastID)
    BY <2>1, GoodParts DEF IxInv
  <2>3. Resized(k.nodes, sized)
    BY <2>2, SizeFacts DEF Good
  <2>. HIDE DEF sized
  <2>4. j = [nodes |-> sized, lookup |-> k.lookup, tree |-> k.tree,
             child |-> k.child, grams |-> k.grams, lastID |-> k.lastID]
    BY <2>1 DEF IxInv, IsIndex
  <2>. HIDE DEF j
  <2>5. IxInv(j)
    BY <2>2, <2>3, <2>4, ResizedGood, RecordIsIndex, GoodParts
  <2>. QED
    BY <1>3, <2>5 DEF Upsert, j, k, sized
<1>. QED
  BY <1>2, <1>3

LEMMA UpsertDirInv ==
  ASSUME NEW i, IxInv(i), NEW p \in Path, p # <<>>, NEW t \in Int
  PROVE  IxInv(UpsertDir(i, p, t))
<1>1. Good(i.nodes, i.lookup, i.tree, i.child, i.grams, i.lastID)
  BY GoodParts DEF IxInv
<1>2. CASE p \in DOMAIN i.lookup
  <2>. DEFINE id == i.lookup[p]
              M == [i.nodes EXCEPT ![id].mtime = t]
              j == [i EXCEPT !.nodes = M]
  <2>1. id \in DOMAIN i.nodes
    BY <1>1, <1>2 DEF Good
  <2>. HIDE DEF id
  <2>2. \A x \in DOMAIN i.nodes : /\ M[x] \in Node
                                  /\ M[x].path = i.nodes[x].path
                                  /\ M[x].invalid = i.nodes[x].invalid
    BY <1>1, <2>1 DEF Good, NodesType, Node
  <2>3. DOMAIN M = DOMAIN i.nodes
    OBVIOUS
  <2>. HIDE DEF M
  <2>4. Good(M, i.lookup, i.tree, i.child, i.grams, i.lastID)
    BY <1>1, <2>2, <2>3 DEF Good, NodesType, ChildrenProper
  <2>5. j = [nodes |-> M, lookup |-> i.lookup, tree |-> i.tree,
             child |-> i.child, grams |-> i.grams, lastID |-> i.lastID]
    BY DEF IxInv, IsIndex
  <2>. HIDE DEF j
  <2>6. IxInv(j)
    BY <2>4, <2>5, RecordIsIndex, GoodParts
  <2>. QED
    BY <1>2, <2>6 DEF UpsertDir, j, M, id
<1>3. CASE p \notin DOMAIN i.lookup
  <2>0. \A b \in BOOLEAN : IxInv(Insert(i, p, b, 0, t))
    BY InsertInv
  <2>1. IxInv(Insert(i, p, TRUE, 0, t))
    BY <2>0, Zenon
  <2>2. UpsertDir(i, p, t) = Insert(i, p, TRUE, 0, t)
    BY <1>3 DEF UpsertDir
  <2>. QED
    BY <2>1, <2>2
<1>. QED
  BY <1>2, <1>3

LEMMA RemoveDirInv ==
  ASSUME NEW i, IxInv(i), NEW id, id \in DOMAIN i.nodes
  PROVE  IxInv(RemoveDir(i, id))
<1>. DEFINE gone == WalkDeleted(i, id)
            live == gone \cap DOMAIN i.nodes
            sized == UpsertParentSize(i.nodes, i.child, id, -i.nodes[id].size)
            paths == {i.nodes[x].path : x \in live}
            grams == {e \in i.grams : ~ \E x \in live :
                        e[2] = x /\ e[1] \in NameGrams(i.nodes[x].name)}
            j == RemoveDir(i, id)
<1>1. Good(i.nodes, i.lookup, i.tree, i.child, i.grams, i.lastID)
  BY GoodParts DEF IxInv
<1>2. Resized(i.nodes, sized)
  <2>1. -i.nodes[id].size \in Int
    BY <1>1 DEF Good, NodesType, Node
  <2>. QED
    BY <1>1, <2>1, SizeFacts DEF Good
<1>3. /\ IsIndex(j)
      /\ j.nodes = Without(sized, gone)
      /\ j.lookup = Without(i.lookup, paths)
      /\ j.tree = Without(i.tree, gone)
      /\ j.child = Without(i.child, gone)
      /\ j.grams = grams
      /\ j.lastID = i.lastID
  BY RecordIsIndex DEF RemoveDir
<1>. HIDE DEF gone, sized, j
<1>4. Good(sized, i.lookup, i.tree, i.child, i.grams, i.lastID)
  BY <1>1, <1>2, ResizedGood
<1>5. \A p \in DOMAIN i.lookup \ paths : i.lookup[p] \notin gone
  BY <1>1 DEF Good
<1>6. \A p \in DOMAIN i.lookup \ paths :
         /\ i.lookup[p] \in DOMAIN Without(sized, gone) \ {NoId}
         /\ Without(sized, gone)[i.lookup[p]].path = p
         /\ ~Without(sized, gone)[i.lookup[p]].invalid
  BY <1>4, <1>5 DEF Good, Without
<1>7. NodesType(Without(sized, gone)) /\ \A x \in DOMAIN Without(sized, gone) : x[1] =< i.lastID
  BY <1>4 DEF Good, NodesType, Without
<1>8. IdSets(Without(i.tree, gone))
  BY <1>4 DEF Good, IdSets, Without
<1>9. LET C == Without(i.child, gone)
      IN  DOMAIN C \subseteq Id /\ \A x \in DOMAIN C : C[x] \in Id
  BY <1>4 DEF Good, Without
<1>10. grams \subseteq Grams \X Id
  BY <1>4 DEF Good
<1>. HIDE DEF paths, grams
<1>11. LET L == Without(i.lookup, paths)
       IN  /\ DOMAIN L \subseteq Path
           /\ \A p \in DOMAIN L : /\ L[p] \in DOMAIN Without(sized, gone) \ {NoId}
                                  /\ Without(sized, gone)[L[p]].path = p
                                  /\ ~Without(sized, gone)[L[p]].invalid
  BY <1>4, <1>6 DEF Good, Without
<1>12. Good(j.nodes, j.lookup, j.tree, j.child, j.grams, j.lastID)
  <2>1. ChildrenProper(Without(sized, gone), Without(i.tree, gone), i.lastID)
    BY <1>4 DEF Good, ChildrenProper, Without
  <2>. QED
    BY <1>3, <1>4, <1>7, <1>8, <1>9, <1>10, <1>11, <2>1 DEF Good
<1>. QED
  BY <1>3, <1>12, GoodParts DEF j

LEMMA RemoveFileInv ==
  ASSUME NEW i, IxInv(i), NEW p, p \in DOMAIN i.lookup
  PROVE  IxInv(RemoveFile(i, i.lookup[p], p))
<1>. DEFINE id == i.lookup[p]
            node == i.nodes[id]
            sized == IF node.parent \in DOMAIN i.tree
                     THEN UpsertParentSize(i.nodes, i.child, id, -node.size)
                     ELSE i.nodes
            tree == Without(Unlink(i.tree, node.parent, id), {id})
            grams == RemoveFromIndex(i.grams, node.name, id)
            j == RemoveFile(i, id, p)
<1>1. Good(i.nodes, i.lookup, i.tree, i.child, i.grams, i.lastID)
  BY GoodParts DEF IxInv
<1>2. node \in Node /\ node.path = p /\ id \in Id /\ id \in DOMAIN i.nodes
  BY <1>1 DEF Good, NodesType
<1>3. /\ IsIndex(j)
      /\ j.nodes = Without(sized, {id})
      /\ j.lookup = Without(i.lookup, {p})
      /\ j.tree = tree
      /\ j.child = Without(i.child, {id})
      /\ j.grams = grams
      /\ j.lastID = i.lastID
  BY RecordIsIndex DEF RemoveFile
<1>. HIDE DEF node
<1>4. node.parent \in Id /\ -node.size \in Int
  BY <1>2 DEF Node
<1>. HIDE DEF id
<1>5. sized = i.nodes \/ Resized(i.nodes, sized)
  BY <1>1, <1>4, SizeFacts DEF Good
<1>. HIDE DEF sized, j
<1>6. Good(sized, i.lookup, i.tree, i.child, i.grams, i.lastID)
  BY <1>1, <1>5, ResizedGood
<1>7. IdSets(tree)
  <2>1. IdSets(Unlink(i.tree, node.parent, id))
    BY <1>2, <1>4, <1>6, LinkType DEF Good
  <2>. QED
    BY <2>1 DEF IdSets, Without
<1>8. grams \subseteq Grams \X Id
  BY <1>2, <1>6, GramsType DEF Good
<1>9. \A q \in DOMAIN i.lookup \ {p} : i.lookup[q] # id
  BY <1>1, <1>2 DEF Good, node
<1>10. LET L == Without(i.lookup, {p})
       IN  /\ DOMAIN L \subseteq Path
           /\ \A q \in DOMAIN L : /\ L[q] \in DOMAIN Without(sized, {id}) \ {NoId}
                                  /\ Without(sized, {id})[L[q]].path = q
                                  /\ ~Without(sized, {id})[L[q]].invalid
  BY <1>6, <1>9 DEF Good, Without
<1>11. NodesType(Without(sized, {id})) /\ \A x \in DOMAIN Without(sized, {id}) : x[1] =< i.lastID
  BY <1>6 DEF Good, NodesType, Without
<1>12. LET C == Without(i.child, {id})
       IN  DOMAIN C \subseteq Id /\ \A x \in DOMAIN C : C[x] \in Id
  BY <1>6 DEF Good, Without
<1>13. ChildrenProper(Without(sized, {id}), tree, i.lastID)
  <2>1. \A d \in DOMAIN tree : d \in DOMAIN i.tree /\ tree[d] \subseteq i.tree[d]
    BY DEF Unlink, Put, Without
  <2>. QED
    BY <1>6, <2>1 DEF Good, ChildrenProper, Without
<1>. HIDE DEF tree, grams
<1>14. Good(j.nodes, j.lookup, j.tree, j.child, j.grams, j.lastID)
  BY <1>3, <1>6, <1>7, <1>8, <1>10, <1>11, <1>12, <1>13 DEF Good
<1>. QED
  BY <1>3, <1>14, GoodParts DEF j, id

LEMMA RemoveInv ==
  ASSUME NEW i, IxInv(i), NEW p, NEW isDir
  PROVE  IxInv(Remove(i, p, isDir))
<1>1. p \in DOMAIN i.lookup => i.lookup[p] \in DOMAIN i.nodes
  BY DEF IxInv, LookupsResolve
<1>. QED
  BY <1>1, RemoveDirInv, RemoveFileInv DEF Remove

-----------------------------------------------------------------------------
(* RenameNode, in its four parts.                                          *)

\* After Detach no path leads to the node any more.
LEMMA DetachInv ==
  ASSUME NEW i, IxInv(i), NEW old, old \in DOMAIN i.lookup
  PROVE  LET id == i.lookup[old]
             off == Detach(i, id, old)
         IN  /\ IxInv(off)
             /\ id \in DOMAIN off.nodes \ {NoId}
             /\ ~off.nodes[id].invalid
             /\ \A p \in DOMAIN off.lookup : off.lookup[p] # id
<1>. DEFINE id == i.lookup[old]
            node == i.nodes[id]
            L == Without(i.lookup, {old})
            G == RemoveFromIndex(i.grams, Base(old), id)
            M == UpsertParentSize(i.nodes, i.child, id, -node.size)
            T == Unlink(i.tree, node.parent, id)
            off == Detach(i, id, old)
<1>1. Good(i.nodes, i.lookup, i.tree, i.child, i.grams, i.lastID)
  BY GoodParts DEF IxInv
<1>2. /\ id \in DOMAIN i.nodes \ {NoId} /\ id \in Id
      /\ node \in Node /\ node.path = old /\ ~node.invalid
  BY <1>1 DEF Good, NodesType
<1>3. off = [nodes |-> M, lookup |-> L, tree |-> T, child |-> i.child,
             grams |-> G, lastID |-> i.lastID]
  BY DEF Detach
<1>. HIDE DEF node, off
<1>4. node.parent \in Id /\ -node.size \in Int
  BY <1>2 DEF Node
<1>. HIDE DEF id
<1>5. Resized(i.nodes, M)
  BY <1>1, <1>4, SizeFacts DEF Good
<1>. HIDE DEF M
<1>6. Good(M, i.lookup, i.tree, i.child, i.grams, i.lastID)
  BY <1>1, <1>5, ResizedGood
<1>7. IdSets(T) /\ G \subseteq Grams \X Id
  BY <1>2, <1>4, <1>6, LinkType, GramsType DEF Good
<1>8. ChildrenProper(M, T, i.lastID)
  <2>1. \A d \in DOMAIN T : d \in DOMAIN i.tree /\ T[d] \subseteq i.tree[d]
    BY DEF Unlink, Put
  <2>. QED
    BY <1>6, <2>1 DEF Good, ChildrenProper
<1>9. \A p \in DOMAIN L : p \in DOMAIN i.lookup /\ L[p] = i.lookup[p] /\ p # old
  BY DEF Without
<1>10. \A p \in DOMAIN L : L[p] # id
  <2>1. \A p \in DOMAIN i.lookup : i.nodes[i.lookup[p]].path = p
    BY <1>1 DEF Good
  <2>. QED
    BY <1>2, <1>9, <2>1 DEF node
<1>. HIDE DEF L, T, G
<1>11. Good(M, L, T, i.child, G, i.lastID)
  BY <1>6, <1>7, <1>8, <1>9 DEF Good
<1>12. IxInv(off)
  BY <1>3, <1>11, RecordIsIndex, GoodParts
<1>13. id \in DOMAIN M /\ ~M[id].invalid
  BY <1>2, <1>5 DEF Resized, SameButSize, node
<1>. QED
  BY <1>2, <1>3, <1>10, <1>12, <1>13 DEF off, id

LEMMA AttachInv ==
  ASSUME NEW off, IxInv(off), NEW id, id \in DOMAIN off.nodes \ {NoId},
         ~off.nodes[id].invalid, \A p \in DOMAIN off.lookup : off.lookup[p] # id,
         NEW new \in Path, new # <<>>, Dir(new) \in DOMAIN off.lookup, NEW t \in Int
  PROVE  LET on == Attach(off, id, new, t)
         IN  IxInv(on) /\ id \in DOMAIN on.nodes \ {NoId}
<1>. DEFINE parent == off.lookup[Dir(new)]
            node == [off.nodes[id] EXCEPT !.parent = parent, !.mtime = t,
                                          !.path = new, !.name = Base(new)]
            N == [off.nodes EXCEPT ![id] = node]
            L == Put(off.lookup, new, id)
            T == Link(off.tree, parent, id)
            C == Put(off.child, id, parent)
            on == Attach(off, id, new, t)
<1>1. Good(off.nodes, off.lookup, off.tree, off.child, off.grams, off.lastID)
  BY GoodParts DEF IxInv
<1>2. parent \in Id /\ id \in Id /\ off.nodes[id] \in Node
  BY <1>1 DEF Good, NodesType
<1>3. on = [nodes |-> N, lookup |-> L, tree |-> T, child |-> C,
            grams |-> off.grams, lastID |-> off.lastID]
  BY DEF Attach
<1>. HIDE DEF parent, on
<1>4. node \in Node /\ node.path = new /\ ~node.invalid
  BY <1>2, PathFacts DEF Node
<1>. HIDE DEF node
<1>5. DOMAIN N = DOMAIN off.nodes /\ N[id] = node /\ \A x \in DOMAIN off.nodes \ {id} : N[x] = off.nodes[x]
  OBVIOUS
<1>. HIDE DEF N
<1>6. NodesType(N) /\ \A x \in DOMAIN N : x[1] =< off.lastID
  BY <1>1, <1>4, <1>5 DEF Good, NodesType
<1>7. /\ DOMAIN L \subseteq Path
      /\ \A p \in DOMAIN L : /\ L[p] \in DOMAIN N \ {NoId}
                             /\ N[L[p]].path = p
                             /\ ~N[L[p]].invalid
  BY <1>1, <1>4, <1>5 DEF Good, Put
<1>8. IdSets(T)
  BY <1>1, <1>2, LinkType DEF Good
<1>9. DOMAIN C \subseteq Id /\ \A x \in DOMAIN C : C[x] \in Id
  BY <1>1, <1>2 DEF Good, Put
<1>10. ChildrenProper(N, T, off.lastID)
  <2>1. \A d \in DOMAIN T : \A c \in T[d] : c = id \/ (d \in DOMAIN off.tree /\ c \in off.tree[d])
    BY LinkFacts, Zenon
  <2>2. id # NoId /\ id[1] =< off.lastID /\ ~N[id].invalid
    BY <1>1, <1>4, <1>5 DEF Good
  <2>3. \A d \in DOMAIN off.tree : \A c \in off.tree[d] :
          c # NoId /\ c[1] =< off.lastID /\ (c \in DOMAIN N => ~N[c].invalid)
    BY <1>1, <1>4, <1>5 DEF Good, ChildrenProper
  <2>. QED
    BY <2>1, <2>2, <2>3 DEF ChildrenProper
<1>. HIDE DEF L, T, C
<1>11. Good(N, L, T, C, off.grams, off.lastID)
  BY <1>1, <1>6, <1>7, <1>8, <1>9, <1>10 DEF Good
<1>. QED
  BY <1>3, <1>5, <1>11, RecordIsIndex, GoodParts DEF on

\* The least closed set lies inside every closed set.
LEMMA ReachWithin ==
  \A start, succ, S :
    S \subseteq DOMAIN succ /\ start \subseteq S /\ (\A y \in S : succ[y] \subseteq S)
      => Reach(start, succ) \subseteq S
<1>. SUFFICES ASSUME NEW start, NEW succ, NEW S,
                     S \subseteq DOMAIN succ, start \subseteq S,
                     \A y \in S : succ[y] \subseteq S
              PROVE  Reach(start, succ) \subseteq S
  OBVIOUS
<1>1. \A T : T \subseteq S => Spread(T, succ) \subseteq S
  BY DEF Spread
<1>2. Spread(Spread(Spread(start, succ), succ), succ) \subseteq S
  BY <1>1
<1>. QED
  BY <1>2 DEF Reach, Closed

\* Everything renameChild visits is in some child set.
LEMMA RenamedAreChildren ==
  \A T, id : Renamed(T, id) \subseteq UNION {T[x] : x \in DOMAIN T}
<1>. SUFFICES ASSUME NEW T, NEW id
              PROVE  Renamed(T, id) \subseteq UNION {T[x] : x \in DOMAIN T}
  OBVIOUS
<1>. DEFINE kids == UNION {T[x] : x \in DOMAIN T}
            all == DOMAIN T \cup kids \cup {id}
            succ == [x \in all |-> IF IsDir(x) THEN At(T, x) ELSE {}]
<1>1. \A x : At(T, x) \subseteq kids
  BY DEF At
<1>2. Renamed(T, id) = IF IsDir(id) THEN Reach(At(T, id), succ) ELSE {}
  BY DEF Renamed
<1>3. kids \subseteq all
  OBVIOUS
<1>. HIDE DEF kids, all
<1>4. DOMAIN succ = all /\ \A y \in kids : succ[y] \subseteq kids
  BY <1>1, <1>3
<1>. HIDE DEF succ
<1>5. Reach(At(T, id), succ) \subseteq kids
  BY <1>1, <1>3, <1>4, ReachWithin
<1>. QED
  BY <1>2, <1>5 DEF kids

LEMMA RebaseType ==
  ASSUME NEW p \in Path, NEW old \in Path, NEW new \in Path
  PROVE  Rebase(p, old, new) \in Path
<1>1. Len(old) + 1 \in Nat \ {0} /\ Len(p) \in Nat
  BY DEF Path
<1>2. SubSeq(p, Len(old) + 1, Len(p)) \in Seq(Names)
  BY <1>1, SubSeqProperties DEF Path
<1>. QED
  BY <1>2 DEF Rebase, Path

\* Moving a set of valid nodes keeps every lookup sound, whichever of two
\* nodes that land on one path ends up owning it.
LEMMA MovePathsInv ==
  ASSUME NEW on, IxInv(on), NEW moved, NEW old \in Path, NEW new \in Path,
         \A c \in moved : c \in DOMAIN on.nodes \ {NoId} /\ ~on.nodes[c].invalid,
         NEW r \in MovePaths(on, moved, old, new)
  PROVE  IxInv(r) /\ DOMAIN r.nodes = DOMAIN on.nodes
<1>. DEFINE target == [c \in moved |-> Rebase(on.nodes[c].path, old, new)]
            gone == {on.nodes[c].path : c \in moved}
            kept == Without(on.lookup, gone)
            N == [x \in DOMAIN on.nodes |-> IF x \in moved
                    THEN [on.nodes[x] EXCEPT !.path = target[x]] ELSE on.nodes[x]]
<1>1. PICK own \in [{target[c] : c \in moved} -> moved] :
        /\ \A q \in DOMAIN own : target[own[q]] = q
        /\ r = [on EXCEPT !.nodes = N,
                          !.lookup = [q \in DOMAIN kept \cup DOMAIN own |->
                             IF q \in DOMAIN own THEN own[q] ELSE kept[q]]]
  BY Zenon DEF MovePaths
<1>. DEFINE L == [q \in DOMAIN kept \cup DOMAIN own |->
                    IF q \in DOMAIN own THEN own[q] ELSE kept[q]]
<1>2. Good(on.nodes, on.lookup, on.tree, on.child, on.grams, on.lastID)
  BY GoodParts DEF IxInv
<1>3. \A c \in moved : target[c] \in Path
  BY <1>2, RebaseType DEF Good, NodesType, Node
<1>4. \A c \in moved : c \in DOMAIN N \ {NoId} /\ N[c].path = target[c] /\ ~N[c].invalid
  BY <1>2 DEF Good, NodesType, Node
<1>5. DOMAIN N = DOMAIN on.nodes /\ \A x \in DOMAIN on.nodes \ moved : N[x] = on.nodes[x]
  OBVIOUS
<1>6. NodesType(N)
  <2>1. \A x \in DOMAIN on.nodes : \A p \in Path : [on.nodes[x] EXCEPT !.path = p] \in Node
    BY <1>2 DEF Good, NodesType, Node
  <2>. HIDE DEF target
  <2>2. \A x \in DOMAIN on.nodes : N[x] \in Node
    BY <1>2, <1>3, <2>1 DEF Good, NodesType
  <2>. QED
    BY <1>2, <1>5, <2>2 DEF Good, NodesType
<1>7. \A q \in DOMAIN kept : /\ kept[q] \in DOMAIN on.nodes \ {NoId}
                             /\ kept[q] \notin moved
                             /\ on.nodes[kept[q]].path = q
                             /\ ~on.nodes[kept[q]].invalid
                             /\ q \in Path
  BY <1>2 DEF Good, Without
<1>8. DOMAIN own = {target[c] : c \in moved} /\ \A q \in DOMAIN own : own[q] \in moved
  OBVIOUS
<1>9. DOMAIN own \subseteq Path
  BY <1>3, <1>8
<1>. HIDE DEF N, target, kept
<1>10. \A q \in DOMAIN L : IF q \in DOMAIN own THEN L[q] = own[q]
                                               ELSE q \in DOMAIN kept /\ L[q] = kept[q]
  OBVIOUS
<1>11. DOMAIN L \subseteq Path
  BY <1>7, <1>9
<1>. HIDE DEF L
<1>12. \A q \in DOMAIN L : /\ L[q] \in DOMAIN N \ {NoId}
                           /\ N[L[q]].path = q
                           /\ ~N[L[q]].invalid
  <2>. SUFFICES ASSUME NEW q \in DOMAIN L
                PROVE  /\ L[q] \in DOMAIN N \ {NoId}
                       /\ N[L[q]].path = q
                       /\ ~N[L[q]].invalid
    OBVIOUS
  <2>1. CASE q \in DOMAIN own
    BY <2>1, <1>1, <1>4, <1>8, <1>10
  <2>2. CASE q \notin DOMAIN own
    BY <2>2, <1>5, <1>7, <1>10
  <2>. QED
    BY <2>1, <2>2
<1>13. ChildrenProper(N, on.tree, on.lastID)
  BY <1>2, <1>4, <1>5 DEF Good, ChildrenProper
<1>14. Good(N, L, on.tree, on.child, on.grams, on.lastID)
  BY <1>2, <1>5, <1>6, <1>11, <1>12, <1>13 DEF Good
<1>15. r = [nodes |-> N, lookup |-> L, tree |-> on.tree, child |-> on.child,
            grams |-> on.grams, lastID |-> on.lastID]
  <2>1. r = [on EXCEPT !.nodes = N, !.lookup = L]
    BY <1>1, Zenon DEF L
  <2>. QED
    BY <2>1 DEF IxInv, IsIndex
<1>. QED
  BY <1>5, <1>14, <1>15, RecordIsIndex, GoodParts

LEMMA SettleInv ==
  ASSUME NEW r, IxInv(r), NEW id \in DOMAIN r.nodes
  PROVE  IxInv(Settle(r, id))
<1>. DEFINE M == UpsertParentSize(r.nodes, r.child, id, r.nodes[id].size)
            G == AddToIndex(r.grams, r.nodes[id].name, id)
<1>1. Good(r.nodes, r.lookup, r.tree, r.child, r.grams, r.lastID)
  BY GoodParts DEF IxInv
<1>2. id \in Id /\ r.nodes[id].size \in Int
  BY <1>1 DEF Good, NodesType, Node
<1>3. Resized(r.nodes, M)
  BY <1>1, <1>2, SizeFacts DEF Good
<1>4. G \subseteq Grams \X Id
  BY <1>1, <1>2, GramsType DEF Good
<1>. HIDE DEF M, G
<1>5. Good(M, r.lookup, r.tree, r.child, G, r.lastID)
  <2>1. Good(M, r.lookup, r.tree, r.child, r.grams, r.lastID)
    BY <1>1, <1>3, ResizedGood
  <2>. QED
    BY <1>4, <2>1 DEF Good
<1>6. Settle(r, id) = [nodes |-> M, lookup |-> r.lookup, tree |-> r.tree,
                       child |-> r.child, grams |-> G, lastID |-> r.lastID]
  BY DEF Settle, M, G
<1>. QED
  BY <1>5, <1>6, RecordIsIndex, GoodParts

LEMMA RenameInv ==
  ASSUME NEW i, IxInv(i), NEW old \in Path, NEW new \in Path, new # <<>>, NEW t \in Int,
         NEW j \in RenameNode(i, old, new, t)
  PROVE  IxInv(j)
<1>1. CASE old \notin DOMAIN i.lookup
  BY <1>1 DEF RenameNode
<1>2. CASE old \in DOMAIN i.lookup
  <2>. DEFINE id == i.lookup[old]
              off == Detach(i, id, old)
              on == Attach(off, id, new, t)
              moved == Renamed(on.tree, id)
  <2>1. /\ IxInv(off)
        /\ id \in DOMAIN off.nodes \ {NoId}
        /\ ~off.nodes[id].invalid
        /\ \A p \in DOMAIN off.lookup : off.lookup[p] # id
    BY <1>2, DetachInv
  <2>2. \/ j = off
        \/ /\ Dir(new) \in DOMAIN off.lookup
           /\ ~SliceFails(on, moved, old)
           /\ j \in {Settle(r, id) : r \in MovePaths(on, moved, old, new)}
    BY <1>2, Zenon DEF RenameNode
  <2>3. ASSUME Dir(new) \in DOMAIN off.lookup, ~SliceFails(on, moved, old),
               NEW r \in MovePaths(on, moved, old, new)
        PROVE  IxInv(Settle(r, id))
    <3>. HIDE DEF off, id
    <3>1. IxInv(on) /\ id \in DOMAIN on.nodes
      BY <2>1, <2>3, AttachInv
    <3>. HIDE DEF on
    <3>2. ChildrenProper(on.nodes, on.tree, on.lastID)
      BY <3>1 DEF IxInv, Counted
    <3>3. \A c \in moved : c \in DOMAIN on.nodes \ {NoId} /\ ~on.nodes[c].invalid
      <4>1. moved \subseteq DOMAIN on.nodes
        BY <2>3 DEF SliceFails
      <4>2. moved \subseteq UNION {on.tree[x] : x \in DOMAIN on.tree}
        BY RenamedAreChildren
      <4>. QED
        BY <3>2, <4>1, <4>2 DEF ChildrenProper
    <3>4. IxInv(r) /\ id \in DOMAIN r.nodes
      BY <2>3, <3>1, <3>3, MovePathsInv
    <3>. QED
      BY <3>4, SettleInv
  <2>. QED
    BY <2>1, <2>2, <2>3
<1>. QED
  BY <1>1, <1>2

-----------------------------------------------------------------------------
(* Names entered by hand, and the whole specification.                     *)

LEMMA SaveNameInv ==
  ASSUME NEW i, IxInv(i), NEW name \in Names, NEW t \in Int
  PROVE  IxInv(SaveName(i, name, t))
<1>. DEFINE id == SetRealID(i.lastID + 1, FALSE)
            node == InvalidNode(name, t)
            N == Put(i.nodes, id, node)
            G == AddToIndex(i.grams, name, id)
            j == SaveName(i, name, t)
<1>1. Good(i.nodes, i.lookup, i.tree, i.child, i.grams, i.lastID)
  BY GoodParts DEF IxInv
<1>2. i.lastID \in Nat
  BY <1>1 DEF Good
<1>3. id \in Id /\ id[1] = i.lastID + 1 /\ id # NoId
  <2>1. \A b \in BOOLEAN : LET x == SetRealID(i.lastID + 1, b)
                           IN  x \in Id /\ x[1] = i.lastID + 1 /\ x # NoId
    BY <1>2, FreshId
  <2>. QED
    BY <2>1, Zenon
<1>4. \A x \in Id : x[1] \in Nat
  BY DEF Id
<1>5. node \in Node
  <2>1. <<>> \in Path
    BY DEF Path
  <2>. QED
    BY <2>1, NoIdType DEF InvalidNode, Node
<1>6. j = [nodes |-> N, lookup |-> i.lookup, tree |-> i.tree, child |-> i.child,
           grams |-> G, lastID |-> i.lastID + 1]
  BY DEF SaveName
<1>. HIDE DEF id, node, j
<1>7. G \subseteq Grams \X Id
  BY <1>1, <1>3, GramsType DEF Good
<1>8. id \notin DOMAIN i.nodes
  BY <1>1, <1>2, <1>3, <1>4 DEF Good, NodesType
<1>9. /\ DOMAIN N = DOMAIN i.nodes \cup {id}
      /\ N[id] = node
      /\ \A x \in DOMAIN i.nodes : N[x] = i.nodes[x]
  BY <1>8 DEF Put
<1>. HIDE DEF N, G
<1>10. NodesType(N) /\ \A x \in DOMAIN N : x[1] =< i.lastID + 1
  BY <1>1, <1>2, <1>3, <1>4, <1>5, <1>9 DEF Good, NodesType
<1>11. ChildrenProper(N, i.tree, i.lastID + 1)
  <2>1. \A d \in DOMAIN i.tree : \A c \in i.tree[d] :
          c # NoId /\ c[1] \in Nat /\ c[1] =< i.lastID /\ (c \in DOMAIN i.nodes => ~i.nodes[c].invalid)
    BY <1>1, <1>4 DEF Good, ChildrenProper, IdSets
  <2>. QED
    BY <1>2, <1>3, <1>9, <2>1 DEF ChildrenProper
<1>12. Good(N, i.lookup, i.tree, i.child, G, i.lastID + 1)
  BY <1>1, <1>2, <1>7, <1>9, <1>10, <1>11 DEF Good
<1>. QED
  BY <1>6, <1>12, RecordIsIndex, GoodParts DEF j

\* No path leads to an invalid node, so its deletion leaves no lookup behind.
LEMMA DeleteInvalidInv ==
  ASSUME NEW i, IxInv(i), NEW id
  PROVE  IxInv(DeleteInvalid(i, id))
<1>1. CASE ~(id \in DOMAIN i.nodes /\ i.nodes[id].invalid)
  BY <1>1 DEF DeleteInvalid
<1>2. CASE id \in DOMAIN i.nodes /\ i.nodes[id].invalid
  <2>. DEFINE N == Without(i.nodes, {id})
              G == RemoveFromIndex(i.grams, i.nodes[id].name, id)
  <2>1. Good(i.nodes, i.lookup, i.tree, i.child, i.grams, i.lastID)
    BY GoodParts DEF IxInv
  <2>2. \A p \in DOMAIN i.lookup : i.lookup[p] # id
    BY <1>2, <2>1 DEF Good
  <2>3. DeleteInvalid(i, id) = [nodes |-> N, lookup |-> i.lookup, tree |-> i.tree,
                                child |-> i.child, grams |-> G, lastID |-> i.lastID]
    BY <1>2 DEF DeleteInvalid
  <2>4. G \subseteq Grams \X Id
    BY <2>1 DEF Good, RemoveFromIndex
  <2>5. DOMAIN N = DOMAIN i.nodes \ {id} /\ \A x \in DOMAIN N : N[x] = i.nodes[x]
    BY DEF Without
  <2>. HIDE DEF N, G
  <2>6. NodesType(N) /\ ChildrenProper(N, i.tree, i.lastID)
    BY <2>1, <2>5 DEF Good, NodesType, ChildrenProper
  <2>7. Good(N, i.lookup, i.tree, i.child, G, i.lastID)
    BY <2>1, <2>2, <2>4, <2>5, <2>6 DEF Good
  <2>. QED
    BY <2>3, <2>7, RecordIsIndex, GoodParts
<1>. QED
  BY <1>1, <1>2

LEMMA EmptyInv == IxInv(EmptyIndex)
<1>1. Good(<< >>, << >>, << >>, << >>, {}, 0)
  BY DEF Good, NodesType, IdSets, ChildrenProper
<1>. QED
  BY <1>1, RecordIsIndex, GoodParts DEF EmptyIndex

-----------------------------------------------------------------------------
(* Paths and what a search along child sets reaches.                       *)

LEMMA PrefixElements ==
  \A p, q \in Path : IsPrefix(p, q) <=> Len(p) =< Len(q) /\ \A k \in 1..Len(p) : q[k] = p[k]
<1>. SUFFICES ASSUME NEW p \in Path, NEW q \in Path, Len(p) =< Len(q)
              PROVE  SubSeq(q, 1, Len(p)) = p <=> \A k \in 1..Len(p) : q[k] = p[k]
  BY DEF IsPrefix
<1>. DEFINE s == SubSeq(q, 1, Len(p))
<1>1. p \in Seq(Names) /\ q \in Seq(Names) /\ Len(p) \in Nat /\ Len(q) \in Nat
  BY DEF Path
<1>2. s \in Seq(Names) /\ Len(s) = Len(p) /\ \A k \in 1..Len(p) : s[k] = q[k]
  BY <1>1, SubSeqProperties
<1>. HIDE DEF s
<1>3. (\A k \in 1..Len(p) : q[k] = p[k]) => s = p
  BY <1>1, <1>2, SeqEqual
<1>. QED
  BY <1>2, <1>3 DEF s

LEMMA DirFacts ==
  ASSUME NEW p \in Path, Len(p) > 1
  PROVE  /\ Dir(p) \in Path /\ Len(Dir(p)) = Len(p) - 1
         /\ \A k \in 1..(Len(p) - 1) : Dir(p)[k] = p[k]
<1>1. p \in Seq(Names) /\ Len(p) \in Nat
  BY DEF Path
<1>. QED
  BY <1>1, SubSeqProperties DEF Dir, Path

\* A path starts with whatever its directory starts with.
LEMMA PrefixOfDir ==
  ASSUME NEW p \in Path, NEW q \in Path, Len(q) > 1, IsPrefix(p, Dir(q))
  PROVE  IsPrefix(p, q) /\ Len(q) > Len(p)
<1>1. p \in Seq(Names) /\ q \in Seq(Names) /\ Len(p) \in Nat /\ Len(q) \in Nat
  BY DEF Path
<1>2. /\ Dir(q) \in Path /\ Len(Dir(q)) = Len(q) - 1
      /\ \A k \in 1..(Len(q) - 1) : Dir(q)[k] = q[k]
  BY DirFacts
<1>3. Len(p) =< Len(q) - 1 /\ \A k \in 1..Len(p) : Dir(q)[k] = p[k]
  BY <1>2, PrefixElements
<1>. QED
  BY <1>1, <1>2, <1>3, PrefixElements

\* Rebasing a path that lies below old puts its last components below new.
LEMMA RebaseFacts ==
  ASSUME NEW p \in Path, NEW old \in Path, NEW new \in Path, Len(p) >= Len(old)
  PROVE  LET r == Rebase(p, old, new)
         IN  /\ r \in Path /\ Len(r) = Len(new) + (Len(p) - Len(old))
             /\ \A k \in 1..Len(new) : r[k] = new[k]
             /\ \A k \in 1..(Len(p) - Len(old)) : r[Len(new) + k] = p[Len(old) + k]
<1>. DEFINE rest == SubSeq(p, Len(old) + 1, Len(p))
            r == new \o rest
<1>1. /\ p \in Seq(Names) /\ new \in Seq(Names)
      /\ Len(p) \in Nat /\ Len(old) \in Nat /\ Len(new) \in Nat
  BY DEF Path
<1>2. /\ rest \in Seq(Names) /\ Len(rest) = Len(p) - Len(old)
      /\ \A k \in 1..(Len(p) - Len(old)) : rest[k] = p[Len(old) + k]
  <2>1. Len(old) + 1 \in Nat \ {0} /\ Len(p) = (Len(old) + 1) + (Len(p) - Len(old)) - 1
    BY <1>1
  <2>2. \A m \in 1..(Len(p)+1), n \in Nat :
          LET sub == SubSeq(p, m, n)
          IN  m \in Nat /\ n \in 1..Len(p) /\ m =< n + 1 =>
               /\ sub \in Seq(Names) /\ Len(sub) = n - m + 1
               /\ \A k \in 1..(n - m + 1) : sub[k] = p[m + k - 1]
    BY <1>1, SubSeqProperties
  <2>. QED
    BY <1>1, <2>1, SubSeqProperties
<1>. HIDE DEF rest
<1>3. r \in Seq(Names) /\ Len(r) = Len(new) + Len(rest)
  BY <1>1, <1>2, ConcatProperties
<1>4. \A k \in 1..Len(r) : r[k] = IF k =< Len(new) THEN new[k] ELSE rest[k - Len(new)]
  BY <1>1, <1>2, ConcatProperties
<1>5. Rebase(p, old, new) = r
  BY DEF Rebase, rest
<1>. HIDE DEF r
<1>6. \A k \in 1..Len(new) : r[k] = new[k]
  BY <1>1, <1>2, <1>3, <1>4
<1>7. \A k \in 1..(Len(p) - Len(old)) : r[Len(new) + k] = p[Len(old) + k]
  <2>. TAKE k \in 1..(Len(p) - Len(old))
  <2>1. Len(new) + k \in 1..Len(r) /\ ~(Len(new) + k =< Len(new)) /\ Len(new) + k - Len(new) = k
    BY <1>1, <1>2, <1>3
  <2>2. r[Len(new) + k] = rest[k]
    BY <1>4, <2>1
  <2>. QED
    BY <1>2, <2>2
<1>. QED
  BY <1>2, <1>3, <1>5, <1>6, <1>7 DEF Path

LEMMA RebaseBelow ==
  ASSUME NEW p \in Path, NEW old \in Path, NEW new \in Path, new # <<>>,
         Len(p) > Len(old), Len(p) > 1
  PROVE  LET r == Rebase(p, old, new)
         IN  /\ r # <<>> /\ Len(r) > 1 /\ Base(r) = Base(p)
             /\ Dir(r) = Rebase(Dir(p), old, new)
<1>. DEFINE r == Rebase(p, old, new)
            s == Rebase(Dir(p), old, new)
<1>1. /\ p \in Seq(Names) /\ new \in Seq(Names)
      /\ Len(p) \in Nat /\ Len(old) \in Nat /\ Len(new) \in Nat /\ Len(new) # 0
  <2>1. Len(new) # 0
    BY EmptySeq DEF Path
  <2>. QED
    BY <2>1 DEF Path
<1>2. /\ Dir(p) \in Path /\ Len(Dir(p)) = Len(p) - 1
      /\ \A k \in 1..(Len(p) - 1) : Dir(p)[k] = p[k]
  BY DirFacts
<1>3. /\ r \in Path /\ Len(r) = Len(new) + (Len(p) - Len(old))
      /\ \A k \in 1..Len(new) : r[k] = new[k]
      /\ \A k \in 1..(Len(p) - Len(old)) : r[Len(new) + k] = p[Len(old) + k]
  <2>1. Len(p) >= Len(old)
    BY <1>1
  <2>. QED
    BY <2>1, RebaseFacts, Zenon
<1>4. /\ s \in Path /\ Len(s) = Len(new) + (Len(Dir(p)) - Len(old))
      /\ \A k \in 1..Len(new) : s[k] = new[k]
      /\ \A k \in 1..(Len(Dir(p)) - Len(old)) : s[Len(new) + k] = Dir(p)[Len(old) + k]
  <2>1. Len(Dir(p)) >= Len(old)
    BY <1>1, <1>2
  <2>. QED
    BY <1>2, <2>1, RebaseFacts, Zenon
<1>. HIDE DEF r, s
<1>5. Len(r) > 1 /\ r # <<>> /\ Len(r) = Len(new) + (Len(p) - Len(old))
  <2>1. Len(r) > 1
    BY <1>1, <1>3
  <2>. QED
    BY <1>3, <2>1
<1>6. Base(r) = Base(p)
  <2>1. /\ Len(p) - Len(old) \in 1..(Len(p) - Len(old))
        /\ Len(old) + (Len(p) - Len(old)) = Len(p)
    BY <1>1
  <2>. QED
    BY <1>3, <2>1 DEF Base
<1>7. /\ Dir(r) \in Path /\ Len(Dir(r)) = Len(r) - 1
      /\ \A k \in 1..(Len(r) - 1) : Dir(r)[k] = r[k]
  BY <1>3, <1>5, DirFacts
<1>8. Len(Dir(r)) = Len(s)
  BY <1>1, <1>2, <1>3, <1>4, <1>7
<1>9. ASSUME NEW k \in 1..Len(s)
      PROVE  Dir(r)[k] = s[k]
  <2>1. Dir(r)[k] = r[k]
    BY <1>1, <1>2, <1>3, <1>4, <1>7
  <2>2. CASE k =< Len(new)
    BY <1>1, <1>3, <1>4, <2>1, <2>2
  <2>3. CASE k > Len(new)
    <3>. DEFINE m == k - Len(new)
    <3>1. /\ m \in 1..(Len(p) - Len(old)) /\ m \in 1..(Len(Dir(p)) - Len(old))
          /\ Len(new) + m = k /\ Len(old) + m \in 1..(Len(p) - 1)
      BY <1>1, <1>2, <1>4, <2>3
    <3>. HIDE DEF m
    <3>2. r[k] = p[Len(old) + m] /\ s[k] = Dir(p)[Len(old) + m]
      BY <1>3, <1>4, <3>1
    <3>. QED
      BY <1>2, <2>1, <3>1, <3>2
  <2>. QED
    BY <1>1, <1>4, <2>2, <2>3
<1>10. Dir(r) = s
  BY <1>4, <1>7, <1>8, <1>9, SeqEqual DEF Path
<1>. QED
  BY <1>5, <1>6, <1>10 DEF r, s

LEMMA RebaseSelf ==
  ASSUME NEW old \in Path, NEW new \in Path
  PROVE  Rebase(old, old, new) = new
<1>. DEFINE r == Rebase(old, old, new)
<1>1. old \in Seq(Names) /\ new \in Seq(Names) /\ Len(old) \in Nat /\ Len(new) \in Nat
  BY DEF Path
<1>2. r \in Path /\ Len(r) = Len(new) + (Len(old) - Len(old)) /\ \A k \in 1..Len(new) : r[k] = new[k]
  <2>1. Len(old) >= Len(old)
    BY <1>1
  <2>. QED
    BY <2>1, RebaseFacts, Zenon
<1>. HIDE DEF r
<1>3. r \in Seq(Names) /\ Len(r) = Len(new)
  BY <1>1, <1>2 DEF Path
<1>4. r = new
  BY <1>1, <1>2, <1>3, SeqEqual
<1>. QED
  BY <1>4 DEF r

\* What is reached holds its start, is closed, and holds nothing that is not
\* in the start or a step away from something reached.
LEMMA ReachFacts ==
  ASSUME NEW start, NEW succ, start \subseteq DOMAIN succ,
         \A y \in DOMAIN succ : succ[y] \subseteq DOMAIN succ
  PROVE  LET R == Reach(start, succ)
         IN  /\ start \subseteq R /\ R \subseteq DOMAIN succ
             /\ \A y \in R : succ[y] \subseteq R
             /\ \A x \in R : x \in start \/ \E y \in R : x \in succ[y]
<1>. DEFINE R == Reach(start, succ)
            near == Spread(Spread(Spread(start, succ), succ), succ)
            closed == {S \in SUBSET DOMAIN succ : start \subseteq S /\ Closed(S, succ)}
            all == {x \in DOMAIN succ : \A S \in closed : x \in S}
<1>1. R \subseteq DOMAIN succ
  BY ReachWithin
<1>2. R = IF Closed(near, succ) THEN near ELSE all
  BY DEF Reach
<1>3. start \subseteq near
  BY DEF Spread
<1>4. start \subseteq all
  OBVIOUS
<1>5. \A y \in all : succ[y] \subseteq all
  <2>. SUFFICES ASSUME NEW y \in all, NEW z \in succ[y]
                PROVE  z \in all
    OBVIOUS
  <2>1. z \in DOMAIN succ
    OBVIOUS
  <2>2. \A S \in closed : z \in S
    BY DEF Closed
  <2>. QED
    BY <2>1, <2>2
<1>. HIDE DEF R, near, all
<1>6. start \subseteq R /\ \A y \in R : succ[y] \subseteq R
  BY <1>2, <1>3, <1>4, <1>5 DEF Closed
<1>. DEFINE S == {x \in R : x \in start \/ \E y \in R : x \in succ[y]}
<1>7. S \subseteq DOMAIN succ /\ start \subseteq S /\ \A y \in S : succ[y] \subseteq S
  BY <1>1, <1>6
<1>. HIDE DEF S
<1>8. R \subseteq S
  BY <1>7, ReachWithin DEF R
<1>. QED
  BY <1>1, <1>6, <1>8 DEF R, S

-----------------------------------------------------------------------------
(* The inductive invariant of the tree.  Beside the four properties (found *)
(* by n-gram, parents, child sets, paths: FileIndex.tla) it says who       *)
(* may be a key of TreeMap, which node a child set names (also below id 0, *)
(* where nodes without an indexed parent gather), and which ids the index  *)
(* must be able to find: not only those a path leads to, but all that a    *)
(* child set holds, because a rename hands lookups to them.                *)

Proper(N) == {x \in DOMAIN N \ {NoId} : ~N[x].invalid}

NamesMatch(N) ==
  \A x \in Proper(N) : N[x].path # <<>> /\ N[x].name = Base(N[x].path)

GramsOwned(N, G) ==
  \A e \in G : e[2] \in DOMAIN N \ {NoId} /\ e[1] \in NameGrams(N[e[2]].name)

Held(L, T, x) == (\E p \in DOMAIN L : L[p] = x) \/ (\E d \in DOMAIN T : x \in T[d])
HeldFound(N, L, T, G) ==
  \A x \in DOMAIN N : Held(L, T, x) => NameGrams(N[x].name) \X {x} \subseteq G

ChildrenMatch(N, C) == DOMAIN C = Proper(N) /\ \A x \in DOMAIN C : C[x] = N[x].parent

TreeHeads(N, T) == DOMAIN T \subseteq Proper(N) \cup {NoId}
TreeParents(N, T) ==
  \A d \in DOMAIN T : \A c \in T[d] : c \in DOMAIN N => N[c].parent = d
Below(N, c, d) == Len(N[c].path) > 1 /\ Dir(N[c].path) = N[d].path
TreePaths(N, T) ==
  \A d \in DOMAIN T : \A c \in T[d] :
    d \in DOMAIN N /\ IsDir(d) /\ c \in DOMAIN N => Below(N, c, d)

TreeFits(N, T) == TreeHeads(N, T) /\ TreeParents(N, T) /\ TreePaths(N, T)

Tied(N, L, T, C, G) ==
  /\ NamesMatch(N)
  /\ GramsOwned(N, G)
  /\ HeldFound(N, L, T, G)
  /\ ChildrenMatch(N, C)
  /\ TreeFits(N, T)

TiedIndex(i) == Tied(i.nodes, i.lookup, i.tree, i.child, i.grams)

-----------------------------------------------------------------------------
(* Small facts.                                                            *)

LEMMA LinkWhere ==
  \A t, d, c : /\ DOMAIN Link(t, d, c) = DOMAIN t \cup {d}
               /\ \A x \in DOMAIN Link(t, d, c) : \A y \in Link(t, d, c)[x] :
                    (x = d /\ y = c) \/ (x \in DOMAIN t /\ y \in t[x])
<1>. SUFFICES ASSUME NEW t, NEW d, NEW c
              PROVE  /\ DOMAIN Link(t, d, c) = DOMAIN t \cup {d}
                     /\ \A x \in DOMAIN Link(t, d, c) : \A y \in Link(t, d, c)[x] :
                          (x = d /\ y = c) \/ (x \in DOMAIN t /\ y \in t[x])
  OBVIOUS
<1>. DEFINE kids == At(t, d)
<1>1. \A y \in kids : d \in DOMAIN t /\ y \in t[d]
  BY DEF At
<1>2. Link(t, d, c) = [z \in DOMAIN t \cup {d} |-> IF z = d THEN kids \cup {c} ELSE t[z]]
  BY Zenon DEF Link, Put
<1>. HIDE DEF kids
<1>. QED
  BY <1>1, <1>2

\* What a child set loses is the one id, from the one set.
LEMMA UnlinkWhere ==
  \A t, d, c : /\ DOMAIN Unlink(t, d, c) = DOMAIN t
               /\ \A x \in DOMAIN t : /\ Unlink(t, d, c)[x] \subseteq t[x]
                                      /\ x = d => c \notin Unlink(t, d, c)[x]
  BY DEF Unlink, Put

LEMMA NoIdFile == ~IsDir(NoId)
  BY DEF NoId, IsDir

\* Sizes and times take no part in it.
LEMMA ResizedTied ==
  \A N, M, L, T, C, G, n :
    Good(N, L, T, C, G, n) /\ Tied(N, L, T, C, G) /\ Resized(N, M) => Tied(M, L, T, C, G)
<1>. SUFFICES ASSUME NEW N, NEW M, NEW L, NEW T, NEW C, NEW G, NEW n,
                     Good(N, L, T, C, G, n), Tied(N, L, T, C, G), Resized(N, M)
              PROVE  Tied(M, L, T, C, G)
  OBVIOUS
<1>1. DOMAIN M \ {NoId} = DOMAIN N \ {NoId} /\ DOMAIN N \subseteq DOMAIN M
  BY DEF Resized
<1>2. \A x \in DOMAIN M \ {NoId} : /\ M[x].path = N[x].path /\ M[x].name = N[x].name
                                   /\ M[x].parent = N[x].parent /\ M[x].invalid = N[x].invalid
  BY DEF Resized, SameButSize
<1>3. \A d \in DOMAIN T : \A c \in T[d] : c # NoId
  BY DEF Good, ChildrenProper
<1>4. \A p \in DOMAIN L : L[p] # NoId
  BY DEF Good
<1>5. Proper(M) = Proper(N)
  BY <1>1, <1>2 DEF Proper
<1>6. NamesMatch(M)
  BY <1>2, <1>5 DEF Tied, NamesMatch, Proper
<1>7. GramsOwned(M, G)
  BY <1>1, <1>2 DEF Tied, GramsOwned
<1>8. HeldFound(M, L, T, G)
  BY <1>1, <1>2, <1>3, <1>4 DEF Tied, HeldFound, Held
<1>9. ChildrenMatch(M, C)
  BY <1>1, <1>2, <1>5 DEF Tied, ChildrenMatch, Proper
<1>10. TreeHeads(M, T) /\ TreeParents(M, T)
  BY <1>1, <1>2, <1>3, <1>5 DEF Tied, TreeFits, TreeHeads, TreeParents
<1>11. TreePaths(M, T)
  BY <1>1, <1>2, <1>3, NoIdFile DEF Tied, TreeFits, TreePaths, Below
<1>. QED
  BY <1>6, <1>7, <1>8, <1>9, <1>10, <1>11 DEF Tied, TreeFits

-----------------------------------------------------------------------------
(* Upsert and UpsertDir.                                                   *)

LEMMA InsertTied ==
  ASSUME NEW i, IxInv(i), TiedIndex(i), NEW p \in Path, p # <<>>, NEW b \in BOOLEAN,
         NEW s \in Int, NEW t \in Int
  PROVE  TiedIndex(Insert(i, p, b, s, t))
<1>. DEFINE id == SetRealID(i.lastID + 1, b)
            parent == LookupId(i, Dir(p))
            node == NewNode(parent, p, s, t)
            N == Put(i.nodes, id, node)
            L == Put(i.lookup, p, id)
            T == Link(i.tree, parent, id)
            C == Put(i.child, id, parent)
            G == AddToIndex(i.grams, Base(p), id)
            j == Insert(i, p, b, s, t)
<1>1. /\ Good(i.nodes, i.lookup, i.tree, i.child, i.grams, i.lastID)
      /\ Tied(i.nodes, i.lookup, i.tree, i.child, i.grams)
  BY GoodParts DEF IxInv, TiedIndex
<1>2. i.lastID \in Nat
  BY <1>1 DEF Good
<1>3. id \in Id /\ id[1] = i.lastID + 1 /\ id # NoId
  BY <1>2, FreshId
<1>4. \A x \in Id : x[1] \in Nat
  BY DEF Id
<1>5. id \notin DOMAIN i.nodes
  BY <1>1, <1>2, <1>3, <1>4 DEF Good, NodesType
<1>6. \A d \in DOMAIN i.tree : id \notin i.tree[d]
  <2>1. \A d \in DOMAIN i.tree : \A c \in i.tree[d] : c \in Id /\ c[1] =< i.lastID
    BY <1>1 DEF Good, IdSets, ChildrenProper
  <2>. QED
    BY <1>2, <1>3, <2>1
<1>7. /\ node.path = p /\ node.name = Base(p) /\ node.parent = parent /\ ~node.invalid
  BY DEF NewNode
<1>8. /\ parent \in DOMAIN i.nodes \cup {NoId}
      /\ parent # NoId => /\ parent \in Proper(i.nodes)
                          /\ i.nodes[parent].path = Dir(p)
  BY <1>1 DEF Good, LookupId, Proper
<1>9. parent # NoId => Len(p) > 1
  <2>. HIDE DEF parent
  <2>1. parent # NoId => Dir(p) # <<>>
    BY <1>1, <1>8 DEF Tied, NamesMatch
  <2>2. Len(p) \in Nat \ {0}
    BY DEF Path
  <2>3. Len(p) = 1 => Dir(p) = <<>>
    BY DEF Dir, Path
  <2>4. parent # NoId => Len(p) # 1
    BY <2>1, <2>3
  <2>. QED
    BY <2>2, <2>4
<1>10. j.nodes = N /\ j.lookup = L /\ j.tree = T /\ j.child = C /\ j.grams = G
  BY RecordIsIndex DEF Insert
<1>. HIDE DEF id, parent, node, j
<1>11. /\ DOMAIN N = DOMAIN i.nodes \cup {id} /\ N[id] = node
       /\ \A x \in DOMAIN i.nodes : N[x] = i.nodes[x]
  BY <1>5 DEF Put
<1>12. /\ DOMAIN T = DOMAIN i.tree \cup {parent}
       /\ \A x \in DOMAIN T : \A y \in T[x] :
            (x = parent /\ y = id) \/ (x \in DOMAIN i.tree /\ y \in i.tree[x])
  BY LinkWhere
<1>13. \A q \in DOMAIN L : L[q] = id \/ (q \in DOMAIN i.lookup /\ L[q] = i.lookup[q])
  BY DEF Put
<1>14. /\ DOMAIN C = DOMAIN i.child \cup {id} /\ C[id] = parent
       /\ \A x \in DOMAIN i.child \ {id} : C[x] = i.child[x]
  BY DEF Put
<1>15. G = i.grams \cup (NameGrams(Base(p)) \X {id})
  BY DEF AddToIndex
<1>. HIDE DEF N, L, T, C, G
<1>16. Proper(N) = Proper(i.nodes) \cup {id}
  BY <1>3, <1>7, <1>11 DEF Proper
<1>17. NamesMatch(N)
  BY <1>1, <1>7, <1>11, <1>16 DEF Tied, NamesMatch, Proper
<1>18. GramsOwned(N, G)
  BY <1>1, <1>3, <1>7, <1>11, <1>15 DEF Tied, GramsOwned
<1>19. HeldFound(N, L, T, G)
  <2>. SUFFICES ASSUME NEW x \in DOMAIN N, Held(L, T, x)
                PROVE  NameGrams(N[x].name) \X {x} \subseteq G
    BY DEF HeldFound
  <2>1. CASE x = id
    BY <2>1, <1>7, <1>11, <1>15
  <2>2. CASE x # id
    <3>1. Held(i.lookup, i.tree, x)
      BY <2>2, <1>12, <1>13 DEF Held
    <3>. QED
      BY <1>1, <1>11, <1>15, <2>2, <3>1 DEF Tied, HeldFound
  <2>. QED
    BY <2>1, <2>2
<1>20. ChildrenMatch(N, C)
  BY <1>1, <1>5, <1>7, <1>11, <1>14, <1>16 DEF Tied, ChildrenMatch, Proper
<1>21. TreeHeads(N, T)
  BY <1>1, <1>8, <1>12, <1>16 DEF Tied, TreeFits, TreeHeads
<1>22. TreeParents(N, T)
  BY <1>1, <1>6, <1>7, <1>11, <1>12 DEF Tied, TreeFits, TreeParents
<1>23. TreePaths(N, T)
  <2>. SUFFICES ASSUME NEW d \in DOMAIN T, NEW c \in T[d], d \in DOMAIN N, IsDir(d), c \in DOMAIN N
                PROVE  Below(N, c, d)
    BY DEF TreePaths
  <2>1. CASE c = id
    BY <2>1, <1>3, <1>5, <1>6, <1>7, <1>8, <1>9, <1>11, <1>12, NoIdFile DEF Below, Proper
  <2>2. CASE c # id
    <3>1. d \in DOMAIN i.tree /\ c \in i.tree[d] /\ c \in DOMAIN i.nodes
      BY <2>2, <1>11, <1>12
    <3>2. d \in DOMAIN i.nodes
      <4>1. d \in Proper(i.nodes) \cup {NoId}
        BY <1>1, <3>1 DEF Tied, TreeFits, TreeHeads
      <4>. QED
        BY <4>1, NoIdFile DEF Proper
    <3>. QED
      BY <1>1, <1>11, <3>1, <3>2 DEF Tied, TreeFits, TreePaths, Below
  <2>. QED
    BY <2>1, <2>2
<1>24. Tied(N, L, T, C, G)
  BY <1>17, <1>18, <1>19, <1>20, <1>21, <1>22, <1>23 DEF Tied, TreeFits
<1>. QED
  BY <1>10, <1>24 DEF TiedIndex, j

\* The maps are the same, the nodes differ in sizes and times only.
OnlySizes(i, j) ==
  /\ Resized(i.nodes, j.nodes)
  /\ j.lookup = i.lookup /\ j.tree = i.tree /\ j.child = i.child /\ j.grams = i.grams

LEMMA OnlySizesTied ==
  ASSUME NEW i, IxInv(i), TiedIndex(i), NEW j, OnlySizes(i, j)
  PROVE  TiedIndex(j)
<1>1. Good(i.nodes, i.lookup, i.tree, i.child, i.grams, i.lastID)
  BY GoodParts DEF IxInv
<1>. QED
  BY <1>1, ResizedTied DEF TiedIndex, OnlySizes

LEMMA UpsertShape ==
  ASSUME NEW i, IxInv(i), NEW p \in Path, p # <<>>, NEW info,
         info.dir \in BOOLEAN, info.size \in Int, info.mtime \in Int
  PROVE  LET j == Upsert(i, p, info)
         IN  IF p \in DOMAIN i.lookup THEN OnlySizes(i, j)
             ELSE OnlySizes(Insert(i, p, info.dir, info.size, info.mtime), j)
<1>1. Good(i.nodes, i.lookup, i.tree, i.child, i.grams, i.lastID)
  BY GoodParts DEF IxInv
<1>2. CASE p \in DOMAIN i.lookup
  <2>. DEFINE id == i.lookup[p]
              node == i.nodes[id]
              sized == UpsertParentSize(i.nodes, i.child, id, info.size - node.size)
              new == [node EXCEPT !.size = info.size, !.mtime = info.mtime]
              M == Put(sized, id, new)
              j == [i EXCEPT !.nodes = M]
  <2>1. id \in DOMAIN i.nodes \ {NoId} /\ node \in Node
    BY <1>1, <1>2 DEF Good, NodesType
  <2>. HIDE DEF node
  <2>2. new \in Node /\ SameButSize(new, node) /\ node.size \in Int
    BY <2>1 DEF Node, SameButSize
  <2>. HIDE DEF id, new, sized
  <2>3. Resized(i.nodes, sized)
    BY <1>1, <2>2, SizeFacts DEF Good, sized
  <2>4. Resized(i.nodes, M)
    <3>1. /\ DOMAIN M = DOMAIN sized /\ M[id] = new
          /\ \A x \in DOMAIN sized \ {id} : M[x] = sized[x]
      BY <2>1, <2>3 DEF Put, Resized
    <3>. HIDE DEF M
    <3>. QED
      BY <2>1, <2>2, <2>3, <3>1 DEF Resized, NodesType, node
  <2>. HIDE DEF M
  <2>5. OnlySizes(i, i)
    BY <1>1 DEF OnlySizes, Resized, SameButSize, Good
  <2>6. j = [nodes |-> M, lookup |-> i.lookup, tree |-> i.tree,
             child |-> i.child, grams |-> i.grams, lastID |-> i.lastID]
    BY DEF IxInv, IsIndex
  <2>. HIDE DEF j
  <2>7. OnlySizes(i, j)
    BY <2>4, <2>6, RecordIsIndex DEF OnlySizes
  <2>8. Upsert(i, p, info) = i \/ Upsert(i, p, info) = j
    BY <1>2 DEF Upsert, j, M, id, node, sized, new
  <2>. QED
    BY <1>2, <2>5, <2>7, <2>8
<1>3. CASE p \notin DOMAIN i.lookup
  <2>. DEFINE k == Insert(i, p, info.dir, info.size, info.mtime)
              sized == UpsertParentSize(k.nodes, k.child, k.lookup[p], info.size)
              j == [k EXCEPT !.nodes = sized]
  <2>1. IxInv(k)
    BY InsertInv
  <2>. HIDE DEF k
  <2>2. Good(k.nodes, k.lookup, k.tree, k.child, k.grams, k.lastID)
    BY <2>1, GoodParts DEF IxInv
  <2>3. Resized(k.nodes, sized)
    BY <2>2, SizeFacts DEF Good
  <2>. HIDE DEF sized
  <2>4. j = [nodes |-> sized, lookup |-> k.lookup, tree |-> k.tree,
             child |-> k.child, grams |-> k.grams, lastID |-> k.lastID]
    BY <2>1 DEF IxInv, IsIndex
  <2>. HIDE DEF j
  <2>5. OnlySizes(k, j)
    BY <2>3, <2>4, RecordIsIndex DEF OnlySizes
  <2>. QED
    BY <1>3, <2>5 DEF Upsert, j, k, sized
<1>. QED
  BY <1>2, <1>3

LEMMA UpsertTied ==
  ASSUME NEW i, IxInv(i), TiedIndex(i), NEW p \in Path, p # <<>>, NEW info,
         info.dir \in BOOLEAN, info.size \in Int, info.mtime \in Int
  PROVE  TiedIndex(Upsert(i, p, info))
<1>. DEFINE k == Insert(i, p, info.dir, info.size, info.mtime)
            j == Upsert(i, p, info)
<1>1. IF p \in DOMAIN i.lookup THEN OnlySizes(i, j) ELSE OnlySizes(k, j)
  BY UpsertShape
<1>2. IxInv(k) /\ TiedIndex(k)
  BY InsertInv, InsertTied
<1>. HIDE DEF k, j
<1>3. TiedIndex(j)
  BY <1>1, <1>2, OnlySizesTied
<1>. QED
  BY <1>3 DEF j

LEMMA UpsertDirShape ==
  ASSUME NEW i, IxInv(i), NEW p \in Path, p # <<>>, NEW t \in Int
  PROVE  LET j == UpsertDir(i, p, t)
         IN  IF p \in DOMAIN i.lookup THEN OnlySizes(i, j) ELSE j = Insert(i, p, TRUE, 0, t)
<1>1. Good(i.nodes, i.lookup, i.tree, i.child, i.grams, i.lastID)
  BY GoodParts DEF IxInv
<1>2. CASE p \in DOMAIN i.lookup
  <2>. DEFINE id == i.lookup[p]
              M == [i.nodes EXCEPT ![id].mtime = t]
              j == [i EXCEPT !.nodes = M]
  <2>1. id \in DOMAIN i.nodes
    BY <1>1, <1>2 DEF Good
  <2>. HIDE DEF id
  <2>2. \A x \in DOMAIN i.nodes : M[x] \in Node /\ SameButSize(M[x], i.nodes[x])
    BY <1>1, <2>1 DEF Good, NodesType, Node, SameButSize
  <2>3. DOMAIN M = DOMAIN i.nodes
    OBVIOUS
  <2>. HIDE DEF M
  <2>4. Resized(i.nodes, M)
    BY <1>1, <2>2, <2>3 DEF Good, NodesType, Resized
  <2>5. j = [nodes |-> M, lookup |-> i.lookup, tree |-> i.tree,
             child |-> i.child, grams |-> i.grams, lastID |-> i.lastID]
    BY DEF IxInv, IsIndex
  <2>. HIDE DEF j
  <2>6. OnlySizes(i, j)
    BY <2>4, <2>5, RecordIsIndex DEF OnlySizes
  <2>. QED
    BY <1>2, <2>6 DEF UpsertDir, j, M, id
<1>3. CASE p \notin DOMAIN i.lookup
  BY <1>3 DEF UpsertDir
<1>. QED
  BY <1>2, <1>3

LEMMA UpsertDirTied ==
  ASSUME NEW i, IxInv(i), TiedIndex(i), NEW p \in Path, p # <<>>, NEW t \in Int
  PROVE  TiedIndex(UpsertDir(i, p, t))
<1>1. \A b \in BOOLEAN : TiedIndex(Insert(i, p, b, 0, t))
  BY InsertTied
<1>2. TiedIndex(Insert(i, p, TRUE, 0, t))
  BY <1>1, Zenon
<1>. QED
  BY <1>2, UpsertDirShape, OnlySizesTied

-----------------------------------------------------------------------------
(* Remove.                                                                 *)

\* Nodes, child sets, children and n-grams without a set of ids: whoever drops
\* an id from every map together leaves the rest tied.  A child set may keep
\* ids that are gone, and a lookup of one may be dropped or not.
LEMMA WithoutTied ==
  ASSUME NEW N, NEW L, NEW T, NEW C, NEW G, Tied(N, L, T, C, G),
         NEW gone, NEW paths, NEW T2, NEW G2,
         DOMAIN T2 \subseteq DOMAIN T \ gone,
         \A d \in DOMAIN T2 : T2[d] \subseteq T[d],
         \A e \in G2 : e \in G /\ e[2] \notin gone,
         \A e \in G : e[2] \notin gone => e \in G2
  PROVE  Tied(Without(N, gone), Without(L, paths), T2, Without(C, gone), G2)
<1>. DEFINE N2 == Without(N, gone)
            L2 == Without(L, paths)
            C2 == Without(C, gone)
<1>1. DOMAIN N2 = DOMAIN N \ gone /\ \A x \in DOMAIN N2 : N2[x] = N[x]
  BY DEF Without
<1>2. DOMAIN L2 \subseteq DOMAIN L /\ \A p \in DOMAIN L2 : L2[p] = L[p]
  BY DEF Without
<1>3. DOMAIN C2 = DOMAIN C \ gone /\ \A x \in DOMAIN C2 : C2[x] = C[x]
  BY DEF Without
<1>. HIDE DEF N2, L2, C2
<1>4. Proper(N2) = Proper(N) \ gone
  BY <1>1 DEF Proper
<1>5. NamesMatch(N2)
  BY <1>1, <1>4 DEF Tied, NamesMatch, Proper
<1>6. GramsOwned(N2, G2)
  BY <1>1 DEF Tied, GramsOwned
<1>7. HeldFound(N2, L2, T2, G2)
  <2>. SUFFICES ASSUME NEW x \in DOMAIN N2, Held(L2, T2, x), NEW g \in NameGrams(N2[x].name)
                PROVE  <<g, x>> \in G2
    BY DEF HeldFound
  <2>1. x \in DOMAIN N /\ x \notin gone /\ N2[x] = N[x]
    BY <1>1
  <2>2. Held(L, T, x)
    BY <1>2 DEF Held
  <2>3. <<g, x>> \in G
    BY <2>1, <2>2 DEF Tied, HeldFound
  <2>. QED
    BY <2>1, <2>3
<1>8. ChildrenMatch(N2, C2)
  BY <1>1, <1>3, <1>4 DEF Tied, ChildrenMatch, Proper
<1>9. TreeHeads(N2, T2)
  BY <1>4 DEF Tied, TreeFits, TreeHeads
<1>10. TreeParents(N2, T2)
  BY <1>1 DEF Tied, TreeFits, TreeParents
<1>11. TreePaths(N2, T2)
  BY <1>1 DEF Tied, TreeFits, TreePaths, Below
<1>. QED
  BY <1>5, <1>6, <1>7, <1>8, <1>9, <1>10, <1>11 DEF Tied, TreeFits, N2, L2, C2

LEMMA RemoveDirTied ==
  ASSUME NEW i, IxInv(i), TiedIndex(i), NEW id, id \in DOMAIN i.nodes
  PROVE  TiedIndex(RemoveDir(i, id))
<1>. DEFINE gone == WalkDeleted(i, id)
            live == gone \cap DOMAIN i.nodes
            sized == UpsertParentSize(i.nodes, i.child, id, -i.nodes[id].size)
            paths == {i.nodes[x].path : x \in live}
            grams == {e \in i.grams : ~ \E x \in live :
                        e[2] = x /\ e[1] \in NameGrams(i.nodes[x].name)}
            tree == Without(i.tree, gone)
            j == RemoveDir(i, id)
<1>1. /\ Good(i.nodes, i.lookup, i.tree, i.child, i.grams, i.lastID)
      /\ Tied(i.nodes, i.lookup, i.tree, i.child, i.grams)
  BY GoodParts DEF IxInv, TiedIndex
<1>2. Resized(i.nodes, sized)
  <2>1. -i.nodes[id].size \in Int
    BY <1>1 DEF Good, NodesType, Node
  <2>. QED
    BY <1>1, <2>1, SizeFacts DEF Good
<1>3. j.nodes = Without(sized, gone) /\ j.lookup = Without(i.lookup, paths) /\ j.tree = tree
      /\ j.child = Without(i.child, gone) /\ j.grams = grams
  BY RecordIsIndex DEF RemoveDir
<1>4. \A e \in i.grams : e[2] \in DOMAIN i.nodes /\ e[1] \in NameGrams(i.nodes[e[2]].name)
  BY <1>1 DEF Tied, GramsOwned
<1>. HIDE DEF gone, sized, j
<1>5. Tied(sized, i.lookup, i.tree, i.child, i.grams)
  BY <1>1, <1>2, ResizedTied
<1>6. \A e \in grams : e \in i.grams /\ e[2] \notin gone
  BY <1>4
<1>7. \A e \in i.grams : e[2] \notin gone => e \in grams
  OBVIOUS
<1>8. DOMAIN tree \subseteq DOMAIN i.tree \ gone /\ \A d \in DOMAIN tree : tree[d] \subseteq i.tree[d]
  BY DEF Without
<1>. HIDE DEF grams, paths, tree
<1>9. Tied(Without(sized, gone), Without(i.lookup, paths), tree, Without(i.child, gone), grams)
  BY <1>5, <1>6, <1>7, <1>8, WithoutTied
<1>. QED
  BY <1>3, <1>9 DEF TiedIndex, j

LEMMA RemoveFileTied ==
  ASSUME NEW i, IxInv(i), TiedIndex(i), NEW p, p \in DOMAIN i.lookup
  PROVE  TiedIndex(RemoveFile(i, i.lookup[p], p))
<1>. DEFINE id == i.lookup[p]
            node == i.nodes[id]
            sized == IF node.parent \in DOMAIN i.tree
                     THEN UpsertParentSize(i.nodes, i.child, id, -node.size)
                     ELSE i.nodes
            tree == Without(Unlink(i.tree, node.parent, id), {id})
            grams == RemoveFromIndex(i.grams, node.name, id)
            j == RemoveFile(i, id, p)
<1>1. /\ Good(i.nodes, i.lookup, i.tree, i.child, i.grams, i.lastID)
      /\ Tied(i.nodes, i.lookup, i.tree, i.child, i.grams)
  BY GoodParts DEF IxInv, TiedIndex
<1>2. node \in Node /\ id \in DOMAIN i.nodes
  BY <1>1 DEF Good, NodesType
<1>3. /\ j.nodes = Without(sized, {id}) /\ j.lookup = Without(i.lookup, {p}) /\ j.tree = tree
      /\ j.child = Without(i.child, {id}) /\ j.grams = grams
  BY RecordIsIndex DEF RemoveFile
<1>4. \A e \in i.grams : e[1] \in NameGrams(i.nodes[e[2]].name)
  BY <1>1 DEF Tied, GramsOwned
<1>5. \A e \in i.grams : e = <<e[1], e[2]>>
  BY <1>1 DEF Good
<1>6. \A e \in grams : e \in i.grams /\ e[2] # id
  BY <1>4, <1>5 DEF RemoveFromIndex
<1>7. \A e \in i.grams : e[2] # id => e \in grams
  BY DEF RemoveFromIndex
<1>. HIDE DEF node
<1>8. -node.size \in Int
  BY <1>2 DEF Node
<1>. HIDE DEF id
<1>9. sized = i.nodes \/ Resized(i.nodes, sized)
  BY <1>1, <1>8, SizeFacts DEF Good
<1>. HIDE DEF sized, j, grams
<1>10. Tied(sized, i.lookup, i.tree, i.child, i.grams)
  BY <1>1, <1>9, ResizedTied
<1>11. /\ DOMAIN tree \subseteq DOMAIN i.tree \ {id}
       /\ \A d \in DOMAIN tree : tree[d] \subseteq i.tree[d]
  BY UnlinkWhere DEF Without
<1>. HIDE DEF tree
<1>12. Tied(Without(sized, {id}), Without(i.lookup, {p}), tree, Without(i.child, {id}), grams)
  BY <1>6, <1>7, <1>10, <1>11, WithoutTied
<1>. QED
  BY <1>3, <1>12 DEF TiedIndex, j, id

LEMMA RemoveTied ==
  ASSUME NEW i, IxInv(i), TiedIndex(i), NEW p, NEW isDir
  PROVE  TiedIndex(Remove(i, p, isDir))
<1>1. p \in DOMAIN i.lookup => i.lookup[p] \in DOMAIN i.nodes
  BY DEF IxInv, LookupsResolve
<1>. QED
  BY <1>1, RemoveDirTied, RemoveFileTied DEF Remove

-----------------------------------------------------------------------------
(* Names entered by hand.                                                  *)

LEMMA SaveNameTied ==
  ASSUME NEW i, IxInv(i), TiedIndex(i), NEW name \in Names, NEW t \in Int
  PROVE  TiedIndex(SaveName(i, name, t))
<1>. DEFINE id == SetRealID(i.lastID + 1, FALSE)
            node == InvalidNode(name, t)
            N == Put(i.nodes, id, node)
            G == AddToIndex(i.grams, name, id)
            j == SaveName(i, name, t)
<1>1. /\ Good(i.nodes, i.lookup, i.tree, i.child, i.grams, i.lastID)
      /\ Tied(i.nodes, i.lookup, i.tree, i.child, i.grams)
  BY GoodParts DEF IxInv, TiedIndex
<1>2. i.lastID \in Nat
  BY <1>1 DEF Good
<1>3. id \in Id /\ id[1] = i.lastID + 1 /\ id # NoId
  <2>1. \A b \in BOOLEAN : LET x == SetRealID(i.lastID + 1, b)
                           IN  x \in Id /\ x[1] = i.lastID + 1 /\ x # NoId
    BY <1>2, FreshId
  <2>. QED
    BY <2>1, Zenon
<1>4. \A x \in Id : x[1] \in Nat
  BY DEF Id
<1>5. node.name = name /\ node.invalid
  BY DEF InvalidNode
<1>6. j.nodes = N /\ j.lookup = i.lookup /\ j.tree = i.tree /\ j.child = i.child /\ j.grams = G
  BY RecordIsIndex DEF SaveName
<1>. HIDE DEF id, node, j
<1>7. id \notin DOMAIN i.nodes
  BY <1>1, <1>2, <1>3, <1>4 DEF Good, NodesType
<1>8. \A d \in DOMAIN i.tree : id \notin i.tree[d]
  <2>1. \A d \in DOMAIN i.tree : \A c \in i.tree[d] : c \in Id /\ c[1] =< i.lastID
    BY <1>1 DEF Good, IdSets, ChildrenProper
  <2>. QED
    BY <1>2, <1>3, <2>1
<1>9. /\ DOMAIN N = DOMAIN i.nodes \cup {id} /\ N[id] = node
      /\ \A x \in DOMAIN i.nodes : N[x] = i.nodes[x]
  BY <1>7 DEF Put
<1>10. G = i.grams \cup (NameGrams(name) \X {id})
  BY DEF AddToIndex
<1>. HIDE DEF N, G
<1>11. Proper(N) = Proper(i.nodes)
  BY <1>5, <1>7, <1>9 DEF Proper
<1>12. NamesMatch(N)
  BY <1>1, <1>9, <1>11 DEF Tied, NamesMatch, Proper
<1>13. GramsOwned(N, G)
  BY <1>1, <1>3, <1>5, <1>9, <1>10 DEF Tied, GramsOwned
<1>14. HeldFound(N, i.lookup, i.tree, G)
  <2>1. ~Held(i.lookup, i.tree, id)
    BY <1>1, <1>7, <1>8 DEF Held, Good
  <2>. QED
    BY <1>1, <1>9, <1>10, <2>1 DEF Tied, HeldFound
<1>15. ChildrenMatch(N, i.child)
  BY <1>1, <1>9, <1>11 DEF Tied, ChildrenMatch, Proper
<1>16. TreeHeads(N, i.tree) /\ TreeParents(N, i.tree)
  BY <1>1, <1>8, <1>9, <1>11 DEF Tied, TreeFits, TreeHeads, TreeParents
<1>17. TreePaths(N, i.tree)
  <2>1. \A d \in DOMAIN i.tree : IsDir(d) => d \in DOMAIN i.nodes
    BY <1>1, NoIdFile DEF Tied, TreeFits, TreeHeads, Proper
  <2>. QED
    BY <1>1, <1>8, <1>9, <2>1 DEF Tied, TreeFits, TreePaths, Below
<1>18. Tied(N, i.lookup, i.tree, i.child, G)
  BY <1>12, <1>13, <1>14, <1>15, <1>16, <1>17 DEF Tied, TreeFits
<1>. QED
  BY <1>6, <1>18 DEF TiedIndex, j

LEMMA DeleteInvalidTied ==
  ASSUME NEW i, IxInv(i), TiedIndex(i), NEW id
  PROVE  TiedIndex(DeleteInvalid(i, id))
<1>1. CASE ~(id \in DOMAIN i.nodes /\ i.nodes[id].invalid)
  BY <1>1 DEF DeleteInvalid
<1>2. CASE id \in DOMAIN i.nodes /\ i.nodes[id].invalid
  <2>. DEFINE N == Without(i.nodes, {id})
              G == RemoveFromIndex(i.grams, i.nodes[id].name, id)
              j == DeleteInvalid(i, id)
  <2>1. /\ Good(i.nodes, i.lookup, i.tree, i.child, i.grams, i.lastID)
        /\ Tied(i.nodes, i.lookup, i.tree, i.child, i.grams)
    BY GoodParts DEF IxInv, TiedIndex
  <2>2. j.nodes = N /\ j.lookup = i.lookup /\ j.tree = i.tree /\ j.child = i.child /\ j.grams = G
    BY <1>2, RecordIsIndex DEF DeleteInvalid
  <2>3. DOMAIN N = DOMAIN i.nodes \ {id} /\ \A x \in DOMAIN N : N[x] = i.nodes[x]
    BY DEF Without
  <2>4. \A e \in i.grams : e[1] \in NameGrams(i.nodes[e[2]].name) /\ e = <<e[1], e[2]>>
    BY <2>1 DEF Good, Tied, GramsOwned
  <2>5. \A e : e \in G <=> e \in i.grams /\ e[2] # id
    BY <2>4 DEF RemoveFromIndex
  <2>6. Proper(N) = Proper(i.nodes)
    BY <1>2, <2>3 DEF Proper
  <2>. HIDE DEF N, G, j
  <2>7. NamesMatch(N)
    BY <2>1, <2>3, <2>6 DEF Tied, NamesMatch, Proper
  <2>8. GramsOwned(N, G)
    BY <2>1, <2>3, <2>5 DEF Tied, GramsOwned
  <2>9. HeldFound(N, i.lookup, i.tree, G)
    <3>. SUFFICES ASSUME NEW x \in DOMAIN N, Held(i.lookup, i.tree, x), NEW g \in NameGrams(N[x].name)
                  PROVE  <<g, x>> \in G
      BY DEF HeldFound
    <3>1. <<g, x>> \in i.grams
      BY <2>1, <2>3 DEF Tied, HeldFound
    <3>. QED
      BY <2>3, <2>5, <3>1
  <2>10. ChildrenMatch(N, i.child)
    BY <2>1, <2>3, <2>6 DEF Tied, ChildrenMatch, Proper
  <2>11. TreeHeads(N, i.tree) /\ TreeParents(N, i.tree)
    BY <2>1, <2>3, <2>6 DEF Tied, TreeFits, TreeHeads, TreeParents
  <2>12. TreePaths(N, i.tree)
    BY <2>1, <2>3 DEF Tied, TreeFits, TreePaths, Below
  <2>13. Tied(N, i.lookup, i.tree, i.child, G)
    BY <2>7, <2>8, <2>9, <2>10, <2>11, <2>12 DEF Tied, TreeFits
  <2>. QED
    BY <2>2, <2>13 DEF TiedIndex, j
<1>. QED
  BY <1>1, <1>2

LEMMA EmptyTied == TiedIndex(EmptyIndex)
<1>1. Tied(<< >>, << >>, << >>, << >>, {})
  BY DEF Tied, NamesMatch, GramsOwned, HeldFound, ChildrenMatch, Proper,
         TreeFits, TreeHeads, TreeParents, TreePaths
<1>. QED
  BY <1>1, RecordIsIndex DEF EmptyIndex, TiedIndex

-----------------------------------------------------------------------------
(* RenameNode.                                                             *)

\* renameChild visits the child sets of the directory and of every directory
\* it visits, and nothing else.
LEMMA RenamedFacts ==
  ASSUME NEW T, NEW id
  PROVE  LET moved == Renamed(T, id)
             From(d, c) == d \in DOMAIN T /\ IsDir(d) /\ c \in T[d]
         IN  /\ \A d \in moved \cup {id} : \A c : From(d, c) => c \in moved
             /\ \A c \in moved : \E d \in moved \cup {id} : From(d, c)
             /\ \A S : /\ \A c : From(id, c) => c \in S
                       /\ \A d \in S : \A c : From(d, c) => c \in S
                       => moved \subseteq S
<1>. DEFINE kids == UNION {T[x] : x \in DOMAIN T}
            all == DOMAIN T \cup kids \cup {id}
            succ == [x \in all |-> IF IsDir(x) THEN At(T, x) ELSE {}]
            From(d, c) == d \in DOMAIN T /\ IsDir(d) /\ c \in T[d]
            moved == Renamed(T, id)
<1>1. CASE ~IsDir(id)
  <2>1. moved = {}
    BY <1>1 DEF Renamed
  <2>. QED
    BY <1>1, <2>1
<1>2. CASE IsDir(id)
  <2>1. moved = Reach(At(T, id), succ)
    BY <1>2 DEF Renamed
  <2>2. \A x : At(T, x) \subseteq kids /\ \A c : c \in At(T, x) <=> x \in DOMAIN T /\ c \in T[x]
    BY DEF At
  <2>3. kids \subseteq all /\ \A d, c : From(d, c) => d \in all /\ c \in all
    OBVIOUS
  <2>. HIDE DEF kids, all
  <2>4. /\ DOMAIN succ = all
        /\ \A d \in all : \A c : c \in succ[d] <=> From(d, c)
    BY <2>2
  <2>5. At(T, id) \subseteq DOMAIN succ /\ \A y \in DOMAIN succ : succ[y] \subseteq DOMAIN succ
    BY <2>2, <2>3, <2>4
  <2>6. \A c : c \in At(T, id) <=> From(id, c)
    BY <1>2, <2>2
  <2>. HIDE DEF succ, From, moved
  <2>7. /\ At(T, id) \subseteq moved /\ moved \subseteq all
        /\ \A y \in moved : succ[y] \subseteq moved
        /\ \A x \in moved : x \in At(T, id) \/ \E y \in moved : x \in succ[y]
    BY <2>1, <2>4, <2>5, ReachFacts
  <2>8. \A d \in moved \cup {id} : \A c : From(d, c) => c \in moved
    BY <2>4, <2>6, <2>7
  <2>9. \A c \in moved : \E d \in moved \cup {id} : From(d, c)
    BY <2>4, <2>6, <2>7
  <2>10. ASSUME NEW S, \A c : From(id, c) => c \in S, \A d \in S : \A c : From(d, c) => c \in S
         PROVE  moved \subseteq S
    <3>. DEFINE R == S \cap all
    <3>1. R \subseteq DOMAIN succ /\ At(T, id) \subseteq R /\ \A y \in R : succ[y] \subseteq R
      BY <2>3, <2>4, <2>5, <2>6, <2>10
    <3>. HIDE DEF R
    <3>2. moved \subseteq R
      BY <2>1, <3>1, ReachWithin
    <3>. QED
      BY <3>2 DEF R
  <2>. QED
    BY <2>8, <2>9, <2>10 DEF From, moved
<1>. QED
  BY <1>1, <1>2

\* After Detach nothing holds the node and no n-gram finds it.
LEMMA DetachTied ==
  ASSUME NEW i, IxInv(i), TiedIndex(i), NEW old, old \in DOMAIN i.lookup
  PROVE  LET id == i.lookup[old]
             off == Detach(i, id, old)
         IN  /\ TiedIndex(off)
             /\ id \in Proper(off.nodes)
             /\ off.nodes[id].path = old
             /\ ~Held(off.lookup, off.tree, id)
             /\ \A e \in off.grams : e[2] # id
<1>. DEFINE id == i.lookup[old]
            node == i.nodes[id]
            L == Without(i.lookup, {old})
            G == RemoveFromIndex(i.grams, Base(old), id)
            M == UpsertParentSize(i.nodes, i.child, id, -node.size)
            T == Unlink(i.tree, node.parent, id)
            off == Detach(i, id, old)
<1>1. /\ Good(i.nodes, i.lookup, i.tree, i.child, i.grams, i.lastID)
      /\ Tied(i.nodes, i.lookup, i.tree, i.child, i.grams)
  BY GoodParts DEF IxInv, TiedIndex
<1>2. /\ id \in Proper(i.nodes) /\ node \in Node /\ node.path = old
      /\ id \in DOMAIN i.nodes \ {NoId}
  BY <1>1 DEF Good, NodesType, Proper
<1>3. node.name = Base(old)
  BY <1>1, <1>2 DEF Tied, NamesMatch
<1>4. off.nodes = M /\ off.lookup = L /\ off.tree = T /\ off.child = i.child /\ off.grams = G
  BY RecordIsIndex DEF Detach
<1>5. \A p \in DOMAIN L : p \in DOMAIN i.lookup /\ L[p] = i.lookup[p] /\ p # old
  BY DEF Without
<1>6. \A p \in DOMAIN i.lookup : i.nodes[i.lookup[p]].path = p
  BY <1>1 DEF Good
<1>7. \A p \in DOMAIN L : L[p] # id
  BY <1>2, <1>5, <1>6
<1>8. \A d \in DOMAIN i.tree : id \in i.tree[d] => d = node.parent
  BY <1>1, <1>2 DEF Tied, TreeFits, TreeParents
<1>9. /\ DOMAIN T = DOMAIN i.tree /\ \A d \in DOMAIN T : T[d] \subseteq i.tree[d] /\ id \notin T[d]
  BY <1>8, UnlinkWhere
<1>10. \A e \in i.grams : e[1] \in NameGrams(i.nodes[e[2]].name) /\ e = <<e[1], e[2]>>
  BY <1>1 DEF Good, Tied, GramsOwned
<1>11. \A e : e \in G <=> e \in i.grams /\ e[2] # id
  BY <1>3, <1>10 DEF RemoveFromIndex
<1>. HIDE DEF node, L, T, G, off
<1>12. -node.size \in Int
  BY <1>2 DEF Node
<1>. HIDE DEF id
<1>13. Resized(i.nodes, M)
  BY <1>1, <1>12, SizeFacts DEF Good
<1>. HIDE DEF M
<1>14. Tied(i.nodes, L, T, i.child, G)
  <2>1. GramsOwned(i.nodes, G)
    BY <1>1, <1>11 DEF Tied, GramsOwned
  <2>2. HeldFound(i.nodes, L, T, G)
    <3>. SUFFICES ASSUME NEW x \in DOMAIN i.nodes, Held(L, T, x), NEW g \in NameGrams(i.nodes[x].name)
                  PROVE  <<g, x>> \in G
      BY DEF HeldFound
    <3>1. x # id /\ Held(i.lookup, i.tree, x)
      BY <1>5, <1>7, <1>9 DEF Held
    <3>2. <<g, x>> \in i.grams
      BY <1>1, <3>1 DEF Tied, HeldFound
    <3>. QED
      BY <1>11, <3>1, <3>2
  <2>3. TreeFits(i.nodes, T)
    BY <1>1, <1>9 DEF Tied, TreeFits, TreeHeads, TreeParents, TreePaths
  <2>. QED
    BY <1>1, <2>1, <2>2, <2>3 DEF Tied
<1>15. \A d \in DOMAIN T : \A c \in T[d] : c # NoId
  BY <1>1, <1>9 DEF Good, ChildrenProper
<1>16. Good(i.nodes, L, T, i.child, G, i.lastID)
  <2>1. IdSets(T) /\ ChildrenProper(i.nodes, T, i.lastID)
    BY <1>1, <1>9 DEF Good, IdSets, ChildrenProper
  <2>2. G \subseteq Grams \X Id
    BY <1>1, <1>11 DEF Good
  <2>. QED
    BY <1>1, <1>5, <2>1, <2>2 DEF Good
<1>17. Tied(M, L, T, i.child, G)
  BY <1>13, <1>14, <1>16, ResizedTied
<1>18. id \in Proper(M) /\ M[id].path = old
  BY <1>2, <1>13 DEF Resized, SameButSize, Proper, node
<1>19. ~Held(L, T, id)
  BY <1>7, <1>9 DEF Held
<1>20. \A e \in G : e[2] # id
  BY <1>11
<1>. QED
  BY <1>4, <1>17, <1>18, <1>19, <1>20 DEF off, id, TiedIndex

\* Everything renameChild visits lay below the old path, so the node itself is
\* not visited and neither is its new parent.
LEMMA MovedBelow ==
  ASSUME NEW N, NEW L, NEW T, NEW C, NEW G, NEW n, Good(N, L, T, C, G, n), Tied(N, L, T, C, G),
         NEW id \in Proper(N), ~Held(L, T, id),
         NEW old \in Path, N[id].path = old, NEW new \in Path, new # <<>>,
         ~IsPrefix(old, new), Dir(new) \in DOMAIN L
  PROVE  LET parent == L[Dir(new)]
             moved == Renamed(Link(T, parent, id), id)
         IN  /\ Len(new) > 1
             /\ parent # id /\ parent \in Proper(N) /\ N[parent].path = Dir(new)
             /\ id \notin moved /\ parent \notin moved
             /\ \A c \in moved \cap DOMAIN N : /\ IsPrefix(old, N[c].path)
                                               /\ Len(N[c].path) > Len(old)
<1>. DEFINE parent == L[Dir(new)]
            T3 == Link(T, parent, id)
            moved == Renamed(T3, id)
            From(d, c) == d \in DOMAIN T3 /\ IsDir(d) /\ c \in T3[d]
            S == {c \in moved : c # id /\ (c \in DOMAIN N => /\ IsPrefix(old, N[c].path)
                                                            /\ Len(N[c].path) > Len(old))}
<1>1. parent # id /\ parent \in Proper(N) /\ N[parent].path = Dir(new)
  BY DEF Good, Held, Proper
<1>2. Len(new) > 1
  <2>1. Dir(new) # <<>>
    BY <1>1 DEF Tied, NamesMatch
  <2>2. Len(new) \in Nat /\ Len(new) # 0
    BY EmptySeq DEF Path
  <2>3. Len(new) = 1 => Dir(new) = <<>>
    BY DEF Dir, Path
  <2>4. Len(new) # 1
    BY <2>1, <2>3
  <2>5. \A k \in Nat : k # 0 /\ k # 1 => k > 1
    OBVIOUS
  <2>. QED
    BY <2>2, <2>4, <2>5, Zenon
<1>3. ~IsPrefix(old, Dir(new))
  BY <1>2, PrefixOfDir
<1>4. \A x \in DOMAIN N : N[x].path \in Path
  BY DEF Good, NodesType, Node
<1>5. IsPrefix(old, old)
  BY PrefixElements DEF Path
<1>. HIDE DEF parent
<1>6. \A x \in DOMAIN T3 : \A y \in T3[x] :
        (x = parent /\ y = id) \/ (x \in DOMAIN T /\ y \in T[x])
  BY LinkWhere
<1>. HIDE DEF T3
<1>7. /\ \A d \in moved \cup {id} : \A c : From(d, c) => c \in moved
      /\ \A R : /\ \A c : From(id, c) => c \in R
                /\ \A d \in R : \A c : From(d, c) => c \in R
                => moved \subseteq R
  BY RenamedFacts
<1>. HIDE DEF moved
<1>8. ASSUME NEW d, NEW c, From(d, c), d # parent,
             d \in DOMAIN N => IsPrefix(old, N[d].path)
      PROVE  c # id /\ (c \in DOMAIN N => IsPrefix(old, N[c].path) /\ Len(N[c].path) > Len(old))
  <2>1. d \in DOMAIN T /\ c \in T[d] /\ IsDir(d)
    BY <1>6, <1>8
  <2>2. c # id
    BY <2>1 DEF Held
  <2>3. d \in DOMAIN N
    BY <2>1, NoIdFile DEF Tied, TreeFits, TreeHeads, Proper
  <2>4. ASSUME c \in DOMAIN N
        PROVE  IsPrefix(old, N[c].path) /\ Len(N[c].path) > Len(old)
    <3>1. Len(N[c].path) > 1 /\ Dir(N[c].path) = N[d].path
      BY <2>1, <2>3, <2>4 DEF Tied, TreeFits, TreePaths, Below
    <3>2. N[c].path \in Path /\ IsPrefix(old, Dir(N[c].path))
      BY <1>4, <1>8, <2>3, <2>4, <3>1
    <3>. QED
      BY <3>1, <3>2, PrefixOfDir
  <2>. QED
    BY <2>2, <2>4
<1>9. \A c : From(id, c) => c \in S
  <2>. SUFFICES ASSUME NEW c, From(id, c) PROVE c \in S
    OBVIOUS
  <2>1. c \in moved
    BY <1>7
  <2>2. c # id /\ (c \in DOMAIN N => IsPrefix(old, N[c].path) /\ Len(N[c].path) > Len(old))
    <3>. HIDE DEF From
    <3>. QED
      BY <1>1, <1>5, <1>8
  <2>. QED
    BY <2>1, <2>2
<1>10. \A d \in S : \A c : From(d, c) => c \in S
  <2>. SUFFICES ASSUME NEW d \in S, NEW c, From(d, c) PROVE c \in S
    OBVIOUS
  <2>1. c \in moved
    BY <1>7
  <2>2. d # parent
    BY <1>1, <1>3 DEF Proper
  <2>3. c # id /\ (c \in DOMAIN N => IsPrefix(old, N[c].path) /\ Len(N[c].path) > Len(old))
    <3>. HIDE DEF From
    <3>. QED
      BY <1>8, <2>2
  <2>. QED
    BY <2>1, <2>3
<1>11. moved \subseteq S
  <2>. HIDE DEF S, From
  <2>. QED
    BY <1>7, <1>9, <1>10
<1>12. parent \notin moved
  BY <1>1, <1>3, <1>11 DEF Proper
<1>. QED
  BY <1>1, <1>2, <1>11, <1>12 DEF parent, T3, moved

\* The three stages of a move, as facts about the maps before and after: the
\* node held by nothing, its new place and what moves with it, the maps that
\* say so.
Loose(N, L, T, C, G, n, id, old) ==
  /\ Good(N, L, T, C, G, n) /\ Tied(N, L, T, C, G)
  /\ id \in Proper(N) /\ ~Held(L, T, id) /\ \A e \in G : e[2] # id
  /\ old \in Path /\ N[id].path = old

Seated(N, T, id, old, new, parent, T3, moved) ==
  /\ new \in Path /\ new # <<>> /\ Len(new) > 1
  /\ parent \in Proper(N) /\ parent # id /\ N[parent].path = Dir(new)
  /\ DOMAIN T3 = DOMAIN T \cup {parent}
  /\ \A x \in DOMAIN T3 : \A y \in T3[x] :
       (x = parent /\ y = id) \/ (x \in DOMAIN T /\ y \in T[x])
  /\ moved = Renamed(T3, id) /\ moved \subseteq DOMAIN N
  /\ id \notin moved /\ parent \notin moved
  /\ \A c \in moved : IsPrefix(old, N[c].path) /\ Len(N[c].path) > Len(old)

Repathed(N, L, C, G, id, old, new, parent, moved, N3, L3, C3, G3) ==
  /\ DOMAIN N3 = DOMAIN N
  /\ N3[id].path = new /\ N3[id].name = Base(new)
  /\ N3[id].parent = parent /\ ~N3[id].invalid
  /\ \A x \in DOMAIN N \ {id} :
       /\ N3[x].name = N[x].name /\ N3[x].parent = N[x].parent
       /\ N3[x].invalid = N[x].invalid
       /\ N3[x].path = IF x \in moved THEN Rebase(N[x].path, old, new) ELSE N[x].path
  /\ \A q \in DOMAIN L3 : L3[q] \in moved \cup {id} \/ (q \in DOMAIN L /\ L3[q] = L[q])
  /\ DOMAIN C3 = DOMAIN C \cup {id} /\ C3[id] = parent
  /\ \A x \in DOMAIN C \ {id} : C3[x] = C[x]
  /\ G3 = G \cup (NameGrams(Base(new)) \X {id})

\* The node under its new parent, everything below it under the new path.
LEMMA MovedTied ==
  ASSUME NEW N, NEW L, NEW T, NEW C, NEW G, NEW n, NEW id, NEW old, NEW new, NEW parent,
         NEW T3, NEW moved, NEW N3, NEW L3, NEW C3, NEW G3,
         Loose(N, L, T, C, G, n, id, old),
         Seated(N, T, id, old, new, parent, T3, moved),
         Repathed(N, L, C, G, id, old, new, parent, moved, N3, L3, C3, G3)
  PROVE  Tied(N3, L3, T3, C3, G3)
<1>. USE DEF Loose, Seated, Repathed
<1>. DEFINE From(d, c) == d \in DOMAIN T3 /\ IsDir(d) /\ c \in T3[d]
<1>1. parent \in Proper(N) /\ parent # id /\ Len(new) > 1 /\ N[parent].path = Dir(new)
      /\ id \notin moved /\ parent \notin moved
      /\ \A c \in moved \cap DOMAIN N : IsPrefix(old, N[c].path) /\ Len(N[c].path) > Len(old)
  OBVIOUS
<1>2. /\ DOMAIN T3 = DOMAIN T \cup {parent}
      /\ \A x \in DOMAIN T3 : \A y \in T3[x] :
           (x = parent /\ y = id) \/ (x \in DOMAIN T /\ y \in T[x])
  OBVIOUS
<1>3. /\ \A d \in moved \cup {id} : \A c : From(d, c) => c \in moved
      /\ \A c \in moved : \E d \in moved \cup {id} : From(d, c)
  BY RenamedFacts
<1>4. /\ DOMAIN C3 = DOMAIN C \cup {id} /\ C3[id] = parent
      /\ \A x \in DOMAIN C \ {id} : C3[x] = C[x]
  OBVIOUS
<1>5. G3 = G \cup (NameGrams(Base(new)) \X {id})
  OBVIOUS
<1>6. id \in DOMAIN N \ {NoId} /\ ~N[id].invalid
  BY DEF Proper
<1>7. Proper(N3) = Proper(N)
  BY <1>6 DEF Proper
<1>8. \A c \in moved : \A d \in DOMAIN T : c \in T[d] => d \in moved \cup {id}
  <2>. SUFFICES ASSUME NEW c \in moved, NEW d \in DOMAIN T, c \in T[d]
                PROVE  d \in moved \cup {id}
    OBVIOUS
  <2>1. PICK e \in moved \cup {id} : From(e, c)
    BY <1>3
  <2>2. e \in DOMAIN T /\ c \in T[e]
    BY <1>1, <1>2, <2>1
  <2>3. N[c].parent = d /\ N[c].parent = e
    BY <2>2 DEF Tied, TreeFits, TreeParents
  <2>. QED
    BY <2>1, <2>3
<1>9. \A c \in moved : \E d \in DOMAIN T : c \in T[d]
  BY <1>1, <1>2, <1>3
<1>10. \A x \in DOMAIN N : N[x].path \in Path
  BY DEF Good, NodesType, Node
<1>11. \A c \in moved : /\ Len(N[c].path) > 1 => /\ N3[c].path # <<>> /\ Len(N3[c].path) > 1
                                                /\ Base(N3[c].path) = Base(N[c].path)
                                                /\ Dir(N3[c].path) = Rebase(Dir(N[c].path), old, new)
  <2>. SUFFICES ASSUME NEW c \in moved, Len(N[c].path) > 1
                PROVE  /\ N3[c].path # <<>> /\ Len(N3[c].path) > 1
                       /\ Base(N3[c].path) = Base(N[c].path)
                       /\ Dir(N3[c].path) = Rebase(Dir(N[c].path), old, new)
    OBVIOUS
  <2>1. N3[c].path = Rebase(N[c].path, old, new) /\ N[c].path \in Path /\ Len(N[c].path) > Len(old)
    BY <1>1, <1>10
  <2>. QED
    BY <2>1, RebaseBelow
<1>12. \A c \in moved : Len(N[c].path) > 1
  <2>. SUFFICES ASSUME NEW c \in moved PROVE Len(N[c].path) > 1
    OBVIOUS
  <2>1. Len(N[c].path) > Len(old)
    BY <1>1
  <2>2. Len(old) \in Nat /\ Len(old) # 0 /\ Len(N[c].path) \in Nat
    <3>1. old # <<>>
      BY DEF Tied, NamesMatch
    <3>. QED
      BY <1>10, <3>1, EmptySeq DEF Path
  <2>. QED
    BY <2>1, <2>2
<1>. HIDE DEF From
<1>13. NamesMatch(N3)
  <2>. SUFFICES ASSUME NEW x \in Proper(N)
                PROVE  N3[x].path # <<>> /\ N3[x].name = Base(N3[x].path)
    BY <1>7 DEF NamesMatch
  <2>1. N[x].path # <<>> /\ N[x].name = Base(N[x].path) /\ x \in DOMAIN N
    BY DEF Tied, NamesMatch, Proper
  <2>2. CASE x = id
    BY <2>2
  <2>3. CASE x \in moved
    BY <1>1, <1>11, <1>12, <2>1, <2>3
  <2>4. CASE x # id /\ x \notin moved
    BY <2>1, <2>4
  <2>. QED
    BY <2>2, <2>3, <2>4
<1>14. GramsOwned(N3, G3)
  BY <1>5, <1>6 DEF Tied, GramsOwned
<1>15. HeldFound(N3, L3, T3, G3)
  <2>. SUFFICES ASSUME NEW x \in DOMAIN N, Held(L3, T3, x)
                PROVE  NameGrams(N3[x].name) \X {x} \subseteq G3
    BY DEF HeldFound
  <2>1. CASE x = id
    BY <1>5, <2>1
  <2>2. CASE x # id
    <3>1. Held(L, T, x)
      BY <1>2, <1>9, <2>2 DEF Held
    <3>2. NameGrams(N[x].name) \X {x} \subseteq G
      BY <3>1 DEF Tied, HeldFound
    <3>. QED
      BY <1>5, <2>2, <3>2
  <2>. QED
    BY <2>1, <2>2
<1>16. ChildrenMatch(N3, C3)
  BY <1>4, <1>6, <1>7 DEF Tied, ChildrenMatch, Proper
<1>17. TreeHeads(N3, T3)
  BY <1>1, <1>2, <1>7 DEF Tied, TreeFits, TreeHeads
<1>18. TreeParents(N3, T3)
  <2>. SUFFICES ASSUME NEW d \in DOMAIN T3, NEW c \in T3[d], c \in DOMAIN N
                PROVE  N3[c].parent = d
    BY DEF TreeParents
  <2>1. CASE c = id
    BY <1>2, <2>1 DEF Held
  <2>2. CASE c # id
    BY <1>2, <2>2 DEF Tied, TreeFits, TreeParents
  <2>. QED
    BY <2>1, <2>2
<1>19. TreePaths(N3, T3)
  <2>. SUFFICES ASSUME NEW d \in DOMAIN T3, NEW c \in T3[d], d \in DOMAIN N, IsDir(d), c \in DOMAIN N
                PROVE  Below(N3, c, d)
    BY DEF TreePaths
  <2>1. CASE c = id
    <3>1. d = parent
      BY <1>2, <2>1 DEF Held
    <3>2. N3[d].path = Dir(new)
      BY <1>1, <3>1
    <3>. QED
      BY <1>1, <2>1, <3>2 DEF Below
  <2>2. CASE c # id
    <3>1. d \in DOMAIN T /\ c \in T[d]
      BY <1>2, <2>2
    <3>2. Len(N[c].path) > 1 /\ Dir(N[c].path) = N[d].path
      BY <3>1 DEF Tied, TreeFits, TreePaths, Below
    <3>3. CASE c \in moved
      <4>1. d \in moved \cup {id}
        BY <1>8, <3>1, <3>3
      <4>2. Len(N3[c].path) > 1 /\ Dir(N3[c].path) = Rebase(N[d].path, old, new)
        BY <1>11, <3>2, <3>3
      <4>3. N3[d].path = Rebase(N[d].path, old, new)
        BY <1>1, <4>1, RebaseSelf
      <4>. QED
        BY <4>2, <4>3 DEF Below
    <3>4. CASE c \notin moved
      <4>1. d \notin moved /\ d # id
        BY <1>3, <3>4 DEF From
      <4>. QED
        BY <2>2, <3>2, <3>4, <4>1 DEF Below
    <3>. QED
      BY <3>3, <3>4
  <2>. QED
    BY <2>1, <2>2
<1>. QED
  BY <1>13, <1>14, <1>15, <1>16, <1>17, <1>18, <1>19 DEF Tied, TreeFits

\* j is off after the three stages: the node held by nothing, placed, and the
\* maps rewritten but for the sizes above it.
Moves(off, j, id, old, new) ==
  \E parent, moved, N3 :
    /\ Loose(off.nodes, off.lookup, off.tree, off.child, off.grams, off.lastID, id, old)
    /\ Seated(off.nodes, off.tree, id, old, new, parent, j.tree, moved)
    /\ Repathed(off.nodes, off.lookup, off.child, off.grams, id, old, new, parent, moved,
                 N3, j.lookup, j.child, j.grams)
    /\ \E n : Good(N3, j.lookup, j.tree, j.child, j.grams, n)
    /\ Resized(N3, j.nodes)

\* Whatever RenameNode answers is the index itself, the index with the node
\* detached, or that after a move.
LEMMA RenameShape ==
  ASSUME NEW i, IxInv(i), TiedIndex(i), NEW old \in Path, NEW new \in Path, new # <<>>,
         ~IsPrefix(old, new), NEW t \in Int, NEW j \in RenameNode(i, old, new, t)
  PROVE  \/ j = i
         \/ /\ old \in DOMAIN i.lookup
            /\ LET off == Detach(i, i.lookup[old], old)
               IN  j = off \/ Moves(off, j, i.lookup[old], old, new)
<1>1. CASE old \notin DOMAIN i.lookup
  BY <1>1 DEF RenameNode
<1>2. CASE old \in DOMAIN i.lookup
  <2>. DEFINE id == i.lookup[old]
              off == Detach(i, id, old)
              on == Attach(off, id, new, t)
              moved == Renamed(on.tree, id)
  <2>1. /\ IxInv(off) /\ TiedIndex(off)
        /\ id \in DOMAIN off.nodes \ {NoId} /\ id \in Proper(off.nodes)
        /\ ~off.nodes[id].invalid
        /\ off.nodes[id].path = old
        /\ \A p \in DOMAIN off.lookup : off.lookup[p] # id
        /\ ~Held(off.lookup, off.tree, id)
        /\ \A e \in off.grams : e[2] # id
    BY <1>2, DetachInv, DetachTied
  <2>2. \/ j = off
        \/ /\ Dir(new) \in DOMAIN off.lookup
           /\ ~SliceFails(on, moved, old)
           /\ j \in {Settle(r, id) : r \in MovePaths(on, moved, old, new)}
    BY <1>2, Zenon DEF RenameNode
  <2>3. ASSUME Dir(new) \in DOMAIN off.lookup, ~SliceFails(on, moved, old),
               NEW r \in MovePaths(on, moved, old, new)
        PROVE  Moves(off, Settle(r, id), id, old, new)
    <3>. HIDE DEF off, id
    <3>. DEFINE parent == off.lookup[Dir(new)]
                node == [off.nodes[id] EXCEPT !.parent = parent, !.mtime = t,
                                              !.path = new, !.name = Base(new)]
                target == [c \in moved |-> Rebase(on.nodes[c].path, old, new)]
                kept == Without(on.lookup, {on.nodes[c].path : c \in moved})
                N3 == [x \in DOMAIN on.nodes |-> IF x \in moved
                         THEN [on.nodes[x] EXCEPT !.path = target[x]] ELSE on.nodes[x]]
                G3 == AddToIndex(off.grams, Base(new), id)
                M == UpsertParentSize(r.nodes, r.child, id, r.nodes[id].size)
    <3>1. /\ Good(off.nodes, off.lookup, off.tree, off.child, off.grams, off.lastID)
          /\ Tied(off.nodes, off.lookup, off.tree, off.child, off.grams)
      BY <2>1, GoodParts DEF IxInv, TiedIndex
    <3>2. /\ on.nodes = [off.nodes EXCEPT ![id] = node]
          /\ on.lookup = Put(off.lookup, new, id)
          /\ on.tree = Link(off.tree, parent, id)
          /\ on.child = Put(off.child, id, parent)
          /\ on.grams = off.grams
      BY RecordIsIndex DEF Attach
    <3>3. off.nodes[id] \in Node
      BY <2>1, <3>1 DEF Good, NodesType
    <3>. HIDE DEF parent
    <3>4. node.path = new /\ node.name = Base(new) /\ node.parent = parent /\ ~node.invalid
      BY <2>1, <3>3 DEF Node
    <3>. HIDE DEF node
    <3>5. IxInv(on) /\ id \in DOMAIN on.nodes
      BY <2>1, <2>3, AttachInv
    <3>. HIDE DEF on
    <3>6. /\ DOMAIN on.nodes = DOMAIN off.nodes /\ on.nodes[id] = node
          /\ \A x \in DOMAIN off.nodes \ {id} : on.nodes[x] = off.nodes[x]
      BY <2>1, <3>2
    <3>7. moved \subseteq DOMAIN on.nodes
      BY <2>3 DEF SliceFails
    <3>8. \A c \in moved : c \in DOMAIN on.nodes \ {NoId} /\ ~on.nodes[c].invalid
      <4>1. ChildrenProper(on.nodes, on.tree, on.lastID)
        BY <3>5 DEF IxInv, Counted
      <4>2. moved \subseteq UNION {on.tree[x] : x \in DOMAIN on.tree}
        BY RenamedAreChildren
      <4>. QED
        BY <3>7, <4>1, <4>2 DEF ChildrenProper
    <3>9. IxInv(r) /\ DOMAIN r.nodes = DOMAIN on.nodes
      BY <2>3, <3>5, <3>8, MovePathsInv
    <3>10. /\ Len(new) > 1
           /\ parent # id /\ parent \in Proper(off.nodes) /\ off.nodes[parent].path = Dir(new)
           /\ id \notin moved /\ parent \notin moved
           /\ \A c \in moved \cap DOMAIN off.nodes :
                IsPrefix(old, off.nodes[c].path) /\ Len(off.nodes[c].path) > Len(old)
      BY <2>1, <2>3, <3>1, <3>2, MovedBelow DEF parent
    <3>. HIDE DEF moved
    <3>11. PICK own \in [{target[c] : c \in moved} -> moved] :
             r = [on EXCEPT !.nodes = N3,
                            !.lookup = [q \in DOMAIN kept \cup DOMAIN own |->
                               IF q \in DOMAIN own THEN own[q] ELSE kept[q]]]
      BY <2>3, Zenon DEF MovePaths
    <3>. DEFINE L3 == [q \in DOMAIN kept \cup DOMAIN own |->
                         IF q \in DOMAIN own THEN own[q] ELSE kept[q]]
    <3>12. \A q \in DOMAIN L3 : L3[q] \in moved \cup {id}
                                \/ (q \in DOMAIN off.lookup /\ L3[q] = off.lookup[q])
      <4>1. \A q \in DOMAIN kept : q \in DOMAIN on.lookup /\ kept[q] = on.lookup[q]
        BY DEF Without
      <4>2. \A q \in DOMAIN on.lookup : on.lookup[q] = id \/ (q \in DOMAIN off.lookup /\ on.lookup[q] = off.lookup[q])
        BY <3>2 DEF Put
      <4>3. \A q \in DOMAIN own : own[q] \in moved
        OBVIOUS
      <4>. HIDE DEF kept
      <4>. QED
        BY <4>1, <4>2, <4>3
    <3>13. \A x \in DOMAIN off.nodes \ {id} :
             /\ N3[x].name = off.nodes[x].name /\ N3[x].parent = off.nodes[x].parent
             /\ N3[x].invalid = off.nodes[x].invalid
             /\ N3[x].path = IF x \in moved THEN Rebase(off.nodes[x].path, old, new)
                                            ELSE off.nodes[x].path
      <4>1. \A x \in DOMAIN off.nodes : off.nodes[x] \in Node
        BY <3>1 DEF Good, NodesType
      <4>2. \A x \in DOMAIN off.nodes \ {id} : N3[x] = IF x \in moved
              THEN [off.nodes[x] EXCEPT !.path = Rebase(off.nodes[x].path, old, new)]
              ELSE off.nodes[x]
        BY <3>6
      <4>3. \A k \in Node : \A p : LET m == [k EXCEPT !.path = p]
                                   IN  /\ m.name = k.name /\ m.parent = k.parent
                                       /\ m.invalid = k.invalid /\ m.path = p
        BY DEF Node
      <4>. HIDE DEF N3
      <4>. TAKE x \in DOMAIN off.nodes \ {id}
      <4>4. CASE x \in moved
        <5>. DEFINE m == [off.nodes[x] EXCEPT !.path = Rebase(off.nodes[x].path, old, new)]
        <5>1. N3[x] = m
          BY <4>2, <4>4
        <5>2. /\ m.name = off.nodes[x].name /\ m.parent = off.nodes[x].parent
              /\ m.invalid = off.nodes[x].invalid /\ m.path = Rebase(off.nodes[x].path, old, new)
          BY <4>1, <4>3, Zenon
        <5>. HIDE DEF m
        <5>. QED
          BY <4>4, <5>1, <5>2
      <4>5. CASE x \notin moved
        BY <4>2, <4>5
      <4>. QED
        BY <4>4, <4>5
    <3>14. N3[id] = node /\ DOMAIN N3 = DOMAIN off.nodes
      BY <3>5, <3>6, <3>10
    <3>15. r = [on EXCEPT !.nodes = N3, !.lookup = L3]
      BY <3>11, Zenon
    <3>. HIDE DEF N3, L3
    <3>16. r = [nodes |-> N3, lookup |-> L3, tree |-> on.tree, child |-> on.child,
                grams |-> on.grams, lastID |-> on.lastID]
      BY <3>5, <3>15 DEF IxInv, IsIndex
    <3>17. /\ r.nodes = N3 /\ r.lookup = L3 /\ r.tree = on.tree
           /\ r.child = on.child /\ r.grams = on.grams
      BY <3>16, RecordIsIndex
    <3>18. /\ Loose(off.nodes, off.lookup, off.tree, off.child, off.grams, off.lastID, id, old)
           /\ Seated(off.nodes, off.tree, id, old, new, parent, on.tree, moved)
           /\ Repathed(off.nodes, off.lookup, off.child, off.grams, id, old, new, parent, moved,
                        N3, L3, on.child, G3)
      <4>1. Loose(off.nodes, off.lookup, off.tree, off.child, off.grams, off.lastID, id, old)
        BY <2>1, <3>1 DEF Loose
      <4>2. Seated(off.nodes, off.tree, id, old, new, parent, on.tree, moved)
        <5>1. moved = Renamed(on.tree, id)
          BY DEF moved
        <5>2. /\ DOMAIN on.tree = DOMAIN off.tree \cup {parent}
              /\ \A x \in DOMAIN on.tree : \A y \in on.tree[x] :
                   (x = parent /\ y = id) \/ (x \in DOMAIN off.tree /\ y \in off.tree[x])
          <6>. DEFINE K == Link(off.tree, parent, id)
          <6>1. /\ DOMAIN K = DOMAIN off.tree \cup {parent}
                /\ \A x \in DOMAIN K : \A y \in K[x] :
                     (x = parent /\ y = id) \/ (x \in DOMAIN off.tree /\ y \in off.tree[x])
            BY LinkWhere
          <6>2. on.tree = K
            BY <3>2
          <6>. HIDE DEF K
          <6>. QED
            BY <6>1, <6>2
        <5>3. \A c \in moved : /\ IsPrefix(old, off.nodes[c].path)
                               /\ Len(off.nodes[c].path) > Len(old)
          BY <3>6, <3>7, <3>10
        <5>. QED
          BY <3>6, <3>7, <3>10, <5>1, <5>2, <5>3 DEF Seated
      <4>3. Repathed(off.nodes, off.lookup, off.child, off.grams, id, old, new, parent, moved,
                      N3, L3, on.child, G3)
        <5>1. /\ DOMAIN on.child = DOMAIN off.child \cup {id} /\ on.child[id] = parent
              /\ \A x \in DOMAIN off.child \ {id} : on.child[x] = off.child[x]
          BY <3>2 DEF Put
        <5>2. G3 = off.grams \cup (NameGrams(Base(new)) \X {id})
          BY DEF AddToIndex
        <5>. HIDE DEF G3
        <5>. QED
          BY <3>4, <3>12, <3>13, <3>14, <5>1, <5>2 DEF Repathed
      <4>. QED
        BY <4>1, <4>2, <4>3
    <3>19. Good(r.nodes, r.lookup, r.tree, r.child, r.grams, r.lastID)
      BY <3>9, GoodParts DEF IxInv
    <3>20. id \in Id /\ r.nodes[id].size \in Int
      BY <3>5, <3>9, <3>19 DEF Good, NodesType, Node
    <3>21. Good(N3, L3, on.tree, on.child, G3, r.lastID)
      <4>1. G3 \subseteq Grams \X Id
        BY <3>1, <3>20, GramsType DEF Good
      <4>. HIDE DEF G3
      <4>. QED
        BY <3>17, <3>19, <4>1 DEF Good
    <3>22. Resized(r.nodes, M)
      BY <3>19, <3>20, SizeFacts DEF Good
    <3>. HIDE DEF G3, M
    <3>23. r.nodes[id].name = Base(new)
      BY <3>4, <3>14, <3>17
    <3>24. LET k == Settle(r, id)
           IN  k.nodes = M /\ k.lookup = r.lookup /\ k.tree = r.tree
               /\ k.child = r.child /\ k.grams = G3
      BY <3>2, <3>17, <3>23, RecordIsIndex DEF Settle, M, G3
    <3>. DEFINE k == Settle(r, id)
    <3>25. k.nodes = M /\ k.lookup = L3 /\ k.tree = on.tree /\ k.child = on.child /\ k.grams = G3
      BY <3>17, <3>24
    <3>. HIDE DEF k
    <3>26. /\ Seated(off.nodes, off.tree, id, old, new, parent, k.tree, moved)
           /\ Repathed(off.nodes, off.lookup, off.child, off.grams, id, old, new, parent, moved,
                        N3, k.lookup, k.child, k.grams)
           /\ Good(N3, k.lookup, k.tree, k.child, k.grams, r.lastID)
           /\ Resized(N3, k.nodes)
      BY <3>17, <3>18, <3>21, <3>22, <3>25
    <3>27. Moves(off, k, id, old, new)
      BY <3>18, <3>26, Zenon DEF Moves
    <3>. QED
      BY <3>27 DEF k
  <2>. HIDE DEF off, id, on, moved
  <2>4. j = off \/ Moves(off, j, id, old, new)
    BY <2>2, <2>3, Zenon
  <2>. QED
    BY <1>2, <2>4 DEF off, id
<1>. QED
  BY <1>1, <1>2

LEMMA RenameTied ==
  ASSUME NEW i, IxInv(i), TiedIndex(i), NEW old \in Path, NEW new \in Path, new # <<>>,
         ~IsPrefix(old, new), NEW t \in Int, NEW j \in RenameNode(i, old, new, t)
  PROVE  TiedIndex(j)
<1>1. CASE j = i
  BY <1>1
<1>2. CASE old \in DOMAIN i.lookup /\ j # i
  <2>. DEFINE id == i.lookup[old]
              off == Detach(i, id, old)
  <2>1. TiedIndex(off)
    BY <1>2, DetachTied
  <2>2. j = off \/ Moves(off, j, id, old, new)
    BY <1>2, RenameShape
  <2>. HIDE DEF off, id
  <2>3. ASSUME Moves(off, j, id, old, new)
        PROVE  TiedIndex(j)
    <3>1. PICK parent, moved, N3 :
            /\ Loose(off.nodes, off.lookup, off.tree, off.child, off.grams, off.lastID, id, old)
            /\ Seated(off.nodes, off.tree, id, old, new, parent, j.tree, moved)
            /\ Repathed(off.nodes, off.lookup, off.child, off.grams, id, old, new, parent, moved,
                         N3, j.lookup, j.child, j.grams)
            /\ \E n : Good(N3, j.lookup, j.tree, j.child, j.grams, n)
            /\ Resized(N3, j.nodes)
      BY <2>3, Zenon DEF Moves
    <3>2. Tied(N3, j.lookup, j.tree, j.child, j.grams)
      BY <3>1, MovedTied
    <3>. QED
      BY <3>1, <3>2, ResizedTied DEF TiedIndex
  <2>. QED
    BY <2>1, <2>2, <2>3
<1>. QED
  BY <1>1, <1>2, RenameShape

-----------------------------------------------------------------------------
(* Kinds.  Where a path only ever has one kind, K[p], every node has the   *)
(* kind of its path and only directories have child sets: then a search    *)
(* down child sets is a search down paths.                                 *)

KindsFit(N, T, K) ==
  /\ \A x \in Proper(N) : K[N[x].path] = IsDir(x)
  /\ \A d \in DOMAIN T : d = NoId \/ IsDir(d)

LEMMA ResizedKinds ==
  \A N, M, T, K : KindsFit(N, T, K) /\ Resized(N, M) => KindsFit(M, T, K)
<1>. SUFFICES ASSUME NEW N, NEW M, NEW T, NEW K, KindsFit(N, T, K), Resized(N, M)
              PROVE  \A x \in Proper(M) : K[M[x].path] = IsDir(x)
  BY DEF KindsFit
<1>1. \A x \in Proper(M) : x \in Proper(N) /\ M[x].path = N[x].path
  BY DEF Resized, SameButSize, Proper
<1>. QED
  BY <1>1 DEF KindsFit

LEMMA InsertKinds ==
  ASSUME NEW i, IxInv(i), TiedIndex(i), NEW K, KindsFit(i.nodes, i.tree, K),
         NEW p \in Path, p # <<>>, NEW b \in BOOLEAN, NEW s \in Int, NEW t \in Int,
         K[p] = b, Len(p) > 1 => K[Dir(p)]
  PROVE  LET j == Insert(i, p, b, s, t)
         IN  KindsFit(j.nodes, j.tree, K) /\ DOMAIN i.nodes \subseteq DOMAIN j.nodes
<1>. DEFINE id == SetRealID(i.lastID + 1, b)
            parent == LookupId(i, Dir(p))
            node == NewNode(parent, p, s, t)
            N == Put(i.nodes, id, node)
            T == Link(i.tree, parent, id)
            j == Insert(i, p, b, s, t)
<1>1. /\ Good(i.nodes, i.lookup, i.tree, i.child, i.grams, i.lastID)
      /\ Tied(i.nodes, i.lookup, i.tree, i.child, i.grams)
  BY GoodParts DEF IxInv, TiedIndex
<1>2. IsDir(id) = b
  BY DEF IsDir, SetRealID
<1>3. node.path = p
  BY DEF NewNode
<1>4. parent # NoId => /\ parent \in Proper(i.nodes)
                       /\ i.nodes[parent].path = Dir(p)
  BY <1>1 DEF Good, LookupId, Proper
<1>5. j.nodes = N /\ j.tree = T
  BY RecordIsIndex DEF Insert
<1>. HIDE DEF id, parent, node, j
<1>6. parent = NoId \/ IsDir(parent)
  <2>. SUFFICES ASSUME parent # NoId PROVE IsDir(parent)
    OBVIOUS
  <2>1. Dir(p) # <<>>
    BY <1>1, <1>4 DEF Tied, NamesMatch
  <2>2. Len(p) \in Nat \ {0}
    BY DEF Path
  <2>3. Len(p) = 1 => Dir(p) = <<>>
    BY DEF Dir, Path
  <2>4. Len(p) # 1
    BY <2>1, <2>3
  <2>5. \A k \in Nat \ {0} : k # 1 => k > 1
    OBVIOUS
  <2>6. K[Dir(p)] = IsDir(parent)
    BY <1>4 DEF KindsFit
  <2>. QED
    BY <2>2, <2>4, <2>5, <2>6, Zenon
<1>7. DOMAIN i.nodes \subseteq DOMAIN N /\ \A x \in DOMAIN N : IF x = id THEN N[x] = node ELSE x \in DOMAIN i.nodes /\ N[x] = i.nodes[x]
  BY DEF Put
<1>8. DOMAIN T = DOMAIN i.tree \cup {parent}
  BY LinkWhere
<1>. HIDE DEF N, T
<1>9. \A x \in Proper(N) : K[N[x].path] = IsDir(x)
  BY <1>2, <1>3, <1>7 DEF KindsFit, Proper
<1>10. \A d \in DOMAIN T : d = NoId \/ IsDir(d)
  BY <1>6, <1>8 DEF KindsFit
<1>. QED
  BY <1>5, <1>7, <1>9, <1>10 DEF KindsFit, j

LEMMA UpsertKinds ==
  ASSUME NEW i, IxInv(i), TiedIndex(i), NEW K, KindsFit(i.nodes, i.tree, K),
         NEW p \in Path, p # <<>>, NEW info,
         info.dir \in BOOLEAN, info.size \in Int, info.mtime \in Int,
         K[p] = info.dir, Len(p) > 1 => K[Dir(p)]
  PROVE  LET j == Upsert(i, p, info)
         IN  KindsFit(j.nodes, j.tree, K) /\ DOMAIN i.nodes \subseteq DOMAIN j.nodes
<1>. DEFINE k == Insert(i, p, info.dir, info.size, info.mtime)
            j == Upsert(i, p, info)
<1>1. IF p \in DOMAIN i.lookup THEN OnlySizes(i, j) ELSE OnlySizes(k, j)
  BY UpsertShape
<1>2. KindsFit(k.nodes, k.tree, K) /\ DOMAIN i.nodes \subseteq DOMAIN k.nodes
  BY InsertKinds
<1>. HIDE DEF k, j
<1>3. KindsFit(j.nodes, j.tree, K) /\ DOMAIN i.nodes \subseteq DOMAIN j.nodes
  BY <1>1, <1>2, ResizedKinds DEF OnlySizes, Resized
<1>. QED
  BY <1>3 DEF j

LEMMA UpsertDirKinds ==
  ASSUME NEW i, IxInv(i), TiedIndex(i), NEW K, KindsFit(i.nodes, i.tree, K),
         NEW p \in Path, p # <<>>, NEW t \in Int, K[p] = TRUE, Len(p) > 1 => K[Dir(p)]
  PROVE  LET j == UpsertDir(i, p, t)
         IN  KindsFit(j.nodes, j.tree, K) /\ DOMAIN i.nodes \subseteq DOMAIN j.nodes
<1>. DEFINE k == Insert(i, p, TRUE, 0, t)
            j == UpsertDir(i, p, t)
<1>1. IF p \in DOMAIN i.lookup THEN OnlySizes(i, j) ELSE j = k
  BY UpsertDirShape
<1>. DEFINE Fits(n) == KindsFit(n.nodes, n.tree, K) /\ DOMAIN i.nodes \subseteq DOMAIN n.nodes
<1>2. ASSUME NEW b \in BOOLEAN, K[p] = b
      PROVE  Fits(Insert(i, p, b, 0, t))
  <2>1. 0 \in Int
    OBVIOUS
  <2>. QED
    BY <1>2, <2>1, InsertKinds, Zenon
<1>. HIDE DEF Fits
<1>3. Fits(k)
  BY <1>2, Zenon
<1>. HIDE DEF k, j
<1>4. KindsFit(j.nodes, j.tree, K) /\ DOMAIN i.nodes \subseteq DOMAIN j.nodes
  BY <1>1, <1>3, ResizedKinds DEF OnlySizes, Resized, Fits
<1>. QED
  BY <1>4 DEF j

\* Fewer nodes and fewer child sets, and no path of a kept node changed.
LEMMA FewerKinds ==
  \A N, T, M, T2, K :
    /\ KindsFit(N, T, K)
    /\ DOMAIN M \subseteq DOMAIN N /\ \A x \in DOMAIN M : M[x] = N[x]
    /\ DOMAIN T2 \subseteq DOMAIN T
    => KindsFit(M, T2, K)
  BY DEF KindsFit, Proper

\* Where kinds are fixed, walkDelete stays below the path of the directory it
\* starts from.
LEMMA WalkBelow ==
  ASSUME NEW i, IxInv(i), TiedIndex(i), NEW K, KindsFit(i.nodes, i.tree, K),
         NEW id \in Proper(i.nodes)
  PROVE  /\ id \in WalkDeleted(i, id)
         /\ \A x \in WalkDeleted(i, id) \cap DOMAIN i.nodes :
              IsPrefix(i.nodes[id].path, i.nodes[x].path)
<1>. DEFINE kids == UNION {i.tree[x] : x \in DOMAIN i.tree}
            all == DOMAIN i.tree \cup kids \cup {id}
            succ == [x \in all |-> IF x \in DOMAIN i.nodes THEN At(i.tree, x) ELSE {}]
            gone == WalkDeleted(i, id)
            top == i.nodes[id].path
            S == {x \in all : x # NoId /\ (x \in DOMAIN i.nodes => IsPrefix(top, i.nodes[x].path))}
<1>1. /\ Good(i.nodes, i.lookup, i.tree, i.child, i.grams, i.lastID)
      /\ Tied(i.nodes, i.lookup, i.tree, i.child, i.grams)
  BY GoodParts DEF IxInv, TiedIndex
<1>2. gone = Reach({id}, succ)
  BY DEF WalkDeleted
<1>3. \A x : At(i.tree, x) \subseteq kids /\ \A c : c \in At(i.tree, x) <=> x \in DOMAIN i.tree /\ c \in i.tree[x]
  BY DEF At
<1>4. kids \subseteq all /\ id \in all
  OBVIOUS
<1>5. \A x \in DOMAIN i.nodes : i.nodes[x].path \in Path
  BY <1>1 DEF Good, NodesType, Node
<1>6. top \in Path /\ IsPrefix(top, top) /\ id \in DOMAIN i.nodes /\ id # NoId
  BY <1>5, PrefixElements DEF Proper, Path
<1>7. \A d \in DOMAIN i.tree : \A c \in i.tree[d] : c # NoId
  BY <1>1 DEF Good, ChildrenProper
<1>. HIDE DEF kids, all, gone, top
<1>8. DOMAIN succ = all /\ \A y \in all : succ[y] \subseteq all
  BY <1>3, <1>4
<1>9. \A y \in all : \A c : c \in succ[y] => /\ y \in DOMAIN i.nodes
                                             /\ y \in DOMAIN i.tree /\ c \in i.tree[y]
  BY <1>3
<1>. HIDE DEF succ
<1>10. id \in gone
  BY <1>2, <1>4, <1>8, ReachFacts
<1>11. ASSUME NEW y \in S, NEW c \in succ[y]
       PROVE  c \in S
  <2>1. /\ y \in all /\ y # NoId /\ y \in DOMAIN i.nodes /\ y \in DOMAIN i.tree /\ c \in i.tree[y]
        /\ IsPrefix(top, i.nodes[y].path) /\ c \in all
    BY <1>8, <1>9
  <2>2. IsDir(y) /\ c # NoId
    BY <1>7, <2>1 DEF KindsFit
  <2>3. ASSUME c \in DOMAIN i.nodes
        PROVE  IsPrefix(top, i.nodes[c].path)
    <3>1. Len(i.nodes[c].path) > 1 /\ Dir(i.nodes[c].path) = i.nodes[y].path
      BY <1>1, <2>1, <2>2, <2>3 DEF Tied, TreeFits, TreePaths, Below
    <3>2. i.nodes[c].path \in Path /\ IsPrefix(top, Dir(i.nodes[c].path))
      BY <1>5, <2>1, <2>3, <3>1
    <3>. QED
      BY <1>6, <3>1, <3>2, PrefixOfDir
  <2>. QED
    BY <2>1, <2>2, <2>3
<1>12. S \subseteq DOMAIN succ /\ {id} \subseteq S
  BY <1>4, <1>6, <1>8 DEF top
<1>. HIDE DEF S
<1>13. gone \subseteq S
  BY <1>2, <1>11, <1>12, ReachWithin
<1>. QED
  BY <1>10, <1>13 DEF S, gone, top

\* The nodes a step takes away all lie at or below p.
LostBelow(i, j, p) ==
  \A x \in DOMAIN i.nodes \ DOMAIN j.nodes : IsPrefix(p, i.nodes[x].path)

LEMMA RemoveKinds ==
  ASSUME NEW i, IxInv(i), TiedIndex(i), NEW K, KindsFit(i.nodes, i.tree, K), NEW p, NEW isDir
  PROVE  LET j == Remove(i, p, isDir) IN KindsFit(j.nodes, j.tree, K) /\ LostBelow(i, j, p)
<1>. DEFINE id == i.lookup[p]
            node == i.nodes[id]
            j == Remove(i, p, isDir)
<1>1. Good(i.nodes, i.lookup, i.tree, i.child, i.grams, i.lastID)
  BY GoodParts DEF IxInv
<1>2. CASE p \notin DOMAIN i.lookup
  BY <1>2 DEF Remove, LostBelow
<1>3. ASSUME p \in DOMAIN i.lookup
      PROVE  /\ id \in Proper(i.nodes) /\ node \in Node /\ -node.size \in Int
             /\ node.path = p /\ IsPrefix(p, p)
  <2>1. id \in Proper(i.nodes) /\ node \in Node /\ node.path = p
    BY <1>1, <1>3 DEF Good, NodesType, Proper
  <2>2. \A q \in Path : IsPrefix(q, q)
    BY PrefixElements DEF Path
  <2>. HIDE DEF node
  <2>. QED
    BY <2>1, <2>2 DEF Node
<1>4. CASE p \in DOMAIN i.lookup /\ isDir
  <2>. DEFINE gone == WalkDeleted(i, id)
              sized == UpsertParentSize(i.nodes, i.child, id, -node.size)
              M == Without(sized, gone)
              T == Without(i.tree, gone)
  <2>1. j = RemoveDir(i, id)
    BY <1>4 DEF Remove
  <2>2. j.nodes = M /\ j.tree = T
    BY <2>1, RecordIsIndex DEF RemoveDir
  <2>3. Resized(i.nodes, sized)
    BY <1>1, <1>3, <1>4, SizeFacts DEF Good
  <2>4. /\ id \in gone
        /\ \A x \in gone \cap DOMAIN i.nodes : IsPrefix(node.path, i.nodes[x].path)
    BY <1>3, <1>4, WalkBelow
  <2>5. node.path = p
    BY <1>3, <1>4
  <2>. HIDE DEF id, node, gone, sized, j
  <2>6. DOMAIN M = DOMAIN sized \ gone /\ \A x \in DOMAIN M : M[x] = sized[x]
    BY DEF Without
  <2>7. DOMAIN T \subseteq DOMAIN i.tree
    BY DEF Without
  <2>. HIDE DEF M, T
  <2>8. KindsFit(M, T, K)
    BY <2>3, <2>6, <2>7, ResizedKinds, FewerKinds
  <2>9. LostBelow(i, j, p)
    BY <2>2, <2>3, <2>4, <2>5, <2>6 DEF LostBelow, Resized
  <2>. QED
    BY <2>2, <2>8, <2>9 DEF j
<1>5. CASE p \in DOMAIN i.lookup /\ ~isDir
  <2>. DEFINE sized == IF node.parent \in DOMAIN i.tree
                       THEN UpsertParentSize(i.nodes, i.child, id, -node.size)
                       ELSE i.nodes
              M == Without(sized, {id})
              T == Without(Unlink(i.tree, node.parent, id), {id})
  <2>1. j = RemoveFile(i, id, p)
    BY <1>5 DEF Remove
  <2>2. j.nodes = M /\ j.tree = T
    BY <2>1, RecordIsIndex DEF RemoveFile
  <2>3. Resized(i.nodes, sized) \/ sized = i.nodes
    BY <1>1, <1>3, <1>5, SizeFacts DEF Good
  <2>4. DOMAIN T \subseteq DOMAIN i.tree
    BY UnlinkWhere DEF Without
  <2>. HIDE DEF id, sized, j, T
  <2>5. DOMAIN M = DOMAIN sized \ {id} /\ \A x \in DOMAIN M : M[x] = sized[x]
    BY DEF Without
  <2>. HIDE DEF M
  <2>6. KindsFit(M, T, K)
    BY <2>3, <2>4, <2>5, ResizedKinds, FewerKinds
  <2>7. DOMAIN i.nodes \subseteq DOMAIN j.nodes \cup {id}
    BY <2>2, <2>3, <2>5 DEF Resized
  <2>8. LostBelow(i, j, p)
    BY <1>3, <1>5, <2>7 DEF LostBelow, id
  <2>. QED
    BY <2>2, <2>6, <2>8 DEF j
<1>. QED
  BY <1>2, <1>4, <1>5

LEMMA SaveNameKinds ==
  ASSUME NEW i, IxInv(i), NEW K, KindsFit(i.nodes, i.tree, K), NEW name, NEW t \in Int
  PROVE  LET j == SaveName(i, name, t)
         IN  KindsFit(j.nodes, j.tree, K) /\ DOMAIN i.nodes \subseteq DOMAIN j.nodes
<1>. DEFINE id == SetRealID(i.lastID + 1, FALSE)
            node == InvalidNode(name, t)
            M == Put(i.nodes, id, node)
            j == SaveName(i, name, t)
<1>1. j.nodes = M /\ j.tree = i.tree
  BY RecordIsIndex DEF SaveName
<1>2. node.invalid
  BY DEF InvalidNode
<1>. HIDE DEF id, node, j
<1>3. /\ DOMAIN i.nodes \subseteq DOMAIN M
      /\ \A x \in DOMAIN M : IF x = id THEN M[x] = node ELSE x \in DOMAIN i.nodes /\ M[x] = i.nodes[x]
  BY DEF Put
<1>. HIDE DEF M
<1>4. KindsFit(M, i.tree, K)
  BY <1>2, <1>3 DEF KindsFit, Proper
<1>. QED
  BY <1>1, <1>3, <1>4 DEF j

LEMMA DeleteInvalidKinds ==
  ASSUME NEW i, IxInv(i), NEW K, KindsFit(i.nodes, i.tree, K), NEW id
  PROVE  LET j == DeleteInvalid(i, id)
         IN  /\ KindsFit(j.nodes, j.tree, K)
             /\ \A x \in DOMAIN i.nodes \ DOMAIN j.nodes : i.nodes[x].invalid
<1>. DEFINE M == Without(i.nodes, {id})
            j == DeleteInvalid(i, id)
<1>1. CASE ~(id \in DOMAIN i.nodes /\ i.nodes[id].invalid)
  BY <1>1 DEF DeleteInvalid
<1>2. CASE id \in DOMAIN i.nodes /\ i.nodes[id].invalid
  <2>1. j.nodes = M /\ j.tree = i.tree
    BY <1>2, RecordIsIndex DEF DeleteInvalid
  <2>. HIDE DEF j
  <2>2. DOMAIN M = DOMAIN i.nodes \ {id} /\ \A x \in DOMAIN M : M[x] = i.nodes[x]
    BY DEF Without
  <2>. HIDE DEF M
  <2>3. KindsFit(M, i.tree, K)
    BY <2>2, FewerKinds
  <2>4. \A x \in DOMAIN i.nodes \ DOMAIN j.nodes : i.nodes[x].invalid
    BY <1>2, <2>1, <2>2
  <2>. QED
    BY <2>1, <2>3, <2>4 DEF j
<1>. QED
  BY <1>1, <1>2

\* A rename keeps kinds where the node has a kind its new path may have and
\* every path below the old one has the kind of the path it becomes.
LEMMA RenameKinds ==
  ASSUME NEW i, IxInv(i), TiedIndex(i), NEW K, KindsFit(i.nodes, i.tree, K),
         NEW old \in Path, NEW new \in Path, new # <<>>,
         ~IsPrefix(old, new), NEW t \in Int, NEW j \in RenameNode(i, old, new, t),
         old \in DOMAIN i.lookup => K[new] = IsDir(i.lookup[old]),
         Len(new) > 1 => K[Dir(new)],
         \A p \in Path : Len(p) > Len(old) /\ IsPrefix(old, p) => K[Rebase(p, old, new)] = K[p]
  PROVE  KindsFit(j.nodes, j.tree, K) /\ DOMAIN i.nodes \subseteq DOMAIN j.nodes
<1>. DEFINE id == i.lookup[old]
            off == Detach(i, id, old)
<1>1. Good(i.nodes, i.lookup, i.tree, i.child, i.grams, i.lastID)
  BY GoodParts DEF IxInv
<1>2. CASE j = i
  BY <1>2
<1>3. CASE old \in DOMAIN i.lookup /\ j # i
  <2>1. j = off \/ Moves(off, j, id, old, new)
    BY <1>3, RenameShape
  <2>2. KindsFit(off.nodes, off.tree, K) /\ DOMAIN i.nodes \subseteq DOMAIN off.nodes
    <3>. DEFINE node == i.nodes[id]
                M == UpsertParentSize(i.nodes, i.child, id, -node.size)
                T == Unlink(i.tree, node.parent, id)
    <3>1. off.nodes = M /\ off.tree = T
      BY RecordIsIndex DEF Detach
    <3>2. node \in Node
      BY <1>1, <1>3 DEF Good, NodesType
    <3>. HIDE DEF node
    <3>3. -node.size \in Int
      BY <3>2 DEF Node
    <3>. HIDE DEF id, off
    <3>4. Resized(i.nodes, M)
      BY <1>1, <3>3, SizeFacts DEF Good
    <3>5. DOMAIN T = DOMAIN i.tree
      BY UnlinkWhere
    <3>. HIDE DEF M, T
    <3>6. KindsFit(M, i.tree, K)
      BY <3>4, ResizedKinds
    <3>. QED
      BY <3>1, <3>4, <3>5, <3>6, FewerKinds DEF Resized
  <2>3. K[new] = IsDir(id)
    BY <1>3
  <2>. HIDE DEF id, off
  <2>4. ASSUME Moves(off, j, id, old, new)
        PROVE  KindsFit(j.nodes, j.tree, K) /\ DOMAIN off.nodes \subseteq DOMAIN j.nodes
    <3>1. PICK parent, moved, N3 :
            /\ Loose(off.nodes, off.lookup, off.tree, off.child, off.grams, off.lastID, id, old)
            /\ Seated(off.nodes, off.tree, id, old, new, parent, j.tree, moved)
            /\ Repathed(off.nodes, off.lookup, off.child, off.grams, id, old, new, parent, moved,
                         N3, j.lookup, j.child, j.grams)
            /\ Resized(N3, j.nodes)
      BY <2>4, Zenon DEF Moves
    <3>2. /\ Len(new) > 1 /\ parent \in Proper(off.nodes) /\ off.nodes[parent].path = Dir(new)
          /\ DOMAIN j.tree = DOMAIN off.tree \cup {parent}
          /\ \A c \in moved : /\ IsPrefix(old, off.nodes[c].path)
                              /\ Len(off.nodes[c].path) > Len(old)
      BY <3>1 DEF Seated
    <3>3. DOMAIN N3 = DOMAIN off.nodes /\ N3[id].path = new
      BY <3>1 DEF Repathed
    <3>4. \A x \in DOMAIN off.nodes \ {id} :
             /\ N3[x].invalid = off.nodes[x].invalid
             /\ N3[x].path = IF x \in moved THEN Rebase(off.nodes[x].path, old, new)
                                            ELSE off.nodes[x].path
      BY <3>1 DEF Repathed
    <3>5. \A x \in DOMAIN off.nodes : off.nodes[x].path \in Path
      BY <3>1 DEF Loose, Good, NodesType, Node
    <3>6. IsDir(parent)
      BY <2>2, <3>2 DEF KindsFit
    <3>7. ASSUME NEW x \in Proper(N3)
          PROVE  K[N3[x].path] = IsDir(x)
      <4>1. CASE x = id
        BY <2>3, <3>3, <4>1
      <4>2. CASE x # id
        <5>1. x \in Proper(off.nodes) /\ x \in DOMAIN off.nodes
          BY <3>3, <3>4, <4>2 DEF Proper
        <5>2. K[off.nodes[x].path] = IsDir(x)
          BY <2>2, <5>1 DEF KindsFit
        <5>3. CASE x \in moved
          <6>1. K[Rebase(off.nodes[x].path, old, new)] = K[off.nodes[x].path]
            BY <3>2, <3>5, <5>1, <5>3
          <6>. QED
            BY <3>4, <4>2, <5>1, <5>2, <5>3, <6>1
        <5>4. CASE x \notin moved
          BY <3>4, <4>2, <5>1, <5>2, <5>4
        <5>. QED
          BY <5>3, <5>4
      <4>. QED
        BY <4>1, <4>2
    <3>8. KindsFit(N3, j.tree, K)
      BY <2>2, <3>2, <3>6, <3>7 DEF KindsFit
    <3>. QED
      BY <3>1, <3>3, <3>8, ResizedKinds DEF Resized
  <2>. QED
    BY <2>1, <2>2, <2>4
<1>4. j = i \/ old \in DOMAIN i.lookup
  BY RenameShape
<1>. QED
  BY <1>2, <1>3, <1>4
=============================================================================
