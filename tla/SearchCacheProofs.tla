-------------------------- MODULE SearchCacheProofs --------------------------
(***************************************************************************)
(* The search cache for any names, n-grams and keys, and any number of     *)
(* searches and nodes: its reverse index, and what its results may miss.   *)
(*                                                                         *)
(* ReverseIndex is inductive by itself.  FreshUnlessRaced speaks of the    *)
(* moments when mu is free; Inv says of every moment what the handler that *)
(* holds mu has still to do about each difference between the nodes, the   *)
(* bitmaps, the results in the cache and those a search has in its hands.  *)
(***************************************************************************)
EXTENDS SearchCache, SequenceTheorems, FiniteSetTheorems, TLAPS

\* Induction: a set of naturals that is not empty has a least element.  From
\* the well-foundedness of strict inclusion on finite sets, through the
\* initial segments 1..n.
LEMMA LeastNat ==
  ASSUME NEW T, T \subseteq Nat, T # {}
  PROVE  \E n \in T : \A m \in T : n =< m
<1>. DEFINE R == StrictSubsetOrdering(Nat)
            F == FiniteSubsetsOf(Nat)
            I == {1..n : n \in T}
<1>1. IsWellFoundedOn(R, F)
  BY FS_StrictSubsetOrderingWellFounded
<1>2. I \subseteq F
  BY FS_Interval DEF FiniteSubsetsOf
<1>3. I # {}
  OBVIOUS
<1>. HIDE DEF R, F
<1>4. \E x \in I : \A y \in I : ~ (<<y, x>> \in R)
  BY <1>1, <1>2, <1>3, WFMin
<1>5. PICK n \in T : \A m \in T : ~ (<<1..m, 1..n>> \in R)
  BY <1>4
<1>6. ASSUME NEW m \in T, m < n
      PROVE  FALSE
  <2>1. /\ 1..m \subseteq 1..n /\ n \in 1..n /\ n \notin 1..m
        /\ 1..n \subseteq Nat /\ 1..m \subseteq Nat
    BY <1>6
  <2>. QED
    BY <1>5, <2>1 DEF R, StrictSubsetOrdering
<1>. QED
  BY <1>6

\* Dropping keys with their reverse entries keeps every other key reachable.
LEMMA UnlinkedKeeps ==
  ASSUME ReverseIndex, NEW dead, NEW k \in DOMAIN Uncached(dead),
         NEW id \in Uncached(dead)[k].ids
  PROVE  id \in DOMAIN Unlinked(dead) /\ k \in Unlinked(dead)[id]
<1>. DEFINE left == [x \in DOMAIN idToKeys |->
                       idToKeys[x] \ {q \in dead : x \in cache[q].ids}]
<1>1. k \in DOMAIN cache /\ k \notin dead /\ id \in cache[k].ids
  BY DEF Uncached, Without
<1>2. id \in DOMAIN idToKeys /\ k \in idToKeys[id]
  BY <1>1 DEF ReverseIndex
<1>3. id \in DOMAIN left /\ k \in left[id]
  BY <1>1, <1>2
<1>. QED
  BY <1>3 DEF Unlinked, Without

\* After InvalidateByID no result holds the id, so its entry may go too.
LEMMA ByIDKeeps ==
  ASSUME ReverseIndex, NEW id, InvalidateByID(id)
  PROVE  /\ ReverseIndex'
         /\ \A k \in DOMAIN cache' : id \notin cache'[k].ids
<1>. DEFINE dead == KeysOfID(id)
<1>1. cache' = Uncached(dead) /\ idToKeys' = Without(Unlinked(dead), {id})
  BY DEF InvalidateByID
<1>2. \A k \in DOMAIN Uncached(dead) : id \notin Uncached(dead)[k].ids
  <2>. SUFFICES ASSUME NEW k \in DOMAIN Uncached(dead), id \in Uncached(dead)[k].ids
                PROVE  FALSE
    OBVIOUS
  <2>1. k \in DOMAIN cache /\ k \notin dead /\ id \in cache[k].ids
    BY DEF Uncached, Without
  <2>2. k \in At(idToKeys, id)
    BY <2>1 DEF ReverseIndex, At
  <2>. QED
    BY <2>1, <2>2 DEF KeysOfID
<1>. HIDE DEF dead
<1>3. \A k \in DOMAIN Uncached(dead) : \A x \in Uncached(dead)[k].ids :
        x \in DOMAIN Unlinked(dead) /\ k \in Unlinked(dead)[x]
  BY UnlinkedKeeps
<1>. QED
  BY <1>1, <1>2, <1>3 DEF ReverseIndex, Without

LEMMA ByNewFileKeeps ==
  ASSUME ReverseIndex, NEW name, InvalidateByNewFile(name)
  PROVE  ReverseIndex'
<1>. DEFINE dead == KeysOfName(name)
<1>1. cache' = Uncached(dead) /\ idToKeys' = Unlinked(dead)
  BY DEF InvalidateByNewFile
<1>. HIDE DEF dead
<1>. QED
  BY <1>1, UnlinkedKeeps DEF ReverseIndex

\* Set adds the entries of its own result and sweeps only other keys.
LEMMA SetKeeps ==
  ASSUME ReverseIndex, NEW key, NEW ids, NEW raced, Set(key, ids, raced)
  PROVE  ReverseIndex'
<1>. DEFINE stored == Put(cache, key, [ids |-> ids, raced |-> raced])
            linked == Linked(key, ids)
            dead == IF sweepDue THEN aged \ {key} ELSE {}
            left == [id \in DOMAIN linked |-> linked[id] \ {k \in dead : id \in stored[k].ids}]
<1>1. cache' = Without(stored, dead)
      /\ idToKeys' = Without(left, {id \in DOMAIN left : left[id] = {}})
  BY DEF Set
<1>2. \A k \in DOMAIN stored : \A id \in stored[k].ids :
        id \in DOMAIN linked /\ k \in linked[id]
  <2>. SUFFICES ASSUME NEW k \in DOMAIN stored, NEW id \in stored[k].ids
                PROVE  id \in DOMAIN linked /\ k \in linked[id]
    OBVIOUS
  <2>1. CASE k = key
    <3>1. id \in ids
      BY <2>1 DEF Put
    <3>. QED
      BY <2>1, <3>1 DEF Linked
  <2>2. CASE k # key
    <3>1. k \in DOMAIN cache /\ id \in cache[k].ids
      BY <2>2 DEF Put
    <3>2. id \in DOMAIN idToKeys /\ k \in idToKeys[id]
      BY <3>1 DEF ReverseIndex
    <3>. QED
      BY <3>2 DEF Linked, At
  <2>. QED
    BY <2>1, <2>2
<1>. HIDE DEF stored, linked, dead
<1>3. \A k \in DOMAIN stored \ dead : \A id \in stored[k].ids :
        id \in DOMAIN left /\ k \in left[id]
  BY <1>2
<1>. HIDE DEF left
<1>. QED
  BY <1>1, <1>3 DEF ReverseIndex, Without

LEMMA InitReverse == Init => ReverseIndex
  BY DEF Init, ReverseIndex

LEMMA HandlerReverse == ReverseIndex /\ HandlerStep => ReverseIndex'
<1>. SUFFICES ASSUME ReverseIndex, HandlerStep
              PROVE  ReverseIndex'
  OBVIOUS
<1>1. CASE UNCHANGED <<cache, idToKeys>>
  BY <1>1 DEF ReverseIndex
<1>2. CASE \E id : InvalidateByID(id)
  BY <1>2, ByIDKeeps
<1>3. CASE \E name : InvalidateByNewFile(name)
  BY <1>3, ByNewFileKeeps
<1>. QED
  BY <1>1, <1>2, <1>3 DEF HandlerStep

LEMMA NextReverse == ReverseIndex /\ [Next]_vars => ReverseIndex'
<1>. SUFFICES ASSUME ReverseIndex, [Next]_vars
              PROVE  ReverseIndex'
  OBVIOUS
<1>1. CASE UNCHANGED <<cache, idToKeys>>
  BY <1>1 DEF ReverseIndex
<1>2. CASE HandlerStep
  BY <1>2, HandlerReverse
<1>3. ASSUME NEW s \in Searchers, Store(s)
      PROVE  ReverseIndex'
  BY <1>3, SetKeeps DEF Store
<1>4. HandlerStep \/ (\E s \in Searchers : Store(s)) \/ UNCHANGED <<cache, idToKeys>>
  BY DEF Next, Create, Touch, RenameCut, RemoveAll, Rename, Hit, Miss, SearchStep,
         Read, Split, Page, Expire, SweepComesDue, vars
<1>. QED
  BY <1>1, <1>2, <1>3, <1>4

\* In any interleaving of searches, handlers, expiry and sweeps, every id of
\* every cached result leads back to that result (file_index.go:169-272).
THEOREM ReverseIndexHolds == Spec => []ReverseIndex
  BY InitReverse, NextReverse, PTL DEF Spec

\* InvalidateByID leaves no cached result that holds the id (227-272).
THEOREM InvalidationReachesHolds == Spec => InvalidationReaches
<1>1. ReverseIndex /\ [Next]_vars =>
        [\A id \in 1..lastID : (HandlerStep /\ Head(todo) = ById(id)) =>
           \A k \in DOMAIN cache' : id \notin cache'[k].ids]_vars
  <2>. SUFFICES ASSUME ReverseIndex, NEW id \in 1..lastID, HandlerStep, Head(todo) = ById(id)
                PROVE  \A k \in DOMAIN cache' : id \notin cache'[k].ids
    OBVIOUS
  <2>1. InvalidateByID(id)
    BY DEF HandlerStep, ById
  <2>. QED
    BY <2>1, ByIDKeeps
<1>. QED
  BY <1>1, ReverseIndexHolds, PTL DEF Spec, InvalidationReaches

-----------------------------------------------------------------------------
(* FlattenSeq of the community modules concatenates from the left.         *)

\* The partial results exist, up to every length.
LEMMA FlattenExists ==
  ASSUME NEW n \in Nat, NEW ss
  PROVE  \E f : f = [i \in 1..n |-> IF i = 1 THEN ss[i] ELSE f[i-1] \o ss[i]]
<1>. DEFINE Is(f, m) == f = [i \in 1..m |-> IF i = 1 THEN ss[i] ELSE f[i-1] \o ss[i]]
            T == {m \in Nat : ~ \E f : Is(f, m)}
<1>1. SUFFICES T = {}
  OBVIOUS
<1>2. SUFFICES ASSUME T # {} PROVE FALSE
  OBVIOUS
<1>3. PICK m \in T : \A k \in T : m =< k
  BY <1>2, LeastNat, T \subseteq Nat
<1>4. m # 0
  <2>1. Is(<<>>, 0)
    OBVIOUS
  <2>. QED
    BY <2>1
<1>5. PICK f : Is(f, m-1)
  <2>1. m-1 \in Nat /\ ~ (m =< m-1)
    BY <1>4
  <2>2. m-1 \notin T
    BY <1>3, <2>1
  <2>. HIDE DEF Is
  <2>. QED
    BY <2>1, <2>2
<1>. DEFINE g == [i \in 1..m |-> IF i = m THEN IF i = 1 THEN ss[i] ELSE f[i-1] \o ss[i]
                                ELSE f[i]]
<1>6. Is(g, m)
  <2>. DEFINE h == [i \in 1..m |-> IF i = 1 THEN ss[i] ELSE g[i-1] \o ss[i]]
  <2>1. ASSUME NEW i \in 1..m PROVE g[i] = h[i]
    <3>1. CASE i = m
      BY <3>1, <1>4
    <3>2. CASE i # m
      <4>1. i \in 1..(m-1) /\ g[i] = f[i]
        BY <3>2, <1>4
      <4>2. f[i] = IF i = 1 THEN ss[i] ELSE f[i-1] \o ss[i]
        BY <1>5, <4>1
      <4>3. i # 1 => g[i-1] = f[i-1]
        BY <4>1
      <4>. QED
        BY <4>1, <4>2, <4>3
    <3>. QED
      BY <3>1, <3>2
  <2>. QED
    BY <2>1
<1>. QED
  BY <1>3, <1>6

\* A set of sequences closed under concatenation holds what it flattens to,
\* and nothing that is concatenated is lost.
LEMMA FlattenFacts ==
  ASSUME NEW A, NEW S \in SUBSET Seq(A), <<>> \in S, \A a, b \in S : a \o b \in S,
         NEW ss \in Seq(S)
  PROVE  /\ FlattenSeq(ss) \in S
         /\ \A j \in 1..Len(ss) : Range(ss[j]) \subseteq Range(FlattenSeq(ss))
<1>. DEFINE n == Len(ss)
            flatten[i \in 1..n] == IF i = 1 THEN ss[i] ELSE flatten[i-1] \o ss[i]
<1>0. n \in Nat /\ \A i \in 1..n : ss[i] \in S
  BY LenProperties, ElementOfSeq
<1>1. flatten = [i \in 1..n |-> IF i = 1 THEN ss[i] ELSE flatten[i-1] \o ss[i]]
  BY <1>0, FlattenExists
<1>2. CASE n = 0
  <2>1. ss = <<>>
    BY <1>2, EmptySeq
  <2>. QED
    BY <2>1, <1>2 DEF FlattenSeq
<1>3. CASE n # 0
  <2>1. FlattenSeq(ss) = flatten[n]
    BY <1>3 DEF FlattenSeq
  <2>. HIDE DEF flatten
  <2>. DEFINE Fine(i) == flatten[i] \in S /\ \A j \in 1..i : Range(ss[j]) \subseteq Range(flatten[i])
              T == {i \in 1..n : ~ Fine(i)}
  <2>2. SUFFICES T = {}
    <3>1. n \in 1..n
      BY <1>3, <1>0
    <3>2. Fine(n)
      BY <2>2, <3>1
    <3>. QED
      BY <2>1, <3>2
  <2>3. SUFFICES ASSUME T # {} PROVE FALSE
    OBVIOUS
  <2>4. PICK i \in T : \A k \in T : i =< k
    BY <2>3, LeastNat, T \subseteq Nat
  <2>5. CASE i = 1
    BY <2>4, <2>5, <1>0, <1>1
  <2>6. CASE i # 1
    <3>1. i \in 1..n /\ i-1 \in 1..n /\ ~ (i =< i-1)
      <4>. HIDE DEF Fine
      <4>. QED
        BY <2>6, <1>0
    <3>2. Fine(i-1)
      <4>. HIDE DEF Fine
      <4>. QED
        BY <3>1, <2>4
    <3>3. flatten[i] = flatten[i-1] \o ss[i]
      BY <1>1, <2>6, <3>1
    <3>4. flatten[i] \in S
      BY <3>2, <3>3, <3>1, <1>0
    <3>5. Range(flatten[i]) = Range(flatten[i-1]) \cup Range(ss[i])
      <4>1. flatten[i-1] \in Seq(A) /\ ss[i] \in Seq(A)
        BY <3>1, <3>2, <1>0
      <4>. QED
        BY <4>1, <3>3, RangeConcatenation
    <3>6. ASSUME NEW j \in 1..i PROVE Range(ss[j]) \subseteq Range(flatten[i])
      <4>1. j = i \/ j \in 1..(i-1)
        BY <3>1
      <4>2. \A k \in 1..(i-1) : Range(ss[k]) \subseteq Range(flatten[i-1])
        BY <3>2
      <4>. QED
        BY <4>1, <4>2, <3>5
    <3>. QED
      BY <3>4, <3>6, <2>4
  <2>. QED
    BY <2>5, <2>6
<1>. QED
  BY <1>2, <1>3

-----------------------------------------------------------------------------
(* What a cached result may miss.  Live(g, id) is what the bitmaps should  *)
(* say, Known and GramsOf what a handler has decided under mu; todo is     *)
(* what it has yet to carry out.                                           *)

Gram == UNION {Range(GramsOf[name]) : name \in Names}
Add(g, id) == <<"add", g, id>>
Del(g, id) == <<"del", g, id>>

Steps(n) ==
  ({"add", "del"} \X Gram \X (1..n)) \cup ({"byID"} \X (1..n)) \cup ({"byNewFile"} \X Names)

Asked == [pc : {"read", "split", "set"}, key : Keys, read : Nat,
          ids : SUBSET (1..lastID), raced : BOOLEAN]

\* A search has read some of its keywords, and all of them before it splits.
SearchTypes ==
  /\ DOMAIN search = Searchers
  /\ \A s \in Searchers :
       \/ search[s] \in [pc : {"idle", "page"}]
       \/ /\ search[s] \in Asked
          /\ IF search[s].pc = "read" THEN search[s].read < Len(search[s].key)
             ELSE search[s].read = Len(search[s].key)

\* TypeOK, and the types of what it leaves open.
Types ==
  /\ TypeOK
  /\ todo \in Seq(Steps(lastID)) /\ DOMAIN bitmap \subseteq Gram
  /\ \A k \in DOMAIN cache : cache[k] \in [ids : SUBSET (1..lastID), raced : BOOLEAN]
  /\ SearchTypes

Live(g, id) == id \in Known /\ g \in Range(GramsOf[node[id]])

\* Every e in s has an f behind it.
Before(e, f, s) ==
  \A i \in DOMAIN s : s[i] = e => \E j \in DOMAIN s : i < j /\ s[j] = f

\* Where a bitmap differs from what it should say, the handler will mend it.
BitmapsFollow ==
  \A g \in Gram, id \in 1..lastID :
    /\ Live(g, id) /\ id \notin At(bitmap, g) => Add(g, id) \in Range(todo)
    /\ id \in At(bitmap, g) /\ ~Live(g, id) => Del(g, id) \in Range(todo)
    /\ Add(g, id) \in Range(todo) => Live(g, id)
    /\ Live(g, id) => Before(Del(g, id), Add(g, id), todo)

\* A handler invalidates behind what it changes.
InvalidatesAfter ==
  \A g \in Gram, id \in 1..lastID :
    /\ id \notin cut => Before(Del(g, id), ById(id), todo)
    /\ id \in Known \ renamed => Before(Add(g, id), ByNewFile(node[id]), todo)

\* The nodes that match the first n keywords.
Found(key, n) == {id \in Known : \A i \in 1..n : key[i] \in Range(GramsOf[node[id]])}

\* ids is what the first n keywords should find, but for ids the handler has
\* still to invalidate and those it never will.
Fresh(key, n, ids) ==
  /\ \A id \in ids \ Found(key, n) : id \in cut \/ ById(id) \in Range(todo)
  /\ \A id \in Found(key, n) \ ids : id \in renamed \/ ByNewFile(node[id]) \in Range(todo)

CacheFresh ==
  \A k \in DOMAIN cache : ~cache[k].raced => Fresh(k, Len(k), cache[k].ids)

SearchFresh ==
  \A s \in InFlight : search[s].read > 0 /\ ~search[s].raced =>
    Fresh(search[s].key, search[s].read, search[s].ids)

Inv == Types /\ BitmapsFollow /\ InvalidatesAfter /\ CacheFresh /\ SearchFresh

-----------------------------------------------------------------------------
(* Sequences of steps.                                                     *)

LEMMA RangeOf == \A s, e : e \in Range(s) <=> \E i \in DOMAIN s : s[i] = e
  BY DEF Range

\* The head of a list is done, the tail is still to do in its order.
LEMMA TailFacts ==
  ASSUME NEW A, NEW s \in Seq(A), s # <<>>
  PROVE  /\ Range(s) = {Head(s)} \cup Range(Tail(s))
         /\ Tail(s) \in Seq(A) /\ Head(s) \in A
         /\ \A e, f : Before(e, f, s) =>
              Before(e, f, Tail(s)) /\ (Head(s) = e => f \in Range(Tail(s)))
<1>. DEFINE t == Tail(s)
<1>1. /\ t \in Seq(A) /\ Head(s) \in A /\ DOMAIN s = 1..Len(s) /\ DOMAIN t = 1..Len(t)
      /\ Len(s) \in Nat /\ Len(s) # 0 /\ Len(t) = Len(s) - 1
      /\ \A i \in 1..Len(t) : t[i] = s[i+1]
      /\ Head(s) = s[1]
  BY HeadTailProperties, LenProperties, EmptySeq
<1>. HIDE DEF t
<1>2. \A i \in 1..Len(s) : i = 1 \/ (i-1 \in 1..Len(t) /\ s[i] = t[i-1])
  BY <1>1
<1>3. Range(s) = {Head(s)} \cup Range(t)
  <2>1. ASSUME NEW e \in Range(s) PROVE e \in {Head(s)} \cup Range(t)
    BY <1>1, <1>2 DEF Range
  <2>2. ASSUME NEW e \in Range(t) PROVE e \in Range(s)
    <3>1. PICK i \in 1..Len(t) : t[i] = e
      BY <1>1 DEF Range
    <3>2. i+1 \in 1..Len(s) /\ s[i+1] = e
      BY <3>1, <1>1
    <3>. QED
      BY <3>2, <1>1 DEF Range
  <2>3. Head(s) \in Range(s)
    BY <1>1 DEF Range
  <2>. QED
    BY <2>1, <2>2, <2>3
<1>4. ASSUME NEW e, NEW f, Before(e, f, s)
      PROVE  Before(e, f, t) /\ (Head(s) = e => f \in Range(t))
  <2>1. ASSUME NEW i \in 1..Len(t), t[i] = e
        PROVE  \E j \in 1..Len(t) : i < j /\ t[j] = f
    <3>1. i+1 \in 1..Len(s) /\ s[i+1] = e
      BY <2>1, <1>1
    <3>2. PICK j \in 1..Len(s) : i+1 < j /\ s[j] = f
      BY <3>1, <1>4, <1>1 DEF Before
    <3>3. j-1 \in 1..Len(t) /\ i < j-1 /\ t[j-1] = f
      BY <3>2, <1>2, <1>1
    <3>. QED
      BY <3>3
  <2>2. ASSUME Head(s) = e PROVE f \in Range(t)
    <3>1. 1 \in DOMAIN s /\ s[1] = e
      BY <2>2, <1>1
    <3>2. PICK j \in 1..Len(s) : 1 < j /\ s[j] = f
      BY <3>1, <1>4, <1>1 DEF Before
    <3>3. j-1 \in DOMAIN t /\ t[j-1] = f
      BY <3>2, <1>2, <1>1
    <3>. QED
      BY <3>3, RangeOf
  <2>. QED
    BY <2>1, <2>2, <1>1 DEF Before
<1>. QED
  BY <1>1, <1>3, <1>4 DEF t

\* One list behind another.
LEMMA ConcatBefore ==
  ASSUME NEW A, NEW s \in Seq(A), NEW t \in Seq(A), NEW e, NEW f,
         Before(e, f, t), Before(e, f, s) \/ f \in Range(t)
  PROVE  Before(e, f, s \o t)
<1>. DEFINE u == s \o t
<1>1. /\ DOMAIN s = 1..Len(s) /\ DOMAIN t = 1..Len(t) /\ DOMAIN u = 1..(Len(s) + Len(t))
      /\ Len(s) \in Nat /\ Len(t) \in Nat
      /\ \A i \in 1..(Len(s) + Len(t)) : u[i] = IF i <= Len(s) THEN s[i] ELSE t[i - Len(s)]
  BY ConcatProperties, LenProperties
<1>. HIDE DEF u
<1>2. SUFFICES ASSUME NEW i \in DOMAIN u, u[i] = e
               PROVE  \E j \in DOMAIN u : i < j /\ u[j] = f
  BY DEF Before, u
<1>3. CASE i > Len(s)
  <2>1. i - Len(s) \in DOMAIN t /\ t[i - Len(s)] = e
    BY <1>1, <1>2, <1>3
  <2>2. PICK j \in DOMAIN t : i - Len(s) < j /\ t[j] = f
    BY <2>1 DEF Before
  <2>3. j + Len(s) \in DOMAIN u /\ i < j + Len(s) /\ u[j + Len(s)] = f
    BY <2>2, <1>1
  <2>. QED
    BY <2>3
<1>4. CASE i <= Len(s) /\ f \in Range(t)
  <2>1. PICK j \in DOMAIN t : t[j] = f
    BY <1>4, RangeOf
  <2>2. j + Len(s) \in DOMAIN u /\ i < j + Len(s) /\ u[j + Len(s)] = f
    BY <2>1, <1>1, <1>4
  <2>. QED
    BY <2>2
<1>5. CASE i <= Len(s) /\ Before(e, f, s)
  <2>1. i \in DOMAIN s /\ s[i] = e
    BY <1>1, <1>2, <1>5
  <2>2. PICK j \in DOMAIN s : i < j /\ s[j] = f
    BY <2>1, <1>5 DEF Before
  <2>3. j \in DOMAIN u /\ u[j] = f
    BY <2>2, <1>1
  <2>. QED
    BY <2>2, <2>3
<1>6. i > Len(s) \/ i <= Len(s)
  BY <1>1
<1>. QED
  BY <1>3, <1>4, <1>5, <1>6

\* Nothing comes behind what is not there.
LEMMA AbsentBefore == \A e, f, s : e \notin Range(s) => Before(e, f, s)
  BY RangeOf DEF Before

-----------------------------------------------------------------------------
(* The lists a handler starts with.                                        *)

\* The steps for the n-grams of one name.
LEMMA GramSteps ==
  ASSUME NEW n \in Nat, NEW id \in 1..n, NEW name \in Names
  PROVE  /\ AddGrams(name, id) \in Seq(Steps(n)) /\ DelGrams(name, id) \in Seq(Steps(n))
         /\ \A e : e \in Range(AddGrams(name, id)) <=>
              \E g \in Range(GramsOf[name]) : e = Add(g, id)
         /\ \A e : e \in Range(DelGrams(name, id)) <=>
              \E g \in Range(GramsOf[name]) : e = Del(g, id)
<1>. DEFINE G == GramsOf[name]
<1>1. G \in Seq(STRING) /\ DOMAIN G = 1..Len(G) /\ Len(G) \in Nat
  BY SearchCacheAssumption, LenProperties
<1>2. \A i \in 1..Len(G) : G[i] \in Gram
  BY <1>1, RangeOf DEF Gram
<1>3. \A i \in 1..Len(G) : Add(G[i], id) \in Steps(n) /\ Del(G[i], id) \in Steps(n)
  BY <1>2 DEF Add, Del, Steps
<1>4. AddGrams(name, id) = [i \in 1..Len(G) |-> Add(G[i], id)]
      /\ DelGrams(name, id) = [i \in 1..Len(G) |-> Del(G[i], id)]
  BY <1>1 DEF AddGrams, DelGrams, Add, Del
<1>. HIDE DEF G
<1>5. [i \in 1..Len(G) |-> Add(G[i], id)] \in Seq(Steps(n))
      /\ [i \in 1..Len(G) |-> Del(G[i], id)] \in Seq(Steps(n))
  BY <1>1, <1>3
<1>6. \A e : e \in Range(G) <=> \E i \in 1..Len(G) : G[i] = e
  BY <1>1, RangeOf
<1>7. \A e : e \in Range([i \in 1..Len(G) |-> Add(G[i], id)]) <=>
             \E g \in Range(G) : e = Add(g, id)
  BY <1>6 DEF Range
<1>8. \A e : e \in Range([i \in 1..Len(G) |-> Del(G[i], id)]) <=>
             \E g \in Range(G) : e = Del(g, id)
  BY <1>6 DEF Range
<1>. QED
  BY <1>4, <1>5, <1>7, <1>8 DEF G

\* The four kinds of step are different.
LEMMA StepsDiffer ==
  \A g, id, h, x, name :
    /\ Add(g, id) # Del(h, x) /\ Add(g, id) # ById(x) /\ Add(g, id) # ByNewFile(name)
    /\ Del(g, id) # ById(x) /\ Del(g, id) # ByNewFile(name) /\ ById(x) # ByNewFile(name)
    /\ (Add(g, id) = Add(h, x) => g = h /\ id = x)
    /\ (Del(g, id) = Del(h, x) => g = h /\ id = x)
    /\ (ById(id) = ById(x) => id = x)
  BY DEF Add, Del, ById, ByNewFile

LEMMA NameOfStep == \A name, other : ByNewFile(name) = ByNewFile(other) => name = other
  BY DEF ByNewFile

LEMMA OneStep == \A e, x : x \in Range(<<e>>) <=> x = e
  BY DEF Range

\* What the removal of some nodes does: n-grams and invalidations by id, the
\* n-grams of a node before its invalidation.
Removal(n, I) ==
  {s \in Seq(Steps(n)) :
     /\ \A g, id : Add(g, id) \notin Range(s) /\ (Del(g, id) \in Range(s) => id \in I)
     /\ \A g, id : Before(Del(g, id), ById(id), s)}

LEMMA RemovalConcat ==
  ASSUME NEW n, NEW I
  PROVE  <<>> \in Removal(n, I) /\ \A s, t \in Removal(n, I) : s \o t \in Removal(n, I)
<1>1. <<>> \in Removal(n, I)
  BY DEF Removal, Range, Before
<1>2. ASSUME NEW s \in Removal(n, I), NEW t \in Removal(n, I)
      PROVE  s \o t \in Removal(n, I)
  <2>1. s \in Seq(Steps(n)) /\ t \in Seq(Steps(n)) /\ s \o t \in Seq(Steps(n))
        /\ Range(s \o t) = Range(s) \cup Range(t)
    BY RangeConcatenation, ConcatProperties DEF Removal
  <2>2. \A g, id : Before(Del(g, id), ById(id), s \o t)
    BY <2>1, ConcatBefore DEF Removal
  <2>3. \A g, id : Add(g, id) \notin Range(s \o t) /\ (Del(g, id) \in Range(s \o t) => id \in I)
    BY <2>1 DEF Removal
  <2>. QED
    BY <2>1, <2>2, <2>3 DEF Removal
<1>. QED
  BY <1>1, <1>2

LEMMA RemoveOneIsRemoval ==
  ASSUME NEW n \in Nat, NEW I, NEW id \in I, id \in 1..n, node[id] \in Names
  PROVE  /\ RemoveOne(id) \in Removal(n, I)
         /\ ById(id) \in Range(RemoveOne(id))
         /\ \A g \in Range(GramsOf[node[id]]) : Del(g, id) \in Range(RemoveOne(id))
<1>. DEFINE D == DelGrams(node[id], id)
            one == <<ById(id)>>
            u == D \o one
<1>1. D \in Seq(Steps(n))
      /\ \A e : e \in Range(D) <=> \E g \in Range(GramsOf[node[id]]) : e = Del(g, id)
  BY GramSteps
<1>2. one \in Seq(Steps(n)) /\ \A e : e \in Range(one) <=> e = ById(id)
  <2>1. ById(id) \in Steps(n)
    BY DEF ById, Steps
  <2>. QED
    BY <2>1, OneStep
<1>3. RemoveOne(id) = u
  BY DEF RemoveOne
<1>. HIDE DEF D, one
<1>4. u \in Seq(Steps(n)) /\ Range(u) = Range(D) \cup Range(one)
  BY <1>1, <1>2, RangeConcatenation, ConcatProperties
<1>5. \A g, x : Before(Del(g, x), ById(x), u)
  <2>1. \A g, x : Before(Del(g, x), ById(x), one)
    BY <1>2, AbsentBefore, StepsDiffer
  <2>2. \A g, x : Before(Del(g, x), ById(x), D) \/ ById(x) \in Range(one)
    BY <1>1, <1>2, AbsentBefore, StepsDiffer
  <2>. QED
    BY <2>1, <2>2, <1>1, <1>2, ConcatBefore
<1>6. \A g, x : Add(g, x) \notin Range(u) /\ (Del(g, x) \in Range(u) => x \in I)
  BY <1>1, <1>2, <1>4, StepsDiffer
<1>. HIDE DEF u
<1>7. u \in Removal(n, I)
  BY <1>4, <1>5, <1>6 DEF Removal
<1>. QED
  BY <1>1, <1>2, <1>3, <1>4, <1>7

\* The list of Remove, for a file or a whole subtree.
LEMMA RemovalList ==
  ASSUME NEW n \in Nat, NEW ids \in Seq(1..n), \A id \in Range(ids) : node[id] \in Names,
         NEW s, s = FlattenSeq([i \in DOMAIN ids |-> RemoveOne(ids[i])])
  PROVE  /\ s \in Removal(n, Range(ids))
         /\ \A id \in Range(ids) :
              /\ ById(id) \in Range(s)
              /\ \A g \in Range(GramsOf[node[id]]) : Del(g, id) \in Range(s)
<1>. DEFINE ss == [i \in DOMAIN ids |-> RemoveOne(ids[i])]
            R == Removal(n, Range(ids))
<1>1. DOMAIN ids = 1..Len(ids) /\ Len(ids) \in Nat
  BY LenProperties
<1>2. \A i \in 1..Len(ids) : ids[i] \in Range(ids) /\ ids[i] \in 1..n /\ node[ids[i]] \in Names
  BY <1>1, ElementOfSeq, RangeOf
<1>3. \A i \in 1..Len(ids) : RemoveOne(ids[i]) \in R
  BY <1>2, RemoveOneIsRemoval
<1>. HIDE DEF R
<1>4. ss \in Seq(R) /\ Len(ss) = Len(ids)
  BY <1>1, <1>3
<1>5. R \in SUBSET Seq(Steps(n)) /\ <<>> \in R /\ \A a, b \in R : a \o b \in R
  BY RemovalConcat DEF R, Removal
<1>. HIDE DEF ss
<1>6. s \in R /\ \A j \in 1..Len(ss) : Range(ss[j]) \subseteq Range(s)
  BY <1>4, <1>5, FlattenFacts DEF ss
<1>7. ASSUME NEW id \in Range(ids)
      PROVE  /\ ById(id) \in Range(s)
             /\ \A g \in Range(GramsOf[node[id]]) : Del(g, id) \in Range(s)
  <2>1. PICK i \in 1..Len(ids) : ids[i] = id
    BY <1>1, RangeOf
  <2>2. Range(RemoveOne(id)) \subseteq Range(s)
    BY <2>1, <1>1, <1>4, <1>6 DEF ss
  <2>. QED
    BY <2>1, <2>2, <1>2, RemoveOneIsRemoval
<1>. QED
  BY <1>6, <1>7 DEF R

-----------------------------------------------------------------------------
(* A handler starts: nothing was left to do, and what it changes under mu  *)
(* it has still to do to the bitmaps and the cache.                        *)

\* Nodes that leave or change their name invalidate by id, new ones and new
\* names by name.
Announced ==
  /\ cut \subseteq cut' /\ renamed \subseteq renamed'
  /\ \A id \in Known : (id \in Known' /\ node'[id] = node[id])
                       \/ id \in cut' \/ ById(id) \in Range(todo')
  /\ \A id \in Known' : (id \in Known /\ node'[id] = node[id])
                        \/ id \in renamed' \/ ByNewFile(node'[id]) \in Range(todo')

LEMMA FreshAnnounced ==
  ASSUME todo = <<>>, Announced, NEW key, NEW n, NEW ids, Fresh(key, n, ids)
  PROVE  Fresh(key, n, ids)'
<1>1. \A e : e \notin Range(todo)
  BY DEF Range
<1>2. \A id : id \in Known /\ id \in Known' /\ node'[id] = node[id] =>
                (id \in Found(key, n) <=> id \in Found(key, n)')
  BY DEF Found
<1>3. \A id : (id \in Found(key, n) => id \in Known) /\ (id \in Found(key, n)' => id \in Known')
  BY DEF Found
<1>4. ASSUME NEW id \in ids, id \notin Found(key, n)'
      PROVE  id \in cut' \/ ById(id) \in Range(todo')
  <2>1. CASE id \in Found(key, n)
    BY <1>4, <2>1, <1>2, <1>3 DEF Announced
  <2>2. CASE id \notin Found(key, n)
    BY <1>1, <2>2 DEF Fresh, Announced
  <2>. QED
    BY <2>1, <2>2
<1>5. ASSUME NEW id \in Found(key, n)', id \notin ids
      PROVE  id \in renamed' \/ ByNewFile(node'[id]) \in Range(todo')
  <2>1. CASE id \in Found(key, n)
    BY <1>1, <1>5, <2>1 DEF Fresh, Announced
  <2>2. CASE id \notin Found(key, n)
    BY <1>5, <2>2, <1>2, <1>3 DEF Announced
  <2>. QED
    BY <2>1, <2>2
<1>. HIDE DEF Found
<1>6. Fresh(key, n, ids)' <=>
        /\ \A id \in ids \ Found(key, n)' : id \in cut' \/ ById(id) \in Range(todo')
        /\ \A id \in Found(key, n)' \ ids : id \in renamed' \/ ByNewFile(node'[id]) \in Range(todo')
  BY DEF Fresh
<1>. QED
  BY <1>4, <1>5, <1>6

\* The bitmaps are right before, and the list holds what is to change.
Planned ==
  \A g \in Gram, id \in 1..lastID' :
    /\ Live(g, id)' /\ ~Live(g, id) => Add(g, id) \in Range(todo')
    /\ Live(g, id) /\ ~Live(g, id)' => Del(g, id) \in Range(todo')
    /\ Add(g, id) \in Range(todo') => Live(g, id)'
    /\ Live(g, id)' => Before(Del(g, id), Add(g, id), todo')

LEMMA BitmapsPlanned ==
  ASSUME Types, BitmapsFollow, todo = <<>>, Planned, bitmap' = bitmap,
         lastID' \in Nat, lastID =< lastID'
  PROVE  BitmapsFollow'
<1>1. \A e : e \notin Range(todo)
  BY DEF Range
<1>2. \A g \in Gram, id \in 1..lastID : Live(g, id) <=> id \in At(bitmap, g)
  BY <1>1 DEF BitmapsFollow
<1>3. \A g \in Gram : \A id : id \in At(bitmap, g) \/ Live(g, id) => id \in 1..lastID
  BY DEF Types, TypeOK, At, Live, Known
<1>4. \A g, id : At(bitmap, g)' = At(bitmap, g)
  BY DEF At
<1>. SUFFICES ASSUME NEW g \in Gram, NEW id \in 1..lastID'
              PROVE  /\ Live(g, id)' /\ id \notin At(bitmap, g)' => Add(g, id) \in Range(todo')
                     /\ id \in At(bitmap, g)' /\ ~Live(g, id)' => Del(g, id) \in Range(todo')
                     /\ Add(g, id) \in Range(todo') => Live(g, id)'
                     /\ Live(g, id)' => Before(Del(g, id), Add(g, id), todo')
  BY DEF BitmapsFollow
<1>. QED
  BY <1>2, <1>3, <1>4 DEF Planned

\* What every start keeps: the cache and the searches are left alone.
Start ==
  /\ todo = <<>> /\ Announced /\ Planned /\ InvalidatesAfter'
  /\ todo' \in Seq(Steps(lastID'))
  /\ lastID' \in Nat /\ lastID =< lastID'
  /\ DOMAIN node' \subseteq 1..lastID' /\ \A id \in DOMAIN node' : node'[id] \in Names
  /\ cut' \subseteq 1..lastID' /\ renamed' \subseteq 1..lastID'
  /\ UNCHANGED <<bitmap, cache, idToKeys, aged, sweepDue, search>>

LEMMA StartKeeps == Inv /\ Start => Inv'
<1>. SUFFICES ASSUME Inv, Start PROVE Inv'
  OBVIOUS
<1>1. Types'
  <2>1. 1..lastID \subseteq 1..lastID'
    BY DEF Start, Inv, Types, TypeOK
  <2>2. TypeOK'
    BY <2>1 DEF Start, Inv, Types, TypeOK
  <2>3. \A k \in DOMAIN cache : cache[k] \in [ids : SUBSET (1..lastID'), raced : BOOLEAN]
    BY <2>1 DEF Inv, Types
  <2>4. \A s \in Searchers : search[s] \in Asked => search[s] \in Asked'
    BY <2>1 DEF Asked
  <2>5. UNCHANGED <<bitmap, cache, search>> /\ todo' \in Seq(Steps(lastID'))
    BY DEF Start
  <2>. QED
    BY <2>2, <2>3, <2>4, <2>5 DEF Inv, Types, SearchTypes, Steps
<1>2. BitmapsFollow'
  BY BitmapsPlanned DEF Inv, Start
<1>3. CacheFresh'
  <2>. SUFFICES ASSUME NEW k \in DOMAIN cache, ~cache[k].raced
                PROVE  Fresh(k, Len(k), cache[k].ids)'
    BY DEF CacheFresh, Start
  <2>1. Fresh(k, Len(k), cache[k].ids)
    BY DEF Inv, CacheFresh
  <2>. DEFINE n == Len(k)  ids == cache[k].ids
  <2>2. cache' = cache
    BY DEF Start
  <2>. QED
    BY <2>1, <2>2, FreshAnnounced DEF Start, Fresh
<1>4. SearchFresh'
  <2>. SUFFICES ASSUME NEW s \in InFlight, search[s].read > 0, ~search[s].raced
                PROVE  Fresh(search[s].key, search[s].read, search[s].ids)'
    BY DEF SearchFresh, Start, InFlight
  <2>1. Fresh(search[s].key, search[s].read, search[s].ids)
    BY DEF Inv, SearchFresh
  <2>2. search' = search
    BY DEF Start
  <2>. QED
    BY <2>1, <2>2, FreshAnnounced DEF Start, Fresh
<1>. QED
  BY <1>1, <1>2, <1>3, <1>4 DEF Inv, Start

\* The parts of the invariant a start needs.
LEMMA StartFacts ==
  ASSUME Inv
  PROVE  /\ lastID \in Nat /\ DOMAIN node \subseteq 1..lastID
         /\ \A id \in DOMAIN node : node[id] \in Names
         /\ cut \subseteq 1..lastID /\ renamed \subseteq 1..lastID
         /\ Known \subseteq DOMAIN node /\ Known \subseteq 1..lastID
  BY DEF Inv, Types, TypeOK, Known

LEMMA CreateStarts ==
  ASSUME Inv, NEW name \in Names, Create(name)
  PROVE  Start
<1>. DEFINE id == lastID + 1
            A == AddGrams(name, id)
            b == <<ByNewFile(name)>>
<1>1. /\ todo = <<>> /\ lastID' = id /\ node' = Put(node, id, name) /\ todo' = A \o b
      /\ UNCHANGED <<bitmap, cache, idToKeys, aged, sweepDue, search, renamed, cut>>
  BY DEF Create, muFree, clock
<1>2. lastID \in Nat /\ id \in Nat /\ id \in 1..id /\ lastID =< id /\ 1..lastID \subseteq 1..id
      /\ id \notin 1..lastID
  BY StartFacts
<1>3. A \in Seq(Steps(id)) /\ \A e : e \in Range(A) <=> \E g \in Range(GramsOf[name]) : e = Add(g, id)
  BY <1>2, GramSteps
<1>4. b \in Seq(Steps(id)) /\ \A e : e \in Range(b) <=> e = ByNewFile(name)
  <2>1. ByNewFile(name) \in Steps(id)
    BY DEF ByNewFile, Steps
  <2>. QED
    BY <2>1, OneStep
<1>. HIDE DEF A, b
<1>5. todo' \in Seq(Steps(id)) /\ Range(todo') = Range(A) \cup Range(b)
  BY <1>1, <1>3, <1>4, ConcatProperties, RangeConcatenation
<1>6. DOMAIN node' = DOMAIN node \cup {id} /\ node'[id] = name
      /\ \A x \in DOMAIN node : node'[x] = node[x]
  BY <1>1, <1>2, StartFacts DEF Put
<1>7. Known' = Known \cup {id} /\ id \notin Known /\ \A x \in Known : node'[x] = node[x]
  BY <1>1, <1>2, <1>6, StartFacts DEF Known
<1>. HIDE DEF id
<1>8. \A g, x : Live(g, x)' <=> Live(g, x) \/ (x = id /\ g \in Range(GramsOf[name]))
  BY <1>6, <1>7 DEF Live
<1>9. \A g, x : Add(g, x) \in Range(todo') <=> x = id /\ g \in Range(GramsOf[name])
  BY <1>3, <1>4, <1>5, StepsDiffer
<1>10. \A g, x : Del(g, x) \notin Range(todo')
  BY <1>3, <1>4, <1>5, StepsDiffer
<1>11. ByNewFile(name) \in Range(b) /\ \A g : Add(g, id) \notin Range(b)
  BY <1>4, StepsDiffer
<1>12. Announced
  BY <1>1, <1>5, <1>6, <1>7, <1>11 DEF Announced
<1>13. Planned
  BY <1>8, <1>9, <1>10, AbsentBefore DEF Planned
<1>14. InvalidatesAfter'
  <2>1. \A g : Before(Add(g, id), ByNewFile(name), todo')
    BY <1>1, <1>3, <1>4, <1>11, ConcatBefore, AbsentBefore
  <2>2. ASSUME NEW g, NEW x \in Known'
        PROVE  Before(Add(g, x), ByNewFile(node'[x]), todo')
    <3>1. CASE x = id
      BY <2>1, <3>1, <1>6
    <3>2. CASE x # id
      BY <3>2, <1>9, AbsentBefore
    <3>. QED
      BY <3>1, <3>2
  <2>. QED
    BY <2>2, <1>10, AbsentBefore DEF InvalidatesAfter
<1>. QED
  BY <1>1, <1>2, <1>5, <1>6, <1>12, <1>13, <1>14, StartFacts DEF Start

LEMMA TouchStarts ==
  ASSUME Inv, NEW id \in Known, Touch(id)
  PROVE  Start
<1>1. /\ todo = <<>> /\ todo' = <<ById(id)>>
      /\ UNCHANGED <<node, lastID, bitmap, cache, idToKeys, aged, sweepDue, search, renamed, cut>>
  BY DEF Touch, muFree, clock
<1>2. ById(id) \in Steps(lastID)
  BY StartFacts DEF ById, Steps
<1>3. todo' \in Seq(Steps(lastID))
  BY <1>1, <1>2
<1>4. \A g, x : Add(g, x) \notin Range(todo') /\ Del(g, x) \notin Range(todo')
  BY <1>1, OneStep, StepsDiffer
<1>5. Known' = Known /\ \A g, x : Live(g, x)' <=> Live(g, x)
  BY <1>1 DEF Known, Live
<1>6. Announced
  BY <1>1, <1>5 DEF Announced
<1>7. Planned
  BY <1>4, <1>5, AbsentBefore DEF Planned
<1>8. InvalidatesAfter'
  BY <1>4, AbsentBefore DEF InvalidatesAfter
<1>. QED
  BY <1>1, <1>3, <1>6, <1>7, <1>8, StartFacts DEF Start

LEMMA RenameCutStarts ==
  ASSUME Inv, NEW id \in Known, RenameCut(id)
  PROVE  Start
<1>1. /\ todo = <<>> /\ todo' = DelGrams(node[id], id) /\ cut' = cut \cup {id}
      /\ UNCHANGED <<node, lastID, bitmap, cache, idToKeys, aged, sweepDue, search, renamed>>
  BY DEF RenameCut, muFree, clock
<1>2. /\ todo' \in Seq(Steps(lastID))
      /\ \A e : e \in Range(todo') <=> \E g \in Range(GramsOf[node[id]]) : e = Del(g, id)
  BY <1>1, StartFacts, GramSteps
<1>3. Known' = Known \ {id}
  BY <1>1 DEF Known
<1>4. \A g, x : Live(g, x)' <=> Live(g, x) /\ x # id
  BY <1>1, <1>3 DEF Live
<1>5. \A g, x : Add(g, x) \notin Range(todo')
  BY <1>2, StepsDiffer
<1>6. \A g, x : Del(g, x) \in Range(todo') <=> x = id /\ g \in Range(GramsOf[node[id]])
  BY <1>2, StepsDiffer
<1>7. Announced
  BY <1>1, <1>3 DEF Announced
<1>8. Planned
  <2>1. \A g : Live(g, id) => g \in Range(GramsOf[node[id]])
    BY DEF Live
  <2>. QED
    BY <2>1, <1>4, <1>5, <1>6, AbsentBefore DEF Planned
<1>9. InvalidatesAfter'
  BY <1>1, <1>5, <1>6, AbsentBefore DEF InvalidatesAfter
<1>. QED
  BY <1>1, <1>2, <1>7, <1>8, <1>9, StartFacts DEF Start

LEMMA RemoveAllStarts ==
  ASSUME Inv, NEW ids \in Seq(Known), RemoveAll(ids)
  PROVE  Start
<1>1. /\ todo = <<>> /\ node' = Without(node, Range(ids))
      /\ todo' = FlattenSeq([i \in DOMAIN ids |-> RemoveOne(ids[i])])
      /\ UNCHANGED <<lastID, bitmap, cache, idToKeys, aged, sweepDue, search, renamed, cut>>
  BY DEF RemoveAll, muFree, clock
<1>2. Range(ids) \subseteq Known /\ ids \in Seq(1..lastID)
  BY RangeOfSeq, StartFacts, SeqMonotonic
<1>3. \A id \in Range(ids) : node[id] \in Names
  BY <1>2, StartFacts
<1>4. /\ todo' \in Removal(lastID, Range(ids))
      /\ \A id \in Range(ids) :
           /\ ById(id) \in Range(todo')
           /\ \A g \in Range(GramsOf[node[id]]) : Del(g, id) \in Range(todo')
  BY <1>1, <1>2, <1>3, StartFacts, RemovalList
<1>5. /\ DOMAIN node' = DOMAIN node \ Range(ids) /\ Known' = Known \ Range(ids)
      /\ \A x \in DOMAIN node' : node'[x] = node[x]
  BY <1>1 DEF Without, Known
<1>6. \A g, x : Live(g, x)' <=> Live(g, x) /\ x \notin Range(ids)
  BY <1>5 DEF Live, Known
<1>7. Announced
  BY <1>1, <1>4, <1>5 DEF Announced, Known
<1>8. \A g, x : Add(g, x) \notin Range(todo') /\ Before(Del(g, x), ById(x), todo')
  BY <1>4 DEF Removal
<1>9. Planned
  <2>1. \A g, x : Live(g, x)' => Before(Del(g, x), Add(g, x), todo')
    BY <1>4, <1>6, AbsentBefore DEF Removal
  <2>. QED
    BY <2>1, <1>4, <1>6, <1>8 DEF Planned, Live
<1>10. InvalidatesAfter'
  BY <1>8, AbsentBefore DEF InvalidatesAfter
<1>. QED
  BY <1>1, <1>4, <1>5, <1>7, <1>9, <1>10, StartFacts DEF Start, Removal

LEMMA RenameStarts ==
  ASSUME Inv, NEW id \in Known, NEW name \in Names, NEW below \in Seq(Known),
         Rename(id, name, below)
  PROVE  Start
<1>. DEFINE D == DelGrams(node[id], id)
            B == [i \in DOMAIN below |-> ById(below[i])]
            A == AddGrams(name, id)
            one == <<ById(id)>>
            DB == D \o B
            DBA == DB \o A
            u == DBA \o one
            S == Seq(Steps(lastID))
<1>1. /\ todo = <<>> /\ node' = [node EXCEPT ![id] = name] /\ todo' = u
      /\ renamed' = renamed \cup {id}
      /\ UNCHANGED <<lastID, bitmap, cache, idToKeys, aged, sweepDue, search, cut>>
  BY DEF Rename, muFree, clock
<1>2. /\ D \in S /\ A \in S
      /\ \A e : e \in Range(D) <=> \E g \in Range(GramsOf[node[id]]) : e = Del(g, id)
      /\ \A e : e \in Range(A) <=> \E g \in Range(GramsOf[name]) : e = Add(g, id)
  BY StartFacts, GramSteps
<1>3. \A x \in Known : ById(x) \in Steps(lastID)
  BY StartFacts DEF ById, Steps
<1>4. B \in S /\ \A e : e \in Range(B) => \E x : e = ById(x)
  <2>1. DOMAIN below = 1..Len(below) /\ Len(below) \in Nat
        /\ \A i \in 1..Len(below) : below[i] \in Known
    BY LenProperties, ElementOfSeq
  <2>2. B = [i \in 1..Len(below) |-> ById(below[i])]
    BY <2>1
  <2>3. B \in S
    BY <2>1, <2>2, <1>3
  <2>. QED
    BY <2>3 DEF Range
<1>5. one \in S /\ \A e : e \in Range(one) <=> e = ById(id)
  <2>1. one \in S
    BY <1>3
  <2>. QED
    BY <2>1, OneStep
<1>. HIDE DEF D, A, B, one, S
<1>6. DB \in S /\ Range(DB) = Range(D) \cup Range(B)
  BY <1>2, <1>4, ConcatProperties, RangeConcatenation DEF S
<1>. HIDE DEF DB
<1>7. DBA \in S /\ Range(DBA) = Range(D) \cup Range(B) \cup Range(A)
  BY <1>2, <1>6, ConcatProperties, RangeConcatenation DEF S
<1>. HIDE DEF DBA
<1>8. u \in S /\ Range(u) = Range(D) \cup Range(B) \cup Range(A) \cup Range(one)
  BY <1>5, <1>7, ConcatProperties, RangeConcatenation DEF S
<1>9. /\ \A g, x : Del(g, x) \in Range(u) <=> x = id /\ g \in Range(GramsOf[node[id]])
      /\ \A g, x : Add(g, x) \in Range(u) <=> x = id /\ g \in Range(GramsOf[name])
      /\ ById(id) \in Range(u)
  <2>1. \A g, x : /\ Del(g, x) \in Range(D) <=> x = id /\ g \in Range(GramsOf[node[id]])
                  /\ Add(g, x) \notin Range(D)
    BY <1>2, StepsDiffer
  <2>2. \A g, x : /\ Add(g, x) \in Range(A) <=> x = id /\ g \in Range(GramsOf[name])
                  /\ Del(g, x) \notin Range(A)
    BY <1>2, StepsDiffer
  <2>3. \A g, x : Add(g, x) \notin Range(B) /\ Del(g, x) \notin Range(B)
    BY <1>4, StepsDiffer
  <2>4. \A g, x : Add(g, x) \notin Range(one) /\ Del(g, x) \notin Range(one)
    BY <1>5, StepsDiffer
  <2>. QED
    BY <1>5, <1>8, <2>1, <2>2, <2>3, <2>4
<1>10. \A g : Before(Del(g, id), ById(id), u)
  BY <1>5, <1>7, StepsDiffer, AbsentBefore, ConcatBefore DEF S
<1>11. ASSUME NEW g \in Range(GramsOf[name])
       PROVE  Before(Del(g, id), Add(g, id), u)
  <2>1. Del(g, id) \notin Range(A) /\ Add(g, id) \in Range(A) /\ Del(g, id) \notin Range(one)
    BY <1>2, <1>5, StepsDiffer
  <2>2. Before(Del(g, id), Add(g, id), DBA)
    BY <2>1, <1>2, <1>6, AbsentBefore, ConcatBefore DEF S, DBA
  <2>. QED
    BY <2>1, <2>2, <1>5, <1>7, AbsentBefore, ConcatBefore DEF S
<1>. HIDE DEF u
<1>12. DOMAIN node' = DOMAIN node /\ node'[id] = name
       /\ \A x \in DOMAIN node : x # id => node'[x] = node[x]
  BY <1>1, StartFacts
<1>13. Known' = Known
  BY <1>1, <1>12 DEF Known
<1>14. \A g, x : x # id => (Live(g, x)' <=> Live(g, x))
  BY <1>12, <1>13, StartFacts DEF Live
<1>15. \A g : /\ Live(g, id)' <=> g \in Range(GramsOf[name])
              /\ Live(g, id) <=> g \in Range(GramsOf[node[id]])
  BY <1>12, <1>13 DEF Live
<1>16. Announced
  BY <1>1, <1>9, <1>12, <1>13, StartFacts DEF Announced
<1>17. Planned
  <2>1. \A g, x : Live(g, x)' => Before(Del(g, x), Add(g, x), todo')
    BY <1>1, <1>9, <1>11, <1>15, AbsentBefore
  <2>. QED
    BY <2>1, <1>1, <1>9, <1>14, <1>15 DEF Planned
<1>18. InvalidatesAfter'
  <2>1. \A g, x : Before(Del(g, x), ById(x), todo')
    BY <1>1, <1>9, <1>10, AbsentBefore
  <2>2. \A g, x : x \notin renamed' => Before(Add(g, x), ByNewFile(node'[x]), todo')
    BY <1>1, <1>9, AbsentBefore
  <2>. QED
    BY <2>1, <2>2 DEF InvalidatesAfter
<1>. QED
  BY <1>1, <1>8, <1>12, <1>16, <1>17, <1>18, StartFacts DEF Start, S

-----------------------------------------------------------------------------
(* One step of a handler.                                                  *)

\* Without its head, the list still holds what stands behind it.
LEMMA StepFacts ==
  ASSUME Inv, HandlerStep
  PROVE  /\ todo' \in Seq(Steps(lastID)) /\ Head(todo) \in Steps(lastID)
         /\ Range(todo) = {Head(todo)} \cup Range(todo')
         /\ \A e, f : Before(e, f, todo) =>
              Before(e, f, todo') /\ (Head(todo) = e => f \in Range(todo'))
         /\ UNCHANGED <<node, lastID, sweepDue, renamed, cut>> /\ Known' = Known
         /\ \A g, id : Live(g, id)' <=> Live(g, id)
         /\ \A key, n : Found(key, n)' = Found(key, n)
<1>1. todo # <<>> /\ todo' = Tail(todo) /\ UNCHANGED <<node, lastID, sweepDue, renamed, cut>>
  BY DEF HandlerStep
<1>2. todo \in Seq(Steps(lastID))
  BY DEF Inv, Types
<1>3. /\ Range(todo) = {Head(todo)} \cup Range(todo')
      /\ todo' \in Seq(Steps(lastID)) /\ Head(todo) \in Steps(lastID)
      /\ \A e, f : Before(e, f, todo) =>
           Before(e, f, todo') /\ (Head(todo) = e => f \in Range(todo'))
  <2>. HIDE DEF Before, Steps
  <2>. QED
    BY <1>1, <1>2, TailFacts
<1>4. Known' = Known
  BY <1>1 DEF Known
<1>. QED
  BY <1>1, <1>3, <1>4 DEF Live, Found

\* The head is one of the four kinds of step, and does what it says.
LEMMA StepKinds ==
  ASSUME Inv, HandlerStep
  PROVE  /\ \/ \E g \in Gram, id \in 1..lastID : Head(todo) = Add(g, id) \/ Head(todo) = Del(g, id)
            \/ \E id \in 1..lastID : Head(todo) = ById(id)
            \/ \E name \in Names : Head(todo) = ByNewFile(name)
         /\ \A g \in Gram, id \in 1..lastID : Head(todo) = Add(g, id) =>
              /\ bitmap' = Put(bitmap, g, At(bitmap, g) \cup {id})
              /\ UNCHANGED <<cache, idToKeys, aged, search>>
         /\ \A g \in Gram, id \in 1..lastID : Head(todo) = Del(g, id) =>
              /\ bitmap' = [bitmap EXCEPT ![g] = @ \ {id}]
              /\ UNCHANGED <<cache, idToKeys, aged, search>>
         /\ \A id \in 1..lastID : Head(todo) = ById(id) =>
              InvalidateByID(id) /\ search' = Race /\ UNCHANGED bitmap
         /\ \A name \in Names : Head(todo) = ByNewFile(name) =>
              InvalidateByNewFile(name) /\ search' = Race /\ UNCHANGED bitmap
<1>1. Head(todo) \in Steps(lastID)
  BY StepFacts
<1>2. ASSUME NEW g \in Gram, NEW id \in 1..lastID, Head(todo) = Add(g, id)
      PROVE  /\ bitmap' = Put(bitmap, g, At(bitmap, g) \cup {id})
             /\ UNCHANGED <<cache, idToKeys, aged, search>>
  <2>1. Head(todo)[1] = "add" /\ Head(todo)[2] = g /\ Head(todo)[3] = id
    BY <1>2 DEF Add
  <2>. QED
    BY <2>1 DEF HandlerStep
<1>3. ASSUME NEW g \in Gram, NEW id \in 1..lastID, Head(todo) = Del(g, id)
      PROVE  /\ bitmap' = [bitmap EXCEPT ![g] = @ \ {id}]
             /\ UNCHANGED <<cache, idToKeys, aged, search>>
  <2>1. Head(todo)[1] = "del" /\ Head(todo)[2] = g /\ Head(todo)[3] = id
    BY <1>3 DEF Del
  <2>. QED
    BY <2>1 DEF HandlerStep
<1>4. ASSUME NEW id \in 1..lastID, Head(todo) = ById(id)
      PROVE  InvalidateByID(id) /\ search' = Race /\ UNCHANGED bitmap
  <2>1. Head(todo)[1] = "byID" /\ Head(todo)[2] = id
    BY <1>4 DEF ById
  <2>. QED
    BY <2>1 DEF HandlerStep
<1>5. ASSUME NEW name \in Names, Head(todo) = ByNewFile(name)
      PROVE  InvalidateByNewFile(name) /\ search' = Race /\ UNCHANGED bitmap
  <2>1. Head(todo)[1] = "byNewFile" /\ Head(todo)[2] = name
    BY <1>5 DEF ByNewFile
  <2>. QED
    BY <2>1 DEF HandlerStep
<1>6. \/ \E g \in Gram, id \in 1..lastID : Head(todo) = Add(g, id) \/ Head(todo) = Del(g, id)
      \/ \E id \in 1..lastID : Head(todo) = ById(id)
      \/ \E name \in Names : Head(todo) = ByNewFile(name)
  BY <1>1 DEF Steps, Add, Del, ById, ByNewFile
<1>. QED
  BY <1>2, <1>3, <1>4, <1>5, <1>6

LEMMA BitmapsStep == Inv /\ HandlerStep => BitmapsFollow'
<1>. SUFFICES ASSUME Inv, HandlerStep, NEW g \in Gram, NEW id \in 1..lastID
              PROVE  /\ Live(g, id) /\ id \notin At(bitmap', g) => Add(g, id) \in Range(todo')
                     /\ id \in At(bitmap', g) /\ ~Live(g, id) => Del(g, id) \in Range(todo')
                     /\ Add(g, id) \in Range(todo') => Live(g, id)
                     /\ Live(g, id) => Before(Del(g, id), Add(g, id), todo')
  BY StepFacts DEF BitmapsFollow
<1>1. /\ Live(g, id) /\ id \notin At(bitmap, g) => Add(g, id) \in Range(todo)
      /\ id \in At(bitmap, g) /\ ~Live(g, id) => Del(g, id) \in Range(todo)
      /\ Add(g, id) \in Range(todo) => Live(g, id)
      /\ Live(g, id) => Before(Del(g, id), Add(g, id), todo)
  BY DEF Inv, BitmapsFollow
<1>2. /\ Range(todo) = {Head(todo)} \cup Range(todo')
      /\ \A e, f : Before(e, f, todo) =>
           Before(e, f, todo') /\ (Head(todo) = e => f \in Range(todo'))
  BY StepFacts
<1>3. CASE Head(todo) # Add(g, id) /\ Head(todo) # Del(g, id)
  <2>1. id \in At(bitmap', g) <=> id \in At(bitmap, g)
    <3>1. ASSUME NEW h \in Gram, NEW x \in 1..lastID, Head(todo) = Add(h, x)
          PROVE  id \in At(bitmap', g) <=> id \in At(bitmap, g)
      <4>1. bitmap' = Put(bitmap, h, At(bitmap, h) \cup {x})
        BY <3>1, StepKinds
      <4>. QED
        BY <1>3, <3>1, <4>1 DEF Put, At
    <3>2. ASSUME NEW h \in Gram, NEW x \in 1..lastID, Head(todo) = Del(h, x)
          PROVE  id \in At(bitmap', g) <=> id \in At(bitmap, g)
      <4>1. bitmap' = [bitmap EXCEPT ![h] = @ \ {x}]
        BY <3>2, StepKinds
      <4>. QED
        BY <1>3, <3>2, <4>1 DEF At
    <3>. QED
      BY <3>1, <3>2, StepKinds
  <2>. QED
    BY <2>1, <1>1, <1>2, <1>3
<1>4. CASE Head(todo) = Add(g, id)
  <2>1. bitmap' = Put(bitmap, g, At(bitmap, g) \cup {id})
    BY <1>4, StepKinds
  <2>2. id \in At(bitmap', g)
    BY <2>1 DEF Put, At
  <2>. QED
    BY <2>2, <1>1, <1>2, <1>4
<1>5. CASE Head(todo) = Del(g, id)
  <2>1. bitmap' = [bitmap EXCEPT ![g] = @ \ {id}]
    BY <1>5, StepKinds
  <2>2. id \notin At(bitmap', g)
    BY <2>1 DEF At
  <2>. QED
    BY <2>2, <1>1, <1>2, <1>5, StepsDiffer
<1>. QED
  BY <1>3, <1>4, <1>5

\* A result stays fresh over a step that invalidates none of its ids, by id
\* or by name.
LEMMA FreshStep ==
  ASSUME Inv, HandlerStep, NEW key, NEW n, NEW ids, Fresh(key, n, ids),
         \A id \in ids : Head(todo) # ById(id),
         \A id \in Found(key, n) : Head(todo) # ByNewFile(node[id])
  PROVE  Fresh(key, n, ids)'
  BY StepFacts DEF Fresh

\* What invalidation drops, it drops; the rest is fresh as before.
LEMMA CacheFreshStep ==
  ASSUME Inv, ReverseIndex, HandlerStep
  PROVE  CacheFresh'
<1>. SUFFICES ASSUME NEW k, k \in DOMAIN cache', ~cache'[k].raced
              PROVE  Fresh(k, Len(k), cache[k].ids)'
  BY DEF CacheFresh
<1>. DEFINE n == Len(k)
            Spared == /\ k \in DOMAIN cache /\ cache'[k] = cache[k]
                      /\ \A id \in cache[k].ids : Head(todo) # ById(id)
                      /\ \A id \in Found(k, n) : Head(todo) # ByNewFile(node[id])
<1>1. ASSUME NEW g \in Gram, NEW id \in 1..lastID,
             Head(todo) = Add(g, id) \/ Head(todo) = Del(g, id)
      PROVE  Spared
  <2>1. cache' = cache
    BY <1>1, StepKinds
  <2>. QED
    BY <2>1, <1>1, StepsDiffer
<1>2. ASSUME NEW id \in 1..lastID, Head(todo) = ById(id)
      PROVE  Spared
  <2>1. InvalidateByID(id)
    BY <1>2, StepKinds
  <2>2. k \in DOMAIN cache /\ cache'[k] = cache[k]
    BY <2>1 DEF InvalidateByID, Uncached, Without
  <2>3. id \notin cache'[k].ids
    BY <2>1, ByIDKeeps
  <2>. QED
    BY <1>2, <2>2, <2>3, StepsDiffer
<1>3. ASSUME NEW name \in Names, Head(todo) = ByNewFile(name)
      PROVE  Spared
  <2>1. InvalidateByNewFile(name)
    BY <1>3, StepKinds
  <2>2. k \in DOMAIN cache /\ cache'[k] = cache[k] /\ k \notin KeysOfName(name)
    BY <2>1 DEF InvalidateByNewFile, Uncached, Without
  <2>3. Range(k) \cap Range(GramsOf[name]) = {}
    BY <2>2 DEF KeysOfName
  <2>4. k \in Seq(STRING) /\ k # <<>>
    BY <2>2, SearchCacheAssumption DEF Inv, Types, TypeOK
  <2>5. 1 \in 1..n /\ k[1] \in Range(k)
    BY <2>4, EmptySeq, LenProperties, RangeOf
  <2>6. \A id \in Found(k, n) : node[id] # name
    BY <2>3, <2>5 DEF Found
  <2>. QED
    BY <1>3, <2>2, <2>6, StepsDiffer, NameOfStep
<1>4. Spared
  BY <1>1, <1>2, <1>3, StepKinds
<1>5. Fresh(k, n, cache[k].ids)
  BY <1>4 DEF Inv, CacheFresh
<1>6. PICK ids : ids = cache[k].ids
  OBVIOUS
<1>7. Fresh(k, n, ids)'
  BY <1>4, <1>5, <1>6, FreshStep
<1>. QED
  BY <1>4, <1>6, <1>7

\* An invalidation races every search in flight, whatever else the handler
\* does leaves its results fresh.
LEMMA SearchFreshStep ==
  ASSUME Inv, HandlerStep
  PROVE  SearchFresh'
<1>. SUFFICES ASSUME NEW s, s \in InFlight', search'[s].read > 0, ~search'[s].raced
              PROVE  Fresh(search[s].key, search[s].read, search[s].ids)'
  BY DEF SearchFresh
<1>1. CASE search' = Race
  <2>1. s \in Searchers /\ search'[s] = Race[s]
    BY <1>1 DEF InFlight
  <2>2. CASE s \in InFlight
    <3>1. search[s] \in Asked
      BY <2>2 DEF Inv, Types, SearchTypes, InFlight
    <3>2. search'[s] = [search[s] EXCEPT !.raced = TRUE]
      BY <2>1, <2>2 DEF Race
    <3>3. search'[s].raced = TRUE
      BY <3>1, <3>2 DEF Asked
    <3>. QED
      BY <3>3
  <2>3. CASE s \notin InFlight
    <3>1. search'[s] = search[s]
      BY <2>1, <2>3 DEF Race
    <3>. QED
      BY <3>1, <2>3 DEF InFlight
  <2>. QED
    BY <2>2, <2>3
<1>2. ASSUME NEW g \in Gram, NEW x \in 1..lastID,
             Head(todo) = Add(g, x) \/ Head(todo) = Del(g, x)
      PROVE  Fresh(search[s].key, search[s].read, search[s].ids)'
  <2>1. search' = search
    BY <1>2, StepKinds
  <2>2. Fresh(search[s].key, search[s].read, search[s].ids)
    BY <2>1 DEF Inv, SearchFresh, InFlight
  <2>3. \A id, name : Head(todo) # ById(id) /\ Head(todo) # ByNewFile(name)
    BY <1>2, StepsDiffer
  <2>4. PICK key, n, ids : key = search[s].key /\ n = search[s].read /\ ids = search[s].ids
    OBVIOUS
  <2>5. Fresh(key, n, ids)'
    BY <2>2, <2>3, <2>4, FreshStep
  <2>. QED
    BY <2>1, <2>4, <2>5
<1>. QED
  BY <1>1, <1>2, StepKinds

\* Types over a handler's step.
LEMMA CacheDropTypes ==
  ASSUME Types, NEW dead
  PROVE  /\ DOMAIN Uncached(dead) \subseteq DOMAIN cache
         /\ \A k \in DOMAIN Uncached(dead) : Uncached(dead)[k] = cache[k]
         /\ DOMAIN Unlinked(dead) \subseteq 1..lastID
         /\ \A id \in DOMAIN Unlinked(dead) :
              Unlinked(dead)[id] \subseteq Keys /\ Unlinked(dead)[id] # {}
<1>1. /\ DOMAIN Uncached(dead) = DOMAIN cache \ dead
      /\ \A k \in DOMAIN Uncached(dead) : Uncached(dead)[k] = cache[k]
  BY DEF Uncached, Without
<1>. DEFINE left == [id \in DOMAIN idToKeys |->
                       idToKeys[id] \ {k \in dead : id \in cache[k].ids}]
<1>2. DOMAIN Unlinked(dead) = {id \in DOMAIN idToKeys : left[id] # {}}
      /\ \A id \in DOMAIN Unlinked(dead) : Unlinked(dead)[id] = left[id]
  BY DEF Unlinked, Without
<1>3. \A id \in DOMAIN idToKeys : left[id] \subseteq idToKeys[id]
  OBVIOUS
<1>. HIDE DEF left
<1>4. DOMAIN idToKeys \subseteq 1..lastID /\ \A id \in DOMAIN idToKeys : idToKeys[id] \subseteq Keys
  BY DEF Types, TypeOK
<1>. QED
  BY <1>1, <1>2, <1>3, <1>4

LEMMA RaceTypes ==
  ASSUME SearchTypes, search' = Race, lastID' = lastID
  PROVE  SearchTypes'
<1>. SUFFICES ASSUME NEW s \in Searchers
              PROVE  \/ search'[s] \in [pc : {"idle", "page"}]
                     \/ /\ search'[s] \in Asked
                        /\ IF search'[s].pc = "read" THEN search'[s].read < Len(search'[s].key)
                           ELSE search'[s].read = Len(search'[s].key)
  BY DEF SearchTypes, Race, Asked
<1>1. CASE s \in InFlight
  <2>1. search[s] \in Asked
    BY <1>1 DEF SearchTypes, InFlight
  <2>. DEFINE r == [search[s] EXCEPT !.raced = TRUE]
  <2>2. r \in Asked /\ r.pc = search[s].pc /\ r.read = search[s].read /\ r.key = search[s].key
    BY <2>1 DEF Asked
  <2>3. search'[s] = r
    BY <1>1 DEF Race
  <2>. HIDE DEF r
  <2>4. search[s].pc \notin {"idle", "page"}
    BY <2>1 DEF Asked
  <2>. QED
    BY <2>2, <2>3, <2>4 DEF SearchTypes
<1>2. CASE s \notin InFlight
  <2>1. search'[s] = search[s]
    BY <1>2 DEF Race
  <2>. QED
    BY <2>1 DEF SearchTypes
<1>. QED
  BY <1>1, <1>2

LEMMA TypesStep ==
  ASSUME Inv, HandlerStep
  PROVE  Types'
<1>1. /\ todo' \in Seq(Steps(lastID)) /\ UNCHANGED <<node, lastID, sweepDue, renamed, cut>>
      /\ Types /\ TypeOK /\ SearchTypes
  BY StepFacts DEF Inv, Types
<1>2. ASSUME NEW g \in Gram, NEW id \in 1..lastID,
             Head(todo) = Add(g, id) \/ Head(todo) = Del(g, id)
      PROVE  Types'
  <2>1. UNCHANGED <<cache, idToKeys, aged, search>>
    BY <1>2, StepKinds
  <2>2. /\ DOMAIN bitmap' \subseteq DOMAIN bitmap \cup {g}
        /\ \A h \in DOMAIN bitmap' : bitmap'[h] \subseteq At(bitmap, h) \cup {id}
    <3>1. CASE Head(todo) = Add(g, id)
      <4>1. bitmap' = Put(bitmap, g, At(bitmap, g) \cup {id})
        BY <3>1, StepKinds
      <4>. QED
        BY <4>1 DEF Put, At
    <3>2. CASE Head(todo) = Del(g, id)
      <4>1. bitmap' = [bitmap EXCEPT ![g] = @ \ {id}]
        BY <3>2, StepKinds
      <4>. QED
        BY <4>1 DEF At
    <3>. QED
      BY <1>2, <3>1, <3>2
  <2>3. DOMAIN bitmap' \subseteq Gram /\ \A h \in DOMAIN bitmap' : bitmap'[h] \subseteq 1..lastID
    BY <1>1, <2>2 DEF Types, TypeOK, At
  <2>4. TypeOK'
    BY <1>1, <2>1, <2>3 DEF TypeOK
  <2>5. SearchTypes'
    BY <1>1, <2>1 DEF SearchTypes, Asked
  <2>. QED
    BY <1>1, <2>1, <2>3, <2>4, <2>5 DEF Types
<1>3. ASSUME NEW dead, bitmap' = bitmap, search' = Race, cache' = Uncached(dead),
             aged' = aged \ dead,
             DOMAIN idToKeys' \subseteq DOMAIN Unlinked(dead),
             \A id \in DOMAIN idToKeys' : idToKeys'[id] = Unlinked(dead)[id]
      PROVE  Types'
  <2>1. /\ DOMAIN cache' \subseteq DOMAIN cache /\ \A k \in DOMAIN cache' : cache'[k] = cache[k]
        /\ DOMAIN idToKeys' \subseteq 1..lastID
        /\ \A id \in DOMAIN idToKeys' : idToKeys'[id] \subseteq Keys /\ idToKeys'[id] # {}
    BY <1>1, <1>3, CacheDropTypes
  <2>2. SearchTypes'
    BY <1>1, <1>3, RaceTypes
  <2>3. aged' \subseteq DOMAIN cache'
    BY <1>1, <1>3 DEF Uncached, Without, TypeOK
  <2>4. \A s \in Searchers : search'[s].pc \in {"idle", "read", "split", "set", "page"}
    BY <2>2 DEF SearchTypes, Asked
  <2>5. TypeOK'
    BY <1>1, <1>3, <2>1, <2>3, <2>4 DEF TypeOK
  <2>. QED
    BY <1>1, <1>3, <2>1, <2>2, <2>5 DEF Types
<1>4. ASSUME NEW id \in 1..lastID, Head(todo) = ById(id)
      PROVE  Types'
  <2>1. InvalidateByID(id) /\ search' = Race /\ bitmap' = bitmap
    BY <1>4, StepKinds
  <2>. DEFINE dead == KeysOfID(id)
  <2>2. cache' = Uncached(dead) /\ aged' = aged \ dead /\ idToKeys' = Without(Unlinked(dead), {id})
    BY <2>1 DEF InvalidateByID
  <2>. HIDE DEF dead
  <2>. QED
    BY <1>3, <2>1, <2>2 DEF Without
<1>5. ASSUME NEW name \in Names, Head(todo) = ByNewFile(name)
      PROVE  Types'
  <2>1. InvalidateByNewFile(name) /\ search' = Race /\ bitmap' = bitmap
    BY <1>5, StepKinds
  <2>. DEFINE dead == KeysOfName(name)
  <2>2. cache' = Uncached(dead) /\ aged' = aged \ dead /\ idToKeys' = Unlinked(dead)
    BY <2>1 DEF InvalidateByNewFile
  <2>. HIDE DEF dead
  <2>. QED
    BY <1>3, <2>1, <2>2
<1>. QED
  BY <1>2, <1>4, <1>5, StepKinds

LEMMA StepKeeps == Inv /\ ReverseIndex /\ HandlerStep => Inv'
<1>. SUFFICES ASSUME Inv, ReverseIndex, HandlerStep
              PROVE  Inv'
  OBVIOUS
<1>1. InvalidatesAfter'
  <2>1. \A g \in Gram, id \in 1..lastID :
          /\ id \notin cut => Before(Del(g, id), ById(id), todo)
          /\ id \in Known \ renamed => Before(Add(g, id), ByNewFile(node[id]), todo)
    BY DEF Inv, InvalidatesAfter
  <2>. QED
    BY <2>1, StepFacts DEF InvalidatesAfter
<1>. QED
  BY <1>1, TypesStep, BitmapsStep, CacheFreshStep, SearchFreshStep DEF Inv

-----------------------------------------------------------------------------
(* Steps of a search, and of time.                                         *)

\* What a search may change and leave the handlers' part of the invariant.
LEMMA IndexKept ==
  ASSUME Inv, UNCHANGED <<node, lastID, bitmap, todo, renamed, cut>>
  PROVE  /\ BitmapsFollow' /\ InvalidatesAfter'
         /\ \A key, n, ids : Fresh(key, n, ids) => Fresh(key, n, ids)'
<1>1. Known' = Known /\ \A g, id : Live(g, id)' <=> Live(g, id)
  BY DEF Known, Live
<1>2. \A key, n : Found(key, n)' = Found(key, n)
  BY <1>1 DEF Found
<1>3. BitmapsFollow'
  BY <1>1 DEF Inv, BitmapsFollow
<1>4. InvalidatesAfter'
  BY <1>1 DEF Inv, InvalidatesAfter
<1>. QED
  BY <1>2, <1>3, <1>4 DEF Fresh

\* One search takes a step; the others and the cache are as they were.
LEMMA SearchMoves ==
  ASSUME Inv, NEW s \in Searchers, NEW r,
         UNCHANGED <<node, lastID, bitmap, todo, renamed, cut>>,
         UNCHANGED <<cache, idToKeys, aged, sweepDue>>,
         search' = [search EXCEPT ![s] = r],
         \/ r \in [pc : {"idle", "page"}]
         \/ /\ r \in Asked
            /\ IF r.pc = "read" THEN r.read < Len(r.key) ELSE r.read = Len(r.key)
            /\ r.read > 0 /\ ~r.raced => Fresh(r.key, r.read, r.ids)
  PROVE  Inv'
<1>1. DOMAIN search = Searchers /\ search'[s] = r
      /\ \A q \in Searchers : q # s => search'[q] = search[q]
  BY DEF Inv, Types, SearchTypes
<1>2. SearchTypes'
  BY <1>1 DEF Inv, Types, SearchTypes, Asked
<1>3. Types'
  <2>1. \A q \in Searchers : search'[q].pc \in {"idle", "read", "split", "set", "page"}
    BY <1>2 DEF SearchTypes, Asked
  <2>2. TypeOK'
    BY <2>1 DEF Inv, Types, TypeOK
  <2>. QED
    BY <1>2, <2>2 DEF Inv, Types, Steps
<1>4. CacheFresh'
  BY IndexKept DEF Inv, CacheFresh
<1>5. SearchFresh'
  <2>. SUFFICES ASSUME NEW q, q \in InFlight', search'[q].read > 0, ~search'[q].raced
                PROVE  Fresh(search[q].key, search[q].read, search[q].ids)'
    BY DEF SearchFresh
  <2>1. PICK key, n, ids : key = search'[q].key /\ n = search'[q].read /\ ids = search'[q].ids
    OBVIOUS
  <2>2. Fresh(key, n, ids)
    <3>1. CASE q = s
      <4>1. r.pc \notin {"idle", "page"}
        BY <1>1, <3>1 DEF InFlight
      <4>. QED
        BY <1>1, <3>1, <4>1, <2>1
    <3>2. CASE q # s
      BY <1>1, <3>2, <2>1 DEF Inv, SearchFresh, InFlight
    <3>. QED
      BY <3>1, <3>2
  <2>3. Fresh(key, n, ids)'
    BY <2>2, IndexKept
  <2>. QED
    BY <2>1, <2>3
<1>. QED
  BY <1>3, <1>4, <1>5, IndexKept DEF Inv

\* One more keyword: what its bitmap has too much or too little, the handler
\* will still invalidate.
LEMMA ReadFresh ==
  ASSUME Inv, NEW key, NEW n \in Nat, NEW ids, NEW g, g = key[n+1], g \in DOMAIN bitmap,
         n > 0 => Fresh(key, n, ids)
  PROVE  Fresh(key, n+1, IF n = 0 THEN bitmap[g] ELSE ids \cap bitmap[g])
<1>. DEFINE now == IF n = 0 THEN bitmap[g] ELSE ids \cap bitmap[g]
<1>1. g \in Gram /\ bitmap[g] \subseteq 1..lastID /\ \A id : id \in bitmap[g] <=> id \in At(bitmap, g)
  BY DEF Inv, Types, TypeOK, At
<1>2. /\ \A id : id \in Found(key, n+1) <=> id \in Found(key, n) /\ Live(g, id)
      /\ n = 0 => \A id : id \in Found(key, n+1) <=> Live(g, id)
  <2>1. 1..(n+1) = 1..n \cup {n+1} /\ (n = 0 => 1..n = {})
    OBVIOUS
  <2>. QED
    BY <2>1 DEF Found, Live
<1>3. ASSUME NEW id \in now, id \notin Found(key, n+1)
      PROVE  id \in cut \/ ById(id) \in Range(todo)
  <2>1. CASE ~Live(g, id)
    <3>1. id \in 1..lastID /\ Del(g, id) \in Range(todo)
      BY <1>1, <1>3, <2>1 DEF Inv, BitmapsFollow
    <3>2. CASE id \notin cut
      <4>1. Before(Del(g, id), ById(id), todo)
        BY <1>1, <3>1, <3>2 DEF Inv, InvalidatesAfter
      <4>. QED
        BY <3>1, <4>1, RangeOf DEF Before
    <3>. QED
      BY <3>2
  <2>2. CASE Live(g, id)
    <3>1. n # 0 /\ id \in ids /\ id \notin Found(key, n)
      BY <1>2, <1>3, <2>2
    <3>. QED
      BY <3>1 DEF Fresh
  <2>. QED
    BY <2>1, <2>2
<1>4. ASSUME NEW id \in Found(key, n+1), id \notin now
      PROVE  id \in renamed \/ ByNewFile(node[id]) \in Range(todo)
  <2>1. Live(g, id) /\ id \in Known /\ id \in 1..lastID
    BY <1>2, <1>4, StartFacts DEF Live
  <2>2. CASE id \notin bitmap[g]
    <3>1. Add(g, id) \in Range(todo)
      BY <1>1, <2>1, <2>2 DEF Inv, BitmapsFollow
    <3>2. CASE id \notin renamed
      <4>1. Before(Add(g, id), ByNewFile(node[id]), todo)
        BY <1>1, <2>1, <3>2 DEF Inv, InvalidatesAfter
      <4>. QED
        BY <3>1, <4>1, RangeOf DEF Before
    <3>. QED
      BY <3>2
  <2>3. CASE id \in bitmap[g]
    <3>1. n # 0 /\ id \notin ids /\ id \in Found(key, n)
      BY <1>2, <1>4, <2>3
    <3>. QED
      BY <3>1 DEF Fresh
  <2>. QED
    BY <2>2, <2>3
<1>. QED
  BY <1>3, <1>4 DEF Fresh

\* A request with some of its fields replaced.
LEMMA AskedFields ==
  ASSUME NEW r \in Asked, NEW pc, NEW ids
  PROVE  [r EXCEPT !.ids = ids, !.pc = pc]
           = [pc |-> pc, key |-> r.key, read |-> r.read, ids |-> ids, raced |-> r.raced]
<1>1. r = [pc |-> r.pc, key |-> r.key, read |-> r.read, ids |-> r.ids, raced |-> r.raced]
  BY DEF Asked
<1>2. PICK k, p, m, i, c : r = [pc |-> p, key |-> k, read |-> m, ids |-> i, raced |-> c]
  BY <1>1
<1>3. PICK a : a = [r EXCEPT !.ids = ids]
  OBVIOUS
<1>4. a = [pc |-> p, key |-> k, read |-> m, ids |-> ids, raced |-> c]
  BY <1>2, <1>3
<1>5. [a EXCEPT !.pc = pc] = [pc |-> pc, key |-> k, read |-> m, ids |-> ids, raced |-> c]
  BY <1>4
<1>6. [r EXCEPT !.ids = ids, !.pc = pc] = [a EXCEPT !.pc = pc]
  BY <1>3, Zenon
<1>. QED
  BY <1>2, <1>5, <1>6, Zenon

LEMMA ReadKeeps ==
  ASSUME Inv, NEW s \in Searchers, Read(s)
  PROVE  Inv'
<1>. DEFINE r == search[s]
            g == r.key[r.read + 1]
            ids == IF r.read = 0 THEN bitmap[g] ELSE r.ids \cap bitmap[g]
            q == [pc |-> IF r.read + 1 = Len(r.key) THEN "split" ELSE "read",
                  key |-> r.key, read |-> r.read + 1, ids |-> ids,
                  raced |-> r.read > 0 /\ r.raced]
<1>1. /\ UNCHANGED <<node, lastID, bitmap, todo, renamed, cut>>
      /\ UNCHANGED <<cache, idToKeys, aged, sweepDue>>
      /\ r.pc = "read"
  BY DEF Read, index, clock
<1>2. r \in Asked /\ r.read < Len(r.key)
  BY <1>1 DEF Inv, Types, SearchTypes
<1>3. /\ r.key \in Keys /\ r.read \in Nat /\ r.ids \subseteq 1..lastID /\ r.raced \in BOOLEAN
      /\ Len(r.key) \in Nat
  BY <1>2, SearchCacheAssumption, LenProperties DEF Asked
<1>4. CASE g \notin DOMAIN bitmap
  <2>1. search' = [search EXCEPT ![s] = Idle]
    BY <1>4 DEF Read
  <2>2. Idle \in [pc : {"idle", "page"}]
    BY DEF Idle
  <2>. QED
    BY <1>1, <2>1, <2>2, SearchMoves
<1>5. CASE g \in DOMAIN bitmap
  <2>3. search' = [search EXCEPT ![s] = q]
    BY <1>5 DEF Read
  <2>4. bitmap[g] \subseteq 1..lastID
    BY <1>5 DEF Inv, Types, TypeOK
  <2>5. ids \subseteq 1..lastID
    BY <1>3, <2>4
  <2>6. r.read > 0 /\ ~r.raced => Fresh(r.key, r.read, r.ids)
    BY <1>1 DEF Inv, SearchFresh, InFlight
  <2>7. (r.read = 0 \/ ~r.raced) => Fresh(r.key, r.read + 1, ids)
    <3>. SUFFICES ASSUME r.read = 0 \/ ~r.raced
                  PROVE  Fresh(r.key, r.read + 1, ids)
      OBVIOUS
    <3>1. r.read > 0 => Fresh(r.key, r.read, r.ids)
      BY <1>3, <2>6
    <3>. HIDE DEF r
    <3>. QED
      BY <1>3, <1>5, <3>1, ReadFresh
  <2>. HIDE DEF r, g, ids
  <2>8. q \in Asked
    <3>1. q.pc \in {"read", "split", "set"} /\ r.read + 1 \in Nat
      BY <1>3
    <3>2. q.raced \in BOOLEAN
      BY <1>3
    <3>. QED
      BY <1>3, <2>5, <3>1, <3>2 DEF Asked
  <2>9. IF q.pc = "read" THEN q.read < Len(q.key) ELSE q.read = Len(q.key)
    BY <1>2, <1>3
  <2>10. q.read > 0 /\ ~q.raced => Fresh(q.key, q.read, q.ids)
    <3>1. ~q.raced => ~(r.read > 0) \/ ~r.raced
      OBVIOUS
    <3>2. ~(r.read > 0) => r.read = 0
      BY <1>3
    <3>. QED
      BY <2>7, <3>1, <3>2
  <2>. HIDE DEF q
  <2>. QED
    BY <1>1, <2>3, <2>8, <2>9, <2>10, SearchMoves
<1>. QED
  BY <1>4, <1>5

LEMMA SplitKeeps ==
  ASSUME Inv, NEW s \in Searchers, Split(s)
  PROVE  Inv'
<1>. DEFINE r == search[s]
            q == [pc |-> "set", key |-> r.key, read |-> r.read,
                  ids |-> r.ids \cap DOMAIN node, raced |-> r.raced]
<1>1. /\ UNCHANGED <<node, lastID, bitmap, todo, renamed, cut>>
      /\ UNCHANGED <<cache, idToKeys, aged, sweepDue>>
      /\ r.pc = "split"
  BY DEF Split, index, clock
<1>2. r \in Asked /\ r.read = Len(r.key) /\ DOMAIN search = Searchers
  BY <1>1 DEF Inv, Types, SearchTypes
<1>3. /\ r.key \in Keys /\ r.read \in Nat /\ r.ids \subseteq 1..lastID /\ r.raced \in BOOLEAN
  BY <1>2 DEF Asked
<1>4. search' = [search EXCEPT ![s] = q]
  <2>1. search' = [search EXCEPT ![s] = [r EXCEPT !.ids = r.ids \cap DOMAIN node, !.pc = "set"]]
    BY <1>2 DEF Split
  <2>2. [r EXCEPT !.ids = r.ids \cap DOMAIN node, !.pc = "set"] = q
    <3>. HIDE DEF r
    <3>. QED
      BY <1>2, AskedFields
  <2>. QED
    BY <2>1, <2>2
<1>5. r.read > 0 /\ ~r.raced => Fresh(r.key, r.read, r.ids)
  BY <1>1 DEF Inv, SearchFresh, InFlight
<1>6. Fresh(r.key, r.read, r.ids) => Fresh(r.key, r.read, r.ids \cap DOMAIN node)
  BY DEF Fresh, Found, Known
<1>. HIDE DEF r
<1>7. q \in Asked /\ q.pc # "read" /\ q.read = Len(q.key)
  BY <1>2, <1>3 DEF Asked
<1>8. q.read > 0 /\ ~q.raced => Fresh(q.key, q.read, q.ids)
  BY <1>5, <1>6
<1>. HIDE DEF q
<1>. QED
  BY <1>1, <1>4, <1>7, <1>8, SearchMoves

LEMMA AskKeeps ==
  ASSUME Inv, NEW s \in Searchers, NEW key \in Keys, Hit(s, key) \/ Miss(s, key) \/ Page(s)
  PROVE  Inv'
<1>1. /\ UNCHANGED <<node, lastID, bitmap, todo, renamed, cut>>
      /\ UNCHANGED <<cache, idToKeys, aged, sweepDue>>
  BY DEF Hit, Miss, Page, index, clock
<1>2. CASE Hit(s, key) \/ Page(s)
  <2>1. PICK r \in [pc : {"idle", "page"}] : search' = [search EXCEPT ![s] = r]
    BY <1>2 DEF Hit, Page, Idle
  <2>. QED
    BY <1>1, <2>1, SearchMoves
<1>3. CASE Miss(s, key)
  <2>. DEFINE r == [pc |-> "read", key |-> key, read |-> 0, ids |-> {}, raced |-> FALSE]
  <2>1. search' = [search EXCEPT ![s] = r]
    BY <1>3 DEF Miss
  <2>2. Len(key) \in Nat /\ Len(key) # 0
    BY SearchCacheAssumption, EmptySeq
  <2>3. r \in Asked /\ ~(r.read > 0) /\ r.read < Len(r.key) /\ r.pc = "read"
    BY <2>2 DEF Asked
  <2>. HIDE DEF r
  <2>. QED
    BY <1>1, <2>1, <2>3, SearchMoves
<1>. QED
  BY <1>2, <1>3

\* Only keys leave the cache, or grow old in it.
LEMMA TimeKeeps ==
  ASSUME Inv, (\E key \in Keys : Expire(key)) \/ SweepComesDue
  PROVE  Inv'
<1>1. /\ UNCHANGED <<node, lastID, bitmap, todo, renamed, cut>>
      /\ UNCHANGED <<cache, idToKeys, search>>
      /\ aged' \subseteq DOMAIN cache /\ sweepDue' \in BOOLEAN
  BY DEF Inv, Types, TypeOK, Expire, SweepComesDue, index
<1>2. SearchTypes'
  BY <1>1 DEF Inv, Types, SearchTypes, Asked
<1>3. TypeOK'
  BY <1>1 DEF Inv, Types, TypeOK
<1>4. Types'
  BY <1>1, <1>2, <1>3 DEF Inv, Types, Steps
<1>5. CacheFresh'
  BY <1>1, IndexKept DEF Inv, CacheFresh
<1>6. SearchFresh'
  <2>. SUFFICES ASSUME NEW q, q \in InFlight', search'[q].read > 0, ~search'[q].raced
                PROVE  Fresh(search[q].key, search[q].read, search[q].ids)'
    BY DEF SearchFresh
  <2>1. PICK key, n, ids : key = search[q].key /\ n = search[q].read /\ ids = search[q].ids
    OBVIOUS
  <2>2. Fresh(key, n, ids)
    BY <1>1, <2>1 DEF Inv, SearchFresh, InFlight
  <2>3. Fresh(key, n, ids)'
    BY <1>1, <2>2, IndexKept
  <2>. QED
    BY <1>1, <2>1, <2>3
<1>. QED
  BY <1>1, <1>4, <1>5, <1>6, IndexKept DEF Inv

\* The result of a search is as fresh in the cache as it was in its hands.
LEMMA StoreKeeps ==
  ASSUME Inv, NEW s \in Searchers, Store(s)
  PROVE  Inv'
<1>. DEFINE r == search[s]
            stored == Put(cache, r.key, [ids |-> r.ids, raced |-> r.raced])
            linked == Linked(r.key, r.ids)
            dead == IF sweepDue THEN aged \ {r.key} ELSE {}
            left == [id \in DOMAIN linked |-> linked[id] \ {k \in dead : id \in stored[k].ids}]
<1>1. /\ UNCHANGED <<node, lastID, bitmap, todo, renamed, cut>>
      /\ r.pc = "set" /\ Set(r.key, r.ids, r.raced)
      /\ search' = [search EXCEPT ![s] = [pc |-> "page"]]
  BY DEF Store, index
<1>2. /\ cache' = Without(stored, dead)
      /\ idToKeys' = Without(left, {id \in DOMAIN left : left[id] = {}})
      /\ aged' = aged \ (dead \cup {r.key}) /\ sweepDue' = FALSE
  BY <1>1 DEF Set
<1>3. r \in Asked /\ r.read = Len(r.key) /\ DOMAIN search = Searchers
  BY <1>1 DEF Inv, Types, SearchTypes
<1>4. /\ r.key \in Keys /\ r.ids \subseteq 1..lastID /\ r.raced \in BOOLEAN
      /\ Len(r.key) \in Nat /\ Len(r.key) > 0
  BY <1>3, SearchCacheAssumption, EmptySeq DEF Asked
<1>5. ~r.raced => Fresh(r.key, Len(r.key), r.ids)
  BY <1>1, <1>3, <1>4 DEF Inv, SearchFresh, InFlight
<1>6. /\ search'[s] = [pc |-> "page"]
      /\ DOMAIN search' = Searchers /\ \A q \in Searchers : q # s => search'[q] = search[q]
  BY <1>1, <1>3
<1>. HIDE DEF r
<1>7. /\ DOMAIN cache' = (DOMAIN cache \cup {r.key}) \ dead /\ r.key \in DOMAIN cache'
      /\ cache'[r.key] = [ids |-> r.ids, raced |-> r.raced]
      /\ \A k \in DOMAIN cache' : k # r.key => k \in DOMAIN cache /\ cache'[k] = cache[k]
  <2>1. /\ DOMAIN stored = DOMAIN cache \cup {r.key}
        /\ stored[r.key] = [ids |-> r.ids, raced |-> r.raced]
        /\ \A k \in DOMAIN stored : k # r.key => stored[k] = cache[k]
    BY DEF Put
  <2>. HIDE DEF stored
  <2>2. r.key \notin dead
    OBVIOUS
  <2>. HIDE DEF dead
  <2>. QED
    BY <1>2, <2>1, <2>2 DEF Without
<1>8. DOMAIN idToKeys' \subseteq 1..lastID
      /\ \A id \in DOMAIN idToKeys' : idToKeys'[id] \subseteq Keys /\ idToKeys'[id] # {}
  <2>1. DOMAIN linked \subseteq 1..lastID /\ \A id \in DOMAIN linked : linked[id] \subseteq Keys
    BY <1>4 DEF Linked, At, Inv, Types, TypeOK
  <2>. HIDE DEF linked, dead, stored
  <2>2. DOMAIN left = DOMAIN linked /\ \A id \in DOMAIN left : left[id] \subseteq linked[id]
    OBVIOUS
  <2>. HIDE DEF left
  <2>. QED
    BY <1>2, <2>1, <2>2 DEF Without
<1>9. aged' \subseteq DOMAIN cache'
  BY <1>2, <1>7 DEF Inv, Types, TypeOK
<1>. HIDE DEF stored, linked, dead, left
<1>10. SearchTypes'
  BY <1>1, <1>6 DEF Inv, Types, SearchTypes, Asked
<1>11. \A k \in DOMAIN cache' : cache'[k] \in [ids : SUBSET (1..lastID), raced : BOOLEAN]
  <2>1. [ids |-> r.ids, raced |-> r.raced] \in [ids : SUBSET (1..lastID), raced : BOOLEAN]
    BY <1>4
  <2>. QED
    BY <1>7, <2>1 DEF Inv, Types
<1>12. TypeOK'
  <2>1. \A q \in Searchers : search'[q].pc \in {"idle", "read", "split", "set", "page"}
    BY <1>10 DEF SearchTypes, Asked
  <2>2. \A k \in DOMAIN cache' : cache'[k].ids \subseteq 1..lastID /\ cache'[k].raced \in BOOLEAN
    BY <1>11
  <2>3. DOMAIN cache' \subseteq Keys
    BY <1>4, <1>7 DEF Inv, Types, TypeOK
  <2>. QED
    BY <1>1, <1>2, <1>8, <1>9, <2>1, <2>2, <2>3 DEF Inv, Types, TypeOK
<1>13. Types'
  BY <1>1, <1>10, <1>11, <1>12 DEF Inv, Types, Steps
<1>14. CacheFresh'
  <2>. SUFFICES ASSUME NEW k, k \in DOMAIN cache', ~cache'[k].raced
                PROVE  Fresh(k, Len(k), cache[k].ids)'
    BY DEF CacheFresh
  <2>1. PICK ids : ids = cache'[k].ids
    OBVIOUS
  <2>2. Fresh(k, Len(k), ids)
    <3>1. CASE k = r.key
      BY <1>5, <1>7, <2>1, <3>1
    <3>2. CASE k # r.key
      BY <1>7, <2>1, <3>2 DEF Inv, CacheFresh
    <3>. QED
      BY <3>1, <3>2
  <2>3. Fresh(k, Len(k), ids)'
    BY <1>1, <2>2, IndexKept
  <2>. QED
    BY <2>1, <2>3
<1>15. SearchFresh'
  <2>. SUFFICES ASSUME NEW q, q \in InFlight', search'[q].read > 0, ~search'[q].raced
                PROVE  Fresh(search[q].key, search[q].read, search[q].ids)'
    BY DEF SearchFresh
  <2>1. q # s /\ q \in InFlight /\ search'[q] = search[q]
    BY <1>6 DEF InFlight
  <2>2. PICK key, n, ids : key = search[q].key /\ n = search[q].read /\ ids = search[q].ids
    OBVIOUS
  <2>3. Fresh(key, n, ids)
    BY <2>1, <2>2 DEF Inv, SearchFresh
  <2>4. Fresh(key, n, ids)'
    BY <1>1, <2>3, IndexKept
  <2>. QED
    BY <2>1, <2>2, <2>4
<1>. QED
  BY <1>1, <1>13, <1>14, <1>15, IndexKept DEF Inv

-----------------------------------------------------------------------------

LEMMA InitInv == Init => Inv
<1>. SUFFICES ASSUME Init PROVE Inv
  OBVIOUS
<1>1. /\ node = << >> /\ lastID = 0 /\ bitmap = << >> /\ todo = <<>> /\ cache = << >>
      /\ idToKeys = << >> /\ aged = {} /\ sweepDue = FALSE /\ renamed = {} /\ cut = {}
      /\ DOMAIN search = Searchers /\ \A s \in Searchers : search[s] = [pc |-> "idle"]
  BY DEF Init, Idle
<1>2. /\ DOMAIN node = {} /\ DOMAIN bitmap = {} /\ DOMAIN cache = {} /\ DOMAIN idToKeys = {}
      /\ 1..lastID = {} /\ InFlight = {}
  BY <1>1 DEF InFlight
<1>3. TypeOK
  <2>1. \A s \in Searchers : search[s].pc \in {"idle", "read", "split", "set", "page"}
    BY <1>1
  <2>2. lastID \in Nat /\ sweepDue \in BOOLEAN
    BY <1>1
  <2>. QED
    BY <1>1, <1>2, <2>1, <2>2 DEF TypeOK
<1>4. SearchTypes
  BY <1>1 DEF SearchTypes
<1>5. todo \in Seq(Steps(lastID))
  BY <1>1
<1>. QED
  BY <1>2, <1>3, <1>4, <1>5
  DEF Inv, Types, BitmapsFollow, InvalidatesAfter, CacheFresh, SearchFresh

\* Listing a set of nodes gives a sequence of nodes.
LEMMA ListOfKnown ==
  ASSUME Inv, NEW S \in SUBSET Known, NEW ids \in SetToSeqs(S)
  PROVE  ids \in Seq(Known)
<1>1. IsFiniteSet(1..lastID)
  BY StartFacts, FS_Interval
<1>2. IsFiniteSet(S)
  BY <1>1, StartFacts, FS_Subset
<1>3. Cardinality(S) \in Nat
  BY <1>2, FS_CardinalityType
<1>4. ids \in [1..Cardinality(S) -> S]
  BY DEF SetToSeqs
<1>. QED
  BY <1>3, <1>4

LEMMA NextInv == Inv /\ ReverseIndex /\ [Next]_vars => Inv'
<1>. SUFFICES ASSUME Inv, ReverseIndex, [Next]_vars
              PROVE  Inv'
  OBVIOUS
<1>1. ASSUME NEW name \in Names, Create(name)
      PROVE  Inv'
  BY <1>1, CreateStarts, StartKeeps
<1>2. ASSUME NEW id \in Known, Touch(id) \/ RenameCut(id)
      PROVE  Inv'
  BY <1>2, TouchStarts, RenameCutStarts, StartKeeps
<1>3. ASSUME NEW S \in SUBSET Known, NEW ids \in SetToSeqs(S), RemoveAll(ids)
      PROVE  Inv'
  BY <1>3, ListOfKnown, RemoveAllStarts, StartKeeps
<1>4. ASSUME NEW id \in Known, NEW name \in Names, NEW S \in SUBSET Known,
             NEW below \in SetToSeqs(S \ {id}), Rename(id, name, below)
      PROVE  Inv'
  <2>1. S \ {id} \in SUBSET Known
    OBVIOUS
  <2>2. below \in Seq(Known)
    BY <2>1, ListOfKnown
  <2>. QED
    BY <1>4, <2>2, RenameStarts, StartKeeps
<1>5. CASE HandlerStep
  BY <1>5, StepKeeps
<1>6. ASSUME NEW s \in Searchers, NEW key \in Keys, Hit(s, key) \/ Miss(s, key)
      PROVE  Inv'
  BY <1>6, AskKeeps
<1>7. ASSUME NEW s \in Searchers, Read(s) \/ Split(s) \/ Store(s)
      PROVE  Inv'
  BY <1>7, ReadKeeps, SplitKeeps, StoreKeeps
<1>8. ASSUME NEW s \in Searchers, Page(s)
      PROVE  Inv'
  <2>1. \E r \in [pc : {"idle", "page"}] : search' = [search EXCEPT ![s] = r]
    BY <1>8 DEF Page, Idle
  <2>2. /\ UNCHANGED <<node, lastID, bitmap, todo, renamed, cut>>
        /\ UNCHANGED <<cache, idToKeys, aged, sweepDue>>
    BY <1>8 DEF Page, index, clock
  <2>. QED
    BY <2>1, <2>2, SearchMoves
<1>9. CASE (\E key \in Keys : Expire(key)) \/ SweepComesDue
  BY <1>9, TimeKeeps
<1>10. CASE UNCHANGED vars
  <2>1. UNCHANGED <<node, lastID, bitmap, todo, renamed, cut, cache, idToKeys, aged, sweepDue, search>>
    BY <1>10 DEF vars, index, clock
  <2>. QED
    BY <2>1 DEF Inv, Types, TypeOK, SearchTypes, Asked, Steps, BitmapsFollow, InvalidatesAfter,
                CacheFresh, SearchFresh, Fresh, Found, Live, Known, InFlight
<1>. QED
  BY <1>1, <1>2, <1>3, <1>4, <1>5, <1>6, <1>7, <1>8, <1>9, <1>10 DEF Next, SearchStep

LEMMA SpecInv == Spec => [](Inv /\ ReverseIndex)
<1>1. Inv /\ ReverseIndex /\ [Next]_vars => (Inv /\ ReverseIndex)'
  BY NextInv, NextReverse
<1>. QED
  BY <1>1, InitInv, InitReverse, PTL DEF Spec

\* Nodes, bitmaps, cache, reverse index and requests keep their types.
THEOREM TypeCorrect == Spec => []TypeOK
<1>1. Inv => TypeOK
  BY DEF Inv, Types
<1>. QED
  BY <1>1, SpecInv, PTL

\* When no handler runs, a cached result whose search no invalidation raced is
\* what a search would find now, but for ids a rename has named since and ids a
\* failed rename has cut off: the order n-grams first, invalidation behind
\* (file_watcher.go) is enough, for any handlers, keys, searches and sweeps.
THEOREM FreshUnlessRacedHolds == Spec => []FreshUnlessRaced
<1>1. Inv => FreshUnlessRaced
  <2>. SUFFICES ASSUME Inv, todo = <<>>, NEW k \in DOMAIN cache, ~cache[k].raced
                PROVE  /\ Answer(k) \ cache[k].ids \subseteq renamed
                       /\ cache[k].ids \ Answer(k) \subseteq cut
    BY DEF FreshUnlessRaced, muFree
  <2>1. \A e : e \notin Range(todo)
    BY DEF Range
  <2>2. \A g \in Gram, id \in 1..lastID : Live(g, id) <=> id \in At(bitmap, g)
    BY <2>1 DEF Inv, BitmapsFollow
  <2>3. k \in Seq(STRING) /\ k # <<>>
    BY SearchCacheAssumption DEF Inv, Types, TypeOK
  <2>4. DOMAIN k = 1..Len(k) /\ 1 \in DOMAIN k
    BY <2>3, EmptySeq, LenProperties
  <2>5. \A id : id \in Found(k, Len(k)) <=>
                  id \in Known /\ \A i \in DOMAIN k : Live(k[i], id)
    BY <2>4 DEF Found, Live
  <2>6. \A g, id : Live(g, id) => g \in Gram
    BY StartFacts DEF Live, Gram
  <2>7. DOMAIN bitmap \subseteq Gram /\ \A g, id : id \in At(bitmap, g) <=> g \in DOMAIN bitmap /\ id \in bitmap[g]
    BY DEF Inv, Types, At
  <2>8. Answer(k) = Found(k, Len(k))
    <3>1. ASSUME NEW id \in Answer(k) PROVE id \in Found(k, Len(k))
      <4>1. id \in 1..lastID /\ \A i \in DOMAIN k : Live(k[i], id)
        BY <3>1, <2>2, <2>7, StartFacts DEF Answer
      <4>. QED
        BY <4>1, <2>4, <2>5 DEF Live
    <3>2. ASSUME NEW id \in Found(k, Len(k)) PROVE id \in Answer(k)
      BY <3>2, <2>2, <2>5, <2>6, <2>7, StartFacts DEF Answer
    <3>. QED
      BY <3>1, <3>2
  <2>9. Fresh(k, Len(k), cache[k].ids)
    BY DEF Inv, CacheFresh
  <2>. QED
    BY <2>1, <2>8, <2>9 DEF Fresh
<1>. QED
  BY <1>1, SpecInv, PTL
=============================================================================
