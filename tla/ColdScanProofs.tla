--------------------------- MODULE ColdScanProofs ---------------------------
(***************************************************************************)
(* Proofs about the initial scan: for any tree, any number of workers and  *)
(* indexers and any capacities, the channels close when no task is left,   *)
(* and nothing on disk is missed without a deletion or a refused watch to  *)
(* blame.                                                                  *)
(***************************************************************************)
EXTENDS ColdScan, IndexOpsProofs

-----------------------------------------------------------------------------
(* Channels and the goroutines that wait for room.                         *)

Within(x, s) == \E i \in DOMAIN s : s[i] = x

LEMMA AppendWithin ==
  ASSUME NEW S, NEW s \in Seq(S), NEW e \in S
  PROVE  /\ Append(s, e) \in Seq(S) /\ Len(Append(s, e)) = Len(s) + 1 /\ Len(s) \in Nat
         /\ \A x : Within(x, Append(s, e)) <=> Within(x, s) \/ x = e
<1>. DEFINE t == Append(s, e)
<1>1. /\ t \in Seq(S) /\ Len(t) = Len(s) + 1
      /\ \A i \in 1..Len(s) : t[i] = s[i]
      /\ t[Len(s) + 1] = e
  BY AppendProperties
<1>2. Len(s) \in Nat /\ DOMAIN s = 1..Len(s) /\ DOMAIN t = 1..Len(t)
  BY <1>1, LenProperties
<1>. HIDE DEF t
<1>3. DOMAIN t = DOMAIN s \cup {Len(s) + 1}
  BY <1>1, <1>2
<1>4. \A x : Within(x, t) <=> Within(x, s) \/ x = e
  BY <1>1, <1>2, <1>3 DEF Within
<1>. QED
  BY <1>1, <1>2, <1>4 DEF t

LEMMA TailWithin ==
  ASSUME NEW S, NEW s \in Seq(S), s # <<>>
  PROVE  /\ Tail(s) \in Seq(S) /\ Len(Tail(s)) = Len(s) - 1 /\ Len(s) \in Nat \ {0}
         /\ Head(s) \in S /\ Within(Head(s), s)
         /\ \A x : Within(x, s) => x = Head(s) \/ Within(x, Tail(s))
         /\ \A x : Within(x, Tail(s)) => Within(x, s)
<1>. DEFINE t == Tail(s)
<1>1. /\ t \in Seq(S) /\ Len(t) = Len(s) - 1 /\ Head(s) \in S
      /\ \A i \in 1..Len(t) : t[i] = s[i+1]
  BY HeadTailProperties
<1>2. Len(s) \in Nat \ {0} /\ DOMAIN s = 1..Len(s) /\ DOMAIN t = 1..Len(t) /\ Head(s) = s[1]
  BY <1>1, LenProperties, EmptySeq
<1>. HIDE DEF t
<1>3. Within(Head(s), s)
  BY <1>2 DEF Within
<1>4. ASSUME NEW x, Within(x, s), x # Head(s)
      PROVE  Within(x, t)
  <2>1. PICK i \in 1..Len(s) : s[i] = x
    BY <1>2, <1>4 DEF Within
  <2>2. i # 1
    BY <1>2, <1>4, <2>1
  <2>3. i - 1 \in 1..Len(t) /\ (i - 1) + 1 = i
    BY <1>1, <1>2, <2>2
  <2>4. t[i-1] = x
    BY <1>1, <2>1, <2>3
  <2>. QED
    BY <1>2, <2>3, <2>4 DEF Within
<1>5. ASSUME NEW x, Within(x, t)
      PROVE  Within(x, s)
  <2>1. PICK i \in 1..Len(t) : t[i] = x
    BY <1>2, <1>5 DEF Within
  <2>2. i + 1 \in 1..Len(s) /\ s[i+1] = x
    BY <1>1, <1>2, <2>1
  <2>. QED
    BY <1>2, <2>2 DEF Within
<1>. QED
  BY <1>1, <1>2, <1>3, <1>4, <1>5 DEF t

\* One element for each goroutine that waits for room in taskQueue.
Slots(l) == UNION {{<<p, k>> : k \in 1..l[p]} : p \in DOMAIN l}
IsLate(l) == l \in [DOMAIN l -> Nat \ {0}]

LEMMA SlotsMembers ==
  \A l : IsLate(l) =>
    \A e : e \in Slots(l) <=> \E p \in DOMAIN l : \E k \in 1..l[p] : e = <<p, k>>
  BY DEF Slots

LEMMA LateMore ==
  ASSUME NEW l, IsLate(l), IsFiniteSet(Slots(l)), NEW p
  PROVE  LET m == l (+) SetToBag({p})
         IN  /\ IsLate(m) /\ DOMAIN m = DOMAIN l \cup {p}
             /\ IsFiniteSet(Slots(m)) /\ Cardinality(Slots(m)) = Cardinality(Slots(l)) + 1
<1>. DEFINE m == l (+) SetToBag({p})
            n == IF p \in DOMAIN l THEN l[p] ELSE 0
<1>1. n \in Nat
  BY DEF IsLate
<1>2. /\ DOMAIN m = DOMAIN l \cup {p} /\ m[p] = n + 1
      /\ \A q \in DOMAIN l \ {p} : m[q] = l[q]
  <2>1. /\ DOMAIN SetToBag({p}) = {p} /\ SetToBag({p})[p] = 1
    BY DEF SetToBag
  <2>2. m = [e \in DOMAIN l \cup {p} |-> (IF e \in DOMAIN l THEN l[e] ELSE 0)
                                         + (IF e \in {p} THEN SetToBag({p})[e] ELSE 0)]
    BY <2>1, Zenon DEF (+)
  <2>3. \A q \in DOMAIN l : l[q] + 0 = l[q]
    BY DEF IsLate
  <2>. QED
    BY <2>1, <2>2, <2>3
<1>3. IsLate(m)
  <2>1. m = [e \in DOMAIN m |-> m[e]]
    BY Zenon DEF (+)
  <2>. HIDE DEF m
  <2>2. \A q \in DOMAIN m : m[q] \in Nat \ {0}
    BY <1>1, <1>2 DEF IsLate
  <2>. QED
    BY <2>1, <2>2 DEF IsLate
<1>. HIDE DEF m
<1>4. <<p, n + 1>> \notin Slots(l)
  <2>. SUFFICES ASSUME <<p, n + 1>> \in Slots(l)
                PROVE  FALSE
    OBVIOUS
  <2>1. PICK q \in DOMAIN l : \E k \in 1..l[q] : <<p, n + 1>> = <<q, k>>
    BY SlotsMembers
  <2>2. p \in DOMAIN l /\ n + 1 \in 1..l[p] /\ n = l[p]
    BY <2>1
  <2>. HIDE DEF n
  <2>. QED
    BY <1>1, <2>2
<1>5. Slots(m) = Slots(l) \cup {<<p, n + 1>>}
  <2>1. ASSUME NEW e \in Slots(m)
        PROVE  e \in Slots(l) \cup {<<p, n + 1>>}
    <3>1. PICK q \in DOMAIN m : \E k \in 1..m[q] : e = <<q, k>>
      BY <1>3, SlotsMembers
    <3>2. PICK k \in 1..m[q] : e = <<q, k>>
      BY <3>1
    <3>3. CASE q # p
      <4>1. q \in DOMAIN l /\ k \in 1..l[q]
        BY <1>2, <3>3
      <4>. QED
        BY <3>2, <4>1, SlotsMembers
    <3>4. CASE q = p /\ k = n + 1
      BY <3>2, <3>4
    <3>5. CASE q = p /\ k # n + 1
      <4>1. k \in 1..n
        <5>1. k \in 1..(n + 1)
          BY <1>2, <3>5
        <5>. HIDE DEF n
        <5>. QED
          BY <1>1, <3>5, <5>1
      <4>2. p \in DOMAIN l /\ n = l[p]
        BY <4>1
      <4>. QED
        BY <3>2, <3>5, <4>1, <4>2, SlotsMembers
    <3>. QED
      BY <3>3, <3>4, <3>5
  <2>2. ASSUME NEW e \in Slots(l)
        PROVE  e \in Slots(m)
    <3>1. PICK q \in DOMAIN l : \E k \in 1..l[q] : e = <<q, k>>
      BY SlotsMembers
    <3>2. PICK k \in 1..l[q] : e = <<q, k>>
      BY <3>1
    <3>3. q \in DOMAIN m /\ k \in 1..m[q]
      <4>1. CASE q # p
        BY <1>2, <4>1
      <4>2. CASE q = p
        BY <1>1, <1>2, <4>2
      <4>. QED
        BY <4>1, <4>2
    <3>. QED
      BY <1>3, <3>2, <3>3, SlotsMembers
  <2>3. <<p, n + 1>> \in Slots(m)
    BY <1>1, <1>2, <1>3, SlotsMembers
  <2>. QED
    BY <2>1, <2>2, <2>3
<1>. HIDE DEF n
<1>6. IsFiniteSet(Slots(m)) /\ Cardinality(Slots(m)) = Cardinality(Slots(l)) + 1
  BY <1>4, <1>5, FS_AddElement
<1>. QED
  BY <1>2, <1>3, <1>6 DEF m

LEMMA LateLess ==
  ASSUME NEW l, IsLate(l), IsFiniteSet(Slots(l)), NEW p, BagIn(p, l)
  PROVE  LET m == l (-) SetToBag({p})
         IN  /\ IsLate(m) /\ DOMAIN m \subseteq DOMAIN l
             /\ IsFiniteSet(Slots(m)) /\ Cardinality(Slots(m)) = Cardinality(Slots(l)) - 1
<1>. DEFINE m == l (-) SetToBag({p})
            B == [e \in DOMAIN l |-> IF e \in {p} THEN l[e] - 1 ELSE l[e]]
            n == l[p]
<1>1. p \in DOMAIN l /\ n \in Nat \ {0}
  BY DEF BagIn, BagToSet, IsLate
<1>2. m = [e \in {d \in DOMAIN B : B[d] > 0} |-> B[e]]
  <2>1. DOMAIN SetToBag({p}) = {p} /\ SetToBag({p})[p] = 1
    BY DEF SetToBag
  <2>2. B = [e \in DOMAIN l |-> IF e \in DOMAIN SetToBag({p}) THEN l[e] - SetToBag({p})[e]
                                ELSE l[e]]
    BY <2>1
  <2>. HIDE DEF B
  <2>. QED
    BY <2>2, Zenon DEF (-)
<1>3. DOMAIN B = DOMAIN l /\ B[p] = n - 1 /\ \A q \in DOMAIN l \ {p} : B[q] = l[q]
  BY <1>1
<1>. HIDE DEF B, m
<1>4. /\ \A q : q \in DOMAIN m <=> q \in DOMAIN l /\ B[q] > 0
      /\ \A q \in DOMAIN m : m[q] = B[q]
  BY <1>2, <1>3
<1>5. \A q \in DOMAIN l \ {p} : q \in DOMAIN m /\ m[q] = l[q]
  BY <1>3, <1>4 DEF IsLate
<1>6. IF n = 1 THEN p \notin DOMAIN m ELSE p \in DOMAIN m /\ m[p] = n - 1
  BY <1>1, <1>3, <1>4
<1>. HIDE DEF n
<1>7. IsLate(m) /\ DOMAIN m \subseteq DOMAIN l
  <2>1. \A q \in DOMAIN m : q # p => m[q] \in Nat \ {0}
    BY <1>4, <1>5 DEF IsLate
  <2>2. p \in DOMAIN m => m[p] \in Nat \ {0}
    BY <1>1, <1>6
  <2>3. m = [e \in DOMAIN m |-> m[e]]
    BY <1>2
  <2>. QED
    BY <1>4, <2>1, <2>2, <2>3 DEF IsLate
<1>8. <<p, n>> \in Slots(l)
  BY <1>1, SlotsMembers DEF n
<1>9. Slots(m) = Slots(l) \ {<<p, n>>}
  <2>1. ASSUME NEW e \in Slots(m)
        PROVE  e \in Slots(l) /\ e # <<p, n>>
    <3>1. PICK q \in DOMAIN m : \E k \in 1..m[q] : e = <<q, k>>
      BY <1>7, SlotsMembers
    <3>2. PICK k \in 1..m[q] : e = <<q, k>>
      BY <3>1
    <3>3. CASE q # p
      <4>1. q \in DOMAIN l /\ k \in 1..l[q]
        BY <1>5, <1>7, <3>3
      <4>. QED
        BY <3>2, <3>3, <4>1, SlotsMembers
    <3>4. CASE q = p
      <4>1. k \in 1..(n - 1)
        BY <1>6, <3>4
      <4>2. k \in 1..n /\ k # n
        BY <1>1, <4>1
      <4>. QED
        BY <1>1, <3>2, <3>4, <4>2, SlotsMembers DEF n
    <3>. QED
      BY <3>3, <3>4
  <2>2. ASSUME NEW e \in Slots(l), e # <<p, n>>
        PROVE  e \in Slots(m)
    <3>1. PICK q \in DOMAIN l : \E k \in 1..l[q] : e = <<q, k>>
      BY SlotsMembers
    <3>2. PICK k \in 1..l[q] : e = <<q, k>>
      BY <3>1
    <3>3. q \in DOMAIN m /\ k \in 1..m[q]
      <4>1. CASE q # p
        BY <1>5, <4>1
      <4>2. CASE q = p
        <5>1. k \in 1..n /\ k # n
          BY <2>2, <3>2, <4>2 DEF n
        <5>2. k \in 1..(n - 1) /\ n # 1
          BY <1>1, <5>1
        <5>. QED
          BY <1>6, <4>2, <5>2
      <4>. QED
        BY <4>1, <4>2
    <3>. QED
      BY <1>7, <3>2, <3>3, SlotsMembers
  <2>. QED
    BY <2>1, <2>2
<1>10. IsFiniteSet(Slots(m)) /\ Cardinality(Slots(m)) = Cardinality(Slots(l)) - 1
  BY <1>8, <1>9, FS_RemoveElement
<1>. QED
  BY <1>7, <1>10 DEF m

LEMMA LateNone ==
  /\ IsLate(EmptyBag) /\ DOMAIN EmptyBag = {} /\ Slots(EmptyBag) = {}
  /\ \A l : IsLate(l) /\ Slots(l) = {} => l = EmptyBag
<1>1. DOMAIN EmptyBag = {} /\ EmptyBag = << >>
  BY DEF EmptyBag, SetToBag
<1>2. ASSUME NEW l, IsLate(l), Slots(l) = {}
      PROVE  l = EmptyBag
  <2>1. \A p \in DOMAIN l : <<p, 1>> \in Slots(l)
    <3>1. \A p \in DOMAIN l : 1 \in 1..l[p]
      BY <1>2 DEF IsLate
    <3>. QED
      BY <1>2, <3>1, SlotsMembers
  <2>2. DOMAIN l = {}
    BY <1>2, <2>1
  <2>. QED
    BY <1>1, <1>2, <2>2 DEF IsLate
<1>. QED
  BY <1>1, <1>2 DEF IsLate, Slots, EmptyBag, SetToBag

-----------------------------------------------------------------------------
(* The invariant. Every path the program has heard of exists or has existed. *)

Seen == disk \cup gone
CalledFor(p) == \E c \in calls : c[2] = p

DiskInv ==
  /\ Seen \subseteq Tree /\ created \cup unheard \subseteq Tree
  /\ RootSet \cap Tree \subseteq Seen
  /\ \A p \in disk : Above(p) \subseteq disk

WatchInv ==
  /\ watched \subseteq disk /\ pathToWd \cup refused \subseteq Seen
  /\ (pathToWd \cap disk) \ gone \subseteq watched
  /\ \A d \in (disk \cap Dirs) \ gone : d \in DOMAIN ix.lookup => d \in watched \cup refused

SeenInv ==
  /\ \A p : Within(p, scanChan) => p \in Seen
  /\ DOMAIN ix.lookup \subseteq Seen
  /\ \A c \in calls : c[2] \in Seen
  /\ \A w \in Workers : worker[w].rest \subseteq Seen
  /\ \A d \in DOMAIN scan : scan[d].rest \subseteq Seen

\* What a worker has in its hands.
ListTask == [pc : {"idle", "list"}, rest : SUBSET Tree]
OfferTask == [pc : {"offer"}, rest : SUBSET Tree, next : Dirs]

WorkerInv ==
  /\ DOMAIN worker = Workers
  /\ \A w \in Workers : worker[w] \in ListTask \cup OfferTask

PoolInv ==
  /\ roots \in Seq(RootSet)
  /\ given \in RootSet \cup {<<>>} /\ (given # <<>> => given \in Dirs)
  /\ taskQueue \in Seq(Dirs) /\ Len(taskQueue) =< QueueCap
  /\ IsLate(late) /\ DOMAIN late \subseteq Dirs
  /\ closed \in BOOLEAN

ChanInv == scanChan \in Seq(Tree) /\ Len(scanChan) =< ChanCap /\ down \in BOOLEAN

\* A task is counted while it is queued, waits for room, or is worked on.
CountInv ==
  /\ IsFiniteSet(Slots(late)) /\ IsFiniteSet(Busy)
  /\ wg = Len(taskQueue) + Cardinality(Slots(late)) + Cardinality(Busy)

CallInv ==
  /\ calls \subseteq (Indexers \cup Dirs) \X Tree
  /\ DOMAIN scan \subseteq Dirs
  /\ \A d \in DOMAIN scan : scan[d] \in [read : BOOLEAN, rest : SUBSET Tree]

\* A root is on its way to the index until it is there, unless it is deleted.
RootsMet ==
  \A r \in (RootSet \cap disk) \ gone :
    \/ Within(r, roots) \/ Within(r, scanChan) \/ CalledFor(r)
    \/ r \in DOMAIN ix.lookup

\* So is what a directory holds, unless an event will tell of it, its watch was
\* refused when it came, or either of the two has been deleted.
ChildrenMet ==
  \A p \in disk \ (Ignored \cup RootSet \cup created \cup unheard \cup gone) :
    LET d == Dir(p)
    IN  d \in DOMAIN ix.lookup \ gone =>
          \/ p \in DOMAIN ix.lookup \/ CalledFor(p)
          \/ d \in DOMAIN scan /\ (scan[d].read => p \in scan[d].rest)

-----------------------------------------------------------------------------
(* Paths.                                                                  *)

LEMMA TreePath ==
  ASSUME NEW p \in Tree
  PROVE  p \in Path /\ p # <<>> /\ p \in Seq(Names) /\ Len(p) \in Nat \ {0}
<1>1. p \in Path /\ p # <<>>
  BY ColdScanAssumption
<1>. QED
  BY <1>1, EmptySeq, LenProperties DEF Path

LEMMA PrefixOrder ==
  /\ \A p \in Tree : IsPrefix(p, p)
  /\ \A p, q, r \in Tree : IsPrefix(p, q) /\ IsPrefix(q, r) => IsPrefix(p, r)
<1>1. ASSUME NEW p \in Tree
      PROVE  IsPrefix(p, p)
  <2>1. p \in Path /\ Len(p) \in Nat
    BY TreePath
  <2>. QED
    BY <2>1, PrefixElements
<1>2. ASSUME NEW p \in Tree, NEW q \in Tree, NEW r \in Tree, IsPrefix(p, q), IsPrefix(q, r)
      PROVE  IsPrefix(p, r)
  <2>1. /\ p \in Path /\ q \in Path /\ r \in Path
        /\ Len(p) \in Nat /\ Len(q) \in Nat /\ Len(r) \in Nat
    BY TreePath
  <2>2. /\ Len(p) =< Len(q) /\ \A k \in 1..Len(p) : q[k] = p[k]
        /\ Len(q) =< Len(r) /\ \A k \in 1..Len(q) : r[k] = q[k]
    BY <1>2, <2>1, PrefixElements
  <2>. QED
    BY <2>1, <2>2, PrefixElements
<1>. QED
  BY <1>1, <1>2

\* The directory of whatever is not a root is above it, and shorter.
LEMMA ParentFacts ==
  ASSUME NEW p \in Tree, p \notin RootSet
  PROVE  /\ Dir(p) \in Dirs /\ Dir(p) \in Tree /\ Dir(p) # p
         /\ IsPrefix(Dir(p), p) /\ Len(Dir(p)) < Len(p)
<1>1. Dir(p) \in Dirs /\ Dir(p) \in Tree
  BY ColdScanAssumption DEF RootSet
<1>2. p \in Path /\ p \in Seq(Names) /\ Len(p) \in Nat \ {0}
  BY TreePath
<1>3. Dir(p) # <<>> /\ Dir(p) \in Path /\ IsPrefix(Dir(p), Dir(p))
  BY <1>1, TreePath, PrefixOrder
<1>4. Len(p) > 1
  <2>1. SubSeq(p, 1, 0) = <<>>
    BY <1>2, SubSeqProperties, EmptySeq
  <2>2. Len(p) - 1 # 0
    BY <1>3, <2>1, Zenon DEF Dir
  <2>3. \A n \in Nat \ {0} : n - 1 # 0 => n > 1
    OBVIOUS
  <2>. QED
    BY <1>2, <2>2, <2>3, Zenon
<1>5. IsPrefix(Dir(p), p) /\ Len(p) > Len(Dir(p))
  BY <1>2, <1>3, <1>4, PrefixOfDir
<1>6. Len(Dir(p)) < Len(p)
  BY <1>2, <1>4, <1>5, DirFacts
<1>. QED
  BY <1>1, <1>5, <1>6, <1>2

-----------------------------------------------------------------------------
(* The disk.                                                               *)

LEMMA GoroutinesKeepDisk ==
  Goroutines => UNCHANGED disks
  BY DEF Goroutines, MainStep, SkipRoot, SendRoot, QueueRoot, Close, WorkerStep, BeginTask,
     EndTask, Offer, InfoPanics, SendFile, SendDir, Deliver, Receive, ScanRead, ScanVisit,
     CallStep, RunUpsertDir, RunUpsert

LEMMA DiskKept ==
  ASSUME DiskInv, [Next]_vars
  PROVE  DiskInv' /\ Seen \subseteq Seen' /\ gone \subseteq gone'
<1>1. CASE UNCHANGED disks
  BY <1>1 DEF disks, DiskInv, Seen
<1>2. ASSUME NEW p \in Tree, Appear(p)
      PROVE  DiskInv' /\ Seen \subseteq Seen' /\ gone \subseteq gone'
  <2>1. /\ disk' = disk \cup {p} /\ gone' = gone /\ created' \subseteq created \cup {p}
        /\ unheard' \subseteq unheard \cup {p} /\ Above(p) \ {p} \subseteq disk
    BY <1>2 DEF Appear
  <2>. QED
    BY <2>1 DEF DiskInv, Seen
<1>3. ASSUME NEW p \in Tree, Vanish(p)
      PROVE  DiskInv' /\ Seen \subseteq Seen' /\ gone \subseteq gone'
  <2>. DEFINE lost == {q \in disk : IsPrefix(p, q)}
  <2>1. /\ disk' = disk \ lost /\ gone' = gone \cup lost
        /\ UNCHANGED <<created, unheard>>
    BY <1>3 DEF Vanish
  <2>2. ASSUME NEW q \in disk', NEW a \in Above(q), a \notin disk'
        PROVE  FALSE
    <3>1. q \in disk /\ q \notin lost /\ q \in Tree
      BY <2>1 DEF DiskInv, Seen
    <3>2. a \in lost
      BY <2>1, <2>2, <3>1 DEF DiskInv
    <3>3. IsPrefix(p, a) /\ IsPrefix(a, q) /\ a \in Tree
      BY <3>2 DEF Above
    <3>. QED
      BY <3>1, <3>3, PrefixOrder
  <2>3. lost \subseteq disk
    OBVIOUS
  <2>. HIDE DEF lost
  <2>4. (\A q \in disk : Above(q) \subseteq disk)'
    BY <2>2
  <2>. QED
    BY <2>1, <2>3, <2>4 DEF DiskInv, Seen
<1>. QED
  BY <1>1, <1>2, <1>3, GoroutinesKeepDisk DEF Next, vars

-----------------------------------------------------------------------------
(* The calls and the index.                                                *)

LEMMA UpsertStep ==
  ASSUME IxInv(ix), CallInv, NEW c, NEW p, RunUpsert(c, p)
  PROVE  /\ p \in Tree /\ p \notin Dirs /\ <<c, p>> \in calls
         /\ IxInv(ix') /\ DOMAIN ix'.lookup = DOMAIN ix.lookup \cup {p}
         /\ calls' = calls \ {<<c, p>>}
         /\ UNCHANGED <<disks, pool, watches, scan, scanChan, down>>
<1>1. /\ <<c, p>> \in calls /\ p \notin Dirs
      /\ ix' = IF p \in DOMAIN ix.lookup THEN ix ELSE Insert(ix, p, FALSE, 0, 0)
      /\ calls' = calls \ {<<c, p>>}
      /\ UNCHANGED <<disks, pool, watches, scan, scanChan, down>>
  BY DEF RunUpsert
<1>2. p \in Tree
  BY <1>1 DEF CallInv
<1>3. p \in Path /\ p # <<>>
  BY <1>2, TreePath
<1>4. IxInv(Insert(ix, p, FALSE, 0, 0))
  <2>1. FALSE \in BOOLEAN /\ 0 \in Int
    OBVIOUS
  <2>. QED
    BY <1>3, <2>1, InsertInv, Zenon
<1>5. DOMAIN Insert(ix, p, FALSE, 0, 0).lookup = DOMAIN ix.lookup \cup {p}
  BY DEF Insert, Put
<1>. QED
  BY <1>1, <1>2, <1>4, <1>5

LEMMA UpsertDirStep ==
  ASSUME IxInv(ix), CallInv, NEW c, NEW p, RunUpsertDir(c, p)
  PROVE  /\ p \in Tree /\ p \in Dirs /\ <<c, p>> \in calls
         /\ IxInv(ix') /\ DOMAIN ix'.lookup = DOMAIN ix.lookup \cup {p}
         /\ calls' = calls \ {<<c, p>>}
         /\ AddWatch(p)
         /\ scan' = IF p \in DOMAIN ix.lookup THEN scan ELSE Put(scan, p, Unread)
         /\ UNCHANGED <<disks, pool, scanChan, down>>
<1>1. /\ <<c, p>> \in calls /\ p \in Dirs
      /\ ix' = UpsertDir(ix, p, 0)
      /\ calls' = calls \ {<<c, p>>}
      /\ UNCHANGED <<disks, pool, scanChan, down>>
      /\ AddWatch(p) /\ StartScan(p)
  BY DEF RunUpsertDir
<1>2. p \in Tree /\ p \in Path /\ p # <<>>
  BY <1>1, TreePath, ColdScanAssumption
<1>3. IxInv(ix')
  BY <1>1, <1>2, UpsertDirInv
<1>4. DOMAIN ix'.lookup = DOMAIN ix.lookup \cup {p}
  <2>1. CASE p \in DOMAIN ix.lookup
    <3>1. ix'.lookup = ix.lookup
      BY <1>1, <2>1 DEF UpsertDir, IxInv, IsIndex
    <3>. QED
      BY <2>1, <3>1
  <2>2. CASE p \notin DOMAIN ix.lookup
    BY <1>1, <2>2 DEF UpsertDir, Insert, Put
  <2>. QED
    BY <2>1, <2>2
<1>. QED
  BY <1>1, <1>2, <1>3, <1>4 DEF StartScan

\* The steps that change the index, its watches or the disk.
LEMMA IndexSteps ==
  ASSUME Next
  PROVE  \/ ix' = ix /\ UNCHANGED watches /\ UNCHANGED disks
         \/ \E p \in Tree : Appear(p) \/ Vanish(p)
         \/ \E call \in calls : RunUpsertDir(call[1], call[2])
         \/ \E call \in calls : RunUpsert(call[1], call[2])
  BY DEF Next, Goroutines, MainStep, SkipRoot, SendRoot, QueueRoot, Close, WorkerStep, BeginTask,
     EndTask, Offer, InfoPanics, SendFile, SendDir, Deliver, Receive, ScanRead, ScanVisit,
     CallStep, index

LEMMA IxKept ==
  ASSUME IxInv(ix), CallInv, [Next]_vars
  PROVE  IxInv(ix')
<1>1. CASE ix' = ix
  BY <1>1
<1>2. ASSUME NEW call \in calls, RunUpsertDir(call[1], call[2])
      PROVE  IxInv(ix')
  BY <1>2, UpsertDirStep
<1>3. ASSUME NEW call \in calls, RunUpsert(call[1], call[2])
      PROVE  IxInv(ix')
  BY <1>3, UpsertStep
<1>. QED
  BY <1>1, <1>2, <1>3, IndexSteps DEF vars, index, Appear, Vanish

-----------------------------------------------------------------------------
(* The watches.                                                            *)

LEMMA WatchKept ==
  ASSUME DiskInv, WatchInv, SeenInv, CallInv, IxInv(ix), [Next]_vars
  PROVE  WatchInv'
<1>1. CASE ix' = ix /\ UNCHANGED watches /\ UNCHANGED disks
  BY <1>1 DEF WatchInv, watches, disks, Seen
<1>2. ASSUME NEW p \in Tree, Appear(p)
      PROVE  WatchInv'
  <2>1. /\ disk' = disk \cup {p} /\ p \notin disk
        /\ UNCHANGED <<gone, watched, pathToWd, refused, ix>>
    BY <1>2 DEF Appear, index, watches
  <2>2. p \in gone \/ (p \notin DOMAIN ix.lookup /\ p \notin pathToWd)
    BY <2>1 DEF SeenInv, WatchInv, Seen
  <2>. QED
    BY <2>1, <2>2 DEF WatchInv, Seen
<1>3. ASSUME NEW p \in Tree, Vanish(p)
      PROVE  WatchInv'
  <2>. DEFINE lost == {q \in disk : IsPrefix(p, q)}
  <2>1. /\ disk' = disk \ lost /\ gone' = gone \cup lost
        /\ watched' = watched \ lost /\ UNCHANGED <<pathToWd, refused, ix>>
    BY <1>3 DEF Vanish
  <2>2. lost \subseteq disk
    OBVIOUS
  <2>. HIDE DEF lost
  <2>. QED
    BY <2>1, <2>2 DEF WatchInv, Seen
<1>4. ASSUME NEW call \in calls, RunUpsertDir(call[1], call[2])
      PROVE  WatchInv'
  <2>. DEFINE p == call[2]
  <2>1. /\ p \in Dirs /\ DOMAIN ix'.lookup = DOMAIN ix.lookup \cup {p}
        /\ AddWatch(p) /\ UNCHANGED disks
    BY <1>4, UpsertDirStep
  <2>. HIDE DEF p
  <2>2. \/ UNCHANGED watches /\ (p \in pathToWd \/ p \notin disk)
        \/ /\ watched' = watched \cup {p} /\ pathToWd' = pathToWd \cup {p}
           /\ refused' = refused /\ p \in disk
        \/ /\ UNCHANGED <<watched, pathToWd>> /\ refused' = refused \cup {p} /\ p \in disk
    BY <2>1 DEF AddWatch
  <2>. QED
    BY <2>1, <2>2 DEF WatchInv, Seen, disks, watches
<1>5. ASSUME NEW call \in calls, RunUpsert(call[1], call[2])
      PROVE  WatchInv'
  <2>. DEFINE p == call[2]
  <2>1. /\ p \notin Dirs /\ DOMAIN ix'.lookup = DOMAIN ix.lookup \cup {p}
        /\ UNCHANGED <<disks, watches>>
    BY <1>5, UpsertStep
  <2>. HIDE DEF p
  <2>. QED
    BY <2>1 DEF WatchInv, Seen, disks, watches
<1>. QED
  BY <1>1, <1>2, <1>3, <1>4, <1>5, IndexSteps DEF vars, index

-----------------------------------------------------------------------------
(* The workers.                                                            *)

WorkerMoves(w) ==
  \/ BeginTask(w) \/ EndTask(w) \/ Offer(w)
  \/ \E p \in Tree : SendFile(w, p) \/ SendDir(w, p)

\* What a worker's step gives it to do.
LEMMA WorkerTask ==
  ASSUME DiskInv, PoolInv, WorkerInv, NEW w \in Workers, WorkerMoves(w)
  PROVE  /\ worker'[w] \in ListTask \cup OfferTask
         /\ worker'[w].rest \subseteq worker[w].rest \cup disk
         /\ \A v \in Workers \ {w} : worker'[v] = worker[v]
         /\ DOMAIN worker' = Workers
<1>. SUFFICES \E t \in ListTask \cup OfferTask :
                 /\ t.rest \subseteq worker[w].rest \cup disk
                 /\ worker' = [worker EXCEPT ![w] = t]
  BY DEF WorkerInv
<1>1. CASE BeginTask(w)
  <2>. DEFINE t == [pc |-> "list", rest |-> Listing(Head(taskQueue))]
  <2>1. t.rest \subseteq disk /\ disk \subseteq Tree
    BY DEF Listing, DiskInv, Seen
  <2>2. t \in ListTask
    BY <2>1 DEF ListTask
  <2>. QED
    BY <1>1, <2>1, <2>2 DEF BeginTask
<1>2. CASE EndTask(w)
  <2>1. Idle \in ListTask /\ Idle.rest = {}
    BY DEF Idle, ListTask
  <2>. QED
    BY <1>2, <2>1 DEF EndTask
<1>3. CASE Offer(w)
  <2>. DEFINE t == [pc |-> "list", rest |-> worker[w].rest]
  <2>1. worker[w].rest \subseteq Tree
    BY DEF WorkerInv, ListTask, OfferTask
  <2>2. t \in ListTask
    BY <2>1 DEF ListTask
  <2>. QED
    BY <1>3, <2>2 DEF Offer
<1>4. ASSUME NEW p \in Tree, SendFile(w, p)
      PROVE  \E t \in ListTask \cup OfferTask :
                 /\ t.rest \subseteq worker[w].rest \cup disk
                 /\ worker' = [worker EXCEPT ![w] = t]
  <2>. DEFINE t == [pc |-> "list", rest |-> worker[w].rest \ {p}]
  <2>1. worker[w] \in ListTask /\ worker[w].pc = "list"
    BY <1>4 DEF WorkerInv, SendFile, OfferTask
  <2>2. t \in ListTask
    BY <2>1 DEF ListTask
  <2>3. t = [worker[w] EXCEPT !.rest = @ \ {p}]
    BY <2>1 DEF ListTask
  <2>4. worker' = [worker EXCEPT ![w] = t]
    BY <1>4, <2>3 DEF SendFile
  <2>. QED
    BY <2>2, <2>4
<1>5. ASSUME NEW p \in Tree, SendDir(w, p)
      PROVE  \E t \in ListTask \cup OfferTask :
                 /\ t.rest \subseteq worker[w].rest \cup disk
                 /\ worker' = [worker EXCEPT ![w] = t]
  <2>. DEFINE t == [pc |-> "offer", rest |-> worker[w].rest \ {p}, next |-> p]
  <2>1. worker[w] \in ListTask /\ p \in Dirs
    BY <1>5 DEF WorkerInv, SendDir, OfferTask
  <2>2. t \in OfferTask
    BY <2>1 DEF ListTask, OfferTask
  <2>3. worker' = [worker EXCEPT ![w] = t]
    BY <1>5 DEF SendDir
  <2>. QED
    BY <2>2, <2>3
<1>. QED
  BY <1>1, <1>2, <1>3, <1>4, <1>5 DEF WorkerMoves

LEMMA WorkerSteps ==
  ASSUME Next
  PROVE  \/ UNCHANGED worker
         \/ \E w \in Workers : WorkerMoves(w)
  BY DEF Next, Goroutines, MainStep, SkipRoot, SendRoot, QueueRoot, Close, WorkerStep,
     WorkerMoves, InfoPanics, Deliver, Receive, ScanRead, ScanVisit,
     CallStep, RunUpsertDir, RunUpsert, pool, Appear, Vanish

LEMMA WorkerKept ==
  ASSUME DiskInv, PoolInv, WorkerInv, [Next]_vars
  PROVE  WorkerInv' /\ \A w \in Workers : worker'[w].rest \subseteq worker[w].rest \cup disk
<1>1. CASE UNCHANGED worker
  BY <1>1 DEF WorkerInv
<1>2. ASSUME NEW w \in Workers, WorkerMoves(w)
      PROVE  WorkerInv' /\ \A v \in Workers : worker'[v].rest \subseteq worker[v].rest \cup disk
  <2>1. /\ worker'[w] \in ListTask \cup OfferTask
        /\ worker'[w].rest \subseteq worker[w].rest \cup disk
        /\ \A v \in Workers \ {w} : worker'[v] = worker[v]
        /\ DOMAIN worker' = Workers
    BY <1>2, WorkerTask
  <2>. QED
    BY <2>1 DEF WorkerInv
<1>. QED
  BY <1>1, <1>2, WorkerSteps DEF vars, pool

-----------------------------------------------------------------------------
(* The tasks and their count.                                              *)

LEMMA PoolSteps ==
  ASSUME Next
  PROVE  \/ UNCHANGED pool
         \/ SkipRoot \/ SendRoot \/ QueueRoot \/ Close
         \/ \E w \in Workers : WorkerMoves(w)
         \/ \E p \in Tree : Deliver(p)
  BY DEF Next, Goroutines, MainStep, WorkerStep, WorkerMoves, InfoPanics, Receive, ScanRead,
     ScanVisit, CallStep, RunUpsertDir, RunUpsert, Appear, Vanish

LEMMA BusyKept ==
  ASSUME UNCHANGED worker
  PROVE  Busy' = Busy
  BY DEF Busy

\* Room in the queue, or one more goroutine that waits for it.
LEMMA Enqueued ==
  ASSUME PoolInv, CountInv, NEW p \in Dirs, Enqueue(p)
  PROVE  /\ taskQueue' \in Seq(Dirs) /\ Len(taskQueue') =< QueueCap
         /\ IsLate(late') /\ DOMAIN late' \subseteq Dirs /\ IsFiniteSet(Slots(late'))
         /\ Len(taskQueue') + Cardinality(Slots(late'))
              = Len(taskQueue) + Cardinality(Slots(late)) + 1
<1>. DEFINE n == Cardinality(Slots(late))
<1>1. /\ taskQueue \in Seq(Dirs) /\ Len(taskQueue) =< QueueCap /\ Len(taskQueue) \in Nat
      /\ IsLate(late) /\ DOMAIN late \subseteq Dirs /\ IsFiniteSet(Slots(late)) /\ n \in Nat
  BY LenProperties, FS_CardinalityType DEF PoolInv, CountInv
<1>2. CASE Len(taskQueue) < QueueCap /\ taskQueue' = Append(taskQueue, p) /\ late' = late
  <2>1. Append(taskQueue, p) \in Seq(Dirs) /\ Len(Append(taskQueue, p)) = Len(taskQueue) + 1
    BY <1>1, AppendWithin
  <2>. HIDE DEF n
  <2>2. /\ (Len(taskQueue) + 1) + n = Len(taskQueue) + n + 1
        /\ Len(taskQueue) + 1 =< QueueCap
    <3>1. \A a, m \in Nat : (a + 1) + m = a + m + 1
      OBVIOUS
    <3>2. QueueCap \in Nat
      BY ColdScanAssumption
    <3>3. \A a, m \in Nat : a < m => a + 1 =< m
      OBVIOUS
    <3>. QED
      BY <1>1, <1>2, <3>1, <3>2, <3>3, Zenon
  <2>3. Cardinality(Slots(late')) = n /\ Len(taskQueue') = Len(taskQueue) + 1
    BY <1>2, <2>1 DEF n
  <2>4. Len(taskQueue') + Cardinality(Slots(late')) = Len(taskQueue) + n + 1
    BY <2>2, <2>3
  <2>. QED
    BY <1>1, <1>2, <2>1, <2>2, <2>3, <2>4 DEF n
<1>3. CASE late' = late (+) SetToBag({p}) /\ taskQueue' = taskQueue
  <2>1. /\ IsLate(late') /\ DOMAIN late' = DOMAIN late \cup {p}
        /\ IsFiniteSet(Slots(late')) /\ Cardinality(Slots(late')) = n + 1
    BY <1>1, <1>3, LateMore
  <2>. HIDE DEF n
  <2>2. Len(taskQueue) + (n + 1) = Len(taskQueue) + n + 1
    BY <1>1
  <2>. QED
    BY <1>1, <1>3, <2>1, <2>2 DEF n
<1>. QED
  BY <1>2, <1>3 DEF Enqueue

LEMMA QueueRootCounts ==
  ASSUME PoolInv, CountInv, QueueRoot
  PROVE  PoolInv' /\ CountInv'
<1>. DEFINE n == Cardinality(Slots(late))
            b == Cardinality(Busy)
<1>1. /\ given # <<>> /\ Len(taskQueue) < QueueCap /\ wg' = wg + 1
      /\ taskQueue' = Append(taskQueue, given) /\ given' = <<>>
      /\ UNCHANGED <<roots, late, closed, worker>>
  BY DEF QueueRoot
<1>2. given \in Dirs /\ taskQueue \in Seq(Dirs) /\ Len(taskQueue) \in Nat
  BY <1>1, LenProperties DEF PoolInv
<1>3. taskQueue' \in Seq(Dirs) /\ Len(taskQueue') = Len(taskQueue) + 1
  BY <1>1, <1>2, AppendWithin
<1>4. n \in Nat /\ b \in Nat /\ Busy' = Busy
  BY <1>1, FS_CardinalityType, BusyKept DEF CountInv
<1>5. wg = Len(taskQueue) + n + b
  BY DEF CountInv
<1>6. Len(taskQueue') =< QueueCap /\ wg' = Len(taskQueue') + n + b
  <2>. HIDE DEF n, b
  <2>. QED
    BY <1>1, <1>2, <1>3, <1>4, <1>5, ColdScanAssumption
<1>. QED
  BY <1>1, <1>3, <1>4, <1>6 DEF PoolInv, CountInv

LEMMA DeliverCounts ==
  ASSUME PoolInv, CountInv, NEW p \in Tree, Deliver(p)
  PROVE  PoolInv' /\ CountInv'
<1>. DEFINE n == Cardinality(Slots(late))
            b == Cardinality(Busy)
<1>1. /\ BagIn(p, late) /\ Len(taskQueue) < QueueCap
      /\ taskQueue' = Append(taskQueue, p) /\ late' = late (-) SetToBag({p})
      /\ UNCHANGED <<roots, given, wg, closed, worker>>
  BY DEF Deliver
<1>2. p \in Dirs /\ taskQueue \in Seq(Dirs) /\ Len(taskQueue) \in Nat
  BY <1>1, LenProperties DEF PoolInv, BagIn, BagToSet
<1>3. taskQueue' \in Seq(Dirs) /\ Len(taskQueue') = Len(taskQueue) + 1
  BY <1>1, <1>2, AppendWithin
<1>4. /\ IsLate(late') /\ DOMAIN late' \subseteq Dirs
      /\ IsFiniteSet(Slots(late')) /\ Cardinality(Slots(late')) = n - 1
  <2>1. IsLate(late) /\ IsFiniteSet(Slots(late)) /\ DOMAIN late \subseteq Dirs
    BY DEF PoolInv, CountInv
  <2>. QED
    BY <1>1, <2>1, LateLess
<1>5. n \in Nat /\ b \in Nat /\ Busy' = Busy
  BY <1>1, FS_CardinalityType, BusyKept DEF CountInv
<1>6. wg = Len(taskQueue) + n + b
  BY DEF CountInv
<1>7. Len(taskQueue') =< QueueCap /\ wg = Len(taskQueue') + (n - 1) + b
  <2>. HIDE DEF n, b
  <2>. QED
    BY <1>1, <1>2, <1>3, <1>5, <1>6, ColdScanAssumption
<1>. QED
  BY <1>1, <1>3, <1>4, <1>5, <1>7 DEF PoolInv, CountInv

LEMMA WorkerCounts ==
  ASSUME DiskInv, PoolInv, WorkerInv, CountInv, NEW w \in Workers, WorkerMoves(w)
  PROVE  PoolInv' /\ CountInv'
<1>. DEFINE n == Cardinality(Slots(late))
            b == Cardinality(Busy)
<1>1. /\ taskQueue \in Seq(Dirs) /\ Len(taskQueue) =< QueueCap /\ Len(taskQueue) \in Nat
      /\ IsFiniteSet(Slots(late)) /\ n \in Nat /\ IsFiniteSet(Busy) /\ b \in Nat
      /\ wg = Len(taskQueue) + n + b
  BY LenProperties, FS_CardinalityType DEF PoolInv, CountInv
<1>2. /\ \A v \in Workers \ {w} : worker'[v] = worker[v]
      /\ worker'[w] \in ListTask \cup OfferTask
  BY WorkerTask
<1>3. worker'[w].pc # "idle" => Busy' = Busy \cup {w}
  BY <1>2 DEF Busy
<1>4. worker'[w].pc = "idle" => Busy' = Busy \ {w}
  BY <1>2 DEF Busy
<1>5. w \in Busy <=> worker[w].pc # "idle"
  BY DEF Busy
<1>6. CASE BeginTask(w)
  <2>1. /\ worker[w].pc = "idle" /\ taskQueue # <<>> /\ taskQueue' = Tail(taskQueue)
        /\ UNCHANGED <<roots, given, late, wg, closed>>
    BY <1>6 DEF BeginTask
  <2>2. worker'[w].pc = "list"
    BY <1>6 DEF BeginTask, WorkerInv
  <2>3. IsFiniteSet(Busy') /\ Cardinality(Busy') = b + 1
    BY <1>1, <1>3, <1>5, <2>1, <2>2, FS_AddElement
  <2>4. taskQueue' \in Seq(Dirs) /\ Len(taskQueue') = Len(taskQueue) - 1
    BY <1>1, <2>1, TailWithin
  <2>5. Len(taskQueue') =< QueueCap /\ wg = Len(taskQueue') + n + (b + 1)
    <3>. HIDE DEF n, b
    <3>. QED
      BY <1>1, <2>4, ColdScanAssumption
  <2>. QED
    BY <1>1, <2>1, <2>3, <2>4, <2>5 DEF PoolInv, CountInv
<1>7. CASE EndTask(w)
  <2>1. /\ worker[w].pc = "list" /\ wg' = wg - 1 /\ worker'[w] = Idle
        /\ UNCHANGED <<roots, given, taskQueue, late, closed>>
    BY <1>7 DEF EndTask, WorkerInv
  <2>2. IsFiniteSet(Busy') /\ Cardinality(Busy') = b - 1
    BY <1>1, <1>4, <1>5, <2>1, FS_RemoveElement DEF Idle
  <2>3. wg' = Len(taskQueue) + n + (b - 1)
    <3>. HIDE DEF n, b
    <3>. QED
      BY <1>1, <2>1
  <2>. QED
    BY <1>1, <2>1, <2>2, <2>3 DEF PoolInv, CountInv
<1>8. CASE Offer(w)
  <2>1. /\ worker[w].pc = "offer" /\ wg' = wg + 1 /\ Enqueue(worker[w].next)
        /\ worker'[w].pc = "list" /\ UNCHANGED <<roots, given, closed>>
    BY <1>8 DEF Offer, WorkerInv
  <2>2. worker[w].next \in Dirs
    BY <2>1 DEF WorkerInv, ListTask, OfferTask
  <2>3. Busy' = Busy
    BY <1>3, <1>5, <2>1
  <2>4. /\ taskQueue' \in Seq(Dirs) /\ Len(taskQueue') =< QueueCap
        /\ IsLate(late') /\ DOMAIN late' \subseteq Dirs /\ IsFiniteSet(Slots(late'))
        /\ Len(taskQueue') + Cardinality(Slots(late')) = Len(taskQueue) + n + 1
    BY <2>1, <2>2, Enqueued
  <2>5. wg' = Len(taskQueue') + Cardinality(Slots(late')) + b
    <3>1. wg' = (Len(taskQueue) + n + 1) + b
      <4>. HIDE DEF n, b
      <4>. QED
        BY <1>1, <2>1
    <3>. QED
      BY <2>4, <3>1
  <2>. QED
    BY <1>1, <2>1, <2>3, <2>4, <2>5 DEF PoolInv, CountInv
<1>9. ASSUME NEW p \in Tree, SendFile(w, p) \/ SendDir(w, p)
      PROVE  PoolInv' /\ CountInv'
  <2>1. /\ worker[w].pc = "list" /\ worker'[w].pc # "idle"
        /\ UNCHANGED <<roots, given, taskQueue, late, wg, closed>>
    <3>1. CASE SendDir(w, p)
      BY <3>1 DEF SendDir, WorkerInv
    <3>2. CASE SendFile(w, p)
      <4>1. worker[w] \in ListTask
        BY <3>2 DEF SendFile, WorkerInv, OfferTask
      <4>2. worker'[w] = [worker[w] EXCEPT !.rest = @ \ {p}]
        BY <3>2 DEF SendFile, WorkerInv
      <4>3. worker'[w].pc = worker[w].pc
        BY <4>1, <4>2 DEF ListTask
      <4>. QED
        BY <3>2, <4>3 DEF SendFile
    <3>. QED
      BY <1>9, <3>1, <3>2
  <2>2. Busy' = Busy
    BY <1>3, <1>5, <2>1
  <2>. QED
    BY <2>1, <2>2 DEF PoolInv, CountInv
<1>. QED
  BY <1>6, <1>7, <1>8, <1>9 DEF WorkerMoves

LEMMA PoolKept ==
  ASSUME DiskInv, PoolInv, WorkerInv, CountInv, [Next]_vars
  PROVE  PoolInv' /\ CountInv'
<1>1. ASSUME UNCHANGED <<taskQueue, late, wg, worker>>
      PROVE  CountInv'
  BY <1>1, BusyKept DEF CountInv
<1>2. CASE UNCHANGED pool
  BY <1>1, <1>2 DEF PoolInv, pool
<1>3. CASE SkipRoot
  <2>1. roots' \in Seq(RootSet)
    BY <1>3, TailWithin DEF SkipRoot, PoolInv
  <2>2. UNCHANGED <<given, taskQueue, late, wg, closed, worker>>
    BY <1>3 DEF SkipRoot
  <2>. QED
    BY <1>1, <2>1, <2>2 DEF PoolInv
<1>4. CASE SendRoot
  <2>1. roots' \in Seq(RootSet) /\ Head(roots) \in RootSet
    BY <1>4, TailWithin DEF SendRoot, PoolInv
  <2>2. given' = Head(roots) /\ Head(roots) \in disk
        /\ UNCHANGED <<taskQueue, late, wg, closed, worker>>
    BY <1>4 DEF SendRoot
  <2>3. given' \in Dirs
    BY <2>1, <2>2, ColdScanAssumption DEF RootSet, DiskInv, Seen
  <2>. QED
    BY <1>1, <2>1, <2>2, <2>3 DEF PoolInv
<1>5. CASE Close
  <2>1. closed' = TRUE /\ UNCHANGED <<roots, given, taskQueue, late, wg, worker>>
    BY <1>5 DEF Close
  <2>. QED
    BY <1>1, <2>1 DEF PoolInv
<1>. QED
  BY <1>2, <1>3, <1>4, <1>5, QueueRootCounts, DeliverCounts, WorkerCounts, PoolSteps DEF vars

\* The channels are closed only when no task is counted, and then none is
\* ever again.
LEMMA ClosedKept ==
  ASSUME PoolInv, CountInv, ClosedWhenDone, [Next]_vars
  PROVE  ClosedWhenDone'
<1>1. CASE UNCHANGED pool
  <2>1. Busy' = Busy
    BY <1>1, BusyKept DEF pool
  <2>. QED
    BY <1>1, <2>1 DEF pool, ClosedWhenDone
<1>2. CASE Close
  <2>. DEFINE n == Cardinality(Slots(late))
              b == Cardinality(Busy)
  <2>1. /\ given = <<>> /\ roots = <<>> /\ wg = 0
        /\ UNCHANGED <<roots, given, taskQueue, late, worker>>
    BY <1>2 DEF Close
  <2>2. /\ n \in Nat /\ b \in Nat /\ Len(taskQueue) \in Nat /\ wg = Len(taskQueue) + n + b
        /\ IsFiniteSet(Slots(late)) /\ IsFiniteSet(Busy)
    BY LenProperties, FS_CardinalityType DEF PoolInv, CountInv
  <2>3. Len(taskQueue) = 0 /\ n = 0 /\ b = 0
    <3>. HIDE DEF n, b
    <3>. QED
      BY <2>1, <2>2
  <2>4. taskQueue = <<>> /\ Slots(late) = {} /\ Busy = {}
    BY <2>2, <2>3, FS_EmptySet, EmptySeq DEF PoolInv
  <2>5. late = EmptyBag /\ Busy' = Busy
    BY <2>1, <2>4, LateNone, BusyKept DEF PoolInv
  <2>. QED
    BY <2>1, <2>4, <2>5 DEF ClosedWhenDone
<1>3. ASSUME closed, SkipRoot \/ SendRoot \/ QueueRoot
      PROVE  FALSE
  BY <1>3 DEF SkipRoot, SendRoot, QueueRoot, ClosedWhenDone
<1>4. ASSUME closed, NEW w \in Workers, WorkerMoves(w)
      PROVE  FALSE
  <2>1. worker[w].pc = "idle" /\ taskQueue = <<>>
    BY <1>4 DEF ClosedWhenDone, Busy
  <2>. QED
    BY <1>4, <2>1 DEF WorkerMoves, BeginTask, EndTask, Offer, SendFile, SendDir
<1>5. ASSUME closed, NEW p \in Tree, Deliver(p)
      PROVE  FALSE
  BY <1>5, LateNone DEF Deliver, ClosedWhenDone, BagIn, BagToSet
<1>6. ASSUME ~closed, ~Close
      PROVE  ClosedWhenDone'
  <2>1. closed' = closed
    BY <1>6, PoolSteps DEF vars, pool, SkipRoot, SendRoot, QueueRoot, WorkerMoves,
       BeginTask, EndTask, Offer, SendFile, SendDir, Deliver
  <2>. QED
    BY <1>6, <2>1 DEF ClosedWhenDone
<1>. QED
  BY <1>1, <1>2, <1>3, <1>4, <1>5, <1>6, PoolSteps DEF vars

-----------------------------------------------------------------------------
(* Results and calls.                                                      *)

LEMMA ChanSteps ==
  ASSUME Next
  PROVE  \/ UNCHANGED scanChan
         \/ SendRoot
         \/ \E w \in Workers, p \in Tree : SendFile(w, p) \/ SendDir(w, p)
         \/ \E i \in Indexers : Receive(i)
  BY DEF Next, Goroutines, MainStep, SkipRoot, QueueRoot, Close, WorkerStep,
     BeginTask, EndTask, Offer, InfoPanics, Deliver, ScanRead, ScanVisit,
     CallStep, RunUpsertDir, RunUpsert, Appear, Vanish

\* A step of scanChan: a path that exists, or existed, enters it, or its head
\* goes to an indexer.
LEMMA ChanStep ==
  ASSUME DiskInv, PoolInv, WorkerInv, ChanInv, SeenInv, [Next]_vars
  PROVE  \/ UNCHANGED scanChan
         \/ \E x \in Tree : /\ x \in Seen /\ Len(scanChan) < ChanCap
                            /\ scanChan' = Append(scanChan, x)
                            /\ SendRoot => x = Head(roots)
         \/ \E i \in Indexers : Receive(i)
<1>1. CASE SendRoot
  <2>1. Head(roots) \in disk /\ Len(scanChan) < ChanCap /\ scanChan' = Append(scanChan, Head(roots))
    BY <1>1 DEF SendRoot
  <2>2. Head(roots) \in Seen /\ Head(roots) \in Tree
    BY <2>1 DEF DiskInv, Seen
  <2>. QED
    BY <2>1, <2>2
<1>2. ASSUME NEW w \in Workers, NEW p \in Tree, SendFile(w, p) \/ SendDir(w, p)
      PROVE  /\ p \in Seen /\ Len(scanChan) < ChanCap /\ scanChan' = Append(scanChan, p)
             /\ ~SendRoot
  <2>1. Len(scanChan) < ChanCap /\ scanChan' = Append(scanChan, p) /\ p \in worker[w].rest
    BY <1>2 DEF SendFile, SendDir
  <2>2. worker[w].pc = "list"
    BY <1>2 DEF SendFile, SendDir
  <2>3. ~SendRoot
    <3>1. UNCHANGED roots
      BY <1>2 DEF SendFile, SendDir
    <3>2. SendRoot => roots' = Tail(roots) /\ roots # <<>>
      BY DEF SendRoot
    <3>3. roots # <<>> => Len(Tail(roots)) = Len(roots) - 1 /\ Len(roots) \in Nat
      BY TailWithin DEF PoolInv
    <3>. QED
      BY <3>1, <3>2, <3>3
  <2>. QED
    BY <2>1, <2>3 DEF SeenInv
<1>. QED
  BY <1>1, <1>2, ChanSteps DEF vars

LEMMA ChanKept ==
  ASSUME DiskInv, PoolInv, WorkerInv, ChanInv, SeenInv, [Next]_vars
  PROVE  ChanInv'
<1>1. down' \in BOOLEAN
  <2>1. down' = down \/ down' = TRUE
    BY DEF vars, Next, Goroutines, MainStep, SkipRoot, SendRoot, QueueRoot, Close, WorkerStep,
       BeginTask, EndTask, Offer, InfoPanics, SendFile, SendDir, Deliver, Receive, ScanRead,
       ScanVisit, CallStep, RunUpsertDir, RunUpsert, Appear, Vanish
  <2>. QED
    BY <2>1 DEF ChanInv
<1>2. CASE UNCHANGED scanChan
  BY <1>1, <1>2 DEF ChanInv
<1>3. ASSUME NEW x \in Tree, Len(scanChan) < ChanCap, scanChan' = Append(scanChan, x)
      PROVE  ChanInv'
  <2>1. scanChan' \in Seq(Tree) /\ Len(scanChan') = Len(scanChan) + 1 /\ Len(scanChan) \in Nat
    BY <1>3, AppendWithin DEF ChanInv
  <2>2. Len(scanChan') =< ChanCap
    BY <1>3, <2>1, ColdScanAssumption
  <2>. QED
    BY <1>1, <2>1, <2>2 DEF ChanInv
<1>4. ASSUME NEW i \in Indexers, Receive(i)
      PROVE  ChanInv'
  <2>1. scanChan # <<>> /\ scanChan' = Tail(scanChan)
    BY <1>4 DEF Receive
  <2>2. scanChan' \in Seq(Tree) /\ Len(scanChan') = Len(scanChan) - 1 /\ Len(scanChan) \in Nat
    BY <2>1, TailWithin DEF ChanInv
  <2>3. Len(scanChan') =< ChanCap
    BY <2>2, ColdScanAssumption DEF ChanInv
  <2>. QED
    BY <1>1, <2>2, <2>3 DEF ChanInv
<1>. QED
  BY <1>2, <1>3, <1>4, ChanStep

LEMMA CallSteps ==
  ASSUME Next
  PROVE  \/ UNCHANGED <<calls, scan>>
         \/ \E i \in Indexers : Receive(i)
         \/ \E d \in DOMAIN scan : ScanRead(d) \/ ScanVisit(d)
         \/ \E call \in calls : RunUpsertDir(call[1], call[2])
         \/ \E call \in calls : RunUpsert(call[1], call[2])
  BY DEF Next, Goroutines, MainStep, SkipRoot, SendRoot, QueueRoot, Close, WorkerStep,
     BeginTask, EndTask, Offer, InfoPanics, SendFile, SendDir, Deliver, CallStep,
     index, Appear, Vanish

LEMMA ReceiveFacts ==
  ASSUME ChanInv, SeenInv, NEW i, Receive(i)
  PROVE  \E p \in Tree :
           /\ p \in Seen /\ calls' = Called(i, p) /\ scanChan' = Tail(scanChan)
           /\ \A x : Within(x, scanChan) => x = p \/ Within(x, scanChan')
           /\ \A x : Within(x, scanChan') => Within(x, scanChan)
           /\ UNCHANGED <<disks, pool, index, down>>
<1>1. /\ scanChan # <<>> /\ scanChan' = Tail(scanChan) /\ calls' = Called(i, Head(scanChan))
      /\ UNCHANGED <<disks, pool, index, down>>
  BY DEF Receive
<1>2. /\ Head(scanChan) \in Tree /\ Within(Head(scanChan), scanChan)
      /\ \A x : Within(x, scanChan) => x = Head(scanChan) \/ Within(x, scanChan')
      /\ \A x : Within(x, scanChan') => Within(x, scanChan)
  BY <1>1, TailWithin DEF ChanInv
<1>. QED
  BY <1>1, <1>2 DEF SeenInv

LEMMA ScanReadFacts ==
  ASSUME CallInv, DiskInv, NEW d \in DOMAIN scan, ScanRead(d)
  PROVE  /\ DOMAIN scan' = DOMAIN scan
         /\ scan'[d] \in [read : BOOLEAN, rest : SUBSET Tree]
         /\ scan'[d].rest = Listing(d) /\ Listing(d) \subseteq disk
         /\ \A e \in DOMAIN scan \ {d} : scan'[e] = scan[e]
         /\ UNCHANGED <<disks, pool, ix, watches, scanChan, calls, down>>
<1>1. /\ scan' = [scan EXCEPT ![d] = [read |-> TRUE, rest |-> Listing(d)]]
      /\ UNCHANGED <<disks, pool, ix, watches, scanChan, calls, down>>
  BY DEF ScanRead
<1>2. Listing(d) \subseteq disk /\ disk \subseteq Tree
  BY DEF Listing, DiskInv, Seen
<1>. QED
  BY <1>1, <1>2

LEMMA ScanVisitFacts ==
  ASSUME CallInv, NEW d \in DOMAIN scan, ScanVisit(d)
  PROVE  \E p \in scan[d].rest :
           /\ p \in Tree /\ DOMAIN scan' = DOMAIN scan
           /\ scan'[d] \in [read : BOOLEAN, rest : SUBSET Tree]
           /\ scan'[d].rest = scan[d].rest \ {p}
           /\ scan[d].read
           /\ \A e \in DOMAIN scan \ {d} : scan'[e] = scan[e]
           /\ calls' = Called(d, p)
           /\ UNCHANGED <<disks, pool, ix, watches, scanChan, down>>
<1>1. PICK p \in scan[d].rest : /\ scan' = [scan EXCEPT ![d].rest = @ \ {p}]
                                /\ calls' = Called(d, p)
  BY DEF ScanVisit
<1>2. scan[d].read /\ UNCHANGED <<disks, pool, ix, watches, scanChan, down>>
  BY DEF ScanVisit
<1>3. scan[d] \in [read : BOOLEAN, rest : SUBSET Tree]
  BY DEF CallInv
<1>4. scan'[d] = [scan[d] EXCEPT !.rest = @ \ {p}] /\ DOMAIN scan' = DOMAIN scan
      /\ \A e \in DOMAIN scan \ {d} : scan'[e] = scan[e]
  BY <1>1
<1>5. scan'[d] \in [read : BOOLEAN, rest : SUBSET Tree] /\ scan'[d].rest = scan[d].rest \ {p}
  BY <1>3, <1>4
<1>6. p \in Tree
  BY <1>3
<1>. QED
  BY <1>1, <1>2, <1>4, <1>5, <1>6

\* Directories whose scanDirectory has started, and what it found.
LEMMA ScanStarted ==
  ASSUME CallInv, NEW p \in Dirs, scan' = IF p \in DOMAIN ix.lookup THEN scan ELSE Put(scan, p, Unread)
  PROVE  /\ DOMAIN scan' \subseteq Dirs /\ DOMAIN scan \subseteq DOMAIN scan'
         /\ \A d \in DOMAIN scan' : scan'[d] \in [read : BOOLEAN, rest : SUBSET Tree]
         /\ \A d \in DOMAIN scan' : scan'[d].rest = {} \/ (d \in DOMAIN scan /\ scan'[d] = scan[d])
         /\ \A d \in DOMAIN scan : d # p => scan'[d] = scan[d]
         /\ p \notin DOMAIN ix.lookup => p \in DOMAIN scan' /\ scan'[p] = Unread
         /\ p \in DOMAIN ix.lookup => scan' = scan
<1>1. CASE p \in DOMAIN ix.lookup
  BY <1>1 DEF CallInv
<1>2. CASE p \notin DOMAIN ix.lookup
  <2>1. /\ DOMAIN scan' = DOMAIN scan \cup {p} /\ scan'[p] = Unread
        /\ \A d \in DOMAIN scan \ {p} : scan'[d] = scan[d]
    BY <1>2 DEF Put
  <2>2. Unread \in [read : BOOLEAN, rest : SUBSET Tree] /\ Unread.rest = {}
    BY DEF Unread
  <2>. QED
    BY <1>2, <2>1, <2>2 DEF CallInv
<1>. QED
  BY <1>1, <1>2

LEMMA CalledType ==
  ASSUME CallInv, NEW c \in Indexers \cup Dirs, NEW p \in Tree
  PROVE  /\ Called(c, p) \subseteq (Indexers \cup Dirs) \X Tree
         /\ \A call \in Called(c, p) : call \in calls \/ call[2] = p
  BY DEF CallInv, Called

LEMMA CallKept ==
  ASSUME DiskInv, ChanInv, SeenInv, CallInv, IxInv(ix), [Next]_vars
  PROVE  CallInv'
<1>1. CASE UNCHANGED <<calls, scan>>
  BY <1>1 DEF CallInv
<1>2. ASSUME NEW i \in Indexers, Receive(i)
      PROVE  CallInv'
  <2>1. PICK p \in Tree : calls' = Called(i, p) /\ UNCHANGED index
    BY <1>2, ReceiveFacts
  <2>. QED
    BY <2>1, CalledType DEF CallInv, index
<1>3. ASSUME NEW d \in DOMAIN scan, ScanRead(d)
      PROVE  CallInv'
  BY <1>3, ScanReadFacts DEF CallInv
<1>4. ASSUME NEW d \in DOMAIN scan, ScanVisit(d)
      PROVE  CallInv'
  <2>1. PICK p \in scan[d].rest :
           /\ p \in Tree /\ DOMAIN scan' = DOMAIN scan
           /\ scan'[d] \in [read : BOOLEAN, rest : SUBSET Tree]
           /\ \A e \in DOMAIN scan \ {d} : scan'[e] = scan[e]
           /\ calls' = Called(d, p)
    BY <1>4, ScanVisitFacts
  <2>2. d \in Indexers \cup Dirs
    BY DEF CallInv
  <2>3. calls' \subseteq (Indexers \cup Dirs) \X Tree
    BY <2>1, <2>2, CalledType
  <2>. QED
    BY <2>1, <2>3 DEF CallInv
<1>5. ASSUME NEW call \in calls, RunUpsertDir(call[1], call[2])
      PROVE  CallInv'
  <2>. DEFINE p == call[2]
  <2>1. /\ p \in Dirs /\ calls' = calls \ {<<call[1], p>>}
        /\ scan' = IF p \in DOMAIN ix.lookup THEN scan ELSE Put(scan, p, Unread)
    BY <1>5, UpsertDirStep
  <2>. HIDE DEF p
  <2>2. /\ DOMAIN scan' \subseteq Dirs
        /\ \A d \in DOMAIN scan' : scan'[d] \in [read : BOOLEAN, rest : SUBSET Tree]
    BY <2>1, ScanStarted
  <2>. QED
    BY <2>1, <2>2 DEF CallInv
<1>6. ASSUME NEW call \in calls, RunUpsert(call[1], call[2])
      PROVE  CallInv'
  <2>1. calls' \subseteq calls /\ scan' = scan
    BY <1>6, UpsertStep
  <2>. QED
    BY <2>1 DEF CallInv
<1>. QED
  BY <1>1, <1>2, <1>3, <1>4, <1>5, <1>6, CallSteps DEF vars, index

LEMMA SeenKept ==
  ASSUME DiskInv, PoolInv, WorkerInv, ChanInv, SeenInv, CallInv, IxInv(ix), [Next]_vars
  PROVE  SeenInv'
<1>0. /\ Seen \subseteq Seen' /\ disk \subseteq Seen
      /\ \A w \in Workers : worker'[w].rest \subseteq Seen'
  BY DiskKept, WorkerKept DEF Seen, SeenInv
<1>1. \A x : Within(x, scanChan') => x \in Seen'
  <2>1. CASE UNCHANGED scanChan
    BY <1>0, <2>1 DEF SeenInv
  <2>2. ASSUME NEW y \in Tree, y \in Seen, scanChan' = Append(scanChan, y)
        PROVE  \A x : Within(x, scanChan') => x \in Seen'
    <3>1. \A x : Within(x, scanChan') => Within(x, scanChan) \/ x = y
      BY <2>2, AppendWithin DEF ChanInv
    <3>. QED
      BY <1>0, <2>2, <3>1 DEF SeenInv
  <2>3. ASSUME NEW i \in Indexers, Receive(i)
        PROVE  \A x : Within(x, scanChan') => x \in Seen'
    <3>1. \A x : Within(x, scanChan') => Within(x, scanChan)
      BY <2>3, ReceiveFacts
    <3>. QED
      BY <1>0, <3>1 DEF SeenInv
  <2>. QED
    BY <2>1, <2>2, <2>3, ChanStep
<1>2. DOMAIN ix'.lookup \subseteq Seen'
  <2>1. CASE ix' = ix
    BY <1>0, <2>1 DEF SeenInv
  <2>2. ASSUME NEW call \in calls,
               RunUpsertDir(call[1], call[2]) \/ RunUpsert(call[1], call[2])
        PROVE  DOMAIN ix'.lookup \subseteq Seen'
    <3>1. DOMAIN ix'.lookup = DOMAIN ix.lookup \cup {call[2]}
      BY <2>2, UpsertStep, UpsertDirStep
    <3>2. call[2] \in Seen
      BY DEF SeenInv
    <3>. QED
      BY <1>0, <3>1, <3>2 DEF SeenInv
  <2>. QED
    BY <2>1, <2>2, IndexSteps DEF vars, index, Appear, Vanish
<1>3. (\A c \in calls' : c[2] \in Seen') /\ (\A d \in DOMAIN scan' : scan'[d].rest \subseteq Seen')
  <2>1. CASE UNCHANGED <<calls, scan>>
    BY <1>0, <2>1 DEF SeenInv
  <2>2. ASSUME NEW i \in Indexers, Receive(i)
        PROVE  (\A c \in calls' : c[2] \in Seen') /\ scan' = scan
    <3>1. PICK p \in Tree : p \in Seen /\ calls' = Called(i, p) /\ UNCHANGED index
      BY <2>2, ReceiveFacts
    <3>2. \A c \in calls' : c \in calls \/ c[2] = p
      BY <3>1, CalledType
    <3>. QED
      BY <1>0, <3>1, <3>2 DEF SeenInv, index
  <2>3. ASSUME NEW d \in DOMAIN scan, ScanRead(d)
        PROVE  calls' = calls /\ \A e \in DOMAIN scan' : scan'[e].rest \subseteq Seen'
    <3>1. /\ DOMAIN scan' = DOMAIN scan /\ scan'[d].rest \subseteq disk /\ calls' = calls
          /\ \A e \in DOMAIN scan \ {d} : scan'[e] = scan[e]
      BY <2>3, ScanReadFacts
    <3>. QED
      BY <1>0, <3>1 DEF SeenInv
  <2>4. ASSUME NEW d \in DOMAIN scan, ScanVisit(d)
        PROVE  /\ \A c \in calls' : c[2] \in Seen'
               /\ \A e \in DOMAIN scan' : scan'[e].rest \subseteq Seen'
    <3>1. PICK p \in scan[d].rest :
             /\ p \in Tree /\ DOMAIN scan' = DOMAIN scan
             /\ scan'[d].rest = scan[d].rest \ {p}
             /\ \A e \in DOMAIN scan \ {d} : scan'[e] = scan[e]
             /\ calls' = Called(d, p)
      BY <2>4, ScanVisitFacts
    <3>2. d \in Indexers \cup Dirs /\ p \in Seen
      BY DEF CallInv, SeenInv
    <3>3. \A c \in calls' : c \in calls \/ c[2] = p
      BY <3>1, <3>2, CalledType
    <3>4. \A e \in DOMAIN scan' : scan'[e].rest \subseteq scan[e].rest
      BY <3>1
    <3>. QED
      BY <1>0, <3>1, <3>2, <3>3, <3>4 DEF SeenInv
  <2>5. ASSUME NEW call \in calls, RunUpsertDir(call[1], call[2])
        PROVE  calls' \subseteq calls /\ \A d \in DOMAIN scan' : scan'[d].rest \subseteq Seen'
    <3>. DEFINE p == call[2]
    <3>1. /\ p \in Dirs /\ calls' \subseteq calls
          /\ scan' = IF p \in DOMAIN ix.lookup THEN scan ELSE Put(scan, p, Unread)
      BY <2>5, UpsertDirStep
    <3>. HIDE DEF p
    <3>2. \A d \in DOMAIN scan' : scan'[d].rest = {} \/ (d \in DOMAIN scan /\ scan'[d] = scan[d])
      BY <3>1, ScanStarted
    <3>. QED
      BY <1>0, <3>1, <3>2 DEF SeenInv
  <2>6. ASSUME NEW call \in calls, RunUpsert(call[1], call[2])
        PROVE  calls' \subseteq calls /\ scan' = scan
    BY <2>6, UpsertStep
  <2>7. CASE \E i \in Indexers : Receive(i)
    BY <1>0, <2>2, <2>7 DEF SeenInv
  <2>8. CASE \E d \in DOMAIN scan : ScanRead(d) \/ ScanVisit(d)
    BY <1>0, <2>3, <2>4, <2>8 DEF SeenInv
  <2>9. CASE \E call \in calls : RunUpsertDir(call[1], call[2]) \/ RunUpsert(call[1], call[2])
    BY <1>0, <2>5, <2>6, <2>9 DEF SeenInv
  <2>. QED
    BY <2>1, <2>7, <2>8, <2>9, CallSteps DEF vars, index
<1>. QED
  BY <1>0, <1>1, <1>2, <1>3 DEF SeenInv

-----------------------------------------------------------------------------
(* Nothing gets lost on its way to the index.                              *)

\* A call is pending until its path is indexed.
LEMMA CallMet ==
  ASSUME NEW c, NEW p, calls' = calls \ {<<c, p>>}, calls \subseteq (Indexers \cup Dirs) \X Tree,
         DOMAIN ix'.lookup = DOMAIN ix.lookup \cup {p}
  PROVE  \A q : (CalledFor(q) \/ q \in DOMAIN ix.lookup)
                => (CalledFor(q)' \/ q \in DOMAIN ix'.lookup)
  BY DEF CalledFor

\* An existing path that is handed over is called for.
LEMMA CalledMet ==
  ASSUME NEW c, NEW p \in disk, calls' = Called(c, p)
  PROVE  CalledFor(p)' /\ \A q : CalledFor(q) => CalledFor(q)'
<1>1. <<c, p>>[2] = p
  OBVIOUS
<1>2. <<c, p>> \in calls' /\ calls \subseteq calls'
  BY DEF Called
<1>3. CalledFor(p)'
  BY <1>1, <1>2, Zenon DEF CalledFor
<1>4. \A q : CalledFor(q) => CalledFor(q)'
  BY <1>2, Zenon DEF CalledFor
<1>. QED
  BY <1>3, <1>4

LEMMA PendingKept ==
  ASSUME ChanInv, SeenInv, CallInv, IxInv(ix), [Next]_vars
  PROVE  \A p : (CalledFor(p) \/ p \in DOMAIN ix.lookup)
                => (CalledFor(p)' \/ p \in DOMAIN ix'.lookup)
<1>1. CASE calls \subseteq calls' /\ ix' = ix
  BY <1>1 DEF CalledFor
<1>2. ASSUME NEW call \in calls, RunUpsertDir(call[1], call[2]) \/ RunUpsert(call[1], call[2])
      PROVE  \A p : (CalledFor(p) \/ p \in DOMAIN ix.lookup)
                    => (CalledFor(p)' \/ p \in DOMAIN ix'.lookup)
  <2>1. /\ calls' = calls \ {<<call[1], call[2]>>}
        /\ DOMAIN ix'.lookup = DOMAIN ix.lookup \cup {call[2]}
    BY <1>2, UpsertStep, UpsertDirStep
  <2>2. calls \subseteq (Indexers \cup Dirs) \X Tree
    BY DEF CallInv
  <2>. HIDE DEF CalledFor
  <2>. QED
    BY <2>1, <2>2, CallMet
<1>3. ASSUME NEW i \in Indexers, Receive(i)
      PROVE  calls \subseteq calls' /\ ix' = ix
  BY <1>3 DEF Receive, Called, index
<1>4. ASSUME NEW d \in DOMAIN scan, ScanRead(d) \/ ScanVisit(d)
      PROVE  calls \subseteq calls' /\ ix' = ix
  BY <1>4 DEF ScanRead, ScanVisit, Called
<1>5. CASE UNCHANGED <<calls, scan>>
  BY <1>1, <1>2, <1>5, IndexSteps DEF vars, index, Appear, Vanish
<1>. QED
  BY <1>1, <1>2, <1>3, <1>4, <1>5, CallSteps DEF vars, index

LEMMA RootsKept ==
  ASSUME DiskInv, PoolInv, WorkerInv, ChanInv, SeenInv, CallInv, IxInv(ix), RootsMet, [Next]_vars
  PROVE  RootsMet'
<1>. SUFFICES ASSUME NEW r \in RootSet, r \in disk' \ gone'
              PROVE  \/ Within(r, roots') \/ Within(r, scanChan') \/ CalledFor(r)'
                     \/ r \in DOMAIN ix'.lookup
  BY DEF RootsMet
<1>1. r \in disk \ gone
  BY DiskKept DEF DiskInv, Seen
<1>2. Within(r, roots) \/ Within(r, scanChan) \/ CalledFor(r) \/ r \in DOMAIN ix.lookup
  BY <1>1 DEF RootsMet
<1>3. ASSUME Within(r, roots)
      PROVE  Within(r, roots') \/ Within(r, scanChan')
  <2>1. CASE UNCHANGED roots
    BY <1>3, <2>1
  <2>2. CASE SkipRoot
    <3>1. Head(roots) \notin disk /\ roots # <<>> /\ roots' = Tail(roots)
      BY <2>2 DEF SkipRoot
    <3>. QED
      BY <1>1, <1>3, <3>1, TailWithin DEF PoolInv
  <2>3. CASE SendRoot
    <3>1. /\ Head(roots) \in disk /\ roots # <<>> /\ roots' = Tail(roots)
          /\ scanChan' = Append(scanChan, Head(roots))
      BY <2>3 DEF SendRoot
    <3>2. r = Head(roots) \/ Within(r, roots')
      BY <1>3, <3>1, TailWithin DEF PoolInv
    <3>3. Within(Head(roots), scanChan')
      BY <3>1, AppendWithin DEF ChanInv, DiskInv, Seen
    <3>. QED
      BY <3>2, <3>3
  <2>4. UNCHANGED roots \/ SkipRoot \/ SendRoot
    BY PoolSteps DEF vars, pool, QueueRoot, Close, WorkerMoves, BeginTask, EndTask, Offer,
       SendFile, SendDir, Deliver
  <2>. QED
    BY <2>1, <2>2, <2>3, <2>4
<1>4. ASSUME Within(r, scanChan)
      PROVE  Within(r, scanChan') \/ CalledFor(r)'
  <2>1. ASSUME NEW y \in Tree, scanChan' = Append(scanChan, y)
        PROVE  Within(r, scanChan')
    BY <1>4, <2>1, AppendWithin DEF ChanInv
  <2>2. ASSUME NEW i \in Indexers, Receive(i)
        PROVE  Within(r, scanChan') \/ CalledFor(r)'
    <3>1. PICK p \in Tree : calls' = Called(i, p) /\ (r = p \/ Within(r, scanChan'))
      BY <1>4, <2>2, ReceiveFacts
    <3>2. CASE r = p
      BY <1>1, <3>1, <3>2, CalledMet
    <3>. QED
      BY <3>1, <3>2
  <2>. QED
    BY <1>4, <2>1, <2>2, ChanStep
<1>5. ASSUME CalledFor(r) \/ r \in DOMAIN ix.lookup
      PROVE  CalledFor(r)' \/ r \in DOMAIN ix'.lookup
  BY <1>5, PendingKept
<1>. QED
  BY <1>2, <1>3, <1>4, <1>5

\* What scanDirectory of d has still to hand over.
Listed(p) == Dir(p) \in DOMAIN scan /\ (scan[Dir(p)].read => p \in scan[Dir(p)].rest)

\* It stays so until the goroutine visits p, and starts with the directory.
LEMMA ListedKept ==
  ASSUME DiskInv, ChanInv, SeenInv, CallInv, IxInv(ix), [Next]_vars,
         NEW p \in disk \ (Ignored \cup RootSet), p \in disk'
  PROVE  /\ Listed(p) => Listed(p)' \/ CalledFor(p)'
         /\ Dir(p) \in DOMAIN ix'.lookup =>
              Dir(p) \in DOMAIN ix.lookup \/ Listed(p)'
<1>. DEFINE d == Dir(p)
<1>0. d \in Dirs /\ p \in Tree
  BY ParentFacts DEF DiskInv, Seen
<1>1. CASE UNCHANGED <<calls, scan>>
  <2>1. ix' = ix \/ \E call \in calls : RunUpsertDir(call[1], call[2]) \/ RunUpsert(call[1], call[2])
    BY IndexSteps DEF vars, index, Appear, Vanish
  <2>2. ASSUME NEW call \in calls, RunUpsertDir(call[1], call[2]) \/ RunUpsert(call[1], call[2])
        PROVE  FALSE
    <3>1. calls' = calls \ {<<call[1], call[2]>>} /\ <<call[1], call[2]>> \in calls
      BY <2>2, UpsertStep, UpsertDirStep
    <3>. QED
      BY <1>1, <3>1
  <2>. QED
    BY <1>1, <2>1, <2>2 DEF Listed
<1>2. ASSUME NEW i \in Indexers, Receive(i)
      PROVE  UNCHANGED scan /\ ix' = ix
  BY <1>2 DEF Receive, index
<1>3. ASSUME NEW e \in DOMAIN scan, ScanRead(e)
      PROVE  ix' = ix /\ (Listed(p) => Listed(p)')
  <2>1. /\ DOMAIN scan' = DOMAIN scan /\ scan'[e].rest = Listing(e)
        /\ \A x \in DOMAIN scan \ {e} : scan'[x] = scan[x]
        /\ ix' = ix
    BY <1>3, ScanReadFacts
  <2>2. d = e => p \in Listing(e)
    BY DEF Listing
  <2>. HIDE DEF d
  <2>3. CASE d = e
    BY <2>1, <2>2, <2>3 DEF Listed, d
  <2>4. CASE d # e
    BY <2>1, <2>4 DEF Listed, d
  <2>. QED
    BY <2>1, <2>3, <2>4
<1>4. ASSUME NEW e \in DOMAIN scan, ScanVisit(e)
      PROVE  ix' = ix /\ (Listed(p) => Listed(p)' \/ CalledFor(p)')
  <2>1. PICK q \in scan[e].rest :
           /\ q \in Tree /\ DOMAIN scan' = DOMAIN scan
           /\ scan'[e].rest = scan[e].rest \ {q} /\ scan[e].read
           /\ \A x \in DOMAIN scan \ {e} : scan'[x] = scan[x]
           /\ calls' = Called(e, q)
           /\ ix' = ix
    BY <1>4, ScanVisitFacts
  <2>2. p = q => CalledFor(p)'
    BY <2>1, CalledMet
  <2>. HIDE DEF d
  <2>3. CASE d = e
    BY <2>1, <2>2, <2>3 DEF Listed, d
  <2>4. CASE d # e
    BY <2>1, <2>4 DEF Listed, d
  <2>. QED
    BY <2>1, <2>3, <2>4
<1>5. ASSUME NEW call \in calls, RunUpsertDir(call[1], call[2])
      PROVE  /\ Listed(p) => Listed(p)'
             /\ d \in DOMAIN ix'.lookup => d \in DOMAIN ix.lookup \/ Listed(p)'
  <2>. DEFINE q == call[2]
  <2>1. /\ q \in Dirs /\ DOMAIN ix'.lookup = DOMAIN ix.lookup \cup {q}
        /\ scan' = IF q \in DOMAIN ix.lookup THEN scan ELSE Put(scan, q, Unread)
    BY <1>5, UpsertDirStep
  <2>. HIDE DEF q
  <2>2. /\ DOMAIN scan \subseteq DOMAIN scan'
        /\ \A x \in DOMAIN scan : x # q => scan'[x] = scan[x]
        /\ q \notin DOMAIN ix.lookup => q \in DOMAIN scan' /\ scan'[q] = Unread
        /\ q \in DOMAIN ix.lookup => scan' = scan
    BY <2>1, ScanStarted
  <2>3. ~Unread.read
    BY DEF Unread
  <2>. HIDE DEF d
  <2>4. CASE d = q /\ q \notin DOMAIN ix.lookup
    BY <2>2, <2>3, <2>4 DEF Listed, d
  <2>5. CASE d # q \/ q \in DOMAIN ix.lookup
    BY <2>1, <2>2, <2>5 DEF Listed, d
  <2>. QED
    BY <2>4, <2>5
<1>6. ASSUME NEW call \in calls, RunUpsert(call[1], call[2])
      PROVE  scan' = scan /\ (d \in DOMAIN ix'.lookup => d \in DOMAIN ix.lookup)
  <2>1. /\ call[2] \notin Dirs /\ DOMAIN ix'.lookup = DOMAIN ix.lookup \cup {call[2]}
        /\ scan' = scan
    BY <1>6, UpsertStep
  <2>. QED
    BY <1>0, <2>1
<1>7. scan' = scan => (Listed(p) => Listed(p)')
  BY DEF Listed
<1>. HIDE DEF Listed
<1>. QED
  BY <1>1, <1>2, <1>3, <1>4, <1>5, <1>6, <1>7, CallSteps DEF vars, index

LEMMA ChildrenKept ==
  ASSUME DiskInv, WatchInv, PoolInv, WorkerInv, ChanInv, SeenInv, CallInv, IxInv(ix),
         ChildrenMet, [Next]_vars
  PROVE  ChildrenMet'
<1>. SUFFICES ASSUME NEW p \in disk' \ (Ignored \cup RootSet \cup created' \cup unheard' \cup gone'),
                     Dir(p) \in DOMAIN ix'.lookup \ gone'
              PROVE  p \in DOMAIN ix'.lookup \/ CalledFor(p)' \/ Listed(p)'
  BY DEF ChildrenMet, Listed
<1>1. CASE p \notin disk
  <2>1. PICK q \in Tree : Appear(q)
    BY <1>1, GoroutinesKeepDisk DEF Next, vars, disks, Vanish
  <2>2. /\ disk' = disk \cup {q} /\ Above(q) \ {q} \subseteq disk
        /\ created' = IF Dir(q) \in watched THEN created \cup {q} ELSE created
        /\ unheard' = IF Dir(q) \in refused \ watched THEN unheard \cup {q} ELSE unheard
        /\ ix' = ix /\ gone' = gone
    BY <2>1 DEF Appear, index
  <2>3. p = q /\ Dir(p) \notin watched /\ Dir(p) \notin refused
    BY <1>1, <2>2
  <2>4. Dir(p) \in Dirs /\ Dir(p) \in Tree /\ Dir(p) # p /\ IsPrefix(Dir(p), p)
    BY <2>3, ParentFacts
  <2>5. Dir(p) \in disk
    BY <2>2, <2>3, <2>4 DEF Above
  <2>. QED
    BY <2>2, <2>3, <2>4, <2>5 DEF WatchInv
<1>2. CASE p \in disk
  <2>1. p \notin created /\ p \notin unheard /\ p \notin gone /\ Dir(p) \notin gone
    BY GoroutinesKeepDisk DEF Next, vars, disks, Appear, Vanish
  <2>2. /\ Listed(p) => Listed(p)' \/ CalledFor(p)'
        /\ Dir(p) \in DOMAIN ix'.lookup => Dir(p) \in DOMAIN ix.lookup \/ Listed(p)'
    BY <1>2, ListedKept
  <2>3. CASE Dir(p) \in DOMAIN ix.lookup
    <3>1. p \in DOMAIN ix.lookup \/ CalledFor(p) \/ Listed(p)
      BY <1>2, <2>1, <2>3 DEF ChildrenMet, Listed
    <3>. QED
      BY <2>2, <3>1, PendingKept
  <2>. QED
    BY <2>2, <2>3
<1>. QED
  BY <1>1, <1>2

-----------------------------------------------------------------------------
(* The theorems.                                                           *)

Inv ==
  /\ DiskInv /\ WatchInv /\ SeenInv /\ WorkerInv /\ PoolInv /\ ChanInv /\ CountInv
  /\ CallInv /\ IxInv(ix) /\ ClosedWhenDone /\ RootsMet /\ ChildrenMet

LEMMA InitInv ==
  Init => Inv
<1>. SUFFICES ASSUME Init
              PROVE  Inv
  OBVIOUS
<1>1. /\ gone = {} /\ created = {} /\ unheard = {} /\ scan = << >>
      /\ watched = {} /\ pathToWd = {} /\ refused = {}
      /\ ix = EmptyIndex /\ roots = Roots /\ given = <<>> /\ taskQueue = <<>>
      /\ late = EmptyBag /\ wg = 0 /\ closed = FALSE /\ worker = [w \in Workers |-> Idle]
      /\ scanChan = <<>> /\ calls = {} /\ down = FALSE
  BY DEF Init
<1>2. /\ disk \subseteq Tree /\ RootSet \cap Tree \subseteq disk
      /\ \A p \in disk : Above(p) \subseteq disk
  BY DEF Init
<1>3. DOMAIN ix.lookup = {} /\ IxInv(ix)
  BY <1>1, EmptyInv DEF EmptyIndex
<1>4. Len(<<>>) = 0 /\ \A x : ~Within(x, <<>>) /\ \A S : <<>> \in Seq(S)
  BY DEF Within
<1>5. DiskInv /\ WatchInv
  BY <1>1, <1>2, <1>3 DEF DiskInv, WatchInv, Seen
<1>6. Idle \in ListTask /\ Idle.rest = {} /\ Idle.pc = "idle"
  BY DEF Idle, ListTask
<1>7. WorkerInv /\ (\A w \in Workers : worker[w] = Idle) /\ Busy = {}
  BY <1>1, <1>6 DEF WorkerInv, Busy
<1>8. SeenInv /\ CallInv
  BY <1>1, <1>3, <1>4, <1>6, <1>7 DEF SeenInv, CallInv
<1>9. Roots \in Seq(RootSet)
  <2>1. Roots \in Seq(Path) /\ \A i \in DOMAIN Roots : Roots[i] \in RootSet
    BY ColdScanAssumption DEF RootSet
  <2>2. Len(Roots) \in Nat /\ DOMAIN Roots = 1..Len(Roots)
        /\ Roots = [i \in 1..Len(Roots) |-> Roots[i]]
    BY <2>1, LenProperties
  <2>3. Roots \in [1..Len(Roots) -> RootSet]
    BY <2>1, <2>2
  <2>. QED
    BY <2>2, <2>3, SeqDef
<1>10. PoolInv /\ ChanInv
  <2>1. 0 =< QueueCap /\ 0 =< ChanCap
    BY ColdScanAssumption
  <2>. QED
    BY <1>1, <1>4, <1>9, <2>1, LateNone DEF PoolInv, ChanInv
<1>11. CountInv
  <2>1. IsFiniteSet({}) /\ Cardinality({}) = 0
    BY FS_EmptySet
  <2>. QED
    BY <1>1, <1>4, <1>7, <2>1, LateNone DEF CountInv
<1>12. RootsMet
  <2>. SUFFICES ASSUME NEW r \in RootSet
                PROVE  Within(r, roots)
    BY DEF RootsMet
  <2>. QED
    BY <1>1 DEF RootSet, Within
<1>. QED
  BY <1>1, <1>3, <1>5, <1>7, <1>8, <1>10, <1>11, <1>12 DEF Inv, ClosedWhenDone, ChildrenMet

LEMMA InvKept ==
  Inv /\ [Next]_vars => Inv'
<1>. SUFFICES ASSUME Inv, [Next]_vars
              PROVE  Inv'
  OBVIOUS
<1>1. DiskInv' /\ WatchInv' /\ IxInv(ix')
  BY DiskKept, WatchKept, IxKept DEF Inv
<1>2. WorkerInv' /\ PoolInv' /\ CountInv' /\ ClosedWhenDone'
  BY WorkerKept, PoolKept, ClosedKept DEF Inv
<1>3. ChanInv' /\ SeenInv' /\ CallInv'
  BY ChanKept, SeenKept, CallKept DEF Inv
<1>4. RootsMet' /\ ChildrenMet'
  BY RootsKept, ChildrenKept DEF Inv
<1>. QED
  BY <1>1, <1>2, <1>3, <1>4 DEF Inv

\* When all goroutines have ended, a path nobody indexed would have a shortest
\* one above it: a root has been met, and below an indexed directory so has
\* every child.
LEMMA InvMissesNothing ==
  Inv => NothingMissed
<1>. SUFFICES ASSUME Inv, Quiet, NEW lost \in disk \ Ignored,
                     lost \notin DOMAIN ix.lookup, Above(lost) \cap (created \cup gone \cup unheard) = {}
              PROVE  FALSE
  BY DEF NothingMissed
<1>. DEFINE Missed == {p \in disk \ Ignored : /\ p \notin DOMAIN ix.lookup
                                              /\ Above(p) \cap (created \cup gone \cup unheard) = {}}
            Lengths == {Len(p) : p \in Missed}
<1>1. disk \subseteq Tree
  BY DEF Inv, DiskInv, Seen
<1>2. PICK p \in Missed : \A q \in Missed : Len(p) =< Len(q)
  <2>1. Lengths \subseteq Nat /\ Lengths # {}
    BY <1>1, TreePath
  <2>2. PICK n \in Lengths : \A m \in Lengths : n =< m
    <3>. HIDE DEF Lengths
    <3>. QED
      BY <2>1, LeastNat
  <2>. QED
    BY <2>2
<1>3. /\ p \in disk \ Ignored /\ p \in Tree /\ p \notin DOMAIN ix.lookup
      /\ Above(p) \cap (created \cup gone \cup unheard) = {}
  BY <1>1
<1>4. /\ roots = <<>> /\ scanChan = <<>> /\ calls = {}
      /\ \A d \in DOMAIN scan : scan[d].read /\ scan[d].rest = {}
  BY DEF Quiet, Returned, Inv, ClosedWhenDone
<1>5. ~CalledFor(p) /\ ~Within(p, roots) /\ ~Within(p, scanChan)
  BY <1>4 DEF CalledFor, Within
<1>6. p \notin created \cup gone \cup unheard
  BY <1>3, PrefixOrder DEF Above
<1>7. p \notin RootSet
  BY <1>3, <1>5, <1>6 DEF Inv, RootsMet
<1>. DEFINE d == Dir(p)
<1>8. d \in Dirs /\ d \in Tree /\ IsPrefix(d, p) /\ Len(d) < Len(p)
  BY <1>3, <1>7, ParentFacts
<1>9. d \in disk /\ Above(d) \subseteq Above(p)
  BY <1>3, <1>8, PrefixOrder DEF Inv, DiskInv, Above
<1>10. d \notin Missed
  <2>1. Len(d) \in Nat /\ Len(p) \in Nat
    BY <1>3, <1>8, TreePath
  <2>2. ~(Len(p) =< Len(d))
    BY <1>8, <2>1
  <2>. QED
    BY <1>2, <2>2
<1>11. d \in DOMAIN ix.lookup \ gone
  <2>1. Above(d) \cap (created \cup gone \cup unheard) = {}
    BY <1>3, <1>9
  <2>2. d \notin gone
    BY <1>8, <2>1, PrefixOrder DEF Above
  <2>. QED
    BY <1>3, <1>8, <1>9, <1>10, <2>1, <2>2, ColdScanAssumption
<1>12. d \in DOMAIN scan /\ (scan[d].read => p \in scan[d].rest)
  BY <1>3, <1>5, <1>6, <1>7, <1>11 DEF Inv, ChildrenMet
<1>. QED
  BY <1>4, <1>12

LEMMA InvTypes ==
  Inv => TypeOK
<1>. SUFFICES ASSUME Inv
              PROVE  TypeOK
  OBVIOUS
<1>1. wg \in Nat
  <2>1. Len(taskQueue) \in Nat /\ Cardinality(Slots(late)) \in Nat /\ Cardinality(Busy) \in Nat
    BY LenProperties, FS_CardinalityType DEF Inv, PoolInv, CountInv
  <2>. QED
    BY <2>1 DEF Inv, CountInv
<1>2. /\ disk \cup gone \cup created \cup unheard \subseteq Tree
      /\ watched \cup pathToWd \cup refused \subseteq Tree
  BY DEF Inv, DiskInv, WatchInv, Seen
<1>. QED
  BY <1>1, <1>2 DEF Inv, TypeOK, PoolInv, ChanInv, CallInv, IxInv

LEMMA Invariant ==
  Spec => []Inv
  BY InitInv, InvKept, PTL DEF Spec

\* Type correctness: among the rest, both channels stay within their capacity
\* and the wait group's counter never goes below zero, which would panic.
THEOREM TypeCorrect ==
  Spec => []TypeOK
  BY Invariant, InvTypes, PTL

\* The wait group reaches zero, and the channels close, only when no task is
\* queued, worked on, or with a goroutine that waits for room: no send on a
\* closed channel can follow (file_watcher.go:120-122, 150-158).
THEOREM ClosedOnlyWhenDone ==
  Spec => []ClosedWhenDone
<1>1. Inv => ClosedWhenDone
  BY DEF Inv
<1>. QED
  BY <1>1, Invariant, PTL

\* However the disk changed under the scan and whatever watches the kernel
\* refused, for any tree, any number of workers and indexers and any capacities:
\* what exists when the last goroutine has ended is indexed, or an event, a
\* deletion or a refused watch above it is to blame.
THEOREM NothingEverMissed ==
  Spec => []NothingMissed
  BY Invariant, InvMissesNothing, PTL
=============================================================================
