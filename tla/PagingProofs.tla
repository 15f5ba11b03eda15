---------------------------- MODULE PagingProofs ----------------------------
(***************************************************************************)
(* What paginate returns, for all results and requests (Paging), and what  *)
(* a user sees who turns its pages while handlers run (SearchPage).        *)
(***************************************************************************)
EXTENDS SearchPage, SequenceTheorems, FiniteSetTheorems, TLAPS

\* Induction: a set of naturals that is not empty has a least element.  From
\* the well-foundedness of strict inclusion on finite sets, through the
\* initial segments 1..n.
LEMMA LeastNat ==
  ASSUME NEW T, T \subseteq Nat, T # {}
  PROVE  \E n \in T : \A m \in T : n =< m
<1>. DEFINE R == StrictSubsetOrdering(Nat)
            F == FiniteSubsetsOf(Nat)
            I == {1..n : n \in T}
<1>1. IsWellFoundedOn(R, F)
  BY FS_StrictSubsetOrderingWellFounded
<1>2. I \subseteq F
  BY FS_Interval DEF FiniteSubsetsOf
<1>3. I # {}
  OBVIOUS
<1>. HIDE DEF R, F
<1>4. \E x \in I : \A y \in I : ~ (<<y, x>> \in R)
  BY <1>1, <1>2, <1>3, WFMin
<1>5. PICK n \in T : \A m \in T : ~ (<<1..m, 1..n>> \in R)
  BY <1>4
<1>6. ASSUME NEW m \in T, m < n
      PROVE  FALSE
  <2>1. /\ 1..m \subseteq 1..n /\ n \in 1..n /\ n \notin 1..m
        /\ 1..n \subseteq Nat /\ 1..m \subseteq Nat
    BY <1>6
  <2>. QED
    BY <1>5, <2>1 DEF R, StrictSubsetOrdering
<1>. QED
  BY <1>6

LEMMA FilteredIsSeq ==
  ASSUME NEW S, NEW dirs \in Seq(S), NEW files \in Seq(S), NEW fileType \in FileTypes
  PROVE  /\ Filtered(dirs, files, fileType) \in Seq(S)
         /\ Len(Filtered(dirs, files, fileType)) = TotalCount(dirs, files, fileType)
         /\ TotalCount(dirs, files, fileType) \in Nat
<1>1. CASE fileType = "all"
  <2>1. dirs \o files \in Seq(S) /\ Len(dirs \o files) = Len(dirs) + Len(files)
    BY ConcatProperties
  <2> QED BY <1>1, <2>1, LenProperties DEF Filtered, TotalCount
<1>2. CASE fileType = "dir"
  BY <1>2, LenProperties DEF Filtered, TotalCount
<1>3. CASE fileType = "file"
  BY <1>3, LenProperties DEF Filtered, TotalCount
<1> QED BY <1>1, <1>2, <1>3 DEF FileTypes

\* A page of a result is the slice of the directories followed by the files
\* that starts at the offset and is cut at the limit or the end.
THEOREM PageIsSlice ==
  ASSUME NEW S, NEW dirs \in Seq(S), NEW files \in Seq(S), NEW fileType \in FileTypes,
         NEW offset \in Nat, NEW limit \in Nat
  PROVE  LET page == Paginate(dirs, files, fileType, offset, limit)
             all == Filtered(dirs, files, fileType)
         IN  /\ page.total = Len(all)
             /\ page.ids = SubSeq(all, offset + 1, Lesser(offset + limit, Len(all)))
<1> DEFINE all == Filtered(dirs, files, fileType)
           total == TotalCount(dirs, files, fileType)
           end == Lesser(offset + limit, total)
           n == IF fileType # "file" /\ offset < Len(dirs)
                THEN Lesser(end, Len(dirs)) - offset ELSE 0
           start == FileStart(dirs, fileType, offset)
           stop == Lesser(start + (end - offset - n), Len(files))
           page == [i \in 1 .. end - offset |->
                      IF i =< n THEN dirs[offset + i]
                      ELSE IF fileType # "dir" /\ start + i - n =< stop
                      THEN files[start + i - n]
                      ELSE 0]
<1>0. Paginate(dirs, files, fileType, offset, limit)
        = IF offset >= total \/ limit =< 0
          THEN [ids |-> <<>>, total |-> total, offset |-> offset]
          ELSE [ids |-> page, total |-> total, offset |-> end]
  BY DEF Paginate
<1>1. all \in Seq(S) /\ Len(all) = total /\ total \in Nat
  BY FilteredIsSeq
<1> HIDE DEF all, total, n, start, stop, page, end
<1> SUFFICES /\ Paginate(dirs, files, fileType, offset, limit).total = total
             /\ Paginate(dirs, files, fileType, offset, limit).ids
                  = SubSeq(all, offset + 1, end)
  BY <1>1 DEF all, end
<1>R. ASSUME NEW r, NEW a, NEW b, NEW c, r = [ids |-> a, total |-> b, offset |-> c]
      PROVE  r.total = b /\ r.ids = a
  BY <1>R
<1>2. Len(dirs) \in Nat /\ Len(files) \in Nat
  BY LenProperties
<1>3. CASE offset >= total \/ limit <= 0
  <2>1. Paginate(dirs, files, fileType, offset, limit)
          = [ids |-> <<>>, total |-> total, offset |-> offset]
    BY <1>0, <1>3
  <2>2. end =< offset /\ end \in Int
    BY <1>1, <1>3 DEF Lesser, end
  <2>3. SubSeq(all, offset + 1, end) = <<>>
    BY <2>2, SubSeqEmpty
  <2>4. Paginate(dirs, files, fileType, offset, limit).total = total
    BY <1>R, <2>1, Zenon
  <2>5. Paginate(dirs, files, fileType, offset, limit).ids = <<>>
    BY <1>R, <2>1, Zenon
  <2> QED BY <2>3, <2>4, <2>5, Zenon
<1>4. CASE ~(offset >= total \/ limit <= 0)
  <2>1. Paginate(dirs, files, fileType, offset, limit)
          = [ids |-> page, total |-> total, offset |-> end]
    BY <1>0, <1>4
  <2>2. offset < end /\ end =< Len(all) /\ end \in Nat
    BY <1>1, <1>4 DEF Lesser, end
  <2>3. \A i \in 1 .. end - offset :
          page[i] = IF i =< n THEN dirs[offset + i]
                    ELSE IF fileType # "dir" /\ start + i - n =< stop
                    THEN files[start + i - n] ELSE 0
    BY DEF page
  <2>4. ASSUME NEW i \in 1 .. end - offset
        PROVE  page[i] = all[offset + i]
    <3>1. CASE fileType = "all"
      <4>1. all = dirs \o files /\ total = Len(dirs) + Len(files)
        BY <3>1 DEF Filtered, TotalCount, all, total
      <4>2. all[offset + i] = IF offset + i =< Len(dirs) THEN dirs[offset + i]
                              ELSE files[offset + i - Len(dirs)]
        <5>1. offset + i \in 1 .. Len(dirs) + Len(files)
          BY <1>1, <1>2, <2>2, <4>1
        <5> QED BY <4>1, <5>1, ConcatProperties
      <4>3. start = IF offset >= Len(dirs) THEN offset - Len(dirs) ELSE 0
        BY <3>1 DEF FileStart, start
      <4>4. CASE offset + i =< Len(dirs)
        <5>1. i =< n
          BY <1>2, <2>2, <3>1, <4>4 DEF Lesser, n
        <5> QED BY <2>3, <4>2, <4>4, <5>1
      <4>5. CASE offset + i > Len(dirs)
        <5>1. n = IF offset < Len(dirs) THEN Len(dirs) - offset ELSE 0
          BY <1>2, <2>2, <3>1, <4>5 DEF Lesser, n
        <5>0. i \in Int
          BY <2>2
        <5>2. ~(i =< n) /\ start + i - n = offset + i - Len(dirs)
          <6>1. CASE offset < Len(dirs)
            BY <1>2, <4>3, <4>5, <5>0, <5>1, <6>1
          <6>2. CASE ~(offset < Len(dirs))
            BY <1>2, <2>2, <4>3, <4>5, <5>0, <5>1, <6>2
          <6> QED BY <6>1, <6>2
        <5>3. start + i - n =< stop
          <6>1. offset + i =< Len(dirs) + Len(files) /\ offset + i =< end
            BY <1>1, <1>2, <2>2, <4>1
          <6>2. CASE offset < Len(dirs)
            <7>1. start = 0 /\ n = Len(dirs) - offset
              BY <1>2, <4>3, <5>1, <6>2
            <7>2. stop = Lesser(end - Len(dirs), Len(files))
              BY <1>2, <2>2, <7>1 DEF stop
            <7> QED BY <1>2, <2>2, <5>0, <6>1, <7>1, <7>2 DEF Lesser
          <6>3. CASE ~(offset < Len(dirs))
            <7>1. start = offset - Len(dirs) /\ n = 0
              BY <1>2, <4>3, <5>1, <6>3
            <7>2. stop = Lesser(end - Len(dirs), Len(files))
              BY <1>2, <2>2, <7>1 DEF stop
            <7> QED BY <1>2, <2>2, <5>0, <6>1, <7>1, <7>2 DEF Lesser
          <6> QED BY <6>2, <6>3
        <5> QED BY <2>3, <3>1, <4>2, <4>5, <5>2, <5>3
      <4> QED BY <1>2, <2>2, <4>4, <4>5
    <3>2. CASE fileType = "dir"
      <4>1. all = dirs
        BY <3>2 DEF Filtered, all
      <4>2. i =< n
        BY <1>2, <2>2, <3>2, <4>1 DEF Lesser, n
      <4> QED BY <2>3, <4>1, <4>2
    <3>3. CASE fileType = "file"
      <4>1. all = files /\ n = 0 /\ start = offset
        BY <3>3 DEF Filtered, FileStart, all, n, start
      <4>2. start + i - n =< stop
        BY <1>2, <2>2, <4>1 DEF Lesser, stop
      <4> QED BY <2>2, <2>3, <3>3, <4>1, <4>2
    <3> QED BY <3>1, <3>2, <3>3 DEF FileTypes
  <2>5. \A i \in 1 .. end - offset : page[i] \in S
    BY <1>1, <2>2, <2>4, ElementOfSeq
  <2>6. page \in Seq(S) /\ Len(page) = end - offset
    <3>1. page = [i \in 1 .. end - offset |-> page[i]] /\ end - offset \in Nat
      BY <2>2 DEF page
    <3>2. [i \in 1 .. end - offset |-> page[i]] \in Seq(S)
      BY <2>5, <3>1, IsASeq
    <3>3. DOMAIN page = 1 .. end - offset
      BY DEF page
    <3>4. Len(page) \in Nat /\ DOMAIN page = 1 .. Len(page)
      BY <3>1, <3>2, LenProperties
    <3>5. end - offset \in DOMAIN page /\ end - offset >= 1
      BY <2>2, <3>3
    <3>6. Len(page) \in DOMAIN page
      BY <3>4, <3>5
    <3>7. page \in Seq(S)
      BY <3>1, <3>2, Zenon
    <3>8. end - offset = Len(page)
      <4>1. end - offset \in 1 .. Len(page)
        BY <3>4, <3>5, Zenon
      <4>2. Len(page) \in 1 .. end - offset
        BY <3>3, <3>6, Zenon
      <4> QED BY <2>2, <3>4, <4>1, <4>2
    <3> QED BY <3>7, <3>8, Zenon
  <2>7. /\ SubSeq(all, offset + 1, end) \in Seq(S)
        /\ Len(SubSeq(all, offset + 1, end)) = end - offset
        /\ \A i \in 1 .. end - offset : SubSeq(all, offset + 1, end)[i] = all[offset + i]
    <3>1. \A i \in offset + 1 .. end : all[i] \in S
      BY <1>1, <2>2, ElementOfSeq
    <3> QED BY <2>2, <3>1, SubSeqProperties
  <2>8. page = SubSeq(all, offset + 1, end)
    BY <2>2, <2>4, <2>6, <2>7, SeqEqual
  <2>9. Paginate(dirs, files, fileType, offset, limit).total = total
    BY <1>R, <2>1, Zenon
  <2>10. Paginate(dirs, files, fileType, offset, limit).ids = page
    BY <1>R, <2>1, Zenon
  <2> QED BY <2>8, <2>9, <2>10, Zenon
<1> QED BY <1>3, <1>4

\* Pages cut one after the other from an unchanged result follow each other
\* without a gap and without overlap.
THEOREM NextPageFollows ==
  ASSUME NEW S, NEW dirs \in Seq(S), NEW files \in Seq(S), NEW fileType \in FileTypes,
         NEW offset \in Nat, NEW limit \in Nat
  PROVE  LET all == Filtered(dirs, files, fileType)
         IN  SubSeq(all, 1, Lesser(offset, Len(all)))
               \o Paginate(dirs, files, fileType, offset, limit).ids
               = SubSeq(all, 1, Lesser(offset + limit, Len(all)))
<1> DEFINE all == Filtered(dirs, files, fileType)
           from == Lesser(offset, Len(all))
           end == Lesser(offset + limit, Len(all))
<1>1. all \in Seq(S) /\ Len(all) \in Nat
  BY FilteredIsSeq, LenProperties
<1>2. Paginate(dirs, files, fileType, offset, limit).ids = SubSeq(all, offset + 1, end)
  BY PageIsSlice
<1> SUFFICES SubSeq(all, 1, from) \o SubSeq(all, offset + 1, end) = SubSeq(all, 1, end)
  BY <1>2
<1> HIDE DEF all
<1>3. CASE offset < Len(all)
  <2>1. /\ from = offset /\ 1 \in 1 .. Len(all) + 1
        /\ from \in 1 - 1 .. Len(all) /\ end \in from .. Len(all)
    BY <1>1, <1>3 DEF Lesser
  <2>2. SubSeq(all, 1, from) \o SubSeq(all, from + 1, end) = SubSeq(all, 1, end)
    BY <1>1, <2>1, ConcatAdjacentSubSeq
  <2> QED BY <2>1, <2>2
<1>4. CASE offset >= Len(all)
  <2>1. from = Len(all) /\ end = Len(all)
    BY <1>1, <1>4 DEF Lesser
  <2>2. SubSeq(all, offset + 1, end) = <<>>
    BY <1>1, <1>4, <2>1, SubSeqEmpty
  <2>3. SubSeq(all, 1, from) = all
    BY <1>1, <2>1, SubSeqFull
  <2>4. all \o <<>> = all
    BY <1>1, ConcatEmptySeq
  <2> QED BY <2>1, <2>2, <2>3, <2>4
<1>5. offset < Len(all) \/ offset >= Len(all)
  BY <1>1
<1> QED BY <1>3, <1>4, <1>5, Zenon

\* The total a page is sent with is that of the result, as long as the page
\* begins before the end and is not empty by request; behind the end it is 0.
THEOREM TotalIsShownInside ==
  ASSUME NEW S, NEW dirs \in Seq(S), NEW files \in Seq(S), NEW fileType \in FileTypes,
         NEW offset \in Nat, NEW limit \in Nat \ {0}, NEW live
  PROVE  LET all == Filtered(dirs, files, fileType)
         IN  Reply(Paginate(dirs, files, fileType, offset, limit), live).total
               = IF offset < Len(all) THEN Len(all) ELSE 0
<1> DEFINE all == Filtered(dirs, files, fileType)
           end == Lesser(offset + limit, Len(all))
           page == Paginate(dirs, files, fileType, offset, limit)
<1>1. all \in Seq(S) /\ Len(all) \in Nat
  BY FilteredIsSeq, LenProperties
<1>2. page.total = Len(all) /\ page.ids = SubSeq(all, offset + 1, end)
  BY PageIsSlice
<1>3. \A x, y, z : "total" \in DOMAIN [ids |-> x, total |-> y, offset |-> z]
  OBVIOUS
<1>4. "total" \in DOMAIN page
  BY <1>3, Zenon DEF Paginate
<1> HIDE DEF all, page
<1>5. CASE offset < Len(all)
  <2>1. offset < end /\ end \in 0 .. Len(all)
    BY <1>1, <1>5 DEF Lesser
  <2>2. Len(SubSeq(all, offset + 1, end)) = end - offset
    <3>1. \A i \in offset + 1 .. end : all[i] \in S
      BY <1>1, <2>1, ElementOfSeq
    <3> QED BY <2>1, <3>1, SubSeqProperties
  <2>3. page.ids # <<>>
    <3>1. Len(page.ids) # 0
      <4>1. end - offset # 0
        BY <1>1, <2>1
      <4> QED BY <1>2, <2>2, <4>1
    <3>2. Len(<<>>) = 0
      OBVIOUS
    <3> QED BY <3>1, <3>2, Zenon
  <2>4. Reply(page, live).total = page.total
    BY <1>4, <2>3 DEF Reply
  <2> QED BY <1>2, <1>5, <2>4 DEF page, all
<1>6. CASE offset >= Len(all)
  <2>1. page.ids = <<>>
    BY <1>1, <1>2, <1>6, SubSeqEmpty DEF Lesser
  <2>2. Reply(page, live).total = 0
    BY <2>1 DEF Reply
  <2> QED BY <1>1, <1>6, <2>2 DEF page, all
<1> QED BY <1>1, <1>5, <1>6 DEF page, all

-----------------------------------------------------------------------------
(* Directories and files taken out of a sorted result.                     *)

\* The loop of Only, position by position, and that there is such a function:
\* a shortest stretch without one would extend the one before it.
IsLoop(F, n, s, kept) ==
  F = [k \in 0 .. n |-> IF k = 0 THEN <<>>
                        ELSE IF s[k] \in kept THEN Append(F[k - 1], s[k]) ELSE F[k - 1]]

LEMMA LoopExists ==
  ASSUME NEW s, NEW kept, NEW m \in Nat
  PROVE  \E F : IsLoop(F, m, s, kept)
<1>. DEFINE Bad == {n \in Nat : ~ \E F : IsLoop(F, n, s, kept)}
<1>. SUFFICES ASSUME Bad # {}
              PROVE  FALSE
  OBVIOUS
<1>1. PICK n \in Bad : \A k \in Bad : n =< k
  <2>. HIDE DEF Bad
  <2>1. Bad \subseteq Nat
    BY DEF Bad
  <2>. QED
    BY <2>1, LeastNat
<1>2. CASE n = 0
  <2>. DEFINE F == [k \in 0 .. 0 |-> <<>>]
  <2>1. IsLoop(F, 0, s, kept)
    BY DEF IsLoop
  <2>. QED
    BY <1>2, <2>1
<1>3. CASE n # 0
  <2>1. n - 1 \in Nat /\ n - 1 \notin Bad
    BY <1>1, <1>3
  <2>2. PICK F : IsLoop(F, n - 1, s, kept)
    BY <2>1
  <2>. DEFINE next == IF s[n] \in kept THEN Append(F[n - 1], s[n]) ELSE F[n - 1]
              G == [k \in 0 .. n |-> IF k = n THEN next ELSE F[k]]
  <2>3. \A k \in 0 .. n - 1 :
          F[k] = IF k = 0 THEN <<>>
                 ELSE IF s[k] \in kept THEN Append(F[k - 1], s[k]) ELSE F[k - 1]
    BY <2>2 DEF IsLoop
  <2>4. \A k \in 0 .. n : G[k] = IF k = 0 THEN <<>>
                                 ELSE IF s[k] \in kept THEN Append(G[k - 1], s[k]) ELSE G[k - 1]
    <3>. TAKE k \in 0 .. n
    <3>1. CASE k = n
      <4>1. G[k] = next /\ G[k - 1] = F[n - 1]
        BY <1>3, <3>1
      <4>. HIDE DEF G
      <4>. QED
        BY <1>3, <3>1, <4>1
    <3>2. CASE k = 0
      <4>1. G[k] = F[k] /\ k \in 0 .. n - 1
        BY <1>3, <3>2
      <4>. HIDE DEF G
      <4>. QED
        BY <2>3, <3>2, <4>1
    <3>3. CASE k # n /\ k # 0
      <4>1. G[k] = F[k] /\ G[k - 1] = F[k - 1] /\ k \in 0 .. n - 1
        BY <3>3
      <4>. HIDE DEF G
      <4>. QED
        BY <2>3, <3>3, <4>1
    <3>. QED
      BY <3>1, <3>2, <3>3
  <2>5. G = [k \in 0 .. n |-> G[k]]
    OBVIOUS
  <2>. HIDE DEF G
  <2>6. IsLoop(G, n, s, kept)
    BY <2>4, <2>5 DEF IsLoop
  <2>. QED
    BY <2>6
<1>. QED
  BY <1>2, <1>3

\* Whatever stands before another in the choice does so in the whole.
KeepsOrder(r, s, n) ==
  /\ \A i \in 1 .. Len(r) : \E a \in 1 .. n : r[i] = s[a]
  /\ \A i, j \in 1 .. Len(r) : i < j =>
       \E a, b \in 1 .. n : a < b /\ r[i] = s[a] /\ r[j] = s[b]

LEMMA OneMore ==
  ASSUME NEW S, NEW s \in Seq(S), NEW n \in 1 .. Len(s), NEW r \in Seq(S),
         KeepsOrder(r, s, n - 1)
  PROVE  Append(r, s[n]) \in Seq(S) /\ KeepsOrder(Append(r, s[n]), s, n) /\ KeepsOrder(r, s, n)
<1>. DEFINE t == Append(r, s[n])
<1>1. Len(s) \in Nat /\ Len(r) \in Nat /\ s[n] \in S /\ n \in Nat \ {0}
  BY LenProperties, ElementOfSeq
<1>2. /\ t \in Seq(S) /\ Len(t) = Len(r) + 1 /\ t[Len(r) + 1] = s[n]
      /\ \A i \in 1 .. Len(r) : t[i] = r[i]
  BY <1>1, AppendProperties
<1>. HIDE DEF t
<1>0. \A a \in 1 .. n - 1 : a \in 1 .. n
  BY <1>1
<1>3. /\ \A i \in 1 .. Len(r) : \E a \in 1 .. n : r[i] = s[a]
      /\ \A i, j \in 1 .. Len(r) : i < j =>
           \E a, b \in 1 .. n : a < b /\ r[i] = s[a] /\ r[j] = s[b]
  <2>1. ASSUME NEW i \in 1 .. Len(r)
        PROVE  \E a \in 1 .. n : r[i] = s[a]
    <3>1. PICK a \in 1 .. n - 1 : r[i] = s[a]
      BY Zenon DEF KeepsOrder
    <3>. QED
      BY <1>0, <3>1, Zenon
  <2>2. ASSUME NEW i \in 1 .. Len(r), NEW j \in 1 .. Len(r), i < j
        PROVE  \E a, b \in 1 .. n : a < b /\ r[i] = s[a] /\ r[j] = s[b]
    <3>1. PICK a, b \in 1 .. n - 1 : a < b /\ r[i] = s[a] /\ r[j] = s[b]
      BY <2>2, Zenon DEF KeepsOrder
    <3>. QED
      BY <1>0, <3>1, Zenon
  <2>. QED
    BY <2>1, <2>2
<1>4. \A i \in 1 .. Len(t) : \E a \in 1 .. n : t[i] = s[a]
  <2>. TAKE i \in 1 .. Len(t)
  <2>1. CASE i = Len(r) + 1
    BY <1>1, <1>2, <2>1
  <2>2. CASE i # Len(r) + 1
    <3>1. i \in 1 .. Len(r)
      BY <1>1, <1>2, <2>2
    <3>2. PICK a \in 1 .. n : r[i] = s[a]
      BY <1>3, <3>1, Zenon
    <3>3. t[i] = s[a]
      BY <1>2, <3>1, <3>2, Zenon
    <3>. QED
      BY <3>3
  <2>. QED
    BY <2>1, <2>2
<1>5. ASSUME NEW i \in 1 .. Len(t), NEW j \in 1 .. Len(t), i < j
      PROVE  \E a, b \in 1 .. n : a < b /\ t[i] = s[a] /\ t[j] = s[b]
  <2>1. i \in 1 .. Len(r)
    BY <1>1, <1>2, <1>5
  <2>2. CASE j = Len(r) + 1
    <3>1. PICK a \in 1 .. n - 1 : r[i] = s[a]
      BY <2>1, Zenon DEF KeepsOrder
    <3>2. a \in 1 .. n /\ n \in 1 .. n /\ a < n
      BY <1>1
    <3>. QED
      BY <1>2, <2>1, <2>2, <3>1, <3>2
  <2>3. CASE j # Len(r) + 1
    <3>1. j \in 1 .. Len(r)
      BY <1>1, <1>2, <2>3
    <3>2. PICK a, b \in 1 .. n : a < b /\ r[i] = s[a] /\ r[j] = s[b]
      BY <1>3, <1>5, <2>1, <3>1, Zenon
    <3>3. t[i] = s[a] /\ t[j] = s[b]
      BY <1>2, <2>1, <3>1, <3>2, Zenon
    <3>. QED
      BY <3>2, <3>3, Zenon
  <2>. QED
    BY <2>2, <2>3
<1>. QED
  BY <1>2, <1>3, <1>4, <1>5 DEF KeepsOrder, t

LEMMA OnlyKeepsOrder ==
  ASSUME NEW S, NEW s \in Seq(S), NEW kept
  PROVE  Only(s, kept) \in Seq(S) /\ KeepsOrder(Only(s, kept), s, Len(s))
<1>0. Len(s) \in Nat
  BY LenProperties
<1>. DEFINE F == CHOOSE F : IsLoop(F, Len(s), s, kept)
<1>1. IsLoop(F, Len(s), s, kept)
  BY <1>0, LoopExists, Zenon
<1>2. Only(s, kept) = F[Len(s)]
  BY Zenon DEF Only, IsLoop
<1>. HIDE DEF F
<1>3. \A k \in 0 .. Len(s) :
        F[k] = IF k = 0 THEN <<>>
               ELSE IF s[k] \in kept THEN Append(F[k - 1], s[k]) ELSE F[k - 1]
  BY <1>1 DEF IsLoop
<1>. DEFINE Fine(n) == F[n] \in Seq(S) /\ KeepsOrder(F[n], s, n)
            Bad == {n \in 0 .. Len(s) : ~Fine(n)}
<1>4. Bad = {}
  <2>. SUFFICES ASSUME Bad # {}
                PROVE  FALSE
    OBVIOUS
  <2>1. PICK n \in Bad : \A k \in Bad : n =< k
    <3>1. Bad \subseteq Nat
      BY <1>0
    <3>. HIDE DEF Bad
    <3>. QED
      BY <3>1, LeastNat
  <2>2. n \in 0 .. Len(s) /\ ~Fine(n)
    BY <2>1
  <2>3. CASE n = 0
    <3>1. F[0] = <<>>
      BY <1>0, <1>3
    <3>2. <<>> \in Seq(S) /\ Len(<<>>) = 0 /\ 1 .. 0 = {}
      OBVIOUS
    <3>3. KeepsOrder(<<>>, s, 0)
      BY <3>2 DEF KeepsOrder
    <3>. QED
      BY <2>2, <2>3, <3>1, <3>2, <3>3
  <2>4. CASE n # 0
    <3>1. n - 1 \in 0 .. Len(s) /\ n - 1 \notin Bad /\ n \in 1 .. Len(s)
      BY <1>0, <2>1, <2>2, <2>4
    <3>2. Fine(n - 1)
      BY <3>1
    <3>3. /\ Append(F[n - 1], s[n]) \in Seq(S) /\ KeepsOrder(Append(F[n - 1], s[n]), s, n)
          /\ KeepsOrder(F[n - 1], s, n)
      BY <3>1, <3>2, OneMore
    <3>4. F[n] = Append(F[n - 1], s[n]) \/ F[n] = F[n - 1]
      BY <1>3, <2>2, <2>4
    <3>. QED
      BY <2>2, <3>2, <3>3, <3>4
  <2>. QED
    BY <2>3, <2>4
<1>5. Fine(Len(s))
  BY <1>0, <1>4
<1>. QED
  BY <1>2, <1>5

-----------------------------------------------------------------------------
(* The inductive invariant of the pages.  Every node is well formed and     *)
(* directories are not nested; what a cached result or a search that was    *)
(* not raced lists has a node, and stands in order; the user's visit is as  *)
(* PagesTile says, and the page about to be sent is the last of it.         *)

NodeRec == [dir : BOOLEAN, parent : Nat, size : Int, mtime : Nat, name : Nat]

NodeInv ==
  /\ lastID \in Nat
  /\ DOMAIN node \subseteq 1 .. lastID
  /\ node \in [DOMAIN node -> NodeRec]
  /\ \A id \in DOMAIN node : node[id].parent \in Dirs \cup {0}
  /\ \A id \in DOMAIN node : node[id].dir => node[id].parent = 0

EntryRec == [dirs : Seq(Nat), files : Seq(Nat), raced : BOOLEAN, charged : SUBSET Nat]

CacheInv ==
  /\ DOMAIN cache \subseteq Orders
  /\ \A k \in DOMAIN cache : cache[k] \in EntryRec
  /\ \A k \in DOMAIN cache : ~cache[k].raced =>
       Listed(cache[k].dirs) \cup Listed(cache[k].files) \subseteq DOMAIN node

SplitRec == [pc : {"split"}, ids : Seq(Nat), raced : BOOLEAN]
StoreRec == [pc : {"store"}, raced : BOOLEAN, dirs : Seq(Nat), files : Seq(Nat)]

SearchInv ==
  /\ search.pc \in {"idle", "get", "sort", "split", "store", "reply"}
  /\ search.pc = "sort" => search.ids \subseteq Nat /\ IsFiniteSet(search.ids)
  /\ search.pc = "split" => search \in SplitRec
  /\ search.pc = "store" => search \in StoreRec

\* What a search that was not raced has in hand.
Sorted(s) == Listed(s) \subseteq DOMAIN node /\ InOrder(node, visit.order, s)

SortedInv ==
  /\ search.pc = "split" /\ ~search.raced => Sorted(search.ids)
  /\ search.pc = "store" /\ ~search.raced => Sorted(search.dirs) /\ Sorted(search.files)

VisitRec == [order : Orders \cup {<<>>}, fileType : FileTypes, limit : Nat, pages : Nat,
             seen : Seq(Nat), lists : (Seq(Nat) \X Seq(Nat)) \cup {<<>>}, total : Int,
             steady : BOOLEAN]

VisitInv ==
  /\ visit \in VisitRec
  /\ visit.limit > 0 => visit.order \in Orders
  /\ search.pc # "idle" => visit.limit > 0
  /\ visit.pages = 0 => visit.seen = <<>>
  /\ visit.pages > 0 => visit.limit > 0 /\ visit.lists # <<>>
  /\ search.pc = "reply" =>
       /\ visit.pages > 0
       /\ search.page = Paginate(visit.lists[1], visit.lists[2], visit.fileType,
                                 (visit.pages - 1) * visit.limit, visit.limit)

PageInv == NodeInv /\ CacheInv /\ OrderKept /\ SearchInv /\ SortedInv /\ VisitInv /\ PagesTile

-----------------------------------------------------------------------------

\* What a handler does to the nodes outside ids.
Spares(new, ids) ==
  \A x \in DOMAIN node \ ids :
    /\ x \in DOMAIN new
    /\ new[x].mtime = node[x].mtime /\ new[x].name = node[x].name

\* The nodes of a handler, as a step.
Grown(new) == {d \in DOMAIN node \cap DOMAIN new : node[d].size # new[d].size}

LEMMA BeforeSpared ==
  ASSUME NEW new, NEW ids, Spares(new, ids), NEW k \in Orders,
         NEW a \in DOMAIN node \ ids, NEW b \in DOMAIN node \ ids,
         Before(new, k, a, b)
  PROVE  Before(node, k, a, b) \/ (k[1] = "size" /\ {a, b} \cap Grown(new) # {})
<1>1. k[1] \in {"size", "time", "name"}
  BY SearchPageAssumption
<1>2. /\ new[a].mtime = node[a].mtime /\ new[a].name = node[a].name
      /\ new[b].mtime = node[b].mtime /\ new[b].name = node[b].name
      /\ a \in DOMAIN new /\ b \in DOMAIN new
  BY DEF Spares
<1>3. CASE k[1] # "size"
  <2>1. Rank(new[a], k[1]) = Rank(node[a], k[1]) /\ Rank(new[b], k[1]) = Rank(node[b], k[1])
    BY <1>1, <1>2, <1>3 DEF Rank
  <2>. QED
    BY <2>1 DEF Before
<1>4. CASE k[1] = "size" /\ new[a].size = node[a].size /\ new[b].size = node[b].size
  <2>1. Rank(new[a], k[1]) = Rank(node[a], k[1]) /\ Rank(new[b], k[1]) = Rank(node[b], k[1])
    BY <1>4 DEF Rank
  <2>. QED
    BY <2>1 DEF Before
<1>5. CASE k[1] = "size" /\ (new[a].size # node[a].size \/ new[b].size # node[b].size)
  BY <1>2, <1>5 DEF Grown
<1>. QED
  BY <1>3, <1>4, <1>5

\* What Changed leaves of the cache.
LEMMA ChangedCache ==
  ASSUME NEW new, NEW ids, NEW names, Changed(new, ids, names), CacheInv, NodeInv
  PROVE  /\ node' = new
         /\ DOMAIN cache' \subseteq DOMAIN cache
         /\ \A k \in DOMAIN cache' :
              /\ ~Holds(cache[k], ids)
              /\ cache'[k] \in EntryRec
              /\ cache'[k].dirs = cache[k].dirs /\ cache'[k].files = cache[k].files
              /\ cache'[k].raced = cache[k].raced
              /\ cache'[k].charged = cache[k].charged \cup Grown(new)
<1>. DEFINE kept == {k \in DOMAIN cache : ~Holds(cache[k], ids) /\ names \cap Matching = {}}
<1>1. /\ node' = new
      /\ cache' = [k \in kept |-> [cache[k] EXCEPT !.charged = @ \cup Grown(new)]]
  BY Zenon DEF Changed, Grown
<1>2. kept \subseteq DOMAIN cache /\ \A k \in kept : ~Holds(cache[k], ids)
  OBVIOUS
<1>. HIDE DEF kept
<1>3. DOMAIN cache' = kept
  BY <1>1
<1>4. Grown(new) \subseteq Nat
  BY DEF Grown, NodeInv
<1>5. ASSUME NEW k \in kept
      PROVE  /\ cache'[k] \in EntryRec
             /\ cache'[k].dirs = cache[k].dirs /\ cache'[k].files = cache[k].files
             /\ cache'[k].raced = cache[k].raced
             /\ cache'[k].charged = cache[k].charged \cup Grown(new)
  <2>1. cache[k] \in EntryRec
    BY <1>2, <1>5 DEF CacheInv
  <2>2. cache'[k] = [cache[k] EXCEPT !.charged = @ \cup Grown(new)]
    BY <1>1, <1>5
  <2>. QED
    BY <1>4, <2>1, <2>2 DEF EntryRec
<1>. QED
  BY <1>1, <1>2, <1>3, <1>5

\* A handler that spares all but ids, and invalidates what lists one of them,
\* keeps the cache and the search as they should be.
LEMMA ChangedKeeps ==
  ASSUME NEW new, NEW ids, NEW names, Changed(new, ids, names), UNCHANGED visit,
         Spares(new, ids), PageInv
  PROVE  CacheInv' /\ OrderKept' /\ SearchInv' /\ SortedInv' /\ VisitInv' /\ PagesTile'
<1>1. /\ node' = new
      /\ DOMAIN cache' \subseteq DOMAIN cache
      /\ \A k \in DOMAIN cache' :
           /\ ~Holds(cache[k], ids)
           /\ cache'[k] \in EntryRec
           /\ cache'[k].dirs = cache[k].dirs /\ cache'[k].files = cache[k].files
           /\ cache'[k].raced = cache[k].raced
           /\ cache'[k].charged = cache[k].charged \cup Grown(new)
  BY ChangedCache DEF PageInv
<1>2. ASSUME NEW k \in DOMAIN cache', ~cache'[k].raced,
             NEW x \in Listed(cache[k].dirs) \cup Listed(cache[k].files)
      PROVE  x \in DOMAIN node \ ids /\ x \in DOMAIN new
  <2>1. ~cache[k].raced /\ k \in DOMAIN cache /\ ~Holds(cache[k], ids)
    BY <1>1, <1>2
  <2>2. x \in DOMAIN node /\ x \notin ids
    BY <2>1, <1>2 DEF PageInv, CacheInv, Holds
  <2>. QED
    BY <2>2 DEF Spares
<1>3. CacheInv'
  <2>1. DOMAIN cache' \subseteq Orders /\ \A k \in DOMAIN cache' : cache'[k] \in EntryRec
    BY <1>1 DEF PageInv, CacheInv
  <2>2. ASSUME NEW k \in DOMAIN cache', ~cache'[k].raced
        PROVE  Listed(cache'[k].dirs) \cup Listed(cache'[k].files) \subseteq DOMAIN node'
    BY <1>1, <1>2, <2>2, Zenon
  <2>. QED
    BY <2>1, <2>2 DEF CacheInv
<1>4. OrderKept'
  <2>. SUFFICES ASSUME NEW k \in DOMAIN cache', ~cache'[k].raced,
                       NEW s \in {cache'[k].dirs, cache'[k].files},
                       NEW i \in DOMAIN s, NEW j \in DOMAIN s, i < j,
                       Before(node', k, s[j], s[i])
                PROVE  k[1] = "size" /\ {s[i], s[j]} \cap cache'[k].charged # {}
    BY Zenon DEF OrderKept
  <2>1. /\ s \in {cache[k].dirs, cache[k].files} /\ ~cache[k].raced /\ k \in DOMAIN cache
        /\ k \in Orders
    BY <1>1 DEF PageInv, CacheInv
  <2>2. s[i] \in DOMAIN node \ ids /\ s[j] \in DOMAIN node \ ids
    <3>1. s[i] \in Listed(s) /\ s[j] \in Listed(s)
      BY DEF Listed
    <3>2. Listed(s) \subseteq Listed(cache[k].dirs) \cup Listed(cache[k].files)
      BY <2>1
    <3>. QED
      BY <1>2, <3>1, <3>2
  <2>3. Before(node, k, s[j], s[i]) \/ (k[1] = "size" /\ {s[j], s[i]} \cap Grown(new) # {})
    BY <1>1, <2>1, <2>2, BeforeSpared
  <2>4. CASE Before(node, k, s[j], s[i])
    <3>1. k[1] = "size" /\ {s[i], s[j]} \cap cache[k].charged # {}
      BY <2>1, <2>4, Zenon DEF PageInv, OrderKept
    <3>. QED
      BY <1>1, <3>1
  <2>. QED
    BY <1>1, <2>3, <2>4
<1>5. SearchInv' /\ SortedInv' /\ search'.pc = search.pc /\ (search.pc = "reply" => search' = search)
  <2>1. search' = IF search.pc \in {"split", "store"}
                  THEN [search EXCEPT !.raced = TRUE] ELSE search
    BY Zenon DEF Changed
  <2>2. CASE search.pc = "split"
    <3>1. search \in SplitRec
      BY <2>2 DEF PageInv, SearchInv
    <3>2. search' \in SplitRec /\ search'.raced = TRUE /\ search'.pc = "split"
      BY <2>1, <2>2, <3>1 DEF SplitRec
    <3>. QED
      BY <2>2, <3>2 DEF SearchInv, SortedInv
  <2>3. CASE search.pc = "store"
    <3>1. search \in StoreRec
      BY <2>3 DEF PageInv, SearchInv
    <3>2. search' \in StoreRec /\ search'.raced = TRUE /\ search'.pc = "store"
      BY <2>1, <2>3, <3>1 DEF StoreRec
    <3>. QED
      BY <2>3, <3>2 DEF SearchInv, SortedInv
  <2>4. CASE search.pc \notin {"split", "store"}
    <3>1. search' = search
      BY <2>1, <2>4
    <3>. QED
      BY <2>4, <3>1 DEF PageInv, SearchInv, SortedInv
  <2>. QED
    BY <2>2, <2>3, <2>4
<1>6. VisitInv' /\ PagesTile'
  BY <1>5 DEF PageInv, VisitInv, PagesTile
<1>. QED
  BY <1>3, <1>4, <1>5, <1>6

-----------------------------------------------------------------------------
(* The handlers.                                                           *)

LEMMA ChargedOnlySize ==
  ASSUME NEW D, NEW nodes \in [D -> NodeRec], NEW d, NEW delta \in Int
  PROVE  /\ Charged(nodes, d, delta) \in [D -> NodeRec]
         /\ \A x \in D : /\ Charged(nodes, d, delta)[x].dir = nodes[x].dir
                         /\ Charged(nodes, d, delta)[x].parent = nodes[x].parent
                         /\ Charged(nodes, d, delta)[x].mtime = nodes[x].mtime
                         /\ Charged(nodes, d, delta)[x].name = nodes[x].name
<1>1. CASE d \in D
  <2>1. Charged(nodes, d, delta) = [nodes EXCEPT ![d].size = @ + delta]
    BY <1>1 DEF Charged
  <2>. QED
    BY <1>1, <2>1 DEF NodeRec
<1>2. CASE d \notin D
  BY <1>2 DEF Charged
<1>. QED
  BY <1>1, <1>2

\* What NodeInv says, for the nodes of the next state.
NodesFine(nodes, last) ==
  /\ last \in Nat
  /\ DOMAIN nodes \subseteq 1 .. last
  /\ nodes \in [DOMAIN nodes -> NodeRec]
  /\ \A id \in DOMAIN nodes :
       /\ nodes[id].parent = 0 \/ (nodes[id].parent \in DOMAIN nodes /\ nodes[nodes[id].parent].dir)
       /\ nodes[id].dir => nodes[id].parent = 0

LEMMA NodesFineIsNodeInv ==
  /\ NodeInv <=> NodesFine(node, lastID)
  /\ NodeInv' <=> NodesFine(node', lastID')
<1>1. NodeInv <=> NodesFine(node, lastID)
  BY DEF NodeInv, NodesFine, Dirs
<1>2. NodeInv' <=> NodesFine(node', lastID')
  BY DEF NodeInv, NodesFine, Dirs
<1>. QED
  BY <1>1, <1>2

LEMMA CreateStep ==
  ASSUME PageInv, NEW isDir \in BOOLEAN, NEW parent \in Dirs \cup {0}, NEW size \in Sizes,
         NEW t \in Times, NEW name \in Names, Create(isDir, parent, size, t, name)
  PROVE  PageInv'
<1>. DEFINE rec == [dir |-> isDir, parent |-> parent, size |-> size, mtime |-> t, name |-> name]
            base == Charged(node, parent, size)
            new == Put(base, lastID + 1, rec)
<1>1. /\ lastID' = lastID + 1 /\ Changed(new, {}, {name}) /\ UNCHANGED visit
      /\ isDir => parent = 0
  BY Zenon DEF Create
<1>2. NodesFine(node, lastID) /\ NodeInv /\ lastID \in Nat
  BY NodesFineIsNodeInv DEF PageInv, NodeInv
<1>3. size \in Int /\ t \in Nat /\ name \in Nat
  BY SearchPageAssumption
<1>4. parent \in Nat /\ (parent = 0 \/ (parent \in DOMAIN node /\ node[parent].dir))
  BY <1>2 DEF Dirs, NodesFine
<1>5. rec \in NodeRec /\ rec.dir = isDir /\ rec.parent = parent
  BY <1>3, <1>4 DEF NodeRec
<1>6. /\ base \in [DOMAIN node -> NodeRec]
      /\ \A x \in DOMAIN node : base[x].dir = node[x].dir /\ base[x].parent = node[x].parent
                             /\ base[x].mtime = node[x].mtime /\ base[x].name = node[x].name
  BY <1>2, <1>3, ChargedOnlySize DEF NodesFine
<1>. HIDE DEF rec, base
<1>7. lastID + 1 \notin DOMAIN node /\ DOMAIN node \subseteq 1 .. lastID + 1
  BY <1>2 DEF NodesFine
<1>8. /\ DOMAIN new = DOMAIN node \cup {lastID + 1}
      /\ new \in [DOMAIN new -> NodeRec]
      /\ new[lastID + 1] = rec /\ \A x \in DOMAIN node : new[x] = base[x]
  BY <1>5, <1>6, <1>7 DEF Put
<1>. HIDE DEF new
<1>9. NodesFine(new, lastID + 1)
  <2>1. ASSUME NEW id \in DOMAIN new
        PROVE  /\ new[id].parent = 0 \/ (new[id].parent \in DOMAIN new /\ new[new[id].parent].dir)
               /\ new[id].dir => new[id].parent = 0
    <3>1. CASE id = lastID + 1
      BY <1>1, <1>4, <1>5, <1>6, <1>8, <3>1
    <3>2. CASE id \in DOMAIN node
      BY <1>2, <1>6, <1>8, <3>2 DEF NodesFine
    <3>. QED
      BY <1>8, <3>1, <3>2
  <2>. QED
    BY <1>2, <1>7, <1>8, <2>1 DEF NodesFine
<1>10. Spares(new, {})
  BY <1>6, <1>8 DEF Spares
<1>11. CacheInv' /\ OrderKept' /\ SearchInv' /\ SortedInv' /\ VisitInv' /\ PagesTile'
  BY <1>1, <1>10, ChangedKeeps
<1>12. node' = new
  BY <1>1, Zenon DEF Changed
<1>. QED
  BY <1>1, <1>9, <1>11, <1>12, NodesFineIsNodeInv DEF PageInv

LEMMA TouchStep ==
  ASSUME PageInv, NEW id \in DOMAIN node, NEW size \in Sizes, NEW t \in Times,
         Touch(id, size, t)
  PROVE  PageInv'
<1>. DEFINE base == Charged(node, node[id].parent, size - node[id].size)
            new == [base EXCEPT ![id].size = size, ![id].mtime = t]
<1>1. lastID' = lastID /\ Changed(new, {id}, {}) /\ UNCHANGED visit
  BY Zenon DEF Touch, Another
<1>2. NodesFine(node, lastID) /\ NodeInv
  BY NodesFineIsNodeInv DEF PageInv
<1>3. size \in Int /\ t \in Nat /\ node[id].size \in Int
  BY <1>2, SearchPageAssumption DEF NodesFine, NodeRec
<1>6. /\ base \in [DOMAIN node -> NodeRec]
      /\ \A x \in DOMAIN node : base[x].dir = node[x].dir /\ base[x].parent = node[x].parent
                             /\ base[x].mtime = node[x].mtime /\ base[x].name = node[x].name
  BY <1>2, <1>3, ChargedOnlySize DEF NodesFine
<1>. HIDE DEF base
<1>7. /\ new \in [DOMAIN node -> NodeRec]
      /\ \A x \in DOMAIN node : new[x].dir = node[x].dir /\ new[x].parent = node[x].parent
      /\ \A x \in DOMAIN node \ {id} : new[x] = base[x]
  <2>. DEFINE mid == [base EXCEPT ![id].size = size]
  <2>1. /\ mid \in [DOMAIN node -> NodeRec]
        /\ \A x \in DOMAIN node : mid[x].dir = base[x].dir /\ mid[x].parent = base[x].parent
        /\ \A x \in DOMAIN node \ {id} : mid[x] = base[x]
    BY <1>3, <1>6 DEF NodeRec
  <2>2. new = [mid EXCEPT ![id].mtime = t]
    BY <1>6
  <2>. HIDE DEF mid, new
  <2>3. /\ new \in [DOMAIN node -> NodeRec]
        /\ \A x \in DOMAIN node : new[x].dir = mid[x].dir /\ new[x].parent = mid[x].parent
        /\ \A x \in DOMAIN node \ {id} : new[x] = mid[x]
    BY <1>3, <2>1, <2>2 DEF NodeRec
  <2>. QED
    BY <1>6, <2>1, <2>3
<1>. HIDE DEF new
<1>8. DOMAIN new = DOMAIN node
  BY <1>7
<1>9. NodesFine(new, lastID)
  BY <1>2, <1>7, <1>8 DEF NodesFine
<1>10. Spares(new, {id})
  BY <1>6, <1>7, <1>8 DEF Spares
<1>11. CacheInv' /\ OrderKept' /\ SearchInv' /\ SortedInv' /\ VisitInv' /\ PagesTile'
  BY <1>1, <1>10, ChangedKeeps
<1>12. node' = new
  BY <1>1, Zenon DEF Changed
<1>. QED
  BY <1>1, <1>9, <1>11, <1>12, NodesFineIsNodeInv DEF PageInv

LEMMA RemoveStep ==
  ASSUME PageInv, NEW id \in DOMAIN node, Remove(id)
  PROVE  PageInv'
<1>. DEFINE base == Charged(node, node[id].parent, -node[id].size)
            gone == {id} \cup {x \in DOMAIN node : node[x].parent = id}
            new == Without(base, gone)
<1>1. lastID' = lastID /\ Changed(new, gone, {}) /\ UNCHANGED visit
  BY Zenon DEF Remove, Another
<1>2. NodesFine(node, lastID) /\ NodeInv
  BY NodesFineIsNodeInv DEF PageInv
<1>3. -node[id].size \in Int
  BY <1>2 DEF NodesFine, NodeRec
<1>6. /\ base \in [DOMAIN node -> NodeRec]
      /\ \A x \in DOMAIN node : base[x].dir = node[x].dir /\ base[x].parent = node[x].parent
                             /\ base[x].mtime = node[x].mtime /\ base[x].name = node[x].name
  BY <1>2, <1>3, ChargedOnlySize DEF NodesFine
<1>. HIDE DEF base
<1>7. /\ DOMAIN new = DOMAIN node \ gone
      /\ new \in [DOMAIN new -> NodeRec]
      /\ \A x \in DOMAIN new : new[x] = base[x]
  BY <1>6 DEF Without
<1>. HIDE DEF new
<1>9. NodesFine(new, lastID)
  <2>1. ASSUME NEW x \in DOMAIN new
        PROVE  /\ new[x].parent = 0 \/ (new[x].parent \in DOMAIN new /\ new[new[x].parent].dir)
               /\ new[x].dir => new[x].parent = 0
    <3>1. /\ x \in DOMAIN node /\ x # id /\ node[x].parent # id
          /\ new[x].parent = node[x].parent /\ new[x].dir = node[x].dir
      BY <1>6, <1>7
    <3>2. CASE node[x].parent = 0
      BY <3>1, <3>2
    <3>3. CASE node[x].parent # 0
      <4>. DEFINE p == node[x].parent
      <4>1. p \in DOMAIN node /\ node[p].dir /\ ~node[x].dir /\ node[p].parent = 0 /\ 0 \notin DOMAIN node
        BY <1>2, <3>1, <3>3 DEF NodesFine
      <4>2. p \in DOMAIN new
        BY <1>7, <3>1, <4>1
      <4>. QED
        BY <1>6, <1>7, <3>1, <4>1, <4>2
    <3>. QED
      BY <3>2, <3>3
  <2>. QED
    BY <1>2, <1>7, <2>1 DEF NodesFine
<1>10. Spares(new, gone)
  BY <1>6, <1>7 DEF Spares
<1>11. CacheInv' /\ OrderKept' /\ SearchInv' /\ SortedInv' /\ VisitInv' /\ PagesTile'
  BY <1>1, <1>10, ChangedKeeps
<1>12. node' = new
  BY <1>1, Zenon DEF Changed
<1>. QED
  BY <1>1, <1>9, <1>11, <1>12, NodesFineIsNodeInv DEF PageInv

LEMMA RenameStep ==
  ASSUME PageInv, NEW id \in DOMAIN node, NEW parent \in Dirs \cup {0}, NEW name \in Names,
         Rename(id, parent, name)
  PROVE  PageInv'
<1>. DEFINE off == Charged(node, node[id].parent, -node[id].size)
            base == Charged(off, parent, node[id].size)
            new == [base EXCEPT ![id].parent = parent, ![id].name = name]
<1>1. lastID' = lastID /\ Changed(new, {id}, {}) /\ UNCHANGED visit /\ ~node[id].dir
  BY Zenon DEF Rename, Another
<1>2. NodesFine(node, lastID) /\ NodeInv
  BY NodesFineIsNodeInv DEF PageInv
<1>3. -node[id].size \in Int /\ node[id].size \in Int /\ name \in Nat
  BY <1>2, SearchPageAssumption DEF NodesFine, NodeRec
<1>4. parent \in Nat /\ (parent = 0 \/ (parent \in DOMAIN node /\ node[parent].dir))
  BY <1>2 DEF Dirs, NodesFine
<1>5. /\ off \in [DOMAIN node -> NodeRec]
      /\ \A x \in DOMAIN node : off[x].dir = node[x].dir /\ off[x].parent = node[x].parent
                             /\ off[x].mtime = node[x].mtime /\ off[x].name = node[x].name
  BY <1>2, <1>3, ChargedOnlySize DEF NodesFine
<1>. HIDE DEF off
<1>6. /\ base \in [DOMAIN node -> NodeRec]
      /\ \A x \in DOMAIN node : base[x].dir = node[x].dir /\ base[x].parent = node[x].parent
                             /\ base[x].mtime = node[x].mtime /\ base[x].name = node[x].name
  <2>1. /\ base \in [DOMAIN node -> NodeRec]
        /\ \A x \in DOMAIN node : base[x].dir = off[x].dir /\ base[x].parent = off[x].parent
                               /\ base[x].mtime = off[x].mtime /\ base[x].name = off[x].name
    BY <1>3, <1>5, ChargedOnlySize
  <2>. HIDE DEF base
  <2>. QED
    BY <1>5, <2>1
<1>. HIDE DEF base
<1>7. /\ new \in [DOMAIN node -> NodeRec]
      /\ \A x \in DOMAIN node : new[x].dir = node[x].dir
      /\ new[id].parent = parent
      /\ \A x \in DOMAIN node \ {id} : new[x] = base[x]
  <2>. DEFINE mid == [base EXCEPT ![id].parent = parent]
  <2>1. /\ mid \in [DOMAIN node -> NodeRec]
        /\ \A x \in DOMAIN node : mid[x].dir = base[x].dir
        /\ mid[id].parent = parent
        /\ \A x \in DOMAIN node \ {id} : mid[x] = base[x]
    BY <1>4, <1>6 DEF NodeRec
  <2>2. new = [mid EXCEPT ![id].name = name]
    BY <1>6
  <2>. HIDE DEF mid, new
  <2>3. /\ new \in [DOMAIN node -> NodeRec]
        /\ \A x \in DOMAIN node : new[x].dir = mid[x].dir /\ new[x].parent = mid[x].parent
        /\ \A x \in DOMAIN node \ {id} : new[x] = mid[x]
    BY <1>3, <2>1, <2>2 DEF NodeRec
  <2>. QED
    BY <1>6, <2>1, <2>3
<1>. HIDE DEF new
<1>8. DOMAIN new = DOMAIN node
  BY <1>7
<1>9. NodesFine(new, lastID)
  <2>1. ASSUME NEW x \in DOMAIN new
        PROVE  /\ new[x].parent = 0 \/ (new[x].parent \in DOMAIN new /\ new[new[x].parent].dir)
               /\ new[x].dir => new[x].parent = 0
    <3>1. CASE x = id
      BY <1>1, <1>4, <1>7, <1>8, <3>1
    <3>2. CASE x # id
      BY <1>2, <1>6, <1>7, <1>8, <3>2 DEF NodesFine
    <3>. QED
      BY <3>1, <3>2
  <2>. QED
    BY <1>2, <1>7, <1>8, <2>1 DEF NodesFine
<1>10. Spares(new, {id})
  BY <1>6, <1>7, <1>8 DEF Spares
<1>11. CacheInv' /\ OrderKept' /\ SearchInv' /\ SortedInv' /\ VisitInv' /\ PagesTile'
  BY <1>1, <1>10, ChangedKeeps
<1>12. node' = new
  BY <1>1, Zenon DEF Changed
<1>. QED
  BY <1>1, <1>9, <1>11, <1>12, NodesFineIsNodeInv DEF PageInv

-----------------------------------------------------------------------------
(* The user and the search.                                                *)

LEMMA ListsFilter ==
  ASSUME NEW dirs \in Seq(Nat), NEW files \in Seq(Nat), NEW fileType \in FileTypes
  PROVE  /\ Filtered(dirs, files, fileType) \in Seq(Nat)
         /\ Len(Filtered(dirs, files, fileType)) \in Nat
  BY FilteredIsSeq, LenProperties

LEMMA PageIds ==
  ASSUME NEW dirs \in Seq(Nat), NEW files \in Seq(Nat), NEW fileType \in FileTypes,
         NEW offset \in Nat, NEW limit \in Nat
  PROVE  Paginate(dirs, files, fileType, offset, limit).ids
           = SubSeq(Filtered(dirs, files, fileType), offset + 1,
                    Lesser(offset + limit, Len(Filtered(dirs, files, fileType))))
  BY PageIsSlice

LEMMA NextEnd ==
  \A p, m \in Nat : /\ p * m \in Nat /\ (p + 1) * m = p * m + m
                    /\ (p + 1) - 1 = p /\ (p + 1) * m - m = p * m
<1>. TAKE p, m \in Nat
<1>1. p * m \in Nat
  OBVIOUS
<1>2. (p + 1) * m = p * m + m
  OBVIOUS
<1>. DEFINE q == p * m
            r == (p + 1) * m
<1>. HIDE DEF q, r
<1>. QED
  BY <1>1, <1>2 DEF q, r

\* Whatever is answered from two lists of ids continues the user's visit.
LEMMA AnswerStep ==
  ASSUME VisitInv, PagesTile, NEW dirs \in Seq(Nat), NEW files \in Seq(Nat),
         Answer(dirs, files), visit.limit > 0
  PROVE  VisitInv' /\ PagesTile' /\ search'.pc = "reply" /\ visit'.order = visit.order
<1>. DEFINE ft == visit.fileType
            lim == visit.limit
            p == visit.pages
            page == Paginate(dirs, files, ft, p * lim, lim)
            all == Filtered(dirs, files, ft)
<1>1. /\ ft \in FileTypes /\ lim \in Nat /\ lim > 0 /\ p \in Nat /\ visit.seen \in Seq(Nat)
      /\ visit.steady \in BOOLEAN /\ visit \in VisitRec
  BY DEF VisitInv, VisitRec
<1>2. all \in Seq(Nat) /\ Len(all) \in Nat
  BY <1>1, ListsFilter
<1>3. p * lim \in Nat /\ (p + 1) * lim = p * lim + lim /\ (p + 1) - 1 = p
  BY <1>1, NextEnd
<1>4. SubSeq(all, 1, Lesser(p * lim, Len(all))) \o page.ids
        = SubSeq(all, 1, Lesser(p * lim + lim, Len(all)))
  BY <1>1, <1>3, NextPageFollows
<1>5. page.ids = SubSeq(all, p * lim + 1, Lesser(p * lim + lim, Len(all)))
  <2>. DEFINE q == p * lim
  <2>. HIDE DEF q
  <2>1. q \in Nat
    BY <1>3 DEF q
  <2>2. Paginate(dirs, files, ft, q, lim).ids = SubSeq(all, q + 1, Lesser(q + lim, Len(all)))
    <3>1. \A f \in FileTypes, l, o \in Nat :
            Paginate(dirs, files, f, o, l).ids
              = SubSeq(Filtered(dirs, files, f), o + 1, Lesser(o + l, Len(Filtered(dirs, files, f))))
      BY PageIds
    <3>. HIDE DEF ft, lim
    <3>. QED
      BY <1>1, <2>1, <3>1, Zenon
  <2>. QED
    BY <2>2 DEF q
<1>6. page.ids \in Seq(Nat)
  <2>. DEFINE a == p * lim + 1
              b == Lesser(p * lim + lim, Len(all))
  <2>1. a \in Nat \ {0} /\ b \in Int /\ b =< Len(all)
    BY <1>1, <1>2, <1>3 DEF Lesser
  <2>2. \A i \in a .. b : all[i] \in Nat
    <3>. HIDE DEF a, b, all
    <3>1. \A i \in a .. b : i \in 1 .. Len(all)
      BY <1>2, <2>1
    <3>. QED
      BY <1>2, <3>1, ElementOfSeq
  <2>. HIDE DEF a, b, all
  <2>3. SubSeq(all, a, b) \in Seq(Nat)
    BY <2>1, <2>2, SubSeqProperties
  <2>. QED
    BY <1>5, <2>3 DEF a, b
<1>7. visit.seen \o page.ids \in Seq(Nat)
  BY <1>1, <1>6, ConcatProperties
<1>8. search' = [pc |-> "reply", page |-> page]
  BY Zenon DEF Answer
<1>9. visit' = [visit EXCEPT !.seen = @ \o page.ids, !.lists = <<dirs, files>>,
                   !.pages = @ + 1,
                   !.steady = @ /\ (visit.pages > 0 => visit.lists = <<dirs, files>>)]
  BY Zenon DEF Answer
<1>. DEFINE steady == visit.steady /\ (visit.pages > 0 => visit.lists = <<dirs, files>>)
            seen == visit.seen \o page.ids
<1>10. steady \in BOOLEAN /\ <<dirs, files>> \in Seq(Nat) \X Seq(Nat)
  OBVIOUS
<1>. HIDE DEF page
<1>11. visit' = [order |-> visit.order, fileType |-> ft, limit |-> lim, pages |-> p + 1,
                 seen |-> seen, lists |-> <<dirs, files>>, total |-> visit.total,
                 steady |-> steady]
  BY <1>1, <1>9 DEF VisitRec
<1>. HIDE DEF steady, seen
<1>12. /\ visit'.order = visit.order /\ visit'.fileType = ft /\ visit'.limit = lim
       /\ visit'.pages = p + 1 /\ visit'.seen = seen /\ visit'.lists = <<dirs, files>>
       /\ visit'.steady = steady
  BY <1>11
<1>13. visit' \in VisitRec
  <2>1. /\ visit.order \in Orders \cup {<<>>} /\ visit.total \in Int /\ p + 1 \in Nat
        /\ seen \in Seq(Nat) /\ <<dirs, files>> \in (Seq(Nat) \X Seq(Nat)) \cup {<<>>}
    BY <1>1, <1>7 DEF VisitRec, seen
  <2>. QED
    BY <1>1, <1>10, <1>11, <2>1, Zenon DEF VisitRec
<1>14. search'.pc = "reply" /\ search'.page = page
  BY <1>8
<1>15. <<dirs, files>>[1] = dirs /\ <<dirs, files>>[2] = files /\ <<dirs, files>> # <<>>
  OBVIOUS
<1>16. VisitInv'
  <2>1. /\ visit'.limit > 0 => visit'.order \in Orders
        /\ visit'.limit > 0 /\ visit'.pages > 0 /\ visit'.lists # <<>>
    BY <1>1, <1>12, <1>15 DEF VisitInv
  <2>2. visit'.pages # 0
    BY <1>1, <1>12
  <2>3. search'.page = Paginate(visit'.lists[1], visit'.lists[2], visit'.fileType,
                                (visit'.pages - 1) * visit'.limit, visit'.limit)
    BY <1>3, <1>12, <1>14, <1>15 DEF page
  <2>. QED
    BY <1>13, <2>1, <2>2, <2>3, Zenon DEF VisitInv
<1>17. steady => seen = SubSeq(all, 1, Lesser((p + 1) * lim, Len(all)))
  <2>. SUFFICES ASSUME steady
                PROVE  visit.seen = SubSeq(all, 1, Lesser(p * lim, Len(all)))
    BY <1>3, <1>4 DEF seen
  <2>1. CASE p = 0
    <3>1. visit.seen = <<>>
      BY <2>1 DEF VisitInv
    <3>2. p * lim = 0
      BY <1>1, <2>1
    <3>3. Lesser(0, Len(all)) = 0
      BY <1>2 DEF Lesser
    <3>4. SubSeq(all, 1, 0) = <<>>
      BY SubSeqEmpty
    <3>. QED
      BY <3>1, <3>2, <3>3, <3>4, Zenon
  <2>2. CASE p # 0
    <3>1. p > 0 /\ visit.steady /\ visit.lists = <<dirs, files>>
      BY <1>1, <2>2 DEF steady
    <3>. QED
      BY <1>15, <3>1, Zenon DEF PagesTile
  <2>. QED
    BY <2>1, <2>2
<1>18. PagesTile'
  BY <1>12, <1>14, <1>15, <1>17, Zenon DEF PagesTile
<1>. QED
  BY <1>12, <1>14, <1>16, <1>18

LEMMA IndexSame ==
  ASSUME PageInv, UNCHANGED <<index, cache>>
  PROVE  NodeInv' /\ CacheInv' /\ OrderKept'
<1>1. UNCHANGED <<node, lastID, cache>>
  BY DEF index
<1>2. NodeInv'
  BY <1>1 DEF PageInv, NodeInv, Dirs
<1>3. CacheInv'
  BY <1>1 DEF PageInv, CacheInv
<1>4. OrderKept'
  BY <1>1 DEF PageInv, OrderKept
<1>. QED
  BY <1>2, <1>3, <1>4

LEMMA AskStep ==
  ASSUME PageInv, NEW order \in Orders, NEW fileType \in FileTypes, NEW limit \in Limits,
         Ask(order, fileType, limit)
  PROVE  PageInv'
<1>0. search' = [pc |-> "get"]
  BY Zenon DEF Ask
<1>1. /\ visit' = [NoVisit EXCEPT !.order = order, !.fileType = fileType, !.limit = limit]
      /\ UNCHANGED <<index, cache>>
  BY Zenon DEF Ask
<1>2. limit \in Nat /\ limit > 0
  BY SearchPageAssumption
<1>3. visit' = [order |-> order, fileType |-> fileType, limit |-> limit, pages |-> 0,
                seen |-> <<>>, lists |-> <<>>, total |-> 0, steady |-> TRUE]
  BY <1>1 DEF NoVisit
<1>4. visit' \in VisitRec
  <2>1. /\ order \in Orders \cup {<<>>} /\ 0 \in Nat /\ 0 \in Int /\ TRUE \in BOOLEAN
        /\ <<>> \in Seq(Nat) /\ <<>> \in (Seq(Nat) \X Seq(Nat)) \cup {<<>>}
    OBVIOUS
  <2>. QED
    BY <1>2, <1>3, <2>1, Zenon DEF VisitRec
<1>5. /\ visit'.order = order /\ visit'.limit = limit /\ visit'.pages = 0 /\ visit'.seen = <<>>
      /\ search'.pc = "get"
  <2>1. search'.pc = "get"
    BY <1>0
  <2>2. visit'.order = order /\ visit'.limit = limit /\ visit'.pages = 0 /\ visit'.seen = <<>>
    BY <1>3
  <2>. QED
    BY <2>1, <2>2
<1>6. VisitInv' /\ PagesTile'
  BY <1>2, <1>4, <1>5 DEF VisitInv, PagesTile
<1>7. SearchInv' /\ SortedInv'
  BY <1>5 DEF SearchInv, SortedInv
<1>. QED
  BY <1>1, <1>6, <1>7, IndexSame DEF PageInv

LEMMA TurnPageStep ==
  ASSUME PageInv, TurnPage
  PROVE  PageInv'
<1>1. search'.pc = "get" /\ visit' = visit /\ visit.limit > 0 /\ UNCHANGED <<index, cache>>
  BY DEF TurnPage
<1>2. VisitInv' /\ PagesTile'
  BY <1>1 DEF PageInv, VisitInv, PagesTile
<1>3. SearchInv' /\ SortedInv'
  BY <1>1 DEF SearchInv, SortedInv
<1>. QED
  BY <1>1, <1>2, <1>3, IndexSame DEF PageInv

LEMMA HitStep ==
  ASSUME PageInv, Hit
  PROVE  PageInv'
<1>. DEFINE entry == cache[visit.order]
<1>1. /\ search.pc = "get" /\ visit.order \in DOMAIN cache
      /\ Answer(entry.dirs, entry.files) /\ UNCHANGED <<index, cache>>
  BY Zenon DEF Hit
<1>2. entry.dirs \in Seq(Nat) /\ entry.files \in Seq(Nat)
  <2>1. entry \in EntryRec
    BY <1>1, Zenon DEF PageInv, CacheInv
  <2>. HIDE DEF entry
  <2>. QED
    BY <2>1 DEF EntryRec
<1>3. visit.limit > 0
  BY <1>1 DEF PageInv, VisitInv
<1>. HIDE DEF entry
<1>4. VisitInv' /\ PagesTile' /\ search'.pc = "reply"
  BY <1>1, <1>2, <1>3, AnswerStep DEF PageInv
<1>5. SearchInv' /\ SortedInv'
  BY <1>4 DEF SearchInv, SortedInv
<1>. QED
  BY <1>1, <1>4, <1>5, IndexSame DEF PageInv

LEMMA NoMatchStep ==
  ASSUME PageInv, NoMatch
  PROVE  PageInv'
<1>1. search.pc = "get" /\ Answer(<<>>, <<>>) /\ UNCHANGED <<index, cache>>
  BY Zenon DEF NoMatch
<1>2. <<>> \in Seq(Nat) /\ visit.limit > 0
  BY <1>1 DEF PageInv, VisitInv
<1>3. VisitInv' /\ PagesTile' /\ search'.pc = "reply"
  BY <1>1, <1>2, AnswerStep DEF PageInv
<1>4. SearchInv' /\ SortedInv'
  BY <1>3 DEF SearchInv, SortedInv
<1>. QED
  BY <1>1, <1>3, <1>4, IndexSame DEF PageInv

LEMMA MatchStep ==
  ASSUME PageInv, Match
  PROVE  PageInv'
<1>1. /\ search.pc = "get" /\ visit' = visit /\ UNCHANGED <<index, cache>>
      /\ search' = [pc |-> "sort", ids |-> {id \in DOMAIN node : node[id].name \in Matching}]
  BY DEF Match
<1>2. search'.pc = "sort" /\ search'.ids \subseteq 1 .. lastID /\ lastID \in Nat
  BY <1>1 DEF PageInv, NodeInv
<1>3. search'.ids \subseteq Nat /\ IsFiniteSet(search'.ids)
  <2>1. IsFiniteSet(1 .. lastID)
    BY <1>2, FS_Interval
  <2>. QED
    BY <1>2, <2>1, FS_Subset
<1>4. SearchInv' /\ SortedInv'
  BY <1>2, <1>3 DEF SearchInv, SortedInv
<1>5. VisitInv' /\ PagesTile'
  BY <1>1, <1>2 DEF PageInv, VisitInv, PagesTile
<1>. QED
  BY <1>1, <1>4, <1>5, IndexSame DEF PageInv

\* What sort.Slice returns is a sequence of the ids it was given.
LEMMA SortIsSeq ==
  ASSUME NEW nodes, NEW order, NEW ids, ids \subseteq Nat, IsFiniteSet(ids),
         NEW s \in SortResults(nodes, order, ids)
  PROVE  /\ s \in Seq(Nat) /\ Listed(s) \subseteq ids
         /\ ids \subseteq DOMAIN nodes => InOrder(nodes, order, s)
<1>. DEFINE n == Cardinality(ids)
<1>1. n \in Nat
  BY FS_CardinalityType
<1>2. s \in [1 .. n -> ids] /\ (ids \subseteq DOMAIN nodes => InOrder(nodes, order, s))
  BY Zenon DEF SortResults
<1>. HIDE DEF n
<1>3. s \in Seq(ids)
  BY <1>1, <1>2
<1>4. s \in Seq(Nat)
  BY <1>3, SeqMonotonic
<1>5. Listed(s) \subseteq ids
  BY <1>2 DEF Listed
<1>. QED
  BY <1>2, <1>4, <1>5

LEMMA SortStep ==
  ASSUME PageInv, Sort
  PROVE  PageInv'
<1>1. /\ search.pc = "sort" /\ visit' = visit /\ UNCHANGED <<index, cache>>
  BY DEF Sort
<1>2. PICK s \in SortResults(node, visit.order, search.ids) :
        search' = [pc |-> "split", ids |-> s, raced |-> ~(search.ids \subseteq DOMAIN node)]
  BY Zenon DEF Sort
<1>3. search.ids \subseteq Nat /\ IsFiniteSet(search.ids)
  BY <1>1 DEF PageInv, SearchInv
<1>4. /\ s \in Seq(Nat) /\ Listed(s) \subseteq search.ids
      /\ search.ids \subseteq DOMAIN node => InOrder(node, visit.order, s)
  BY <1>3, SortIsSeq
<1>. DEFINE raced == ~(search.ids \subseteq DOMAIN node)
<1>5. raced \in BOOLEAN /\ (~raced => Sorted(s))
  BY <1>4 DEF Sorted
<1>6. search' = [pc |-> "split", ids |-> s, raced |-> raced]
  BY <1>2
<1>. HIDE DEF raced
<1>7. search' \in SplitRec /\ search'.pc = "split" /\ search'.ids = s /\ search'.raced = raced
  <2>1. search'.pc = "split" /\ search'.ids = s /\ search'.raced = raced
    BY <1>6
  <2>2. search' \in SplitRec
    BY <1>4, <1>5, <1>6, Zenon DEF SplitRec
  <2>. QED
    BY <2>1, <2>2
<1>8. SearchInv'
  BY <1>7 DEF SearchInv
<1>9. SortedInv'
  <2>1. Sorted(s)' <=> Sorted(s)
    BY <1>1 DEF Sorted, index
  <2>. QED
    BY <1>5, <1>7, <2>1, Zenon DEF SortedInv, Sorted
<1>10. VisitInv' /\ PagesTile'
  BY <1>1, <1>7 DEF PageInv, VisitInv, PagesTile
<1>. QED
  BY <1>1, <1>8, <1>9, <1>10, IndexSame DEF PageInv

LEMMA SplitKeeps ==
  ASSUME NEW s \in Seq(Nat), NEW kept
  PROVE  /\ Only(s, kept) \in Seq(Nat)
         /\ Sorted(s) => Sorted(Only(s, kept))
<1>. DEFINE r == Only(s, kept)
<1>1. r \in Seq(Nat) /\ KeepsOrder(r, s, Len(s))
  BY OnlyKeepsOrder
<1>. HIDE DEF r
<1>2. DOMAIN s = 1 .. Len(s) /\ DOMAIN r = 1 .. Len(r)
  BY <1>1, LenProperties
<1>3. ASSUME Sorted(s)
      PROVE  Sorted(r)
  <2>1. Listed(r) \subseteq Listed(s)
    BY <1>1, <1>2 DEF Listed, KeepsOrder
  <2>2. InOrder(node, visit.order, r)
    <3>. SUFFICES ASSUME NEW i \in DOMAIN r, NEW j \in DOMAIN r, i < j
                  PROVE  ~Before(node, visit.order, r[j], r[i])
      BY Zenon DEF InOrder
    <3>0. i \in 1 .. Len(r) /\ j \in 1 .. Len(r)
      BY <1>2
    <3>1. PICK a, b \in 1 .. Len(s) : a < b /\ r[i] = s[a] /\ r[j] = s[b]
      BY <1>1, <3>0, Zenon DEF KeepsOrder
    <3>2. ~Before(node, visit.order, s[b], s[a])
      BY <1>2, <1>3, <3>1, Zenon DEF Sorted, InOrder
    <3>. QED
      BY <3>1, <3>2, Zenon
  <2>. QED
    BY <1>3, <2>1, <2>2 DEF Sorted
<1>. QED
  BY <1>1, <1>3 DEF r

LEMMA SplitStep ==
  ASSUME PageInv, Split
  PROVE  PageInv'
<1>. DEFINE dirs == SplitDirs(node, search.ids)
            files == SplitFiles(node, search.ids)
<1>1. /\ search.pc = "split" /\ visit' = visit /\ UNCHANGED <<index, cache>>
  BY DEF Split
<1>2. search' = [pc |-> "store", raced |-> search.raced, dirs |-> dirs, files |-> files]
  BY Zenon DEF Split
<1>3. search.ids \in Seq(Nat) /\ search.raced \in BOOLEAN
  BY <1>1 DEF PageInv, SearchInv, SplitRec
<1>4. /\ dirs \in Seq(Nat) /\ (Sorted(search.ids) => Sorted(dirs))
      /\ files \in Seq(Nat) /\ (Sorted(search.ids) => Sorted(files))
  BY <1>3, SplitKeeps, Zenon DEF SplitDirs, SplitFiles
<1>. HIDE DEF dirs, files
<1>5. search'.pc = "store" /\ search'.raced = search.raced /\ search'.dirs = dirs /\ search'.files = files
  BY <1>2
<1>6. search' \in StoreRec
  BY <1>2, <1>3, <1>4, Zenon DEF StoreRec
<1>7. SearchInv'
  BY <1>5, <1>6 DEF SearchInv
<1>8. SortedInv'
  <2>1. ~search.raced => Sorted(search.ids)
    BY <1>1 DEF PageInv, SortedInv
  <2>2. ~search'.raced => Sorted(dirs) /\ Sorted(files)
    BY <1>4, <1>5, <2>1, Zenon
  <2>. QED
    BY <1>1, <1>5, <2>2, Zenon DEF SortedInv, Sorted, index
<1>9. VisitInv' /\ PagesTile'
  BY <1>1, <1>5 DEF PageInv, VisitInv, PagesTile
<1>. QED
  BY <1>1, <1>7, <1>8, <1>9, IndexSame DEF PageInv

\* The entry stored is in order unless it was raced; the others stay as they are.
LEMMA StoreStep ==
  ASSUME PageInv, Store
  PROVE  PageInv'
<1>. DEFINE k0 == visit.order
            entry == [dirs |-> search.dirs, files |-> search.files, raced |-> search.raced,
                      charged |-> {}]
<1>1. /\ search.pc = "store" /\ UNCHANGED index
      /\ cache' = Put(cache, k0, entry) /\ Answer(search.dirs, search.files)
  BY Zenon DEF Store
<1>2. search.dirs \in Seq(Nat) /\ search.files \in Seq(Nat) /\ search.raced \in BOOLEAN
  BY <1>1 DEF PageInv, SearchInv, StoreRec
<1>3. visit.limit > 0 /\ k0 \in Orders
  BY <1>1 DEF PageInv, VisitInv
<1>4. VisitInv' /\ PagesTile' /\ search'.pc = "reply"
  BY <1>1, <1>2, <1>3, AnswerStep DEF PageInv
<1>5. SearchInv' /\ SortedInv'
  BY <1>4 DEF SearchInv, SortedInv
<1>6. /\ entry \in EntryRec
      /\ entry.dirs = search.dirs /\ entry.files = search.files /\ entry.raced = search.raced
  <2>1. {} \in SUBSET Nat
    OBVIOUS
  <2>2. entry \in EntryRec
    BY <1>2, <2>1, Zenon DEF EntryRec
  <2>. QED
    BY <2>2
<1>. HIDE DEF entry
<1>7. /\ DOMAIN cache' = DOMAIN cache \cup {k0} /\ cache'[k0] = entry
      /\ \A k \in DOMAIN cache \ {k0} : cache'[k] = cache[k]
  BY <1>1 DEF Put
<1>8. node' = node /\ lastID' = lastID
  BY <1>1 DEF index
<1>9. ~entry.raced => Sorted(entry.dirs) /\ Sorted(entry.files)
  BY <1>1, <1>6 DEF PageInv, SortedInv
<1>. HIDE DEF k0
<1>10. CacheInv'
  <2>1. DOMAIN cache' \subseteq Orders
    BY <1>3, <1>7 DEF PageInv, CacheInv
  <2>2. ASSUME NEW k \in DOMAIN cache'
        PROVE  /\ cache'[k] \in EntryRec
               /\ ~cache'[k].raced =>
                    Listed(cache'[k].dirs) \cup Listed(cache'[k].files) \subseteq DOMAIN node
    <3>1. CASE k = k0
      BY <1>6, <1>7, <1>9, <3>1 DEF Sorted
    <3>2. CASE k # k0
      BY <1>7, <3>2 DEF PageInv, CacheInv
    <3>. QED
      BY <3>1, <3>2
  <2>. QED
    BY <1>8, <2>1, <2>2 DEF CacheInv
<1>11. OrderKept'
  <2>. SUFFICES ASSUME NEW k \in DOMAIN cache', ~cache'[k].raced,
                       NEW s \in {cache'[k].dirs, cache'[k].files},
                       NEW i \in DOMAIN s, NEW j \in DOMAIN s, i < j,
                       Before(node, k, s[j], s[i])
                PROVE  k[1] = "size" /\ {s[i], s[j]} \cap cache'[k].charged # {}
    BY <1>8, Zenon DEF OrderKept
  <2>1. CASE k = k0
    <3>1. Sorted(s)
      BY <1>7, <1>9, <2>1
    <3>2. ~Before(node, k, s[j], s[i])
      BY <2>1, <3>1, Zenon DEF Sorted, InOrder, k0
    <3>. QED
      BY <3>2
  <2>2. CASE k # k0
    <3>1. k \in DOMAIN cache /\ cache'[k] = cache[k]
      BY <1>7, <2>2
    <3>. QED
      BY <3>1, Zenon DEF PageInv, OrderKept
  <2>. QED
    BY <2>1, <2>2
<1>12. NodeInv'
  BY <1>8 DEF PageInv, NodeInv, Dirs
<1>. QED
  BY <1>4, <1>5, <1>10, <1>11, <1>12 DEF PageInv

LEMMA SendStep ==
  ASSUME PageInv, Send
  PROVE  PageInv'
<1>. DEFINE total == Reply(search.page, DOMAIN node).total
<1>1. /\ search.pc = "reply" /\ search' = Idle /\ UNCHANGED <<index, cache>>
      /\ visit' = [visit EXCEPT !.total = total]
  BY Zenon DEF Send
<1>. DEFINE dirs == visit.lists[1]
            files == visit.lists[2]
            ft == visit.fileType
            lim == visit.limit
            q == (visit.pages - 1) * lim
            all == Filtered(dirs, files, ft)
<1>2. /\ dirs \in Seq(Nat) /\ files \in Seq(Nat) /\ ft \in FileTypes /\ lim \in Nat \ {0}
      /\ visit.pages \in Nat /\ visit.pages > 0 /\ visit \in VisitRec
      /\ search.page = Paginate(dirs, files, ft, q, lim)
  <2>1. /\ visit \in VisitRec /\ visit.pages > 0 /\ lim > 0 /\ visit.lists # <<>>
        /\ search.page = Paginate(dirs, files, ft, q, lim)
    BY <1>1 DEF PageInv, VisitInv
  <2>2. visit.lists \in Seq(Nat) \X Seq(Nat) /\ ft \in FileTypes /\ lim \in Nat /\ visit.pages \in Nat
    BY <2>1 DEF VisitRec
  <2>3. dirs \in Seq(Nat) /\ files \in Seq(Nat)
    BY <2>2
  <2>. QED
    BY <2>1, <2>2, <2>3
<1>3. q \in Nat /\ visit.pages * lim - lim = q
  <2>1. visit.pages - 1 \in Nat /\ (visit.pages - 1) + 1 = visit.pages
    BY <1>2
  <2>2. \A p \in Nat : p * lim \in Nat /\ (p + 1) * lim - lim = p * lim
    BY <1>2, NextEnd
  <2>. QED
    BY <2>1, <2>2, Zenon
<1>4. all \in Seq(Nat) /\ Len(all) \in Nat
  BY <1>2, ListsFilter
<1>5. total = IF q < Len(all) THEN Len(all) ELSE 0
  <2>. HIDE DEF q, dirs, files, ft, lim
  <2>. QED
    BY <1>2, <1>3, TotalIsShownInside
<1>6. total \in Int
  <2>. HIDE DEF total, all
  <2>. QED
    BY <1>4, <1>5
<1>. HIDE DEF total
<1>7. /\ visit' \in VisitRec
      /\ visit'.order = visit.order /\ visit'.fileType = ft /\ visit'.limit = lim
      /\ visit'.pages = visit.pages /\ visit'.seen = visit.seen
      /\ visit'.lists = visit.lists /\ visit'.steady = visit.steady
      /\ visit'.total = total
  BY <1>1, <1>2, <1>6 DEF VisitRec
<1>8. search'.pc = "idle"
  BY <1>1 DEF Idle
<1>9. SearchInv' /\ SortedInv'
  BY <1>8 DEF SearchInv, SortedInv
<1>10. VisitInv'
  BY <1>7, <1>8 DEF PageInv, VisitInv
<1>11. PagesTile'
  <2>1. visit.steady => visit.seen = SubSeq(all, 1, Lesser(visit.pages * lim, Len(all)))
    BY <1>2, Zenon DEF PageInv, PagesTile
  <2>. HIDE DEF q
  <2>2. visit'.total = IF visit.pages * lim - lim < Len(all) THEN Len(all) ELSE 0
    BY <1>3, <1>5, <1>7, Zenon
  <2>. QED
    BY <1>7, <2>1, <2>2, Zenon DEF PagesTile
<1>. QED
  BY <1>1, <1>9, <1>10, <1>11, IndexSame DEF PageInv

LEMMA ExpireStep ==
  ASSUME PageInv, NEW order \in Orders, Expire(order)
  PROVE  PageInv'
<1>1. /\ UNCHANGED <<node, lastID, search, visit>>
      /\ cache' = Without(cache, {order})
  BY DEF Expire, index
<1>2. DOMAIN cache' \subseteq DOMAIN cache /\ \A k \in DOMAIN cache' : cache'[k] = cache[k]
  BY <1>1 DEF Without
<1>3. CacheInv' /\ OrderKept'
  <2>1. CacheInv'
    BY <1>1, <1>2 DEF PageInv, CacheInv
  <2>2. OrderKept'
    <3>0. node' = node
      BY <1>1
    <3>. SUFFICES ASSUME NEW k \in DOMAIN cache', ~cache'[k].raced,
                         NEW s \in {cache'[k].dirs, cache'[k].files},
                         NEW i \in DOMAIN s, NEW j \in DOMAIN s, i < j,
                         Before(node, k, s[j], s[i])
                  PROVE  k[1] = "size" /\ {s[i], s[j]} \cap cache'[k].charged # {}
      BY <3>0, Zenon DEF OrderKept
    <3>1. k \in DOMAIN cache /\ cache'[k] = cache[k]
      BY <1>2
    <3>. QED
      BY <3>1, Zenon DEF PageInv, OrderKept
  <2>. QED
    BY <2>1, <2>2
<1>4. NodeInv'
  BY <1>1 DEF PageInv, NodeInv, Dirs
<1>5. SearchInv' /\ SortedInv'
  BY <1>1 DEF PageInv, SearchInv, SortedInv, Sorted
<1>6. VisitInv' /\ PagesTile'
  BY <1>1 DEF PageInv, VisitInv, PagesTile
<1>. QED
  BY <1>3, <1>4, <1>5, <1>6 DEF PageInv

-----------------------------------------------------------------------------

LEMMA PageInit == Init => PageInv
<1>. SUFFICES ASSUME Init
              PROVE  PageInv
  OBVIOUS
<1>1. /\ DOMAIN node = {} /\ node \in [DOMAIN node -> NodeRec] /\ lastID = 0 /\ DOMAIN cache = {}
      /\ search = Idle /\ visit = NoVisit
  BY DEF Init
<1>2. NodeInv
  BY <1>1 DEF NodeInv
<1>3. CacheInv /\ OrderKept
  BY <1>1 DEF CacheInv, OrderKept
<1>4. SearchInv /\ SortedInv /\ search.pc = "idle"
  BY <1>1 DEF SearchInv, SortedInv, Idle
<1>5. NoVisit \in VisitRec
  <2>1. /\ <<>> \in Orders \cup {<<>>} /\ 0 \in Nat /\ 0 \in Int /\ TRUE \in BOOLEAN
        /\ <<>> \in Seq(Nat) /\ <<>> \in (Seq(Nat) \X Seq(Nat)) \cup {<<>>}
        /\ "all" \in FileTypes
    BY DEF FileTypes
  <2>. QED
    BY <2>1, Zenon DEF VisitRec, NoVisit
<1>6. VisitInv /\ PagesTile
  BY <1>1, <1>4, <1>5 DEF VisitInv, PagesTile, NoVisit
<1>. QED
  BY <1>2, <1>3, <1>4, <1>6 DEF PageInv

LEMMA PageNext == PageInv /\ [Next]_vars => PageInv'
<1>. SUFFICES ASSUME PageInv, [Next]_vars
              PROVE  PageInv'
  OBVIOUS
<1>1. CASE \E isDir \in BOOLEAN, parent \in Dirs \cup {0}, size \in Sizes, t \in Times, n \in Names :
             Create(isDir, parent, size, t, n)
  BY <1>1, CreateStep
<1>2. CASE \E id \in DOMAIN node, size \in Sizes, t \in Times : Touch(id, size, t)
  BY <1>2, TouchStep
<1>3. CASE \E id \in DOMAIN node : Remove(id)
  BY <1>3, RemoveStep
<1>4. CASE \E id \in DOMAIN node, parent \in Dirs \cup {0}, n \in Names : Rename(id, parent, n)
  BY <1>4, RenameStep
<1>5. CASE \E order \in Orders, fileType \in FileTypes, limit \in Limits : Ask(order, fileType, limit)
  BY <1>5, AskStep
<1>6. CASE TurnPage
  BY <1>6, TurnPageStep
<1>7. CASE Hit \/ NoMatch \/ Match
  BY <1>7, HitStep, NoMatchStep, MatchStep
<1>8. CASE Sort \/ Split \/ Store \/ Send
  BY <1>8, SortStep, SplitStep, StoreStep, SendStep
<1>9. CASE \E order \in Orders : Expire(order)
  BY <1>9, ExpireStep
<1>10. CASE UNCHANGED vars
  <2>1. UNCHANGED <<index, cache, search, visit>>
    BY <1>10 DEF vars
  <2>2. NodeInv' /\ CacheInv' /\ OrderKept'
    BY <2>1, IndexSame
  <2>3. SearchInv' /\ SortedInv'
    BY <2>1 DEF PageInv, SearchInv, SortedInv, Sorted, index
  <2>4. VisitInv' /\ PagesTile'
    BY <2>1 DEF PageInv, VisitInv, PagesTile
  <2>. QED
    BY <2>2, <2>3, <2>4 DEF PageInv
<1>. QED
  BY <1>1, <1>2, <1>3, <1>4, <1>5, <1>6, <1>7, <1>8, <1>9, <1>10, Zenon DEF Next

\* The invariant holds throughout.
THEOREM PageInvariant == Spec => []PageInv
<1>1. Init => PageInv
  BY PageInit
<1>2. PageInv /\ [Next]_vars => PageInv'
  BY PageNext
<1>. QED
  BY <1>1, <1>2, PTL DEF Spec

\* Every node's parent is a directory of the index or the root, and the cache
\* and the search are in states the code has.
THEOREM TypeCorrect == Spec => []TypeOK
<1>1. PageInv => TypeOK
  BY DEF PageInv, NodeInv, CacheInv, SearchInv, TypeOK
<1>. QED
  BY <1>1, PageInvariant, PTL

\* A cached result that no handler raced stays in the order it is cached under
\* for as long as it is cached, but for a directory charged for a file the
\* result does not list (sortResults, Search, the invalidations).
THEOREM OrderAlwaysKept == Spec => []OrderKept
<1>1. PageInv => OrderKept
  BY DEF PageInv
<1>. QED
  BY <1>1, PageInvariant, PTL

\* The pages a user is sent from an unchanged result are consecutive pieces of
\* it from its beginning, and the total shown is its length (paginate, Search).
THEOREM PagesAlwaysTile == Spec => []PagesTile
<1>1. PageInv => PagesTile
  BY DEF PageInv
<1>. QED
  BY <1>1, PageInvariant, PTL
=============================================================================
