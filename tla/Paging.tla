------------------------------- MODULE Paging -------------------------------
(***************************************************************************)
(* Cutting one page out of a search result and ordering the result before  *)
(* (src/main/file_index.go, file_search.go), as operators.  A result is    *)
(* two sequences of ids: directories, which are always shown first, and    *)
(* files.                                                                  *)
(***************************************************************************)
EXTENDS Integers, Sequences, FiniteSets

FileTypes == {"all", "dir", "file"}

\* What the pages of a result are pages of.
Filtered(dirs, files, fileType) ==
  CASE fileType = "all"  -> dirs \o files
    [] fileType = "dir"  -> dirs
    [] fileType = "file" -> files

TotalCount(dirs, files, fileType) ==
  CASE fileType = "all"  -> Len(dirs) + Len(files)
    [] fileType = "dir"  -> Len(dirs)
    [] fileType = "file" -> Len(files)

Lesser(a, b) == IF a < b THEN a ELSE b

\* Mutant: a page that starts among the files takes them from the first one.
FileStartAtFirst(dirs, fileType, offset) ==
  IF fileType = "all" THEN 0 ELSE offset

\* Where a page that reaches the files begins among them.
FileStart(dirs, fileType, offset) ==
  IF fileType # "all" THEN offset
  ELSE IF offset >= Len(dirs) THEN offset - Len(dirs)
  ELSE 0

\* paginate: a page of zeros of the right length, into which first directories
\* are copied and then, behind them, files.
Paginate(dirs, files, fileType, offset, limit) ==
  LET total == TotalCount(dirs, files, fileType)
      end == Lesser(offset + limit, total)
      dirEnd == Lesser(end, Len(dirs))
      n == IF fileType # "file" /\ offset < Len(dirs) THEN dirEnd - offset ELSE 0
      fileStart == FileStart(dirs, fileType, offset)
      fileEnd == Lesser(fileStart + (end - offset - n), Len(files))
      page == [i \in 1 .. end - offset |->
                 IF i =< n THEN dirs[offset + i]
                 ELSE IF fileType # "dir" /\ fileStart + i - n =< fileEnd
                 THEN files[fileStart + i - n]
                 ELSE 0]
  IN  IF offset >= total \/ limit =< 0
      THEN [ids |-> <<>>, total |-> total, offset |-> offset]
      ELSE [ids |-> page, total |-> total, offset |-> end]

\* What FileSystemIndex.Search makes of a page: an empty one moves the total
\* into the offset and reports none.
Reply(page, live) ==
  IF page.ids = <<>> THEN [ids |-> <<>>, total |-> 0, offset |-> page.total]
  ELSE [page EXCEPT !.ids = SelectSeq(@, LAMBDA id : id # 0 /\ id \in live)]

-----------------------------------------------------------------------------

\* A sort order is <<field, descending>>; FileNode.Size, ModTime or the name.
Rank(node, field) ==
  CASE field = "size" -> node.size
    [] field = "time" -> node.mtime
    [] field = "name" -> node.name

\* The comparator of sortResults: false as soon as an id has no node.
Before(nodes, order, a, b) ==
  /\ {a, b} \subseteq DOMAIN nodes
  /\ IF order[2] THEN Rank(nodes[a], order[1]) > Rank(nodes[b], order[1])
     ELSE Rank(nodes[a], order[1]) < Rank(nodes[b], order[1])

InOrder(nodes, order, s) ==
  \A i, j \in DOMAIN s : i < j => ~Before(nodes, order, s[j], s[i])

\* What sort.Slice may return for ids: any order the comparator allows, and
\* any order at all if an id has no node, as the comparator is then none.
SortResults(nodes, order, ids) ==
  LET perms == {s \in [1 .. Cardinality(ids) -> ids] : \A i, j \in DOMAIN s : s[i] = s[j] => i = j}
  IN  IF ids \subseteq DOMAIN nodes THEN {s \in perms : InOrder(nodes, order, s)} ELSE perms

\* Those ids of s that are in kept, in the order of s: the loop over the sorted
\* results, id by id.
Only(s, kept) ==
  LET upTo[n \in 0 .. Len(s)] ==
        IF n = 0 THEN <<>>
        ELSE IF s[n] \in kept THEN Append(upTo[n - 1], s[n]) ELSE upTo[n - 1]
  IN  upTo[Len(s)]

\* Directories and files apart; an id without a node is in neither.
SplitDirs(nodes, s) == Only(s, {id \in DOMAIN nodes : nodes[id].dir})
SplitFiles(nodes, s) == Only(s, {id \in DOMAIN nodes : ~nodes[id].dir})
=============================================================================
