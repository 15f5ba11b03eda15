----------------------------- MODULE SearchPage -----------------------------
(***************************************************************************)
(* A user who turns the pages of a search result (static/index-go.html,    *)
(* file_search.go, file_index.go) while handlers change the index.         *)
(*                                                                         *)
(* Where SearchCache looks at which ids a cached result holds, this module *)
(* looks at their order and at the pages cut from them.  A handler is one  *)
(* step here, its invalidations included; a search still takes its locks   *)
(* one after the other, and handlers run in between.  There is one keyword *)
(* list, so a cache key is a sort order; a name is a number, and the       *)
(* keyword is found in those of Matching.  Directories are not nested.     *)
(***************************************************************************)
EXTENDS Paging, Maps

CONSTANTS
  Orders,    \* the sort orders asked for, <<field, descending>>
  Names,     \* file names, in their order
  Matching,  \* the names that contain the keyword
  Sizes, Times,
  Limits,    \* page sizes
  MaxID,     \* bound: no node is created at lastID = MaxID
  MaxChanges \* bound: updates, removals and renames in one behaviour

ASSUME SearchPageAssumption ==
  /\ Orders \subseteq {"size", "time", "name"} \X BOOLEAN
  /\ Names \subseteq Nat /\ Matching \subseteq Names
  /\ Sizes \subseteq Nat /\ Times \subseteq Nat /\ Limits \subseteq Nat \ {0}

VARIABLES
  node,     \* id -> [dir, parent, size, mtime, name]
  lastID,
  changes,  \* counts what MaxChanges bounds
  cache,    \* order -> [dirs, files, raced, charged]
  search,   \* the request being served
  visit     \* the user's way through the pages

index == <<node, lastID, changes>>
vars == <<index, cache, search, visit>>

\* The page before the first request, and the server without one.
NoVisit == [order |-> <<>>, fileType |-> "all", limit |-> 0, pages |-> 0,
            seen |-> <<>>, lists |-> <<>>, total |-> 0, steady |-> TRUE]
Idle == [pc |-> "idle"]

Init ==
  /\ node = << >> /\ lastID = 0 /\ changes = 0 /\ cache = << >>
  /\ search = Idle /\ visit = NoVisit

-----------------------------------------------------------------------------
(* Handlers.                                                               *)

Listed(s) == {s[i] : i \in DOMAIN s}
Holds(entry, ids) == (Listed(entry.dirs) \cup Listed(entry.files)) \cap ids # {}

\* Mutant: an update invalidates nothing.
ChangedQuietly(new, ids, names) ==
  /\ node' = new
  /\ cache' = [k \in {k \in DOMAIN cache : names \cap Matching = {}} |-> cache[k]]
  /\ search' = IF search.pc \in {"split", "store"} THEN [search EXCEPT !.raced = TRUE] ELSE search

\* The index becomes new; InvalidateByID runs for ids, InvalidateByNewFile for
\* names.  History: a directory charged for a file below it without being
\* invalidated itself, and a search that has sorted but not yet stored.
Changed(new, ids, names) ==
  LET kept == {k \in DOMAIN cache : ~Holds(cache[k], ids) /\ names \cap Matching = {}}
      grown == {d \in DOMAIN node \cap DOMAIN new : node[d].size # new[d].size}
  IN  /\ node' = new
      /\ cache' = [k \in kept |-> [cache[k] EXCEPT !.charged = @ \cup grown]]
      /\ search' = IF search.pc \in {"split", "store"}
                   THEN [search EXCEPT !.raced = TRUE] ELSE search

\* A handler that creates nothing.
Another == changes < MaxChanges /\ changes' = changes + 1 /\ UNCHANGED <<lastID, visit>>

\* UpsertParentSize: delta for the directory d; 0 stands for the root.
Charged(nodes, d, delta) ==
  IF d \in DOMAIN nodes THEN [nodes EXCEPT ![d].size = @ + delta] ELSE nodes

Dirs == {d \in DOMAIN node : node[d].dir}

\* Upsert and UpsertDir of a new path.
Create(isDir, parent, size, mtime, name) ==
  /\ lastID < MaxID
  /\ isDir => parent = 0 /\ size = 0
  /\ lastID' = lastID + 1
  /\ Changed(Put(Charged(node, parent, size), lastID + 1,
                 [dir |-> isDir, parent |-> parent, size |-> size,
                  mtime |-> mtime, name |-> name]), {}, {name})
  /\ UNCHANGED <<changes, visit>>

\* Upsert of a known file, UpsertDir of a known directory.
Touch(id, size, mtime) ==
  /\ IF node[id].dir THEN size = node[id].size
     ELSE <<size, mtime>> # <<node[id].size, node[id].mtime>>
  /\ Changed([Charged(node, node[id].parent, size - node[id].size) EXCEPT
                ![id].size = size, ![id].mtime = mtime], {id}, {})
  /\ Another

\* Mutant: what is below a directory stays.
RemoveOnly(id) ==
  /\ Changed(Without(Charged(node, node[id].parent, -node[id].size), {id}), {id}, {})
  /\ Another

\* Remove, with everything below a directory.
Remove(id) ==
  LET gone == {id} \cup {x \in DOMAIN node : node[x].parent = id}
  IN  /\ Changed(Without(Charged(node, node[id].parent, -node[id].size), gone), gone, {})
      /\ Another

\* RenameNode of a file into any directory.
Rename(id, parent, name) ==
  /\ ~node[id].dir
  /\ LET off == Charged(node, node[id].parent, -node[id].size)
     IN  Changed([Charged(off, parent, node[id].size) EXCEPT
                    ![id].parent = parent, ![id].name = name], {id}, {})
  /\ Another

-----------------------------------------------------------------------------
(* The user and the search.                                                *)

\* A new search, or the next page of the last one: offset is what the page
\* script computes from the page number.
Ask(order, fileType, limit) ==
  /\ search.pc = "idle"
  /\ visit' = [NoVisit EXCEPT !.order = order, !.fileType = fileType, !.limit = limit]
  /\ search' = [pc |-> "get"]
  /\ UNCHANGED <<index, cache>>

TurnPage ==
  /\ search.pc = "idle"
  /\ visit.limit > 0 /\ visit.pages * visit.limit < visit.total
  /\ search' = [pc |-> "get"]
  /\ UNCHANGED <<index, cache, visit>>

\* The page cut from dirs and files.  History: what the user has been sent,
\* and whether all pages so far were cut from the same lists.
Answer(dirs, files) ==
  LET page == Paginate(dirs, files, visit.fileType, visit.pages * visit.limit, visit.limit)
  IN  /\ search' = [pc |-> "reply", page |-> page]
      /\ visit' = [visit EXCEPT !.seen = @ \o page.ids, !.lists = <<dirs, files>>,
                     !.pages = @ + 1,
                     !.steady = @ /\ (visit.pages > 0 => visit.lists = <<dirs, files>>)]

Hit ==
  /\ search.pc = "get"
  /\ visit.order \in DOMAIN cache
  /\ Answer(cache[visit.order].dirs, cache[visit.order].files)
  /\ UNCHANGED <<index, cache>>

\* A miss on a keyword that no name has ever contained is not cached; one that
\* a name contained once still has its bitmap, which the model does not track.
NoMatch ==
  /\ search.pc = "get"
  /\ visit.order \notin DOMAIN cache
  /\ \A id \in DOMAIN node : node[id].name \notin Matching
  /\ Answer(<<>>, <<>>)
  /\ UNCHANGED <<index, cache>>

\* A miss reads the bitmap.
Match ==
  /\ search.pc = "get"
  /\ visit.order \notin DOMAIN cache
  /\ search' = [pc |-> "sort", ids |-> {id \in DOMAIN node : node[id].name \in Matching}]
  /\ UNCHANGED <<index, cache, visit>>

Sort ==
  /\ search.pc = "sort"
  /\ \E s \in SortResults(node, visit.order, search.ids) :
       search' = [pc |-> "split", ids |-> s, raced |-> ~(search.ids \subseteq DOMAIN node)]
  /\ UNCHANGED <<index, cache, visit>>

Split ==
  /\ search.pc = "split"
  /\ search' = [pc |-> "store", raced |-> search.raced,
                dirs |-> SplitDirs(node, search.ids), files |-> SplitFiles(node, search.ids)]
  /\ UNCHANGED <<index, cache, visit>>

Store ==
  /\ search.pc = "store"
  /\ cache' = Put(cache, visit.order,
       [dirs |-> search.dirs, files |-> search.files, raced |-> search.raced, charged |-> {}])
  /\ Answer(search.dirs, search.files)
  /\ UNCHANGED index

\* The nodes of the page are read under mu once more.
Send ==
  /\ search.pc = "reply"
  /\ visit' = [visit EXCEPT !.total = Reply(search.page, DOMAIN node).total]
  /\ search' = Idle
  /\ UNCHANGED <<index, cache>>

Expire(order) ==
  /\ order \in DOMAIN cache
  /\ cache' = Without(cache, {order})
  /\ UNCHANGED <<index, search, visit>>

Next ==
  \/ \E isDir \in BOOLEAN, parent \in Dirs \cup {0}, size \in Sizes, t \in Times, n \in Names :
       Create(isDir, parent, size, t, n)
  \/ \E id \in DOMAIN node, size \in Sizes, t \in Times : Touch(id, size, t)
  \/ \E id \in DOMAIN node : Remove(id)
  \/ \E id \in DOMAIN node, parent \in Dirs \cup {0}, n \in Names : Rename(id, parent, n)
  \/ \E order \in Orders, fileType \in FileTypes, limit \in Limits : Ask(order, fileType, limit)
  \/ TurnPage \/ Hit \/ NoMatch \/ Match \/ Sort \/ Split \/ Store \/ Send
  \/ \E order \in Orders : Expire(order)

Spec == Init /\ [][Next]_vars

-----------------------------------------------------------------------------
(* Properties.                                                             *)

TypeOK ==
  /\ DOMAIN node \subseteq 1 .. lastID
  /\ \A id \in DOMAIN node : node[id].parent \in Dirs \cup {0}
  /\ DOMAIN cache \subseteq Orders
  /\ search.pc \in {"idle", "get", "sort", "split", "store", "reply"}

\* A cached result is in the order it is cached under, as the index is now,
\* but for a directory charged since for a file the keyword does not find,
\* and a result that was sorted while a handler ran (file_index.go:446-500).
OrderKept ==
  \A k \in DOMAIN cache : ~cache[k].raced =>
    \A s \in {cache[k].dirs, cache[k].files} : \A i, j \in DOMAIN s :
      i < j /\ Before(node, k, s[j], s[i]) =>
        k[1] = "size" /\ {s[i], s[j]} \cap cache[k].charged # {}

\* Whoever turns the pages of an unchanged result has seen, up to the page he
\* is on, just the beginning of it, nothing twice and nothing left out.  The
\* total he is shown is the length of the result the page was cut from, or
\* none if the page lies behind its end (370-444, file_search.go:47-82).
PagesTile ==
  visit.pages > 0 =>
    LET all == Filtered(visit.lists[1], visit.lists[2], visit.fileType)
        end == visit.pages * visit.limit
    IN  /\ visit.steady => visit.seen = SubSeq(all, 1, Lesser(end, Len(all)))
        /\ search.pc = "idle" =>
             visit.total = IF end - visit.limit < Len(all) THEN Len(all) ELSE 0
=============================================================================
