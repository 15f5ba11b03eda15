----------------------------- MODULE SearchCache -----------------------------
(***************************************************************************)
(* Keyword search with its result cache (src/main/file_index.go), against  *)
(* the handlers that change the index.                                     *)
(*                                                                         *)
(* A handler holds mu, but the n-gram bitmaps and the cache have locks of  *)
(* their own, which a search takes one after the other without mu.  So a   *)
(* handler is the list of what it still does under those locks (todo), one *)
(* entry a step, and mu is free when the list is empty.  What it does to   *)
(* Nodes alone is seen under mu only and happens in its first step.        *)
(* Results are sets of ids: the sort order, a part of the cache key, and   *)
(* the cutting into pages are left out.  Keywords without an n-gram bitmap *)
(* never reach the cache, so keys are made of n-grams and, as "|" is in no *)
(* n-gram, InvalidateByNewFile splits a key back into just its keywords.   *)
(***************************************************************************)
EXTENDS Integers, FiniteSets, SequencesExt, Maps

CONSTANTS
  Names,      \* file names
  GramsOf,    \* GramsOf[name]: what generateNgrams returns, in its order
  Keys,       \* cache keys: the keyword lists searched for
  Searchers,  \* concurrent requests
  MaxID       \* bound: no node is created at lastID = MaxID

ASSUME SearchCacheAssumption ==
  /\ GramsOf \in [Names -> Seq(STRING)]
  /\ Keys \subseteq Seq(STRING) \ {<<>>}

VARIABLES
  node,       \* id -> name, for the live ids of Nodes
  lastID,
  bitmap,     \* gram -> set of ids
  todo,       \* what the handler that holds mu still does
  cache,      \* key -> [ids, raced]
  idToKeys,   \* id -> set of keys
  aged,       \* keys whose entry has reached CacheTTL
  sweepDue,   \* 10 minutes have passed since lastClean
  search,     \* [Searchers -> where the request stands]
  renamed,    \* history: ids some rename gave a new name
  cut         \* history: ids a rename to an unindexed parent has un-indexed

index == <<node, lastID, bitmap, todo, renamed, cut>>
clock == <<aged, sweepDue>>
vars == <<index, clock, cache, idToKeys, search>>

Idle == [pc |-> "idle"]

Init ==
  /\ node = << >> /\ lastID = 0 /\ bitmap = << >> /\ todo = <<>>
  /\ cache = << >> /\ idToKeys = << >> /\ aged = {} /\ sweepDue = FALSE
  /\ search = [s \in Searchers |-> Idle]
  /\ renamed = {} /\ cut = {}

-----------------------------------------------------------------------------
(* The cache.                                                              *)

\* Mutant: an id left without a key keeps an empty entry.
UnlinkedKeepsEmpty(dead) ==
  [id \in DOMAIN idToKeys |-> idToKeys[id] \ {k \in dead : id \in cache[k].ids}]

\* delete(c.cache, key) for every key of dead, and of the reverse entries of
\* the ids in those results; an id left without a key loses its entry.
Uncached(dead) == Without(cache, dead)
Unlinked(dead) ==
  LET left == [id \in DOMAIN idToKeys |->
                 idToKeys[id] \ {k \in dead : id \in cache[k].ids}]
  IN  Without(left, {id \in DOMAIN left : left[id] = {}})

\* Mutant: expired results are left to the sweep.
KeysOfIDFresh(id) == At(idToKeys, id) \cap (DOMAIN cache \ aged)

\* The keys InvalidateByID drops, and those InvalidateByNewFile drops.
KeysOfID(id) == At(idToKeys, id) \cap DOMAIN cache
KeysOfName(name) ==
  {k \in DOMAIN cache : Range(k) \cap Range(GramsOf[name]) # {}}

InvalidateByID(id) ==
  /\ cache' = Uncached(KeysOfID(id))
  /\ idToKeys' = Without(Unlinked(KeysOfID(id)), {id})
  /\ aged' = aged \ KeysOfID(id)

InvalidateByNewFile(name) ==
  /\ cache' = Uncached(KeysOfName(name))
  /\ idToKeys' = Unlinked(KeysOfName(name))
  /\ aged' = aged \ KeysOfName(name)

\* Reverse entries for the ids of a result just stored under key.  Those of
\* an older result under the same key stay.
Linked(key, ids) ==
  [id \in DOMAIN idToKeys \cup ids |->
     At(idToKeys, id) \cup (IF id \in ids THEN {key} ELSE {})]

\* Set, and when it is due cleanExpired over all keys but the one just set.
Set(key, ids, raced) ==
  LET stored == Put(cache, key, [ids |-> ids, raced |-> raced])
      linked == Linked(key, ids)
      dead == IF sweepDue THEN aged \ {key} ELSE {}
      left == [id \in DOMAIN linked |-> linked[id] \ {k \in dead : id \in stored[k].ids}]
  IN  /\ cache' = Without(stored, dead)
      /\ idToKeys' = Without(left, {id \in DOMAIN left : left[id] = {}})
      /\ aged' = aged \ (dead \cup {key})
      /\ sweepDue' = FALSE

-----------------------------------------------------------------------------
(* Handlers.                                                               *)

\* The steps of a handler under the shard locks and the cache lock.
AddGrams(name, id) == [i \in DOMAIN GramsOf[name] |-> <<"add", GramsOf[name][i], id>>]
DelGrams(name, id) == [i \in DOMAIN GramsOf[name] |-> <<"del", GramsOf[name][i], id>>]
ById(id) == <<"byID", id>>
ByNewFile(name) == <<"byNewFile", name>>

muFree == todo = <<>>

\* The nodes a handler can name or reach: a cut one has lost its path.
Known == DOMAIN node \ cut

\* Mutant: the cache is invalidated before the n-grams are added.
CreateInvalidatesFirst(name) ==
  LET id == lastID + 1
  IN  /\ muFree
      /\ lastID < MaxID
      /\ lastID' = id
      /\ node' = Put(node, id, name)
      /\ todo' = <<ByNewFile(name)>> \o AddGrams(name, id)
      /\ UNCHANGED <<bitmap, cache, idToKeys, clock, search, renamed, cut>>

\* Upsert and UpsertDir of a new path, saveName of an invalid name.
Create(name) ==
  LET id == lastID + 1
  IN  /\ muFree
      /\ lastID < MaxID
      /\ lastID' = id
      /\ node' = Put(node, id, name)
      /\ todo' = AddGrams(name, id) \o <<ByNewFile(name)>>
      /\ UNCHANGED <<bitmap, cache, idToKeys, clock, search, renamed, cut>>

\* Upsert and UpsertDir of a known path.
Touch(id) ==
  /\ muFree
  /\ todo' = <<ById(id)>>
  /\ UNCHANGED <<node, lastID, bitmap, cache, idToKeys, clock, search, renamed, cut>>

\* Remove of one file, of a directory (walkDelete, children first), or of an
\* invalid name.
RemoveOne(id) == DelGrams(node[id], id) \o <<ById(id)>>
RemoveAll(ids) ==
  /\ muFree
  /\ node' = Without(node, Range(ids))
  /\ todo' = FlattenSeq([i \in DOMAIN ids |-> RemoveOne(ids[i])])
  /\ UNCHANGED <<lastID, bitmap, cache, idToKeys, clock, search, renamed, cut>>

\* RenameNode: the old n-grams go, the directories below invalidate, the new
\* n-grams come, and the node invalidates by id, never by its new name.
Rename(id, name, below) ==
  /\ muFree
  /\ node' = [node EXCEPT ![id] = name]
  /\ todo' = DelGrams(node[id], id) \o [i \in DOMAIN below |-> ById(below[i])]
               \o AddGrams(name, id) \o <<ById(id)>>
  /\ renamed' = renamed \cup {id}
  /\ UNCHANGED <<lastID, bitmap, cache, idToKeys, clock, search, cut>>

\* RenameNode below an unindexed parent returns early: nothing is invalidated.
RenameCut(id) ==
  /\ muFree
  /\ todo' = DelGrams(node[id], id)
  /\ cut' = cut \cup {id}
  /\ UNCHANGED <<node, lastID, bitmap, cache, idToKeys, clock, search, renamed>>

\* An invalidation that a search in flight has missed makes its result raced.
InFlight == {s \in Searchers : search[s].pc \in {"read", "split", "set"}}
Race == [s \in Searchers |-> IF s \in InFlight THEN [search[s] EXCEPT !.raced = TRUE]
                             ELSE search[s]]

HandlerStep ==
  /\ todo # <<>>
  /\ todo' = Tail(todo)
  /\ LET do == Head(todo)
     IN  \/ /\ do[1] = "add"
            /\ bitmap' = Put(bitmap, do[2], At(bitmap, do[2]) \cup {do[3]})
            /\ UNCHANGED <<cache, idToKeys, aged, search>>
         \/ /\ do[1] = "del"
            /\ bitmap' = [bitmap EXCEPT ![do[2]] = @ \ {do[3]}]
            /\ UNCHANGED <<cache, idToKeys, aged, search>>
         \/ /\ do[1] = "byID"
            /\ InvalidateByID(do[2])
            /\ search' = Race
            /\ UNCHANGED bitmap
         \/ /\ do[1] = "byNewFile"
            /\ InvalidateByNewFile(do[2])
            /\ search' = Race
            /\ UNCHANGED bitmap
  /\ UNCHANGED <<node, lastID, sweepDue, renamed, cut>>

-----------------------------------------------------------------------------
(* Searches.                                                               *)

\* Get under the cache's read lock: a fresh entry is served as it is.
Hit(s, key) ==
  /\ search[s].pc = "idle"
  /\ key \in DOMAIN cache \ aged
  /\ search' = [search EXCEPT ![s] = [pc |-> "page"]]
  /\ UNCHANGED <<index, clock, cache, idToKeys>>

Miss(s, key) ==
  /\ search[s].pc = "idle"
  /\ key \notin DOMAIN cache \ aged
  /\ search' = [search EXCEPT ![s] =
       [pc |-> "read", key |-> key, read |-> 0, ids |-> {}, raced |-> FALSE]]
  /\ UNCHANGED <<index, clock, cache, idToKeys>>

\* Mutant: a missing bitmap is waited for.
ReadWaits(s) ==
  LET r == search[s]
      g == r.key[r.read + 1]
  IN  /\ r.pc = "read"
      /\ g \in DOMAIN bitmap
      /\ search' = [search EXCEPT ![s] =
           [r EXCEPT !.read = @ + 1,
                     !.ids = IF r.read = 0 THEN bitmap[g] ELSE @ \cap bitmap[g],
                     !.pc = IF r.read + 1 = Len(r.key) THEN "split" ELSE "read"]]
      /\ UNCHANGED <<index, clock, cache, idToKeys>>

\* The next keyword's bitmap under its shard lock; one that was never created
\* ends the search with an empty result that is not cached.
Read(s) ==
  LET r == search[s]
      g == r.key[r.read + 1]
      ids == IF r.read = 0 THEN bitmap[g] ELSE r.ids \cap bitmap[g]
  IN  /\ r.pc = "read"
      /\ search' = [search EXCEPT ![s] =
           IF g \notin DOMAIN bitmap THEN Idle
           ELSE [pc |-> IF r.read + 1 = Len(r.key) THEN "split" ELSE "read",
                 key |-> r.key, read |-> r.read + 1, ids |-> ids,
                 raced |-> r.read > 0 /\ r.raced]]
      /\ UNCHANGED <<index, clock, cache, idToKeys>>

\* Directories and files apart, under mu.RLock: ids without a node drop out.
Split(s) ==
  /\ search[s].pc = "split"
  /\ muFree
  /\ search' = [search EXCEPT ![s].ids = @ \cap DOMAIN node, ![s].pc = "set"]
  /\ UNCHANGED <<index, clock, cache, idToKeys>>

Store(s) ==
  /\ search[s].pc = "set"
  /\ Set(search[s].key, search[s].ids, search[s].raced)
  /\ search' = [search EXCEPT ![s] = [pc |-> "page"]]
  /\ UNCHANGED index

\* Nodes of the page are looked up under mu.RLock once more; then it returns.
Page(s) ==
  /\ search[s].pc = "page"
  /\ muFree
  /\ search' = [search EXCEPT ![s] = Idle]
  /\ UNCHANGED <<index, clock, cache, idToKeys>>

-----------------------------------------------------------------------------
(* Time.                                                                   *)

Expire(key) ==
  /\ key \in DOMAIN cache \ aged
  /\ aged' = aged \cup {key}
  /\ UNCHANGED <<index, cache, idToKeys, sweepDue, search>>

SweepComesDue ==
  /\ ~sweepDue
  /\ sweepDue' = TRUE
  /\ UNCHANGED <<index, cache, idToKeys, aged, search>>

SearchStep(s) == Read(s) \/ Split(s) \/ Store(s) \/ Page(s)

Next ==
  \/ \E name \in Names : Create(name)
  \/ \E id \in Known : Touch(id) \/ RenameCut(id)
  \/ \E S \in SUBSET Known : \E ids \in SetToSeqs(S) : S # {} /\ RemoveAll(ids)
  \/ \E id \in Known, name \in Names, S \in SUBSET Known :
       \E below \in SetToSeqs(S \ {id}) : Rename(id, name, below)
  \/ HandlerStep
  \/ \E s \in Searchers, key \in Keys : Hit(s, key) \/ Miss(s, key)
  \/ \E s \in Searchers : SearchStep(s)
  \/ \E key \in Keys : Expire(key)
  \/ SweepComesDue

Spec == Init /\ [][Next]_vars

\* Requests and handlers keep running.  Go's RWMutex lets the readers that
\* wait in before the next writer, so a search that needs mu again and again
\* finds it free is not passed over for ever: strong fairness.
Fairness ==
  /\ WF_vars(HandlerStep)
  /\ \A s \in Searchers :
       WF_vars(Read(s)) /\ WF_vars(Store(s)) /\ SF_vars(Split(s)) /\ SF_vars(Page(s))

FairSpec == Spec /\ Fairness

-----------------------------------------------------------------------------
(* Properties.                                                             *)

TypeOK ==
  /\ lastID \in Nat
  /\ DOMAIN node \subseteq 1..lastID /\ \A id \in DOMAIN node : node[id] \in Names
  /\ \A g \in DOMAIN bitmap : bitmap[g] \subseteq 1..lastID
  /\ DOMAIN cache \subseteq Keys /\ aged \subseteq DOMAIN cache
  /\ \A k \in DOMAIN cache : cache[k].ids \subseteq 1..lastID /\ cache[k].raced \in BOOLEAN
  /\ DOMAIN idToKeys \subseteq 1..lastID
  /\ \A id \in DOMAIN idToKeys : idToKeys[id] \subseteq Keys /\ idToKeys[id] # {}
  /\ sweepDue \in BOOLEAN /\ renamed \subseteq 1..lastID /\ cut \subseteq 1..lastID
  /\ \A s \in Searchers : search[s].pc \in {"idle", "read", "split", "set", "page"}

\* Every id of every cached result leads back to that result: what lets
\* InvalidateByID find all of them (file_index.go:169-272).
ReverseIndex ==
  \A k \in DOMAIN cache : \A id \in cache[k].ids :
    id \in DOMAIN idToKeys /\ k \in idToKeys[id]

\* Once a handler has invalidated an id, no cached result holds it, whatever
\* overwrites, sweeps and invalidations came before (227-272).
InvalidationReaches ==
  [][\A id \in 1..lastID : (HandlerStep /\ Head(todo) = ById(id)) =>
       \A k \in DOMAIN cache' : id \notin cache'[k].ids]_vars

\* What a search started now would find for a key.
Answer(k) == {id \in DOMAIN node :
                \A i \in DOMAIN k : k[i] \in DOMAIN bitmap /\ id \in bitmap[k[i]]}

\* Between two handlers a cached result is what a new search would find, but
\* for: a result whose search overlapped an invalidation, ids a rename has
\* named since, and ids a failed rename un-indexed without invalidating.
FreshUnlessRaced ==
  muFree => \A k \in DOMAIN cache : ~cache[k].raced =>
    /\ Answer(k) \ cache[k].ids \subseteq renamed
    /\ cache[k].ids \ Answer(k) \subseteq cut

\* Every search returns, however often it must wait for mu.
SearchReturns ==
  \A s \in Searchers : search[s].pc # "idle" ~> search[s].pc = "idle"
=============================================================================
