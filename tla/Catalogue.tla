------------------------------ MODULE Catalogue ------------------------------
(***************************************************************************)
(* The catalogue behind its cache: the queries of ItemsService, which go   *)
(* through the cache, a client that walks the pages by their cursors, and  *)
(* the edits, which delete the cached answers before they commit.          *)
(*                                                                         *)
(* The pages are those of one query (name, description); the public and    *)
(* the admin queries share their keys, and are told apart by columns only. *)
(* A key is the item of a findOne or the cursor of a findAll.  history has *)
(* the live items after each commit, and an answer, cached or not, is the  *)
(* number of the state it was read from: each query is one statement.      *)
(*                                                                         *)
(* The numbers of items stand for what orders items of one millisecond:    *)
(* microseconds, then ids.  Calls are taken to end before the leases of    *)
(* their locks do.                                                         *)
(***************************************************************************)
EXTENDS Naturals, Sequences, FiniteSets

CONSTANTS
  Readers,
  Edits,    \* the edits, each made once
  Items,
  Times,    \* milliseconds at which items are created
  First,    \* the cursor of the first page
  MaxCached, \* bound on the answers cached at one time
  PageSize, \* DEFAULT_PAGE_SIZE: encodeCursor forgets the limit that was asked for
  None

ASSUME CatalogueAssumption ==
  /\ Items \subseteq Nat /\ Times \subseteq Nat
  /\ Items \cap Times = {}
  /\ IsFiniteSet(Items)
  /\ PageSize \in Nat \ {0} /\ MaxCached \in Nat
  /\ First \notin Items \cup Times
  /\ None \notin Items \cup Times \cup {First} \cup [from : Nat, since : SUBSET Edits]

VARIABLES
  created, \* createdAt of each item, to the millisecond
  history, \* the live items after each commit, the last of them now
  edit,    \* the edits
  cache,   \* what is cached under each key
  reader   \* the clients

vars == <<created, history, edit, cache, reader>>

Cursors == Times \cup {First}

Keys == Items \cup Cursors

Ops == {"none", "create", "update", "remove", "stock"}

\* saved is deletedAt IS NULL as it is written, scanned what KEYS found for the pattern.
EditState == [op : Ops, item : Items \cup {None}, saved : BOOLEAN, scanned : SUBSET Cursors,
              pc : {"start", "locked", "written", "evicting", "evicted", "committed", "failed"}]

\* since, history: the edits that had begun to delete the key when the answer was cached.
Entry == [from : Nat, since : SUBSET Edits]

\* A walk: the cursor it is to go on with (None at its end), the items it has seen, those it
\* has seen again, and those it is owed: in the catalogue in every state it was answered from,
\* and created in another millisecond than all that it has seen.
ReaderState == [pc : {"idle", "loaded"}, key : Keys \cup {None}, from : Nat,
                next : Cursors \cup {None}, seen : SUBSET Items, again : SUBSET Items,
                owed : SUBSET Items]

NoEdit == [op |-> "none", pc |-> "start", item |-> None, saved |-> TRUE, scanned |-> {}]

NoWalk == [pc |-> "idle", key |-> None, from |-> 0, next |-> None, seen |-> {}, again |-> {},
           owed |-> {}]

TypeOK ==
  /\ created \in [Items -> Times \cup {None}]
  /\ history \in Seq(SUBSET Items) /\ history # << >>
  /\ edit \in [Edits -> EditState]
  /\ cache \in [Keys -> Entry \cup {None}]
  /\ reader \in [Readers -> ReaderState]

Init ==
  /\ created \in [Items -> Times \cup {None}]
  /\ history = << {i \in Items : created[i] # None} >>
  /\ edit = [e \in Edits |-> NoEdit]
  /\ cache = [k \in Keys |-> None]
  /\ reader = [r \in Readers |-> NoWalk]

Now == Len(history)

Live == history[Now]

-----------------------------------------------------------------------------
(* ItemRepository.filter *)

\* A bug: the item the cursor was made of, and its like, are on the next page too.
FollowingOrAt(items, cursor) == {i \in items : cursor = First \/ created[i] <= cursor}

\* createdAt < startingAfter, where the cursor has lost the microseconds.  The column has no
\* time zone and the cursor is in UTC: Node and the database are taken to run in UTC too.
Following(items, cursor) == {i \in items : cursor = First \/ created[i] < cursor}

\* ORDER BY createdAt DESC, id DESC.
Before(i, j) ==
  \/ created[i] > created[j]
  \/ created[i] = created[j] /\ i > j

\* The first PageSize rows.
Page(items, cursor) ==
  LET rows == Following(items, cursor)
  IN {i \in rows : Cardinality({j \in rows : Before(j, i)}) < PageSize}

\* A bug: a page is taken for the last one when one row is left.
HasTwoMore(items, cursor) == Cardinality(Following(items, cursor)) > PageSize + 1

\* A row more than the page was fetched.
HasMore(items, cursor) == Cardinality(Following(items, cursor)) > PageSize

LastOf(page) == {l \in page : \A j \in page \ {l} : Before(j, l)}

\* A bug: the cursor is made of the id of the last item.
NextCursorsById(items, cursor) ==
  IF HasMore(items, cursor) THEN LastOf(Page(items, cursor)) ELSE {None}

\* The cursor of the next page is made of the last item.
NextCursors(items, cursor) ==
  IF HasMore(items, cursor) THEN {created[i] : i \in LastOf(Page(items, cursor))} ELSE {None}

-----------------------------------------------------------------------------
(* Queries: publicFindAll, adminFindAll, publicFindOne, adminFindOne *)

UnchangedByReaders == UNCHANGED <<created, history, edit>>

\* What walk becomes with the answer under key k read from state n.
Answered(walk, k, n) ==
  LET page == Page(history[n], k)
      seen == walk.seen \cup page
      again == walk.again \cup (walk.seen \cap page)
      owed == {i \in walk.owed \cap history[n] : \A j \in seen : created[i] # created[j]}
  IN IF k \in Items THEN {NoWalk}
     ELSE {[pc |-> "idle", key |-> None, from |-> 0, next |-> next, again |-> again,
            owed |-> owed, seen |-> IF next = None THEN {} ELSE seen] :
             next \in NextCursors(history[n], k)}

CacheHit(r, k, walk) ==
  /\ cache[k] # None
  /\ \E w \in Answered(walk, k, cache[k].from) : reader' = [reader EXCEPT ![r] = w]
  /\ UNCHANGED cache
  /\ UnchangedByReaders

\* There is nothing in the cache, or its error is ignored: findById, filter.  An item that is
\* not found is not cached.
Load(r, k, walk) ==
  /\ reader' = [reader EXCEPT ![r] = IF k \in Items \ Live THEN NoWalk
                ELSE [walk EXCEPT !.pc = "loaded", !.key = k, !.from = Now]]
  /\ UNCHANGED cache
  /\ UnchangedByReaders

Find(r, k, walk) == reader[r].pc = "idle" /\ (CacheHit(r, k, walk) \/ Load(r, k, walk))

FindOne(r, i) == Find(r, i, NoWalk)

\* A walk begins, or goes on.
FindFirstPage(r) == Find(r, First, [NoWalk EXCEPT !.owed = Items])

FindNextPage(r) == reader[r].next # None /\ Find(r, reader[r].next, reader[r])

Affects(e, k) == k = edit[e].item \/ k \in Cursors

\* The edits that have begun to delete k.
Deleting(k) ==
  {e \in Edits : /\ edit[e].pc \in {"evicting", "evicted", "committed"}
                 /\ edit[e].op # "stock" /\ Affects(e, k)}

\* The client has the answer that was loaded.
Answer(r) ==
  /\ reader[r].pc = "loaded"
  /\ \E w \in Answered(reader[r], reader[r].key, reader[r].from) :
       reader' = [reader EXCEPT ![r] = w]
  /\ UnchangedByReaders

\* It was cached, for CACHE_TTL.LIST.
Fill(r) ==
  /\ Answer(r)
  /\ Cardinality({k \in Keys : cache[k] # None}) < MaxCached
  /\ cache' = [cache EXCEPT ![reader[r].key] =
                 [from |-> reader[r].from, since |-> Deleting(reader[r].key)]]

\* The cache failed, and its error was ignored.
FillFails(r) == Answer(r) /\ UNCHANGED cache

\* The time to live of an entry is over.
Lapse(k) ==
  /\ cache[k] # None
  /\ cache' = [cache EXCEPT ![k] = None]
  /\ UNCHANGED <<created, history, edit, reader>>

-----------------------------------------------------------------------------
(* Edits: adminCreate, adminUpdate, adminRemove, decrementItemStock, incrementItemStock *)

UnchangedByEdits == UNCHANGED <<created, history, cache, reader>>

\* A change of the stock has the key of an update: item-update:<id>.
LockOf(op) == IF op = "stock" THEN "update" ELSE op

InFlight(e) == edit[e].pc \in {"locked", "written", "evicting", "evicted"}

Locked(op, i) ==
  \E e \in Edits : /\ InFlight(e)
                   /\ edit[e].item = i /\ LockOf(edit[e].op) = LockOf(op)

\* The edit has its lock and has read the item.
Begin(e, op, i) ==
  /\ edit[e].pc = "start"
  /\ ~ Locked(op, i)
  /\ edit' = [edit EXCEPT ![e] = [@ EXCEPT !.op = op, !.pc = "locked", !.item = i]]

\* createdAt is the start of the transaction.
AdminCreate(e, i) ==
  /\ created[i] = None
  /\ Begin(e, "create", i)
  /\ \E t \in Times :
       /\ \A j \in Items : created[j] # None => created[j] <= t
       /\ created' = [created EXCEPT ![i] = t]
  /\ UNCHANGED <<history, cache, reader>>

AdminUpdate(e, i) == i \in Live /\ Begin(e, "update", i) /\ UnchangedByEdits

AdminRemove(e, i) == i \in Live /\ Begin(e, "remove", i) /\ UnchangedByEdits

\* An order was checked against the item before; the item itself is not looked at.
ChangeStock(e, i) == created[i] # None /\ Begin(e, "stock", i) /\ UnchangedByEdits

\* The statement waits for a transaction that wrote the row and has not ended.
RowLocked(i) ==
  \E e \in Edits : InFlight(e) /\ edit[e].pc # "locked" /\ edit[e].item = i

\* What is written of deletedAt: save() gives a column that was changed after the entity was
\* read, and before save() reads the row again, its old value back.
Outcomes(e) ==
  CASE edit[e].op = "create" -> {TRUE}
    [] edit[e].op = "update" -> {TRUE, edit[e].item \in Live}
    [] edit[e].op = "remove" -> {FALSE}
    [] OTHER -> {edit[e].item \in Live}

Write(e) ==
  /\ edit[e].pc = "locked"
  /\ ~ RowLocked(edit[e].item)
  /\ \E live \in Outcomes(e) :
       edit' = [edit EXCEPT ![e] = [@ EXCEPT !.pc = "written", !.saved = live]]
  /\ UnchangedByEdits

\* A bug: only the first page is deleted.
EvictFirstPage(e) ==
  /\ edit[e].pc = "written" /\ edit[e].op # "stock"
  /\ edit' = [edit EXCEPT ![e] = [@ EXCEPT !.pc = "evicting", !.scanned = {First}]]
  /\ cache' = [cache EXCEPT ![edit[e].item] = None]
  /\ UNCHANGED <<created, history, reader>>

\* deleteBulk, in the transaction, side by side: DEL of the item's key, and KEYS for the
\* pattern of the pages.  A creation gives no key: nothing can be cached of its item.
Evict(e) ==
  /\ edit[e].pc = "written" /\ edit[e].op # "stock"
  /\ edit' = [edit EXCEPT ![e] = [@ EXCEPT !.pc = "evicting",
                                           !.scanned = {k \in Cursors : cache[k] # None}]]
  /\ cache' = [cache EXCEPT ![edit[e].item] = None]
  /\ UNCHANGED <<created, history, reader>>

\* deleteBulk: DEL of the keys that were found.
EvictPages(e) ==
  /\ edit[e].pc = "evicting"
  /\ edit' = [edit EXCEPT ![e] = [@ EXCEPT !.pc = "evicted", !.scanned = {}]]
  /\ cache' = [k \in Keys |-> IF k \in edit[e].scanned THEN None ELSE cache[k]]
  /\ UNCHANGED <<created, history, reader>>

\* A change of the stock evicts nothing.
Commit(e) ==
  LET i == edit[e].item
  IN /\ edit[e].pc = IF edit[e].op = "stock" THEN "written" ELSE "evicted"
     /\ history' = Append(history, IF edit[e].saved THEN Live \cup {i} ELSE Live \ {i})
     /\ edit' = [edit EXCEPT ![e] = [@ EXCEPT !.pc = "committed", !.saved = TRUE]]
     /\ UNCHANGED <<created, cache, reader>>

\* The item is not found, a statement, the cache or the commit fails: nothing is written, but
\* what was deleted from the cache is gone.
Abort(e) ==
  /\ InFlight(e)
  /\ edit' = [edit EXCEPT ![e] = [NoEdit EXCEPT !.pc = "failed"]]
  /\ UnchangedByEdits

-----------------------------------------------------------------------------
ReaderNext(r) ==
  \/ FindFirstPage(r) \/ FindNextPage(r) \/ \E i \in Items : FindOne(r, i)
  \/ Fill(r) \/ FillFails(r)

EditNext(e) ==
  \/ \E i \in Items : AdminCreate(e, i) \/ AdminUpdate(e, i) \/ AdminRemove(e, i)
                      \/ ChangeStock(e, i)
  \/ Write(e) \/ Evict(e) \/ EvictPages(e) \/ Commit(e) \/ Abort(e)

Next ==
  \/ \E r \in Readers : ReaderNext(r)
  \/ \E e \in Edits : EditNext(e)
  \/ \E k \in Keys : Lapse(k)

Spec == Init /\ [][Next]_vars

-----------------------------------------------------------------------------
(* Properties *)

\* A client that walks the pages never sees an item twice, whatever was created, changed or
\* cached between two pages.
WalkSeesOnce == \A r \in Readers : reader[r].again = {}

\* A walk that came to its end has seen every item that was there in each state its pages
\* were answered from, except for items created in the same millisecond as one it has seen:
\* the cursor has no more than that.
WalkSeesAll ==
  \A r \in Readers : reader[r].pc = "idle" /\ reader[r].next = None => reader[r].owed = {}

\* What deleteBulk gives for what it costs: once a creation, update or removal is committed,
\* every answer it made stale was cached after the edit had begun to delete that key: nothing
\* that was there before is left, whatever was cached between KEYS and DEL.  A change of the
\* stock deletes nothing, and a query may still cache what it read before the commit: what is
\* stale from either stays until it lapses.
EditsEvict ==
  \A e \in Edits, k \in Keys :
    edit[e].pc = "committed" /\ edit[e].op # "stock" /\ Affects(e, k) /\ cache[k] # None =>
      e \in cache[k].since

=============================================================================
