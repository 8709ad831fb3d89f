-------------------------- MODULE CatalogueProofs --------------------------
(* What holds of the catalogue, its cache and the walks through its pages   *)
(* for any number of clients, edits, items, times and answers cached.       *)
EXTENDS Catalogue, FiniteSetTheorems, TLAPS

\* An item that was ever in the catalogue has its time, and answers are of states there were.
AnswerInv ==
  /\ \A n \in 1 .. Now : \A i \in history[n] : created[i] \in Times
  /\ \A k \in Keys : cache[k] # None => cache[k].from \in 1 .. Now
  /\ \A r \in Readers : reader[r].pc = "loaded" =>
       reader[r].key \in Keys /\ reader[r].from \in 1 .. Now

\* An edit is one of an item that has its time.
EditInv ==
  \A e \in Edits : edit[e].pc \notin {"start", "failed"} =>
    edit[e].item \in Items /\ created[edit[e].item] \in Times

\* What KEYS has found is there until DEL; what is there after DEL came since.
EvictInv ==
  \A e \in Edits, k \in Keys :
    edit[e].op # "stock" /\ Affects(e, k) /\ cache[k] # None =>
      /\ edit[e].pc \in {"evicted", "committed"} => e \in cache[k].since
      /\ edit[e].pc = "evicting" => e \in cache[k].since \/ k \in edit[e].scanned

\* A walk that goes on with the answer under key k: all that it has seen is at the cursor or
\* newer, all that it is owed is older.
Goes(walk, k) ==
  /\ walk.again = {}
  /\ \A i \in walk.seen : created[i] \in Times
  /\ k \in Times =>
       /\ \A i \in walk.seen : created[i] >= k
       /\ \A i \in walk.owed : created[i] \in Times /\ created[i] < k
  /\ k \notin Times => walk.seen = {}

\* Between two answers the walk has a cursor that was made of an item, or is at its end.
Rests(walk) ==
  /\ walk.next \in Times \cup {None}
  /\ Goes(walk, walk.next)
  /\ walk.next = None => walk.owed = {}

WalkInv ==
  \A r \in Readers :
    /\ reader[r].pc = "idle" => Rests(reader[r])
    /\ reader[r].pc = "loaded" => Goes(reader[r], reader[r].key)

Inv == TypeOK /\ AnswerInv /\ EditInv /\ EvictInv /\ WalkInv

LEMMA Different ==
  /\ Items \subseteq Nat /\ Times \subseteq Nat /\ Items \cap Times = {}
  /\ IsFiniteSet(Items) /\ PageSize \in Nat \ {0}
  /\ First \notin Items /\ First \notin Times
  /\ None \notin Items /\ None \notin Times /\ None # First
  BY CatalogueAssumption

-----------------------------------------------------------------------------
(* Pages *)

\* Before is the order of the rows: transitive, and total on items that have their time.
LEMMA BeforeIsTransitive ==
  ASSUME NEW i \in Items, NEW j \in Items, NEW l \in Items,
         created[i] \in Times, created[j] \in Times, created[l] \in Times,
         Before(i, j), Before(j, l)
  PROVE  Before(i, l)
<1>1. /\ i \in Nat /\ j \in Nat /\ l \in Nat
      /\ created[i] \in Nat /\ created[j] \in Nat /\ created[l] \in Nat
  BY Different
<1>2. QED
  BY <1>1 DEF Before

LEMMA BeforeIsTotal ==
  ASSUME NEW i \in Items, NEW j \in Items, i # j,
         created[i] \in Times, created[j] \in Times
  PROVE  Before(i, j) \/ Before(j, i)
<1>1. i \in Nat /\ j \in Nat /\ created[i] \in Nat /\ created[j] \in Nat
  BY Different
<1>2. QED
  BY <1>1 DEF Before

\* What is before a row on the page is on the page.
LEMMA PageIsPrefix ==
  ASSUME NEW items \in SUBSET Items, NEW k,
         \A i \in items : created[i] \in Times,
         NEW l \in Page(items, k), NEW i \in Following(items, k), Before(i, l)
  PROVE  i \in Page(items, k)
<1> DEFINE rows == Following(items, k)
           ahead(x) == {j \in rows : Before(j, x)}
<1>1. rows \subseteq items /\ l \in rows
  BY DEF Following, Page
<1>2. ahead(i) \subseteq ahead(l)
  <2>1. SUFFICES ASSUME NEW j \in rows, Before(j, i)
                 PROVE  Before(j, l)
    OBVIOUS
  <2>2. j \in Items /\ i \in Items /\ l \in Items
    BY <1>1
  <2>3. QED
    BY <2>1, <2>2, <1>1, BeforeIsTransitive
<1>3. IsFiniteSet(ahead(l))
  BY <1>1, Different, FS_Subset
<1>4. IsFiniteSet(ahead(i)) /\ Cardinality(ahead(i)) <= Cardinality(ahead(l))
  BY <1>2, <1>3, FS_Subset
<1>5. Cardinality(ahead(i)) \in Nat /\ Cardinality(ahead(l)) \in Nat
  BY <1>3, <1>4, FS_CardinalityType
<1>6. Cardinality(ahead(l)) < PageSize
  BY DEF Page
<1>7. Cardinality(ahead(i)) < PageSize
  BY <1>4, <1>5, <1>6, Different
<1>8. QED
  BY <1>7 DEF Page

\* If there is no more, the page has all the rows.
LEMMA LastPageIsAll ==
  ASSUME NEW items \in SUBSET Items, NEW k, ~ HasMore(items, k),
         \A i \in items : created[i] \in Times,
         NEW i \in Following(items, k)
  PROVE  i \in Page(items, k)
<1> DEFINE rows == Following(items, k)
           ahead == {j \in rows : Before(j, i)}
<1>1. rows \subseteq items /\ i \in Items /\ created[i] \in Nat
  BY Different DEF Following
<1>2. IsFiniteSet(rows)
  BY <1>1, Different, FS_Subset
<1>3. IsFiniteSet(ahead) /\ Cardinality(ahead) <= Cardinality(rows)
      /\ (Cardinality(ahead) = Cardinality(rows) => ahead = rows)
  BY <1>2, FS_Subset
<1>4. i \notin ahead
  BY <1>1, Different DEF Before
<1>5. Cardinality(ahead) \in Nat /\ Cardinality(rows) \in Nat
  BY <1>2, <1>3, FS_CardinalityType
<1>6. Cardinality(rows) <= PageSize
  <2>1. ~ (Cardinality(rows) > PageSize)
    BY DEF HasMore
  <2>2. QED
    BY <2>1, <1>5, Different
<1>7. Cardinality(ahead) < PageSize
  BY <1>3, <1>4, <1>5, <1>6, Different
<1>8. QED
  BY <1>7 DEF Page

-----------------------------------------------------------------------------
(* An answer *)

LEMMA NoWalkRests == NoWalk \in ReaderState /\ NoWalk.pc = "idle" /\ Rests(NoWalk)
<1>1. NoWalk \in ReaderState
  BY DEF NoWalk, ReaderState
<1>2. /\ NoWalk.pc = "idle" /\ NoWalk.next = None /\ NoWalk.seen = {}
      /\ NoWalk.again = {} /\ NoWalk.owed = {}
  BY DEF NoWalk
<1>3. QED
  BY <1>1, <1>2, Different DEF Rests, Goes

LEMMA AnsweredRests ==
  ASSUME NEW walk \in ReaderState, NEW k \in Keys, NEW n, Goes(walk, k),
         history[n] \in SUBSET Items, \A i \in history[n] : created[i] \in Times,
         NEW w \in Answered(walk, k, n)
  PROVE  w \in ReaderState /\ w.pc = "idle" /\ Rests(w)
<1> DEFINE items == history[n]
           rows == Following(items, k)
           page == Page(items, k)
           seen == walk.seen \cup page
           owed == {i \in walk.owed \cap items : \A j \in seen : created[i] # created[j]}
<1>1. CASE k \in Items
  BY <1>1, NoWalkRests DEF Answered
<1>2. CASE k \notin Items
  <2>1. k \in Times \/ k = First
    BY <1>2 DEF Keys, Cursors
  <2>2. PICK next \in NextCursors(items, k) :
          w = [pc |-> "idle", key |-> None, from |-> 0, next |-> next,
               again |-> walk.again \cup (walk.seen \cap page), owed |-> owed,
               seen |-> IF next = None THEN {} ELSE seen]
    BY <1>2 DEF Answered
  <2>3. rows \subseteq items /\ page \subseteq rows
    BY DEF Following, Page
  <2>4. walk.seen \subseteq Items /\ walk.again = {}
    BY DEF ReaderState, Goes
  <2>5. walk.seen \cap page = {}
    <3>1. CASE k = First
      BY <3>1, Different DEF Goes
    <3>2. CASE k \in Times
      <4>1. k # First /\ k \in Nat
        BY <3>2, Different
      <4>2. \A i \in page : created[i] < k /\ created[i] \in Nat
        BY <4>1, <2>3, Different DEF Following
      <4>3. \A i \in walk.seen : created[i] >= k
        BY <3>2 DEF Goes
      <4>4. QED
        BY <4>1, <4>2, <4>3
    <3>3. QED
      BY <2>1, <3>1, <3>2
  <2>6. \A i \in seen : created[i] \in Times /\ i \in Items
    BY <2>3, <2>4 DEF Goes
  <2>7. owed \subseteq items /\ owed \subseteq Items
    OBVIOUS
  \* An item that is owed is on this page or on one to come.
  <2>8. owed \subseteq rows \ page
    <3>1. SUFFICES ASSUME NEW i \in owed
                   PROVE  i \in rows /\ i \notin page
      OBVIOUS
    <3>2. i \in rows
      BY <2>1, Different DEF Goes, Following
    <3>3. QED
      BY <3>2
  <2>9. CASE ~ HasMore(items, k)
    <3>1. next = None
      BY <2>9 DEF NextCursors
    <3>2. rows \subseteq page
      BY <2>9, LastPageIsAll
    <3>3. owed = {}
      BY <3>2, <2>8
    <3> HIDE DEF owed, seen, page
    <3>4. w = [pc |-> "idle", key |-> None, from |-> 0, next |-> None, again |-> {},
               owed |-> {}, seen |-> {}]
      BY <3>1, <3>3, <2>2, <2>4, <2>5
    <3>5. w = NoWalk
      BY <3>4 DEF NoWalk
    <3>6. QED
      BY <3>5, NoWalkRests
  <2>10. CASE HasMore(items, k)
    <3>1. PICK l \in LastOf(page) : next = created[l]
      BY <2>10 DEF NextCursors
    <3>2. l \in page /\ (\A j \in page \ {l} : Before(j, l)) /\ l \in Items
      BY <3>1, <2>3 DEF LastOf
    <3>3. next \in Times /\ next \in Nat /\ next # None
      BY <3>1, <3>2, <2>3, Different
    <3>4. \A i \in page : created[i] >= next
      <4>1. SUFFICES ASSUME NEW i \in page
                     PROVE  created[i] >= next
        OBVIOUS
      <4>2. created[i] \in Nat /\ created[l] \in Nat
        BY <3>2, <2>3, Different
      <4>3. CASE i = l
        BY <4>2, <4>3, <3>1
      <4>4. CASE i # l
        BY <4>2, <4>4, <3>1, <3>2 DEF Before
      <4>5. QED
        BY <4>3, <4>4
    <3>5. \A i \in walk.seen : created[i] >= next
      <4>1. SUFFICES ASSUME NEW i \in walk.seen
                     PROVE  created[i] >= next
        OBVIOUS
      <4>2. k \in Times /\ k \in Nat /\ k # First
        BY <2>1, Different DEF Goes
      <4>3. created[i] >= k /\ created[i] \in Nat
        BY <4>2, <2>6, Different DEF Goes
      <4>4. created[l] < k
        BY <4>2, <3>2, <2>3 DEF Following
      <4>5. QED
        BY <4>2, <4>3, <4>4, <3>1, <3>3
    <3>6. \A i \in owed : created[i] \in Times /\ created[i] < next
      <4>1. SUFFICES ASSUME NEW i \in owed
                     PROVE  created[i] \in Times /\ created[i] < next
        OBVIOUS
      <4>2. created[i] \in Times /\ created[l] \in Times /\ created[i] # created[l] /\ i # l
            /\ created[i] \in Nat /\ created[l] \in Nat /\ i \in Items
        BY <2>6, <2>7, <3>2, Different
      <4>3. ~ Before(i, l)
        <5>1. i \in rows /\ i \notin page
          BY <2>8
        <5>2. QED
          BY <5>1, <3>2, PageIsPrefix
      <4>4. Before(l, i)
        BY <4>2, <4>3, <3>2, BeforeIsTotal
      <4>5. QED
        BY <4>2, <4>4, <3>1 DEF Before
    <3>7. w.pc = "idle" /\ w.next = next /\ w.again = {} /\ w.seen = seen /\ w.owed = owed
      BY <2>2, <2>4, <2>5, <3>3
    <3>8. w \in ReaderState
      <4>1. seen \subseteq Items
        BY <2>6
      <4>2. next \in Cursors \cup {None}
        BY <3>3 DEF Cursors
      <4> HIDE DEF seen, owed, page
      <4>3. w = [pc |-> "idle", key |-> None, from |-> 0, next |-> next, again |-> {},
                 owed |-> owed, seen |-> seen]
        BY <2>2, <2>4, <2>5, <3>3
      <4>4. QED
        BY <4>1, <4>2, <4>3, <2>7 DEF ReaderState
    <3>9. Goes(w, w.next)
      <4>1. \A i \in seen : created[i] >= next
        BY <3>4, <3>5
      <4> HIDE DEF seen, owed, page
      <4>2. QED
        BY <4>1, <3>3, <3>6, <3>7, <2>6 DEF Goes
    <3>10. QED
      BY <3>3, <3>7, <3>8, <3>9 DEF Rests
  <2>11. QED
    BY <2>9, <2>10
<1>3. QED
  BY <1>1, <1>2

-----------------------------------------------------------------------------
(* Readers *)

\* What a client does leaves it resting, or with an answer to come.
LEMMA ReaderStep ==
  ASSUME Inv, NEW r \in Readers, ReaderNext(r)
  PROVE  \E w \in ReaderState :
           /\ reader' = [reader EXCEPT ![r] = w]
           /\ \/ w.pc = "idle" /\ Rests(w)
              \/ w.pc = "loaded" /\ w.key \in Keys /\ w.from \in 1 .. Now /\ Goes(w, w.key)
           /\ \/ UNCHANGED cache
              \/ \E k \in Keys :
                   cache' = [cache EXCEPT ![k] = [from |-> reader[r].from, since |-> Deleting(k)]]
                   /\ reader[r].from \in 1 .. Now
           /\ UNCHANGED <<created, history, edit>>
<1>0. /\ reader \in [Readers -> ReaderState] /\ reader[r] \in ReaderState
      /\ history \in Seq(SUBSET Items) /\ history # << >> /\ Now \in Nat /\ Now \in 1 .. Now
      /\ \A n \in 1 .. Now : history[n] \in SUBSET Items /\ \A i \in history[n] : created[i] \in Times
  <2>1. /\ reader \in [Readers -> ReaderState] /\ reader[r] \in ReaderState
        /\ history \in Seq(SUBSET Items) /\ history # << >>
    BY DEF Inv, TypeOK
  <2>2. Now \in Nat /\ Now \in 1 .. Now /\ \A n \in 1 .. Now : history[n] \in SUBSET Items
    BY <2>1 DEF Now
  <2>3. QED
    BY <2>1, <2>2 DEF Inv, AnswerInv
<1>1. ASSUME NEW walk \in ReaderState, NEW k \in Keys, NEW n \in 1 .. Now, Goes(walk, k),
             NEW w \in Answered(walk, k, n)
      PROVE  w \in ReaderState /\ w.pc = "idle" /\ Rests(w)
  BY <1>0, <1>1, AnsweredRests
<1>2. ASSUME NEW walk \in ReaderState, NEW k \in Keys, Goes(walk, k), Find(r, k, walk)
      PROVE  \E w \in ReaderState :
               /\ reader' = [reader EXCEPT ![r] = w]
               /\ \/ w.pc = "idle" /\ Rests(w)
                  \/ w.pc = "loaded" /\ w.key \in Keys /\ w.from \in 1 .. Now /\ Goes(w, w.key)
               /\ UNCHANGED cache
               /\ UNCHANGED <<created, history, edit>>
  <2>1. CASE CacheHit(r, k, walk)
    <3>1. cache[k].from \in 1 .. Now
      BY <2>1 DEF CacheHit, Inv, AnswerInv
    <3>2. PICK n \in 1 .. Now : n = cache[k].from
      BY <3>1
    <3>3. PICK w \in Answered(walk, k, n) : reader' = [reader EXCEPT ![r] = w]
      BY <2>1, <3>2 DEF CacheHit
    <3>4. w \in ReaderState /\ w.pc = "idle" /\ Rests(w)
      BY <1>1, <1>2, <3>3
    <3>5. QED
      BY <2>1, <3>3, <3>4 DEF CacheHit, UnchangedByReaders
  <2>2. CASE Load(r, k, walk)
    <3>1. CASE k \in Items \ Live
      BY <2>2, <3>1, NoWalkRests DEF Load, UnchangedByReaders
    <3>2. CASE k \notin Items \ Live
      <4> DEFINE w == [walk EXCEPT !.pc = "loaded", !.key = k, !.from = Now]
      <4>1. w \in ReaderState /\ w.pc = "loaded" /\ w.key = k /\ w.from = Now
        BY <1>0 DEF ReaderState
      <4>2. w.seen = walk.seen /\ w.again = walk.again /\ w.owed = walk.owed
        BY DEF ReaderState
      <4>3. reader' = [reader EXCEPT ![r] = w] /\ UNCHANGED <<cache, created, history, edit>>
        BY <2>2, <3>2 DEF Load, UnchangedByReaders
      <4> HIDE DEF w
      <4>4. Goes(w, w.key)
        BY <1>2, <4>1, <4>2 DEF Goes
      <4>5. QED
        BY <1>0, <4>1, <4>3, <4>4
    <3>3. QED
      BY <3>1, <3>2
  <2>3. QED
    BY <1>2, <2>1, <2>2 DEF Find
<1>3. CASE FindFirstPage(r)
  <2> DEFINE walk == [NoWalk EXCEPT !.owed = Items]
  <2>1. walk \in ReaderState /\ walk.again = {} /\ walk.seen = {}
    BY DEF NoWalk, ReaderState
  <2>2. First \in Keys /\ Find(r, First, walk)
    BY <1>3 DEF FindFirstPage, Keys, Cursors
  <2> HIDE DEF walk
  <2>3. Goes(walk, First)
    BY <2>1, Different DEF Goes
  <2>4. QED
    BY <2>1, <2>2, <2>3, <1>2
<1>4. CASE FindNextPage(r)
  <2>1. PICK k : k = reader[r].next
    OBVIOUS
  <2>2. Find(r, k, reader[r]) /\ reader[r].pc = "idle" /\ k # None
    BY <1>4, <2>1 DEF FindNextPage, Find
  <2>3. Rests(reader[r])
    BY <2>2 DEF Inv, WalkInv
  <2>4. k \in Times /\ Goes(reader[r], k)
    BY <2>1, <2>2, <2>3 DEF Rests
  <2>5. k \in Keys
    BY <2>4 DEF Keys, Cursors
  <2>6. PICK walk \in ReaderState : walk = reader[r]
    BY <1>0
  <2>7. Goes(walk, k) /\ Find(r, k, walk)
    BY <2>2, <2>4, <2>6
  <2>8. QED
    BY <2>5, <2>7, <1>2
<1>5. CASE \E i \in Items : FindOne(r, i)
  <2>1. PICK i \in Items : Find(r, i, NoWalk)
    BY <1>5 DEF FindOne
  <2>2. i \in Keys /\ i \notin Times
    BY Different DEF Keys
  <2>3. NoWalk \in ReaderState /\ Goes(NoWalk, i)
    BY <2>2, NoWalkRests DEF Goes, NoWalk
  <2>4. QED
    BY <2>1, <2>2, <2>3, <1>2
<1>6. CASE Fill(r) \/ FillFails(r)
  <2>0. Answer(r)
    BY <1>6 DEF Fill, FillFails
  <2>1. reader[r].pc = "loaded" /\ UNCHANGED <<created, history, edit>>
    BY <2>0 DEF Answer, UnchangedByReaders
  <2>2. PICK k \in Keys : k = reader[r].key
    BY <2>1 DEF Inv, AnswerInv
  <2>3. PICK n \in 1 .. Now : n = reader[r].from
    BY <2>1 DEF Inv, AnswerInv
  <2>4. PICK walk \in ReaderState : walk = reader[r]
    BY <1>0
  <2>5. Goes(walk, k)
    BY <2>1, <2>2, <2>4 DEF Inv, WalkInv
  <2>6. PICK w \in Answered(walk, k, n) : reader' = [reader EXCEPT ![r] = w]
    BY <2>0, <2>2, <2>3, <2>4 DEF Answer
  <2>7. w \in ReaderState /\ w.pc = "idle" /\ Rests(w)
    BY <2>5, <2>6, <1>1
  <2>8. CASE Fill(r)
    <3>1. cache' = [cache EXCEPT ![k] = [from |-> reader[r].from, since |-> Deleting(k)]]
      BY <2>2, <2>8 DEF Fill
    <3>2. reader[r].from \in 1 .. Now
      BY <2>3
    <3>3. QED
      BY <2>1, <2>6, <2>7, <3>1, <3>2
  <2>9. CASE FillFails(r)
    BY <2>1, <2>6, <2>7, <2>9 DEF FillFails
  <2>10. QED
    BY <1>6, <2>8, <2>9
<1>7. QED
  BY <1>3, <1>4, <1>5, <1>6 DEF ReaderNext

-----------------------------------------------------------------------------
(* Edits *)

\* The states of the catalogue that an answer may be of stay as they are.
Grows ==
  /\ history' \in Seq(SUBSET Items) /\ history' # << >>
  /\ Now <= Now' /\ Now' \in Nat
  /\ \A n \in 1 .. Now : history'[n] = history[n]

\* An item that has its time keeps it.
TimesStay == \A i \in Items : created[i] \in Times => created'[i] = created[i]

\* An edit changes its own record; the states that were are kept.
LEMMA EditStep ==
  ASSUME Inv, NEW e \in Edits, EditNext(e)
  PROVE  /\ edit' \in [Edits -> EditState]
         /\ \A f \in Edits \ {e} : edit'[f] = edit[f]
         /\ created' \in [Items -> Times \cup {None}] /\ TimesStay /\ Grows
         /\ edit'[e].pc \notin {"start", "failed"} =>
              edit'[e].item \in Items /\ created'[edit'[e].item] \in Times
         /\ \A n \in (Now + 1) .. Now' : \A i \in history'[n] : created'[i] \in Times
         /\ UNCHANGED reader
         /\ \A k \in Keys : cache'[k] = cache[k] \/ cache'[k] = None
         /\ cache' \in [Keys -> Entry \cup {None}]
<1>0. /\ edit \in [Edits -> EditState] /\ edit[e] \in EditState
      /\ created \in [Items -> Times \cup {None}] /\ cache \in [Keys -> Entry \cup {None}]
      /\ history \in Seq(SUBSET Items) /\ history # << >> /\ Now \in Nat
  BY DEF Inv, TypeOK, Now
<1>1. ASSUME UNCHANGED history
      PROVE  Grows /\ (Now + 1) .. Now' = {}
  <2>1. Now' = Now
    BY <1>1 DEF Now
  <2>2. Now <= Now' /\ Now' \in Nat /\ (Now + 1) .. Now' = {}
    BY <1>0, <2>1
  <2>3. \A n \in 1 .. Now : history'[n] = history[n]
    BY <1>1
  <2>4. history' \in Seq(SUBSET Items) /\ history' # << >>
    BY <1>0, <1>1
  <2>5. QED
    BY <2>2, <2>3, <2>4 DEF Grows
<1>2. ASSUME NEW op \in Ops, NEW i \in Items, Begin(e, op, i)
      PROVE  /\ edit' \in [Edits -> EditState]
             /\ \A f \in Edits \ {e} : edit'[f] = edit[f]
             /\ edit'[e].item = i
  <2>1. [edit[e] EXCEPT !.op = op, !.pc = "locked", !.item = i] \in EditState
    BY <1>0 DEF EditState
  <2>2. [edit[e] EXCEPT !.op = op, !.pc = "locked", !.item = i].item = i
    BY <1>0 DEF EditState
  <2>3. edit' = [edit EXCEPT ![e] = [edit[e] EXCEPT !.op = op, !.pc = "locked", !.item = i]]
    BY <1>0, <1>2 DEF Begin
  <2> HIDE <1>2
  <2>4. QED
    BY <1>0, <2>1, <2>2, <2>3
<1>3. {"create", "update", "remove", "stock"} \subseteq Ops
  BY DEF Ops
<1>4. CASE \E i \in Items : AdminCreate(e, i)
  <2>1. PICK i \in Items : AdminCreate(e, i)
    BY <1>4
  <2>2. PICK t \in Times : created' = [created EXCEPT ![i] = t]
    BY <2>1 DEF AdminCreate
  <2>3. Begin(e, "create", i) /\ created[i] = None /\ UNCHANGED <<history, cache, reader>>
    BY <2>1 DEF AdminCreate
  <2>4. created' \in [Items -> Times \cup {None}] /\ TimesStay /\ created'[i] \in Times
    BY <1>0, <2>2, <2>3, Different DEF TimesStay
  <2>5. QED
    BY <2>3, <2>4, <1>0, <1>1, <1>2, <1>3
<1>5. CASE \E i \in Items : AdminUpdate(e, i) \/ AdminRemove(e, i) \/ ChangeStock(e, i)
  <2>1. PICK i \in Items : AdminUpdate(e, i) \/ AdminRemove(e, i) \/ ChangeStock(e, i)
    BY <1>5
  <2>2. PICK op \in Ops : Begin(e, op, i)
    BY <2>1, <1>3 DEF AdminUpdate, AdminRemove, ChangeStock
  <2>3. UNCHANGED <<created, history, cache, reader>>
    BY <2>1 DEF AdminUpdate, AdminRemove, ChangeStock, UnchangedByEdits
  <2>4. i \in Live \/ created[i] # None
    BY <2>1 DEF AdminUpdate, AdminRemove, ChangeStock
  <2>5. created[i] \in Times
    <3>1. Now \in 1 .. Now
      BY <1>0 DEF Now
    <3>2. QED
      BY <2>4, <3>1, <1>0 DEF Inv, AnswerInv, Live
  <2>6. QED
    BY <2>2, <2>3, <2>5, <1>0, <1>1, <1>2 DEF TimesStay
<1>6. ASSUME NEW x \in EditState, edit' = [edit EXCEPT ![e] = x],
             x.pc # "failed" => edit[e].pc \notin {"start", "failed"} /\ x.item = edit[e].item,
             UNCHANGED created
      PROVE  /\ edit' \in [Edits -> EditState]
             /\ \A f \in Edits \ {e} : edit'[f] = edit[f]
             /\ created' \in [Items -> Times \cup {None}] /\ TimesStay
             /\ edit'[e].pc \notin {"start", "failed"} =>
                  edit'[e].item \in Items /\ created'[edit'[e].item] \in Times
  BY <1>0, <1>6 DEF TimesStay, Inv, EditInv
<1>7. CASE Write(e) \/ Evict(e) \/ EvictPages(e)
  <2>1. PICK pc \in {"written", "evicting", "evicted"}, saved \in BOOLEAN,
             scanned \in SUBSET Cursors :
          /\ edit' = [edit EXCEPT ![e] = [@ EXCEPT !.pc = pc, !.saved = saved,
                                                   !.scanned = scanned]]
    <3>0. edit[e].saved \in BOOLEAN /\ edit[e].scanned \in SUBSET Cursors
      BY <1>0 DEF EditState
    <3>1. CASE Write(e)
      <4>1. PICK live \in Outcomes(e) :
              edit' = [edit EXCEPT ![e] = [@ EXCEPT !.pc = "written", !.saved = live]]
        BY <3>1 DEF Write
      <4>2. live \in BOOLEAN
        <5>1. (edit[e].item \in Live) \in BOOLEAN
          OBVIOUS
        <5>2. PICK b \in BOOLEAN : b = (edit[e].item \in Live)
          BY <5>1
        <5>3. live \in {TRUE} \/ live \in {TRUE, b} \/ live \in {FALSE} \/ live \in {b}
          BY <4>1, <5>2, Zenon DEF Outcomes
        <5>4. QED
          BY <5>2, <5>3
      <4>3. [edit[e] EXCEPT !.pc = "written", !.saved = live]
              = [edit[e] EXCEPT !.pc = "written", !.saved = live, !.scanned = edit[e].scanned]
        BY <1>0 DEF EditState
      <4>4. QED
        BY <3>0, <4>1, <4>2, <4>3
    <3>2. CASE Evict(e)
      <4>1. PICK sc : sc = {k \in Cursors : cache[k] # None}
        OBVIOUS
      <4>2. edit' = [edit EXCEPT ![e] = [@ EXCEPT !.pc = "evicting", !.scanned = sc]]
        BY <3>2, <4>1 DEF Evict
      <4>3. [edit[e] EXCEPT !.pc = "evicting", !.scanned = sc]
              = [edit[e] EXCEPT !.pc = "evicting", !.saved = edit[e].saved, !.scanned = sc]
        BY <1>0 DEF EditState
      <4>4. sc \in SUBSET Cursors
        BY <4>1
      <4>5. QED
        BY <3>0, <4>2, <4>3, <4>4
    <3>3. CASE EvictPages(e)
      <4>1. edit' = [edit EXCEPT ![e] = [@ EXCEPT !.pc = "evicted", !.scanned = {}]]
        BY <3>3 DEF EvictPages
      <4>2. [edit[e] EXCEPT !.pc = "evicted", !.scanned = {}]
              = [edit[e] EXCEPT !.pc = "evicted", !.saved = edit[e].saved, !.scanned = {}]
        BY <1>0 DEF EditState
      <4>3. QED
        BY <3>0, <4>1, <4>2
    <3>4. QED
      BY <1>7, <3>1, <3>2, <3>3
  <2> DEFINE x == [edit[e] EXCEPT !.pc = pc, !.saved = saved, !.scanned = scanned]
  <2>2. x \in EditState /\ x.item = edit[e].item
    BY <1>0, <2>1 DEF EditState
  <2>3. edit' = [edit EXCEPT ![e] = x]
    BY <1>0, <2>1
  <2>4. edit[e].pc \notin {"start", "failed"} /\ UNCHANGED <<created, history, reader>>
    BY <1>7 DEF Write, Evict, EvictPages, UnchangedByEdits
  <2>5. \A k \in Keys : cache'[k] = cache[k] \/ cache'[k] = None
    BY <1>0, <1>7 DEF Write, Evict, EvictPages, UnchangedByEdits
  <2>6. cache' \in [Keys -> Entry \cup {None}]
    BY <1>0, <1>7 DEF Write, Evict, EvictPages, UnchangedByEdits
  <2> HIDE DEF x
  <2>7. QED
    BY <2>2, <2>3, <2>4, <2>5, <2>6, <1>1, <1>6
<1>8. CASE Commit(e)
  <2> DEFINE x == [edit[e] EXCEPT !.pc = "committed", !.saved = TRUE]
             live == IF edit[e].saved THEN Live \cup {edit[e].item} ELSE Live \ {edit[e].item}
  <2>1. /\ edit' = [edit EXCEPT ![e] = x] /\ history' = Append(history, live)
        /\ edit[e].pc \in {"written", "evicted"} /\ UNCHANGED <<created, cache, reader>>
    BY <1>0, <1>8 DEF Commit
  <2>2. x \in EditState /\ x.item = edit[e].item
    BY <1>0 DEF EditState
  <2>3. edit[e].item \in Items /\ created[edit[e].item] \in Times
    BY <2>1 DEF Inv, EditInv
  <2>4. Now \in 1 .. Now /\ Live \in SUBSET Items /\ \A i \in Live : created[i] \in Times
    <3>1. Now \in 1 .. Now
      BY <1>0 DEF Now
    <3>2. QED
      BY <3>1, <1>0 DEF Inv, AnswerInv, Live, Now
  <2>5. live \in SUBSET Items /\ \A i \in live : created[i] \in Times
    BY <2>3, <2>4
  <2> HIDE DEF x, live
  <2>6. /\ history' \in Seq(SUBSET Items) /\ Now' = Now + 1
        /\ history'[Now + 1] = live /\ \A n \in 1 .. Now : history'[n] = history[n]
    BY <1>0, <2>1, <2>5 DEF Now
  <2>7. history' # << >> /\ Now <= Now' /\ Now' \in Nat /\ (Now + 1) .. Now' = {Now + 1}
    BY <1>0, <2>6 DEF Now
  <2>8. Grows
    BY <2>6, <2>7 DEF Grows
  <2>9. QED
    BY <2>1, <2>2, <2>5, <2>6, <2>7, <2>8, <1>0, <1>6
<1>9. CASE Abort(e)
  <2> DEFINE x == [NoEdit EXCEPT !.pc = "failed"]
  <2>1. edit' = [edit EXCEPT ![e] = x] /\ UNCHANGED <<created, history, cache, reader>>
    BY <1>9 DEF Abort, UnchangedByEdits
  <2>2. x \in EditState /\ x.pc = "failed"
    BY DEF NoEdit, EditState, Ops
  <2> HIDE DEF x
  <2>3. QED
    BY <2>1, <2>2, <1>0, <1>1, <1>6
<1>10. QED
  BY <1>4, <1>5, <1>7, <1>8, <1>9 DEF EditNext

-----------------------------------------------------------------------------
(* The invariant *)

LEMMA Steps ==
  ASSUME Next
  PROVE  \/ \E r \in Readers : ReaderNext(r)
         \/ \E e \in Edits : EditNext(e)
         \/ \E k \in Keys : Lapse(k)
  BY DEF Next

LEMMA InvInit == Init => Inv
<1>1. SUFFICES ASSUME Init
               PROVE  Inv
  OBVIOUS
<1>2. /\ created \in [Items -> Times \cup {None}]
      /\ history = << {i \in Items : created[i] # None} >>
      /\ edit = [e \in Edits |-> NoEdit] /\ cache = [k \in Keys |-> None]
      /\ reader = [r \in Readers |-> NoWalk]
  BY <1>1 DEF Init
<1>3. NoEdit \in EditState /\ NoEdit.pc = "start" /\ NoWalk \in ReaderState
      /\ NoWalk.pc = "idle" /\ Rests(NoWalk)
  BY NoWalkRests DEF NoEdit, EditState, Ops
<1>4. history \in Seq(SUBSET Items) /\ history # << >> /\ Now = 1
      /\ history[1] = {i \in Items : created[i] # None}
  BY <1>2 DEF Now
<1>5. TypeOK
  BY <1>2, <1>3, <1>4 DEF TypeOK
<1>6. AnswerInv
  <2>1. \A n \in 1 .. Now : \A i \in history[n] : created[i] \in Times
    BY <1>2, <1>4
  <2>2. QED
    BY <2>1, <1>2, <1>3 DEF AnswerInv
<1>7. EditInv /\ EvictInv /\ WalkInv
  BY <1>2, <1>3 DEF EditInv, EvictInv, WalkInv
<1>8. QED
  BY <1>5, <1>6, <1>7 DEF Inv

\* Answers stay answers when times stay and the catalogue grows.
LEMMA AnswersStay ==
  ASSUME Inv, Grows, TimesStay,
         \A n \in (Now + 1) .. Now' : \A i \in history'[n] : created'[i] \in Times,
         \A k \in Keys : cache'[k] # None => cache'[k] = cache[k] \/ cache'[k].from \in 1 .. Now,
         \A r \in Readers : reader'[r].pc = "loaded" =>
           reader'[r] = reader[r] \/ (reader'[r].key \in Keys /\ reader'[r].from \in 1 .. Now)
  PROVE  AnswerInv'
<1>0. Now \in Nat /\ Now' \in Nat /\ Now <= Now' /\ history \in Seq(SUBSET Items)
  BY DEF Inv, TypeOK, Now, Grows
<1>1. \A n \in 1 .. Now : n \in 1 .. Now'
  BY <1>0
<1>2. ASSUME NEW n \in 1 .. Now', NEW i \in history'[n]
      PROVE  created'[i] \in Times
  <2>1. CASE n \in 1 .. Now
    <3>1. history'[n] = history[n] /\ history[n] \in SUBSET Items
      BY <2>1, <1>0 DEF Grows, Now
    <3>2. created[i] \in Times /\ i \in Items
      BY <3>1, <2>1, <1>2 DEF Inv, AnswerInv
    <3>3. QED
      BY <3>2 DEF TimesStay
  <2>2. CASE n \in (Now + 1) .. Now'
    BY <2>2, <1>2
  <2>3. QED
    BY <1>0, <1>2, <2>1, <2>2
<1>3. \A k \in Keys : cache'[k] # None => cache'[k].from \in 1 .. Now'
  BY <1>1 DEF Inv, AnswerInv
<1>4. \A r \in Readers : reader'[r].pc = "loaded" =>
        reader'[r].key \in Keys /\ reader'[r].from \in 1 .. Now'
  BY <1>1 DEF Inv, AnswerInv
<1>5. QED
  BY <1>2, <1>3, <1>4 DEF AnswerInv

\* What a walk has seen and is owed does not get another time.
LEMMA GoesStays ==
  ASSUME TimesStay, NEW walk \in ReaderState, NEW k, Goes(walk, k)
  PROVE  /\ walk.again = {}
         /\ \A i \in walk.seen : created'[i] \in Times
         /\ k \in Times =>
              /\ \A i \in walk.seen : created'[i] >= k
              /\ \A i \in walk.owed : created'[i] \in Times /\ created'[i] < k
         /\ k \notin Times => walk.seen = {}
<1>1. walk.seen \subseteq Items /\ walk.owed \subseteq Items
  BY DEF ReaderState
<1>2. QED
  BY <1>1 DEF Goes, TimesStay

LEMMA WalksStay ==
  ASSUME Inv, TimesStay, UNCHANGED reader
  PROVE  WalkInv'
<1>1. SUFFICES ASSUME NEW r \in Readers
               PROVE  /\ reader[r].pc = "idle" => Rests(reader[r])'
                      /\ reader[r].pc = "loaded" => Goes(reader[r], reader[r].key)'
  BY DEF WalkInv
<1>2. PICK walk \in ReaderState : walk = reader[r]
  BY DEF Inv, TypeOK
<1>3. reader'[r] = walk
  BY <1>2
<1>4. CASE walk.pc = "idle"
  <2>1. Rests(walk)
    BY <1>2, <1>4 DEF Inv, WalkInv
  <2>2. PICK k : k = walk.next
    OBVIOUS
  <2>3. Goes(walk, k)
    BY <2>1, <2>2 DEF Rests
  <2>4. Goes(walk, k)'
    BY <2>3, GoesStays DEF Goes
  <2>5. QED
    BY <2>1, <2>2, <2>4, <1>2, <1>3, <1>4 DEF Rests, Goes
<1>5. CASE walk.pc = "loaded"
  <2>1. PICK k : k = walk.key
    OBVIOUS
  <2>2. Goes(walk, k)
    BY <2>1, <1>2, <1>5 DEF Inv, WalkInv
  <2>3. Goes(walk, k)'
    BY <2>2, GoesStays DEF Goes
  <2>4. QED
    BY <2>1, <2>3, <1>2, <1>3, <1>5 DEF Goes
<1>6. QED
  BY <1>2, <1>4, <1>5

LEMMA ReaderKeepsInv ==
  ASSUME Inv, NEW r \in Readers, ReaderNext(r)
  PROVE  Inv'
<1>0. /\ created \in [Items -> Times \cup {None}] /\ history \in Seq(SUBSET Items)
      /\ history # << >> /\ edit \in [Edits -> EditState]
      /\ cache \in [Keys -> Entry \cup {None}] /\ reader \in [Readers -> ReaderState]
      /\ Now \in Nat
  BY DEF Inv, TypeOK, Now
<1>1. PICK w \in ReaderState :
           /\ reader' = [reader EXCEPT ![r] = w]
           /\ \/ w.pc = "idle" /\ Rests(w)
              \/ w.pc = "loaded" /\ w.key \in Keys /\ w.from \in 1 .. Now /\ Goes(w, w.key)
           /\ \/ UNCHANGED cache
              \/ \E k \in Keys :
                   cache' = [cache EXCEPT ![k] = [from |-> reader[r].from, since |-> Deleting(k)]]
                   /\ reader[r].from \in 1 .. Now
           /\ UNCHANGED <<created, history, edit>>
  BY ReaderStep
<1>2. reader' \in [Readers -> ReaderState] /\ reader'[r] = w
      /\ \A q \in Readers \ {r} : reader'[q] = reader[q]
  BY <1>0, <1>1
<1>3. Now' = Now /\ TimesStay /\ Grows
  BY <1>0, <1>1 DEF Now, TimesStay, Grows
<1>4. ASSUME NEW k \in Keys, reader[r].from \in 1 .. Now,
             cache' = [cache EXCEPT ![k] = [from |-> reader[r].from, since |-> Deleting(k)]]
      PROVE  /\ cache' \in [Keys -> Entry \cup {None}]
             /\ cache'[k].from \in 1 .. Now /\ cache'[k].since = Deleting(k)
             /\ \A j \in Keys \ {k} : cache'[j] = cache[j]
  <2>1. Deleting(k) \in SUBSET Edits
    BY DEF Deleting
  <2>2. PICK n \in 1 .. Now, d \in SUBSET Edits : n = reader[r].from /\ d = Deleting(k)
    BY <1>4, <2>1
  <2>3. [from |-> n, since |-> d] \in Entry
    BY DEF Entry
  <2>4. cache' = [cache EXCEPT ![k] = [from |-> n, since |-> d]]
    BY <1>4, <2>2
  <2>5. QED
    BY <2>2, <2>3, <2>4, <1>0
<1>5. cache' \in [Keys -> Entry \cup {None}]
      /\ \A k \in Keys : cache'[k] # None => cache'[k] = cache[k] \/ cache'[k].from \in 1 .. Now
  BY <1>0, <1>1, <1>4
<1>6. TypeOK'
  BY <1>0, <1>1, <1>2, <1>5 DEF TypeOK
<1>7. AnswerInv'
  <2>1. \A n \in (Now + 1) .. Now' : \A i \in history'[n] : created'[i] \in Times
    BY <1>0, <1>3
  <2>2. \A q \in Readers : reader'[q].pc = "loaded" =>
          reader'[q] = reader[q] \/ (reader'[q].key \in Keys /\ reader'[q].from \in 1 .. Now)
    BY <1>1, <1>2
  <2>3. QED
    BY <2>1, <2>2, <1>3, <1>5, AnswersStay
<1>8. EditInv'
  BY <1>1 DEF Inv, EditInv
<1>9. EvictInv'
  <2>1. CASE UNCHANGED cache
    BY <1>1, <2>1 DEF Inv, EvictInv, Affects
  <2>2. ASSUME NEW k \in Keys, reader[r].from \in 1 .. Now,
               cache' = [cache EXCEPT ![k] = [from |-> reader[r].from, since |-> Deleting(k)]]
        PROVE  EvictInv'
    <3>1. cache'[k].since = Deleting(k) /\ \A j \in Keys \ {k} : cache'[j] = cache[j]
      BY <1>4, <2>2
    <3>2. ASSUME NEW e \in Edits, NEW j \in Keys, edit[e].op # "stock", Affects(e, j),
                 cache'[j] # None
          PROVE  /\ edit[e].pc \in {"evicted", "committed"} => e \in cache'[j].since
                 /\ edit[e].pc = "evicting" => e \in cache'[j].since \/ j \in edit[e].scanned
      <4>1. CASE j = k
        BY <3>1, <3>2, <4>1 DEF Deleting
      <4>2. CASE j # k
        BY <3>1, <3>2, <4>2 DEF Inv, EvictInv
      <4>3. QED
        BY <4>1, <4>2
    <3>3. QED
      BY <3>2, <1>1 DEF EvictInv, Affects
  <2>3. QED
    BY <1>1, <2>1, <2>2
<1>10. WalkInv'
  <2>1. \A q \in Readers : /\ reader'[q].pc = "idle" => Rests(reader'[q])
                           /\ reader'[q].pc = "loaded" => Goes(reader'[q], reader'[q].key)
    BY <1>1, <1>2 DEF Inv, WalkInv
  <2>2. QED
    BY <2>1, <1>1 DEF WalkInv, Rests, Goes
<1>11. QED
  BY <1>6, <1>7, <1>8, <1>9, <1>10 DEF Inv

LEMMA EditKeepsInv ==
  ASSUME Inv, NEW e \in Edits, EditNext(e)
  PROVE  Inv'
<1>1. /\ edit' \in [Edits -> EditState]
      /\ \A f \in Edits \ {e} : edit'[f] = edit[f]
      /\ created' \in [Items -> Times \cup {None}] /\ TimesStay /\ Grows
      /\ edit'[e].pc \notin {"start", "failed"} =>
           edit'[e].item \in Items /\ created'[edit'[e].item] \in Times
      /\ \A n \in (Now + 1) .. Now' : \A i \in history'[n] : created'[i] \in Times
      /\ UNCHANGED reader
      /\ \A k \in Keys : cache'[k] = cache[k] \/ cache'[k] = None
      /\ cache' \in [Keys -> Entry \cup {None}]
  BY EditStep
<1>2. TypeOK'
  BY <1>1 DEF Inv, TypeOK, Grows
<1>3. AnswerInv'
  BY <1>1, AnswersStay
<1>4. EditInv'
  <2>1. SUFFICES ASSUME NEW f \in Edits, edit'[f].pc \notin {"start", "failed"}
                 PROVE  edit'[f].item \in Items /\ created'[edit'[f].item] \in Times
    BY DEF EditInv
  <2>2. CASE f = e
    BY <2>1, <2>2, <1>1
  <2>3. CASE f # e
    BY <2>1, <2>3, <1>1 DEF Inv, EditInv, TimesStay
  <2>4. QED
    BY <2>2, <2>3
<1>5. EvictInv'
  <2>0. edit \in [Edits -> EditState] /\ edit[e] \in EditState
        /\ cache \in [Keys -> Entry \cup {None}]
    BY DEF Inv, TypeOK
  <2>1. SUFFICES ASSUME NEW f \in Edits, NEW k \in Keys, edit'[f].op # "stock",
                        k = edit'[f].item \/ k \in Cursors, cache'[k] # None
                 PROVE  /\ edit'[f].pc \in {"evicted", "committed"} => f \in cache'[k].since
                        /\ edit'[f].pc = "evicting" =>
                             f \in cache'[k].since \/ k \in edit'[f].scanned
    BY DEF EvictInv, Affects
  <2>2. cache'[k] = cache[k] /\ cache[k] # None
    BY <2>1, <1>1
  <2>3. CASE f # e
    BY <2>1, <2>2, <2>3, <1>1 DEF Inv, EvictInv, Affects
  <2>4. CASE f = e
    <3>1. CASE Evict(e)
      <4>1. k # edit[e].item
        BY <3>1, <2>0, <2>1 DEF Evict
      <4>2. PICK sc : sc = {j \in Cursors : cache[j] # None}
        OBVIOUS
      <4>3. edit' = [edit EXCEPT ![e] = [@ EXCEPT !.pc = "evicting", !.scanned = sc]]
        BY <3>1, <4>2 DEF Evict
      <4>4. edit'[e].pc = "evicting" /\ edit'[e].scanned = sc /\ edit'[e].item = edit[e].item
        BY <4>3, <2>0 DEF EditState
      <4>5. QED
        BY <4>1, <4>2, <4>4, <2>1, <2>2, <2>4
    <3>2. CASE EvictPages(e)
      <4>1. edit[e].pc = "evicting" /\ k \notin edit[e].scanned
        BY <3>2, <2>0, <2>1 DEF EvictPages
      <4>2. edit'[e].pc = "evicted" /\ edit'[e].op = edit[e].op /\ edit'[e].item = edit[e].item
        BY <3>2, <2>0 DEF EvictPages, EditState
      <4>3. QED
        BY <4>1, <4>2, <2>1, <2>2, <2>4 DEF Inv, EvictInv, Affects
    <3>3. CASE Commit(e)
      <4>1. edit'[e].pc = "committed" /\ edit'[e].op = edit[e].op /\ edit'[e].item = edit[e].item
        BY <3>3, <2>0 DEF Commit, EditState
      <4>2. edit[e].pc = "evicted"
        BY <3>3, <4>1, <2>1, <2>4 DEF Commit
      <4>3. QED
        BY <4>1, <4>2, <2>1, <2>2, <2>4 DEF Inv, EvictInv, Affects
    <3>4. CASE edit'[e].pc \notin {"evicting", "evicted", "committed"}
      BY <3>4, <2>4
    <3>5. CASE Write(e)
      <4>1. PICK live \in Outcomes(e) :
              edit' = [edit EXCEPT ![e] = [@ EXCEPT !.pc = "written", !.saved = live]]
        BY <3>5 DEF Write
      <4>2. edit'[e].pc = "written"
        BY <4>1, <2>0 DEF EditState
      <4>3. QED
        BY <4>2, <3>4
    <3>6. CASE Abort(e)
      <4>1. edit'[e].pc = "failed"
        BY <3>6, <2>0 DEF Abort, NoEdit
      <4>2. QED
        BY <4>1, <3>4
    <3>7. ASSUME NEW op, NEW i, Begin(e, op, i)
          PROVE  edit'[e].pc = "locked"
      BY <3>7, <2>0 DEF Begin, EditState
    <3>8. CASE \E i \in Items : AdminCreate(e, i) \/ AdminUpdate(e, i) \/ AdminRemove(e, i)
                                \/ ChangeStock(e, i)
      <4>1. edit'[e].pc = "locked"
        BY <3>7, <3>8 DEF AdminCreate, AdminUpdate, AdminRemove, ChangeStock
      <4>2. QED
        BY <4>1, <3>4
    <3>9. QED
      BY <3>1, <3>2, <3>3, <3>5, <3>6, <3>8 DEF EditNext
  <2>5. QED
    BY <2>3, <2>4
<1>6. WalkInv'
  BY <1>1, WalksStay
<1>7. QED
  BY <1>2, <1>3, <1>4, <1>5, <1>6 DEF Inv

LEMMA LapseKeepsInv ==
  ASSUME Inv, NEW k \in Keys, Lapse(k)
  PROVE  Inv'
<1>0. cache \in [Keys -> Entry \cup {None}] /\ Now \in Nat /\ history \in Seq(SUBSET Items)
      /\ history # << >>
  BY DEF Inv, TypeOK, Now
<1>1. UNCHANGED <<created, history, edit, reader>> /\ Now' = Now
  BY DEF Lapse, Now
<1>2. cache' \in [Keys -> Entry \cup {None}]
      /\ \A j \in Keys : cache'[j] # None => cache'[j] = cache[j]
  BY <1>0 DEF Lapse
<1>3. TimesStay /\ Grows
  BY <1>0, <1>1 DEF TimesStay, Grows
<1>4. TypeOK' /\ EditInv'
  BY <1>1, <1>2 DEF Inv, TypeOK, EditInv
<1>5. AnswerInv'
  <2>1. \A n \in (Now + 1) .. Now' : \A i \in history'[n] : created'[i] \in Times
    BY <1>0, <1>1
  <2>2. QED
    BY <2>1, <1>1, <1>2, <1>3, AnswersStay
<1>6. EvictInv'
  BY <1>1, <1>2 DEF Inv, EvictInv, Affects
<1>7. WalkInv'
  BY <1>1, <1>3, WalksStay
<1>8. QED
  BY <1>4, <1>5, <1>6, <1>7 DEF Inv

\* The invariant, from which the theorems below follow.
THEOREM InvariantHolds == Spec => []Inv
<1>1. Inv /\ [Next]_vars => Inv'
  <2>1. CASE UNCHANGED vars
    BY <2>1 DEF vars, Inv, TypeOK, AnswerInv, EditInv, EvictInv, WalkInv, Affects, Rests, Goes, Now
  <2>2. QED
    BY <2>1, Steps, ReaderKeepsInv, EditKeepsInv, LapseKeepsInv
<1>2. QED
  BY <1>1, InvInit, PTL DEF Spec

\* The variables have their types: what is cached is an answer, what is written is an item.
THEOREM TypeCorrect == Spec => []TypeOK
<1>1. Inv => TypeOK
  BY DEF Inv
<1>2. QED
  BY <1>1, InvariantHolds, PTL

\* No client that walks the pages sees an item twice, however stale the pages are that the
\* cache gives it (item.repository.ts, createdAt < startingAfter).
THEOREM WalkSeesOnceHolds == Spec => []WalkSeesOnce
<1>1. Inv => WalkSeesOnce
  BY DEF Inv, TypeOK, ReaderState, WalkInv, WalkSeesOnce, Rests, Goes
<1>2. QED
  BY <1>1, InvariantHolds, PTL

\* A walk at its end has seen all that was there throughout, except for items of the
\* millisecond of one that it has seen (cursor-pagination: the cursor has no more).
THEOREM WalkSeesAllHolds == Spec => []WalkSeesAll
<1>1. Inv => WalkSeesAll
  BY DEF Inv, WalkInv, WalkSeesAll, Rests
<1>2. QED
  BY <1>1, InvariantHolds, PTL

\* What an edit made stale is not left behind by it, whatever is cached between the KEYS and
\* the DEL of deleteBulk (cache.service.ts).
THEOREM EditsEvictHolds == Spec => []EditsEvict
<1>1. Inv => EditsEvict
  BY DEF Inv, EvictInv, EditsEvict
<1>2. QED
  BY <1>1, InvariantHolds, PTL
=============================================================================
