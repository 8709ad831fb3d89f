------------------------------ MODULE Checkout ------------------------------
(***************************************************************************)
(* The creation of an order: OrdersService.publicCreate takes the          *)
(* order-create lock of the client's idempotency key, opens a transaction, *)
(* looks the key up in the cache, reads the catalogue, inserts the order,  *)
(* decrements the stock of every line, asks the gateway for a payment,     *)
(* caches the result, commits and gives the lock up.                       *)
(*                                                                         *)
(* The decrements run side by side, each under the item-update lock of its *)
(* item and in a transaction of its own, which commits at once; they       *)
(* compete with ItemsService.adminUpdate, which reads an item, changes it  *)
(* and saves it under the same lock.                                       *)
(***************************************************************************)
EXTENDS Integers, Sequences

CONSTANTS
  Calls,        \* the calls of publicCreate, and the orders they would create
  Keys,         \* the idempotency keys
  KeyOf,        \* the key each call carries
  Items,        \* the items of the catalogue
  LinesOf,      \* the lines of the order each key stands for
  Editors,      \* the administrators' calls of ItemsService.adminUpdate
  InitialStock, \* the stock of each item at first
  NewStocks,    \* the stocks an administrator may set
  MaxCrashes,   \* bound on crashes of processes
  None,         \* no owner, no result, no stock
  Dead          \* the owner of a lock whose holder crashed

Lines == UNION {{c} \X (1 .. Len(LinesOf[KeyOf[c]])) : c \in Calls}

LinesIn(c) == {l \in Lines : l[1] = c}

Item(l) == LinesOf[KeyOf[l[1]]][l[2]].item

Quantity(l) == LinesOf[KeyOf[l[1]]][l[2]].quantity

\* Who takes an item's lock.
Holders == Lines \cup Editors

ASSUME CheckoutAssumption ==
  /\ KeyOf \in [Calls -> Keys]
  /\ LinesOf \in [Keys -> Seq([item : Items, quantity : Nat \ {0}])]
  /\ InitialStock \in [Items -> Nat]
  /\ NewStocks \subseteq Nat
  /\ MaxCrashes \in Nat
  /\ None \notin Calls \cup Holders \cup Items \cup Int
  /\ Dead \notin Calls \cup Holders
  /\ Editors \cap Lines = {}

VARIABLES
  stock,       \* the committed stock column of each item
  due,         \* history: the stock that decrements and administrators left
  call,        \* the calls of publicCreate
  line,        \* the decrement of each line of each call
  edit,        \* the calls of adminUpdate
  createLock,  \* the owner of order-create:<key>
  itemLock,    \* the owner of item-update:<id>
  cache,       \* the cached result of each key
  orders,      \* the orders whose transaction committed
  intents,     \* the calls for which the gateway made a payment
  lapsed,      \* the keys and items of which a live holder's lease, or the cache, ran out
  crashes

vars == <<stock, due, call, line, edit, createLock, itemLock, cache, orders, intents,
          lapsed, crashes>>

CallPcs == {"start", "lookup", "validate", "stock", "decrement", "pay", "save", "commit",
            "unlock", "done", "dead"}

\* "none" is a decrement that was not started, "failed" one that threw or died.
LineStates == {"none", "lock", "update", "taken", "failed"}

\* result is the order the call answers with, None when it throws.
CallState == [pc : CallPcs, read : [Items -> Int], result : Calls \cup {None}]

NothingRead == [i \in Items |-> 0]

\* dto is the stock an administrator sets, None when only other fields change.
EditState == [pc : {"idle", "read", "save"}, item : Items \cup {None},
              dto : NewStocks \cup {None}, stock : Int]

\* A bug: a field is left undefined.
NoEditUndefined == [pc |-> "idle", item |-> None, dto |-> None, stock |-> None]

NoEdit == [pc |-> "idle", item |-> None, dto |-> None, stock |-> 0]

TypeOK ==
  /\ stock \in [Items -> Int]
  /\ due \in [Items -> Int]
  /\ call \in [Calls -> CallState]
  /\ line \in [Lines -> LineStates]
  /\ edit \in [Editors -> EditState]
  /\ \A e \in Editors : edit[e].pc # "idle" => edit[e].item \in Items
  /\ createLock \in [Keys -> Calls \cup {None, Dead}]
  /\ itemLock \in [Items -> Holders \cup {None, Dead}]
  /\ cache \in [Keys -> Calls \cup {None}]
  /\ orders \subseteq Calls
  /\ intents \subseteq Calls
  /\ lapsed \subseteq Keys \cup Items
  /\ crashes \in Nat

Init ==
  /\ stock = InitialStock
  /\ due = InitialStock
  /\ call = [c \in Calls |-> [pc |-> "start", read |-> NothingRead, result |-> None]]
  /\ line = [l \in Lines |-> "none"]
  /\ edit = [e \in Editors |-> NoEdit]
  /\ createLock = [k \in Keys |-> None]
  /\ itemLock = [i \in Items |-> None]
  /\ cache = [k \in Keys |-> None]
  /\ orders = {}
  /\ intents = {}
  /\ lapsed = {}
  /\ crashes = 0

-----------------------------------------------------------------------------
(* OrdersService.publicCreate *)

LockCreate(c) ==
  /\ call[c].pc = "start"
  /\ createLock[KeyOf[c]] = None
  /\ createLock' = [createLock EXCEPT ![KeyOf[c]] = c]
  /\ call' = [call EXCEPT ![c].pc = "lookup"]
  /\ UNCHANGED <<stock, due, line, edit, itemLock, cache, orders, intents, lapsed, crashes>>

\* Redlock gives up after its retries, and the call throws.
LockCreateFails(c) ==
  /\ call[c].pc = "start"
  /\ createLock[KeyOf[c]] # None
  /\ call' = [call EXCEPT ![c].pc = "done"]
  /\ UNCHANGED <<stock, due, line, edit, createLock, itemLock, cache, orders, intents,
                 lapsed, crashes>>

\* getOrExecute: a cached result is answered, in a transaction that does nothing.
Lookup(c) ==
  LET cached == cache[KeyOf[c]]
  IN /\ call[c].pc = "lookup"
     /\ call' = [call EXCEPT ![c] =
                   [@ EXCEPT !.pc = IF cached = None THEN "validate" ELSE "commit",
                             !.result = cached]]
     /\ UNCHANGED <<stock, due, line, edit, createLock, itemLock, cache, orders, intents,
                    lapsed, crashes>>

\* The items are read, without a lock, and the order is inserted.
Validate(c) ==
  /\ call[c].pc = "validate"
  /\ call' = [call EXCEPT ![c] = [@ EXCEPT !.pc = "stock", !.read = stock]]
  /\ UNCHANGED <<stock, due, line, edit, createLock, itemLock, cache, orders, intents,
                 lapsed, crashes>>

\* The lines whose item had too little stock when it was read.
Short(c) ==
  {l \in LinesIn(c) : call[c].read[Item(l)] < Quantity(l)}

\* decrementItemsStock starts one decrement after the other; the first line that
\* is short throws at once, and the ones before it go on unattended.
StartDecrements(c) ==
  /\ call[c].pc = "stock"
  /\ line' = [l \in Lines |-> IF l[1] = c /\ \A s \in Short(c) : l[2] < s[2] THEN "lock"
                            ELSE line[l]]
  /\ call' = [call EXCEPT ![c] = [@ EXCEPT !.pc = IF Short(c) = {} THEN "decrement" ELSE "unlock",
                                           !.read = NothingRead]]
  /\ UNCHANGED <<stock, due, edit, createLock, itemLock, cache, orders, intents, lapsed,
                 crashes>>

\* A bug: Promise.race for Promise.all.
AnyTaken(c) == LinesIn(c) = {} \/ \E l \in LinesIn(c) : line[l] = "taken"

AllTaken(c) == \A l \in LinesIn(c) : line[l] = "taken"

\* Promise.all: every decrement has committed, or the first that throws ends the
\* wait, with the others still under way.
Decremented(c) ==
  /\ call[c].pc = "decrement"
  /\ \/ AllTaken(c) /\ call' = [call EXCEPT ![c].pc = "pay"]
     \/ /\ \E l \in LinesIn(c) : line[l] = "failed"
        /\ call' = [call EXCEPT ![c].pc = "unlock"]
  /\ UNCHANGED <<stock, due, line, edit, createLock, itemLock, cache, orders, intents,
                 lapsed, crashes>>

\* createPayment: the gateway makes the payment, whatever becomes of the order.
CreatePayment(c) ==
  /\ call[c].pc = "pay"
  /\ intents' = intents \cup {c}
  /\ call' = [call EXCEPT ![c].pc = "save"]
  /\ UNCHANGED <<stock, due, line, edit, createLock, itemLock, cache, orders, lapsed, crashes>>

\* A bug: the result is not cached.
SaveResultUncached(c) ==
  /\ call[c].pc = "save"
  /\ call' = [call EXCEPT ![c] = [@ EXCEPT !.pc = "commit", !.result = c]]
  /\ UNCHANGED <<stock, due, line, edit, createLock, itemLock, cache, orders, intents,
                 lapsed, crashes>>

\* The payment's row, the order's paymentId and the notification are written, and
\* getOrExecute caches the result, before the transaction commits.
SaveResult(c) ==
  /\ call[c].pc = "save"
  /\ cache' = [cache EXCEPT ![KeyOf[c]] = c]
  /\ call' = [call EXCEPT ![c] = [@ EXCEPT !.pc = "commit", !.result = c]]
  /\ UNCHANGED <<stock, due, line, edit, createLock, itemLock, orders, intents, lapsed, crashes>>

Commit(c) ==
  /\ call[c].pc = "commit"
  /\ orders' = IF call[c].result = c THEN orders \cup {c} ELSE orders
  /\ call' = [call EXCEPT ![c].pc = "unlock"]
  /\ UNCHANGED <<stock, due, line, edit, createLock, itemLock, cache, intents, lapsed, crashes>>

\* A statement, the cache, the gateway or the commit throws: the transaction rolls
\* back, and with it the order; decrements, payment and cache stay.
Fails(c) ==
  /\ call[c].pc \in {"lookup", "validate", "pay", "save", "commit"}
  /\ call' = [call EXCEPT ![c] = [@ EXCEPT !.pc = "unlock", !.read = NothingRead, !.result = None]]
  /\ UNCHANGED <<stock, due, line, edit, createLock, itemLock, cache, orders, intents,
                 lapsed, crashes>>

\* The lock is given up, if it is still the call's own, and the client is answered.
Unlock(c) ==
  /\ call[c].pc = "unlock"
  /\ createLock' = [createLock EXCEPT ![KeyOf[c]] = IF @ = c THEN None ELSE @]
  /\ call' = [call EXCEPT ![c].pc = "done"]
  /\ UNCHANGED <<stock, due, line, edit, itemLock, cache, orders, intents, lapsed, crashes>>

-----------------------------------------------------------------------------
(* ItemsService.decrementItemStock, once per line *)

\* A bug: a decrement takes no lock.
LockLineAnyway(l) ==
  /\ line[l] = "lock"
  /\ line' = [line EXCEPT ![l] = "update"]
  /\ UNCHANGED <<stock, due, call, edit, createLock, itemLock, cache, orders, intents, lapsed,
                 crashes>>

LockLine(l) ==
  /\ line[l] = "lock"
  /\ itemLock[Item(l)] = None
  /\ itemLock' = [itemLock EXCEPT ![Item(l)] = l]
  /\ line' = [line EXCEPT ![l] = "update"]
  /\ UNCHANGED <<stock, due, call, edit, createLock, cache, orders, intents, lapsed, crashes>>

\* UPDATE items SET stock = stock - quantity, its commit, and the lock is given up.
DecrementStock(l) ==
  /\ line[l] = "update"
  /\ stock' = [stock EXCEPT ![Item(l)] = @ - Quantity(l)]
  /\ due' = [due EXCEPT ![Item(l)] = @ - Quantity(l)]
  /\ itemLock' = [itemLock EXCEPT ![Item(l)] = IF @ = l THEN None ELSE @]
  /\ line' = [line EXCEPT ![l] = "taken"]
  /\ UNCHANGED <<call, edit, createLock, cache, orders, intents, lapsed, crashes>>

\* The lock is not to be had, or the transaction fails.
DecrementFails(l) ==
  /\ line[l] \in {"lock", "update"}
  /\ itemLock' = [itemLock EXCEPT ![Item(l)] = IF @ = l THEN None ELSE @]
  /\ line' = [line EXCEPT ![l] = "failed"]
  /\ UNCHANGED <<stock, due, call, edit, createLock, cache, orders, intents, lapsed, crashes>>

-----------------------------------------------------------------------------
(* ItemsService.adminUpdate *)

LockEdit(e, i) ==
  /\ edit[e].pc = "idle"
  /\ itemLock[i] = None
  /\ itemLock' = [itemLock EXCEPT ![i] = e]
  /\ \E dto \in NewStocks \cup {None} :
       edit' = [edit EXCEPT ![e] = [NoEdit EXCEPT !.pc = "read", !.item = i, !.dto = dto]]
  /\ UNCHANGED <<stock, due, call, line, createLock, cache, orders, intents, lapsed, crashes>>

\* The item as it is committed, with the dto assigned over it.
ReadItem(e) ==
  /\ edit[e].pc = "read"
  /\ edit' = [edit EXCEPT ![e] =
                [@ EXCEPT !.pc = "save",
                          !.stock = IF edit[e].dto = None THEN stock[edit[e].item]
                                    ELSE edit[e].dto]]
  /\ UNCHANGED <<stock, due, call, line, createLock, itemLock, cache, orders, intents, lapsed,
                 crashes>>

\* save() writes the columns in which the item differs from its row, the stock
\* among them when the row has changed since; the commit; the lock is given up.
SaveItem(e) ==
  LET i == edit[e].item
  IN /\ edit[e].pc = "save"
     /\ stock' = [stock EXCEPT ![i] = edit[e].stock]
     /\ due' = IF edit[e].dto = None THEN due ELSE [due EXCEPT ![i] = edit[e].dto]
     /\ itemLock' = [itemLock EXCEPT ![i] = IF @ = e THEN None ELSE @]
     /\ edit' = [edit EXCEPT ![e] = NoEdit]
     /\ UNCHANGED <<call, line, createLock, cache, orders, intents, lapsed, crashes>>

EditFails(e) ==
  /\ edit[e].pc \in {"read", "save"}
  /\ itemLock' = [itemLock EXCEPT ![edit[e].item] = IF @ = e THEN None ELSE @]
  /\ edit' = [edit EXCEPT ![e] = NoEdit]
  /\ UNCHANGED <<stock, due, call, line, createLock, cache, orders, intents, lapsed, crashes>>

-----------------------------------------------------------------------------
(* Crashes and expiry *)

\* The process of a call dies: its transactions roll back, its locks stay.
Crash(c) ==
  /\ crashes < MaxCrashes
  /\ call[c].pc \notin {"start", "done", "dead"}
  /\ crashes' = crashes + 1
  /\ call' = [call EXCEPT ![c] = [@ EXCEPT !.pc = "dead", !.read = NothingRead, !.result = None]]
  /\ line' = [l \in Lines |-> IF l[1] = c /\ line[l] \in {"lock", "update"} THEN "failed"
                            ELSE line[l]]
  /\ createLock' = [k \in Keys |-> IF createLock[k] = c THEN Dead ELSE createLock[k]]
  /\ itemLock' = [i \in Items |-> IF itemLock[i] \in LinesIn(c) THEN Dead
                                  ELSE itemLock[i]]
  /\ UNCHANGED <<stock, due, edit, cache, orders, intents, lapsed>>

CreateLockExpires(k) ==
  /\ createLock[k] # None
  /\ createLock' = [createLock EXCEPT ![k] = None]
  /\ lapsed' = IF createLock[k] = Dead THEN lapsed ELSE lapsed \cup {k}
  /\ UNCHANGED <<stock, due, call, line, edit, itemLock, cache, orders, intents, crashes>>

ItemLockExpires(i) ==
  /\ itemLock[i] # None
  /\ itemLock' = [itemLock EXCEPT ![i] = None]
  /\ lapsed' = IF itemLock[i] = Dead THEN lapsed ELSE lapsed \cup {i}
  /\ UNCHANGED <<stock, due, call, line, edit, createLock, cache, orders, intents, crashes>>

\* A day has passed.
CacheExpires(k) ==
  /\ cache[k] # None
  /\ cache' = [cache EXCEPT ![k] = None]
  /\ lapsed' = lapsed \cup {k}
  /\ UNCHANGED <<stock, due, call, line, edit, createLock, itemLock, orders, intents, crashes>>

-----------------------------------------------------------------------------

CallStep(c) ==
  \/ LockCreate(c) \/ LockCreateFails(c) \/ Lookup(c) \/ Validate(c) \/ StartDecrements(c)
  \/ Decremented(c) \/ CreatePayment(c) \/ SaveResult(c) \/ Commit(c) \/ Unlock(c)

LineStep(l) == LockLine(l) \/ DecrementStock(l) \/ DecrementFails(l)

EditStep(e) == (\E i \in Items : LockEdit(e, i)) \/ ReadItem(e) \/ SaveItem(e) \/ EditFails(e)

Next ==
  \/ \E c \in Calls : CallStep(c) \/ Fails(c) \/ Crash(c)
  \/ \E l \in Lines : LineStep(l)
  \/ \E e \in Editors : EditStep(e)
  \/ \E k \in Keys : CreateLockExpires(k) \/ CacheExpires(k)
  \/ \E i \in Items : ItemLockExpires(i)

Spec == Init /\ [][Next]_vars

-----------------------------------------------------------------------------
(* Properties *)

\* However often a client repeats a call, side by side or after a crash or an
\* error, one order is created for its key and every call that succeeds answers
\* with one order, while the lock's lease outlasts its live holders and the cached
\* result is kept.
OneOrderPerKey ==
  /\ \A o, p \in orders : KeyOf[o] = KeyOf[p] /\ KeyOf[o] \notin lapsed => o = p
  /\ \A c, d \in Calls :
       /\ call[c].result # None /\ call[d].result # None
       /\ KeyOf[c] = KeyOf[d] /\ KeyOf[c] \notin lapsed
       => call[c].result = call[d].result

\* An order that exists has taken the stock of all its lines and has its payment,
\* although lines and payment are committed apart from it.
OrdersAreBacked ==
  \A o \in orders : o \in intents /\ \A l \in LinesIn(o) : line[l] = "taken"

\* No decrement is lost to an administrator who saves the stock read before it,
\* while the leases of the item last.
StockIsAccounted == \A i \in Items \ lapsed : stock[i] = due[i]

\* What orders.e2e-spec.ts says of an order whose payment fails, "all DB writes
\* (order + order_items + stock decrement) must be rolled back": a call that threw
\* has taken no stock.
FailedCallsTakeNothing ==
  \A c \in Calls :
    call[c].pc = "done" /\ call[c].result = None =>
      \A l \in LinesIn(c) : line[l] # "taken"

\* The strengthenings behind OneOrderPerKey, OrdersAreBacked and StockIsAccounted.

Inside == {"lookup", "validate", "stock", "decrement", "pay", "save", "commit", "unlock"}

\* Between LockCreate and Unlock a call owns the lock of its key.
CreateLockInv ==
  \A c \in Calls :
    call[c].pc \in Inside /\ KeyOf[c] \notin lapsed => createLock[KeyOf[c]] = c

\* A key with an order, or an answer, has it cached; a call that executes found
\* none.
CacheInv ==
  /\ \A o \in orders : KeyOf[o] \notin lapsed => cache[KeyOf[o]] = o
  /\ \A c \in Calls :
       KeyOf[c] \notin lapsed =>
         /\ call[c].result # None => cache[KeyOf[c]] = call[c].result
         /\ call[c].pc \in {"validate", "stock", "decrement", "pay", "save"} =>
              cache[KeyOf[c]] = None

\* A call that created its order: its result is its own and awaits the commit.
Creating(c) == call[c].pc = "commit" /\ call[c].result = c

Finished == {"unlock", "done", "dead"}

\* Stock comes before payment, payment before the result, the result before the
\* commit; no call finds its own order in the cache.
Backed(c) ==
  /\ call[c].pc \in {"pay", "save"} \/ Creating(c) => AllTaken(c)
  /\ call[c].pc = "save" \/ Creating(c) => c \in intents
  /\ c \in orders => call[c].pc \in Finished /\ c \in intents /\ AllTaken(c)
  /\ \A k \in Keys : cache[k] = c => call[c].pc \in Finished \cup {"commit"}

BackedInv == \A c \in Calls : Backed(c)

\* Who is between taking an item's lock and giving it up owns it, so what
\* adminUpdate has read is still so when it saves.
LineOwns(l) == line[l] = "update" /\ Item(l) \notin lapsed => itemLock[Item(l)] = l

EditOwns(e) ==
  LET i == edit[e].item
  IN edit[e].pc \in {"read", "save"} /\ i \notin lapsed =>
       /\ itemLock[i] = e
       /\ edit[e].pc = "save" =>
            edit[e].stock = IF edit[e].dto = None THEN stock[i] ELSE edit[e].dto

ItemLockInv == (\A l \in Lines : LineOwns(l)) /\ (\A e \in Editors : EditOwns(e))
=============================================================================
