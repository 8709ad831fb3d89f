--------------------------- MODULE CheckoutProofs ---------------------------
(* What the locks, the cached result and the order of the steps guarantee   *)
(* in the creation of an order, for any number of calls, keys, lines,       *)
(* items, administrators and crashes.                                       *)
EXTENDS Checkout, TLAPS

\* A line is of one call, of one item, and of a quantity.
LEMMA LineParts ==
  ASSUME NEW l \in Lines
  PROVE  l[1] \in Calls /\ Item(l) \in Items /\ Quantity(l) \in Nat
<1> DEFINE R == [item : Items, quantity : Nat \ {0}]
<1>1. PICK c \in Calls : l \in {c} \X (1 .. Len(LinesOf[KeyOf[c]]))
  BY DEF Lines
<1> DEFINE s == LinesOf[KeyOf[c]]
<1>2. l[1] = c /\ l[2] \in 1 .. Len(s)
  BY <1>1
<1>3. KeyOf[c] \in Keys
  BY CheckoutAssumption
<1>4. s \in Seq(R)
  BY <1>3, CheckoutAssumption
<1>5. s[l[2]] \in R
  <2> HIDE DEF R, s
  <2>1. QED
    BY <1>2, <1>4
<1>6. Item(l) = s[l[2]].item /\ Quantity(l) = s[l[2]].quantity
  BY <1>2 DEF Item, Quantity
<1>7. Item(l) \in Items /\ Quantity(l) \in Nat
  <2> HIDE DEF s
  <2>1. QED
    BY <1>5, <1>6
<1>8. QED
  BY <1>2, <1>7

LEMMA NewStocksAreNumbers == NewStocks \subseteq Int
  BY CheckoutAssumption

LEMMA Keyed == \A c \in Calls : KeyOf[c] \in Keys
  BY CheckoutAssumption

\* Calls, lines and administrators are told apart from None and from Dead.
LEMMA OwnersDiffer ==
  /\ \A c \in Calls : c # None /\ c # Dead
  /\ \A h \in Holders : h # None /\ h # Dead
  /\ \A l \in Lines, e \in Editors : l # e
  BY CheckoutAssumption DEF Holders

\* Every step of a call replaces its own record, and no other call's.
LEMMA CallFrame ==
  ASSUME TypeOK, NEW c \in Calls, CallStep(c) \/ Fails(c) \/ Crash(c)
  PROVE  /\ call' \in [Calls -> CallState]
         /\ \A d \in Calls \ {c} : call'[d] = call[d]
<1> DEFINE Moves(r) == call' = [call EXCEPT ![c] = r]
<1> USE DEF TypeOK, CallState
<1>0. call[c] \in CallState
  OBVIOUS
<1>1. \A r \in CallState : Moves(r) => /\ call' \in [Calls -> CallState]
                                       /\ \A d \in Calls \ {c} : call'[d] = call[d]
  OBVIOUS
<1>2. CASE \E pc \in CallPcs : call' = [call EXCEPT ![c].pc = pc]
  <2>1. PICK pc \in CallPcs : call' = [call EXCEPT ![c].pc = pc]
    BY <1>2
  <2>2. [call[c] EXCEPT !.pc = pc] \in CallState
    BY <1>0
  <2>3. Moves([call[c] EXCEPT !.pc = pc])
    BY <2>1
  <2>4. QED
    BY <1>1, <2>2, <2>3
<1>3. CASE \E pc \in CallPcs, result \in Calls \cup {None} :
             Moves([call[c] EXCEPT !.pc = pc, !.result = result])
  BY <1>0, <1>1, <1>3
<1>4. CASE \E pc \in CallPcs, read \in [Items -> Int] :
             Moves([call[c] EXCEPT !.pc = pc, !.read = read])
  BY <1>0, <1>1, <1>4
<1>5. CASE \E pc \in CallPcs : Moves([call[c] EXCEPT !.pc = pc, !.read = NothingRead,
                                                     !.result = None])
  <2>1. PICK pc \in CallPcs : Moves([call[c] EXCEPT !.pc = pc, !.read = NothingRead,
                                                   !.result = None])
    BY <1>5
  <2>2. NothingRead \in [Items -> Int]
    BY DEF NothingRead
  <2>3. [call[c] EXCEPT !.pc = pc, !.read = NothingRead, !.result = None] \in CallState
    <3> HIDE DEF NothingRead
    <3>1. QED
      BY <1>0, <2>2
  <2>4. QED
    BY <1>1, <2>1, <2>3
<1>6. LockCreate(c) \/ LockCreateFails(c) \/ Decremented(c) \/ CreatePayment(c) \/ Commit(c)
      \/ Unlock(c) => \E pc \in CallPcs : call' = [call EXCEPT ![c].pc = pc]
  BY DEF LockCreate, LockCreateFails, Decremented, CreatePayment, Commit, Unlock, CallPcs
<1>7. Lookup(c) \/ SaveResult(c) =>
        \E pc \in CallPcs, result \in Calls \cup {None} :
          Moves([call[c] EXCEPT !.pc = pc, !.result = result])
  <2>1. cache[KeyOf[c]] \in Calls \cup {None}
    BY Keyed
  <2>2. QED
    BY <2>1 DEF Lookup, SaveResult, CallPcs
<1>8. Validate(c) \/ StartDecrements(c) =>
        \E pc \in CallPcs, read \in [Items -> Int] :
          Moves([call[c] EXCEPT !.pc = pc, !.read = read])
  <2>1. stock \in [Items -> Int] /\ NothingRead \in [Items -> Int]
    BY DEF NothingRead
  <2>2. ASSUME Validate(c)
        PROVE  Moves([call[c] EXCEPT !.pc = "stock", !.read = stock])
    BY <2>2 DEF Validate
  <2>3. ASSUME StartDecrements(c)
        PROVE  \/ Moves([call[c] EXCEPT !.pc = "decrement", !.read = NothingRead])
               \/ Moves([call[c] EXCEPT !.pc = "unlock", !.read = NothingRead])
    BY <2>3 DEF StartDecrements
  <2>4. QED
    BY <2>1, <2>2, <2>3 DEF CallPcs
<1>9. Fails(c) \/ Crash(c) =>
        \E pc \in CallPcs : Moves([call[c] EXCEPT !.pc = pc, !.read = NothingRead,
                                                  !.result = None])
  BY DEF Fails, Crash, CallPcs
<1>10. QED
  BY <1>2, <1>3, <1>4, <1>5, <1>6, <1>7, <1>8, <1>9 DEF CallStep

\* A step of a call's keeps the types of the variables it has beside its record.
LEMMA CallStepTypes ==
  ASSUME TypeOK, NEW c \in Calls, CallStep(c) \/ Fails(c) \/ Crash(c)
  PROVE  TypeOK'
<1>1. call' \in [Calls -> CallState]
  BY CallFrame
<1>2. CASE Fails(c) \/ LockCreateFails(c) \/ Lookup(c) \/ Validate(c) \/ Decremented(c)
  BY <1>1, <1>2 DEF TypeOK, Fails, LockCreateFails, Lookup, Validate, Decremented
<1>3. CASE LockCreate(c) \/ Unlock(c)
  BY <1>1, <1>3 DEF TypeOK, LockCreate, Unlock
<1>4. CASE StartDecrements(c)
  <2>1. line' \in [Lines -> LineStates]
    BY <1>4 DEF StartDecrements, TypeOK, LineStates
  <2>2. QED
    BY <1>1, <1>4, <2>1 DEF TypeOK, StartDecrements
<1>5. CASE CreatePayment(c) \/ SaveResult(c) \/ Commit(c)
  BY <1>1, <1>5 DEF TypeOK, CreatePayment, SaveResult, Commit
<1>6. CASE Crash(c)
  <2>1. line' \in [Lines -> LineStates]
    BY <1>6 DEF Crash, TypeOK, LineStates
  <2>2. createLock' \in [Keys -> Calls \cup {None, Dead}]
    BY <1>6 DEF Crash, TypeOK
  <2>3. itemLock' \in [Items -> Holders \cup {None, Dead}]
    BY <1>6 DEF Crash, TypeOK
  <2>4. crashes' \in Nat
    BY <1>6 DEF Crash, TypeOK
  <2>5. QED
    BY <1>1, <1>6, <2>1, <2>2, <2>3, <2>4 DEF TypeOK, Crash
<1>7. QED
  BY <1>2, <1>3, <1>4, <1>5, <1>6 DEF CallStep

LEMMA LineStepTypes ==
  ASSUME TypeOK, NEW l \in Lines, LineStep(l)
  PROVE  TypeOK'
<1>1. Item(l) \in Items /\ Quantity(l) \in Nat /\ l \in Holders
  BY LineParts DEF Holders
<1>2. line' \in [Lines -> LineStates]
  BY DEF TypeOK, LineStep, LockLine, DecrementStock, DecrementFails, LineStates
<1>3. itemLock' \in [Items -> Holders \cup {None, Dead}]
  BY <1>1 DEF TypeOK, LineStep, LockLine, DecrementStock, DecrementFails
<1>4. stock' \in [Items -> Int] /\ due' \in [Items -> Int]
  <2>1. CASE DecrementStock(l)
    <3>1. stock[Item(l)] - Quantity(l) \in Int /\ due[Item(l)] - Quantity(l) \in Int
      BY <1>1 DEF TypeOK
    <3>2. QED
      BY <2>1, <3>1 DEF DecrementStock, TypeOK
  <2>2. QED
    BY <2>1 DEF TypeOK, LineStep, LockLine, DecrementFails
<1>5. QED
  BY <1>2, <1>3, <1>4 DEF TypeOK, LineStep, LockLine, DecrementStock, DecrementFails

LEMMA NoEditIsEdit == NoEdit \in EditState
  BY DEF NoEdit, EditState

\* The record of an administrator who has taken an item's lock.
LEMMA LockedIsEdit ==
  ASSUME NEW i \in Items, NEW d \in NewStocks \cup {None}
  PROVE  LET r == [NoEdit EXCEPT !.pc = "read", !.item = i, !.dto = d]
         IN r \in EditState /\ r.pc = "read" /\ r.item = i /\ r.dto = d
  BY NoEditIsEdit DEF EditState

LEMMA EditStepTypes ==
  ASSUME TypeOK, NEW e \in Editors, EditStep(e)
  PROVE  TypeOK'
<1> USE DEF TypeOK
<1>1. edit[e] \in EditState /\ (edit[e].pc # "idle" => edit[e].item \in Items) /\ e \in Holders
  BY DEF Holders
<1>2. ASSUME NEW i \in Items, LockEdit(e, i)
      PROVE  TypeOK'
  <2>1. PICK dto \in NewStocks \cup {None} :
          edit' = [edit EXCEPT ![e] = [NoEdit EXCEPT !.pc = "read", !.item = i, !.dto = dto]]
    BY <1>2 DEF LockEdit
  <2> DEFINE r == [NoEdit EXCEPT !.pc = "read", !.item = i, !.dto = dto]
  <2>2. r \in EditState /\ r.item \in Items
    BY LockedIsEdit
  <2>3. edit' \in [Editors -> EditState]
        /\ \A f \in Editors : edit'[f].pc # "idle" => edit'[f].item \in Items
    BY <2>1, <2>2
  <2>4. itemLock' \in [Items -> Holders \cup {None, Dead}]
    BY <1>1, <1>2 DEF LockEdit
  <2>5. QED
    BY <1>2, <2>3, <2>4 DEF LockEdit
<1>3. CASE ReadItem(e)
  <2> DEFINE n == IF edit[e].dto = None THEN stock[edit[e].item] ELSE edit[e].dto
  <2> DEFINE r == [edit[e] EXCEPT !.pc = "save", !.stock = n]
  <2>1. edit[e].item \in Items /\ edit[e].dto \in NewStocks \cup {None}
    BY <1>1, <1>3 DEF ReadItem, EditState
  <2>2. n \in Int
    <3>1. stock[edit[e].item] \in Int
      BY <2>1
    <3>2. edit[e].dto # None => edit[e].dto \in Int
      BY <2>1, NewStocksAreNumbers
    <3>3. QED
      BY <3>1, <3>2
  <2>3. r \in EditState /\ r.item \in Items
    <3> HIDE DEF n
    <3>1. r = [edit[e] EXCEPT !.pc = "save", !.stock = n]
      OBVIOUS
    <3>2. edit[e] \in EditState
      BY <1>1
    <3>3. QED
      BY <2>1, <2>2, <3>2 DEF EditState
  <2>4. edit' = [edit EXCEPT ![e] = r]
    BY <1>3 DEF ReadItem
  <2>5. edit' \in [Editors -> EditState]
        /\ \A f \in Editors : edit'[f].pc # "idle" => edit'[f].item \in Items
    BY <2>3, <2>4
  <2>6. QED
    BY <1>3, <2>5 DEF ReadItem
<1>4. CASE SaveItem(e) \/ EditFails(e)
  <2>1. edit[e].item \in Items /\ edit[e].stock \in Int /\ edit[e].dto \in NewStocks \cup {None}
    BY <1>1, <1>4 DEF SaveItem, EditFails, EditState
  <2>2. edit' = [edit EXCEPT ![e] = NoEdit]
    BY <1>4 DEF SaveItem, EditFails
  <2>3. edit' \in [Editors -> EditState]
        /\ \A f \in Editors : edit'[f].pc # "idle" => edit'[f].item \in Items
    BY <2>2, NoEditIsEdit DEF NoEdit
  <2>4. itemLock' \in [Items -> Holders \cup {None, Dead}]
    BY <1>4, <2>1 DEF SaveItem, EditFails
  <2>5. stock' \in [Items -> Int]
    BY <1>4, <2>1 DEF SaveItem, EditFails
  <2>6. due' \in [Items -> Int]
    <3>1. edit[e].dto # None => edit[e].dto \in Int
      BY <2>1, NewStocksAreNumbers
    <3>2. QED
      BY <1>4, <2>1, <3>1 DEF SaveItem, EditFails
  <2>7. QED
    BY <1>4, <2>3, <2>4, <2>5, <2>6 DEF SaveItem, EditFails
<1>5. QED
  BY <1>2, <1>3, <1>4 DEF EditStep

LEMMA ExpiryTypes ==
  ASSUME TypeOK,
         \/ \E k \in Keys : CreateLockExpires(k) \/ CacheExpires(k)
         \/ \E i \in Items : ItemLockExpires(i)
  PROVE  TypeOK'
  BY DEF TypeOK, CreateLockExpires, CacheExpires, ItemLockExpires

LEMMA TypeInit == Init => TypeOK
<1> SUFFICES ASSUME Init PROVE TypeOK
  OBVIOUS
<1>1. InitialStock \in [Items -> Int]
  BY CheckoutAssumption
<1>2. [pc |-> "start", read |-> NothingRead, result |-> None] \in CallState
  BY DEF CallState, CallPcs, NothingRead
<1>3. NoEdit \in EditState /\ NoEdit.pc = "idle"
  BY NoEditIsEdit DEF NoEdit
<1>4. QED
  BY <1>1, <1>2, <1>3 DEF Init, TypeOK, LineStates

LEMMA TypeStep == TypeOK /\ [Next]_vars => TypeOK'
<1> SUFFICES ASSUME TypeOK, [Next]_vars PROVE TypeOK'
  OBVIOUS
<1>1. CASE UNCHANGED vars
  BY <1>1 DEF vars, TypeOK
<1>2. CASE Next
  BY <1>2, CallStepTypes, LineStepTypes, EditStepTypes, ExpiryTypes DEF Next
<1>3. QED
  BY <1>1, <1>2

\* The variables keep their types, whatever the calls, the administrators, the
\* crashes and the expiries.
THEOREM TypeCorrect == Spec => []TypeOK
  BY TypeInit, TypeStep, PTL DEF Spec

-----------------------------------------------------------------------------
(* One order per key *)

\* What is not a call's step touches neither calls nor orders, and takes a lock
\* or a result away only when it lapses.
LEMMA OtherSteps ==
  ASSUME \/ UNCHANGED vars
         \/ \E l \in Lines : LineStep(l)
         \/ \E e \in Editors : EditStep(e)
         \/ \E k \in Keys : CreateLockExpires(k) \/ CacheExpires(k)
         \/ \E i \in Items : ItemLockExpires(i),
         TypeOK
  PROVE  /\ call' = call /\ orders' = orders /\ intents' = intents /\ lapsed \subseteq lapsed'
         /\ \A k \in Keys : k \notin lapsed' => cache'[k] = cache[k]
         /\ \A k \in Keys : k \notin lapsed' =>
              createLock'[k] = createLock[k] \/ createLock[k] = Dead
         /\ \A k \in Keys : cache'[k] \in {cache[k], None}
<1>1. CASE UNCHANGED vars
  BY <1>1 DEF vars
<1>2. ASSUME NEW l \in Lines, LineStep(l)
      PROVE  UNCHANGED <<call, orders, intents, lapsed, cache, createLock>>
  BY <1>2 DEF LineStep, LockLine, DecrementStock, DecrementFails
<1>3. ASSUME NEW e \in Editors, EditStep(e)
      PROVE  UNCHANGED <<call, orders, intents, lapsed, cache, createLock>>
  BY <1>3 DEF EditStep, LockEdit, ReadItem, SaveItem, EditFails
<1>4. ASSUME NEW i \in Items, ItemLockExpires(i)
      PROVE  UNCHANGED <<call, orders, intents, cache, createLock>> /\ lapsed \subseteq lapsed'
  BY <1>4 DEF ItemLockExpires
<1>5. ASSUME NEW k \in Keys, CreateLockExpires(k)
      PROVE  /\ UNCHANGED <<call, orders, intents, cache>> /\ lapsed \subseteq lapsed'
             /\ \A j \in Keys : j \notin lapsed' =>
                  createLock'[j] = createLock[j] \/ createLock[j] = Dead
  BY <1>5 DEF CreateLockExpires, TypeOK
<1>6. ASSUME NEW k \in Keys, CacheExpires(k)
      PROVE  /\ UNCHANGED <<call, orders, intents, createLock>> /\ lapsed \subseteq lapsed'
             /\ \A j \in Keys : j \notin lapsed' => cache'[j] = cache[j]
             /\ \A j \in Keys : cache'[j] \in {cache[j], None}
  BY <1>6 DEF CacheExpires, TypeOK
<1>7. QED
  BY <1>1, <1>2, <1>3, <1>4, <1>5, <1>6

LEMMA CreateLockStep == TypeOK /\ CreateLockInv /\ [Next]_vars => CreateLockInv'
<1> SUFFICES ASSUME TypeOK, CreateLockInv, [Next]_vars, NEW d \in Calls,
                    call'[d].pc \in Inside, KeyOf[d] \notin lapsed'
             PROVE  createLock'[KeyOf[d]] = d
  BY DEF CreateLockInv
<1> DEFINE k == KeyOf[d]
<1>0. k \in Keys /\ d # Dead /\ d # None
  BY Keyed, OwnersDiffer
<1>1. call[d].pc \in Inside /\ k \notin lapsed => createLock[k] = d
  BY DEF CreateLockInv
<1>2. ASSUME NEW c \in Calls, CallStep(c) \/ Fails(c) \/ Crash(c)
      PROVE  createLock'[k] = d
  <2>1. lapsed' = lapsed
    BY <1>2 DEF CallStep, LockCreate, LockCreateFails, Lookup, Validate, StartDecrements,
       Decremented, CreatePayment, SaveResult, Commit, Unlock, Fails, Crash
  <2>2. c # d => call'[d] = call[d]
    BY <1>2, CallFrame
  <2>3. CASE LockCreate(c)
    <3>1. createLock[KeyOf[c]] = None /\ createLock' = [createLock EXCEPT ![KeyOf[c]] = c]
      BY <2>3 DEF LockCreate
    <3>2. CASE c = d
      BY <1>0, <3>1, <3>2 DEF TypeOK
    <3>3. CASE c # d
      BY <1>0, <1>1, <2>1, <2>2, <3>1, <3>3
    <3>4. QED
      BY <3>2, <3>3
  <2>4. CASE LockCreateFails(c)
    <3>1. c # d
      BY <2>4 DEF LockCreateFails, TypeOK, CallState, Inside
    <3>2. QED
      BY <1>1, <2>1, <2>2, <2>4, <3>1 DEF LockCreateFails
  <2>5. CASE \/ Lookup(c) \/ Validate(c) \/ StartDecrements(c) \/ Decremented(c)
             \/ CreatePayment(c) \/ SaveResult(c) \/ Commit(c) \/ Fails(c)
    <3>1. call[c].pc \in Inside /\ createLock' = createLock
      BY <2>5 DEF Lookup, Validate, StartDecrements, Decremented, CreatePayment, SaveResult,
         Commit, Fails, Inside
    <3>2. QED
      BY <1>1, <2>1, <2>2, <3>1
  <2>6. CASE Unlock(c)
    <3>1. c # d
      BY <2>6 DEF Unlock, TypeOK, CallState, Inside
    <3>2. createLock[k] = d
      BY <1>1, <2>1, <2>2, <3>1
    <3>3. QED
      BY <1>0, <2>6, <3>1, <3>2 DEF Unlock, TypeOK
  <2>7. CASE Crash(c)
    <3>1. c # d
      BY <2>7 DEF Crash, TypeOK, CallState, Inside
    <3>2. createLock[k] = d
      BY <1>1, <2>1, <2>2, <3>1
    <3>3. QED
      BY <1>0, <2>7, <3>1, <3>2 DEF Crash
  <2>8. QED
    BY <1>2, <2>3, <2>4, <2>5, <2>6, <2>7 DEF CallStep
<1>3. CASE ~ \E c \in Calls : CallStep(c) \/ Fails(c) \/ Crash(c)
  <2>1. /\ call' = call /\ lapsed \subseteq lapsed'
        /\ k \notin lapsed' => createLock'[k] = createLock[k] \/ createLock[k] = Dead
    BY <1>0, <1>3, OtherSteps DEF Next
  <2>2. QED
    BY <1>0, <1>1, <2>1
<1>4. QED
  BY <1>2, <1>3
\* The steps of a call that leave orders and cache alone.
Quiet(c) ==
  \/ LockCreate(c) \/ LockCreateFails(c) \/ Validate(c) \/ StartDecrements(c) \/ Decremented(c)
  \/ CreatePayment(c) \/ Unlock(c) \/ Fails(c) \/ Crash(c)

Executing == {"validate", "stock", "decrement", "pay", "save"}

\* What a quiet step does to its call.
LEMMA QuietFrame ==
  ASSUME TypeOK, NEW c \in Calls, Quiet(c)
  PROVE  /\ orders' = orders /\ cache' = cache /\ lapsed' = lapsed
         /\ call'[c].result \in {call[c].result, None}
         /\ call'[c].pc \in Executing => call[c].pc \in Executing
<1> USE DEF TypeOK, CallState, Executing
<1>1. CASE LockCreate(c) \/ LockCreateFails(c) \/ Decremented(c) \/ CreatePayment(c) \/ Unlock(c)
  BY <1>1 DEF LockCreate, LockCreateFails, Decremented, CreatePayment, Unlock
<1>2. CASE Validate(c) \/ StartDecrements(c)
  BY <1>2 DEF Validate, StartDecrements
<1>3. CASE Fails(c) \/ Crash(c)
  <2>1. call'[c].result = None /\ call'[c].pc \in {"unlock", "dead"}
    <3>1. PICK pc \in {"unlock", "dead"} : call' = [call EXCEPT ![c] =
            [call[c] EXCEPT !.pc = pc, !.read = NothingRead, !.result = None]]
      BY <1>3 DEF Fails, Crash
    <3>2. call[c] \in CallState
      OBVIOUS
    <3>3. QED
      BY <3>1, <3>2
  <2>2. QED
    BY <1>3, <2>1 DEF Fails, Crash
<1>4. QED
  BY <1>1, <1>2, <1>3 DEF Quiet

LEMMA CacheStep == TypeOK /\ CreateLockInv /\ CacheInv /\ [Next]_vars => CacheInv'
<1> SUFFICES ASSUME TypeOK, CreateLockInv, CacheInv, [Next]_vars
             PROVE  CacheInv'
  OBVIOUS
<1>0. /\ \A o \in orders : o \in Calls /\ (KeyOf[o] \notin lapsed => cache[KeyOf[o]] = o)
      /\ \A d \in Calls : KeyOf[d] \notin lapsed =>
           /\ call[d].result # None => cache[KeyOf[d]] = call[d].result
           /\ call[d].pc \in Executing => cache[KeyOf[d]] = None
  BY DEF CacheInv, TypeOK, Executing
<1>1. ASSUME NEW c \in Calls, Quiet(c)
      PROVE  CacheInv'
  <2>1. \A d \in Calls \ {c} : call'[d] = call[d]
    BY <1>1, CallFrame DEF Quiet, CallStep
  <2>2. QED
    BY <1>0, <1>1, <2>1, QuietFrame DEF CacheInv, Executing
<1>2. ASSUME NEW c \in Calls, Lookup(c)
      PROVE  CacheInv'
  <2>1. \A d \in Calls \ {c} : call'[d] = call[d]
    BY <1>2, CallFrame DEF CallStep
  <2>2. /\ orders' = orders /\ cache' = cache /\ lapsed' = lapsed
        /\ call'[c].result = cache[KeyOf[c]]
        /\ call'[c].pc \in Executing => cache[KeyOf[c]] = None
    BY <1>2 DEF Lookup, TypeOK, CallState, Executing
  <2>3. QED
    BY <1>0, <2>1, <2>2 DEF CacheInv, Executing
<1>3. ASSUME NEW c \in Calls, SaveResult(c)
      PROVE  CacheInv'
  <2> DEFINE k == KeyOf[c]
  <2>1. \A d \in Calls \ {c} : call'[d] = call[d]
    BY <1>3, CallFrame DEF CallStep
  <2>2. /\ call[c].pc = "save" /\ orders' = orders /\ lapsed' = lapsed
        /\ call'[c].result = c /\ call'[c].pc = "commit"
        /\ cache'[k] = c
        /\ \A j \in Keys \ {k} : cache'[j] = cache[j]
    BY <1>3, Keyed DEF SaveResult, TypeOK, CallState
  <2>3. ASSUME k \notin lapsed
        PROVE  /\ \A o \in orders : KeyOf[o] # k
               /\ \A d \in Calls \ {c} : KeyOf[d] = k =>
                    call[d].result = None /\ call[d].pc \notin Executing
    <3>1. cache[k] = None /\ createLock[k] = c
      BY <1>0, <2>2, <2>3 DEF Executing, CreateLockInv, Inside
    <3>2. \A d \in Calls \ {c} : KeyOf[d] = k => call[d].pc \notin Inside
      BY <2>3, <3>1 DEF CreateLockInv
    <3>3. QED
      BY <1>0, <2>3, <3>1, <3>2, OwnersDiffer DEF Executing, Inside
  <2>4. QED
    BY <1>0, <2>1, <2>2, <2>3, Keyed DEF CacheInv, Executing
<1>4. ASSUME NEW c \in Calls, Commit(c)
      PROVE  CacheInv'
  <2>1. \A d \in Calls \ {c} : call'[d] = call[d]
    BY <1>4, CallFrame DEF CallStep
  <2>2. /\ cache' = cache /\ lapsed' = lapsed
        /\ orders' = orders \/ (orders' = orders \cup {c} /\ call[c].result = c)
        /\ call'[c].result = call[c].result /\ call'[c].pc = "unlock"
    BY <1>4 DEF Commit, TypeOK, CallState
  <2>3. QED
    BY <1>0, <2>1, <2>2, OwnersDiffer DEF CacheInv, Executing
<1>5. CASE ~ \E c \in Calls : CallStep(c) \/ Fails(c) \/ Crash(c)
  <2>1. /\ call' = call /\ orders' = orders /\ lapsed \subseteq lapsed'
        /\ \A k \in Keys : k \notin lapsed' => cache'[k] = cache[k]
    BY <1>5, OtherSteps DEF Next
  <2>2. QED
    BY <1>0, <2>1, Keyed DEF CacheInv, Executing
<1>6. QED
  BY <1>1, <1>2, <1>3, <1>4, <1>5 DEF CallStep, Quiet

\* The orders of one key, and the answers given for it, are one.
THEOREM OneOrderPerKeyHolds == Spec => []OneOrderPerKey
<1> DEFINE IInv == TypeOK /\ CreateLockInv /\ CacheInv
<1>1. Init => IInv
  <2>1. Init => CreateLockInv /\ CacheInv
    BY DEF Init, CreateLockInv, CacheInv, Inside
  <2>2. QED
    BY <2>1, TypeInit
<1>2. IInv /\ [Next]_vars => IInv'
  BY TypeStep, CreateLockStep, CacheStep
<1>3. IInv => OneOrderPerKey
  BY DEF TypeOK, CacheInv, OneOrderPerKey
<1>4. QED
  BY <1>1, <1>2, <1>3, PTL DEF Spec
-----------------------------------------------------------------------------
(* Orders are backed *)

\* A line that is taken stays so: only a call's own StartDecrements could undo it.
LEMMA TakenStays ==
  ASSUME TypeOK, NEW d \in Calls, call[d].pc # "stock", [Next]_vars, AllTaken(d)
  PROVE  AllTaken(d)'
<1> USE DEF AllTaken, LinesIn, TypeOK
<1>1. ASSUME NEW l \in Lines, LineStep(l)
      PROVE  AllTaken(d)'
  BY <1>1 DEF LineStep, LockLine, DecrementStock, DecrementFails
<1>2. ASSUME NEW c \in Calls, StartDecrements(c)
      PROVE  AllTaken(d)'
  <2>1. c # d
    BY <1>2 DEF StartDecrements
  <2>2. QED
    BY <1>2, <2>1 DEF StartDecrements
<1>3. ASSUME NEW c \in Calls, Crash(c)
      PROVE  AllTaken(d)'
  BY <1>3 DEF Crash
<1>4. ASSUME NEW c \in Calls,
             \/ LockCreate(c) \/ LockCreateFails(c) \/ Lookup(c) \/ Validate(c) \/ Decremented(c)
             \/ CreatePayment(c) \/ SaveResult(c) \/ Commit(c) \/ Unlock(c) \/ Fails(c)
      PROVE  line' = line
  BY <1>4 DEF LockCreate, LockCreateFails, Lookup, Validate, Decremented, CreatePayment,
     SaveResult, Commit, Unlock, Fails
<1>5. ASSUME NEW e \in Editors, EditStep(e)
      PROVE  line' = line
  BY <1>5 DEF EditStep, LockEdit, ReadItem, SaveItem, EditFails
<1>6. ASSUME \/ \E k \in Keys : CreateLockExpires(k) \/ CacheExpires(k)
             \/ \E i \in Items : ItemLockExpires(i)
             \/ UNCHANGED vars
      PROVE  line' = line
  BY <1>6 DEF CreateLockExpires, CacheExpires, ItemLockExpires, vars
<1>7. QED
  BY <1>1, <1>2, <1>3, <1>4, <1>5, <1>6 DEF Next, CallStep

\* A call that is not the one that steps.
LEMMA BackedOther ==
  ASSUME TypeOK, [Next]_vars, NEW d \in Calls, Backed(d), call'[d] = call[d],
         intents \subseteq intents', d \in orders' => d \in orders,
         \A k \in Keys : cache'[k] = d => cache[k] = d
  PROVE  Backed(d)'
<1>1. Creating(d)' <=> Creating(d)
  BY DEF Creating
<1>2. call[d].pc \in {"pay", "save"} \/ Creating(d) \/ d \in orders => AllTaken(d)'
  BY TakenStays DEF Backed, Creating, Finished
<1>3. QED
  BY <1>1, <1>2 DEF Backed, Finished

\* The call that steps.
LEMMA BackedSelf ==
  ASSUME TypeOK, [Next]_vars, NEW c \in Calls, Backed(c), CallStep(c) \/ Fails(c) \/ Crash(c)
  PROVE  Backed(c)'
<1> DEFINE r == call'[c]
<1>0. /\ call[c] \in CallState /\ r \in CallState /\ KeyOf[c] \in Keys /\ c # None
      /\ AllTaken(c) /\ call[c].pc # "stock" => AllTaken(c)'
  BY CallFrame, Keyed, OwnersDiffer, TakenStays DEF TypeOK
<1>1. CASE LockCreate(c) \/ LockCreateFails(c) \/ Validate(c) \/ StartDecrements(c)
  <2>1. /\ call[c].pc \in {"start", "validate", "stock"}
        /\ r.pc \in {"lookup", "done", "stock", "decrement", "unlock"}
        /\ UNCHANGED <<orders, intents, cache>>
    <3>1. CASE StartDecrements(c)
      <4>1. PICK pc \in {"decrement", "unlock"} : call' = [call EXCEPT ![c] =
              [call[c] EXCEPT !.pc = pc, !.read = NothingRead]]
        BY <3>1 DEF StartDecrements
      <4>2. r.pc = pc
        BY <1>0, <4>1 DEF TypeOK, CallState
      <4>3. QED
        BY <3>1, <4>2 DEF StartDecrements
    <3>2. CASE Validate(c)
      <4>1. call' = [call EXCEPT ![c] = [call[c] EXCEPT !.pc = "stock", !.read = stock]]
        BY <3>2 DEF Validate
      <4>2. r.pc = "stock"
        BY <1>0, <4>1 DEF TypeOK, CallState
      <4>3. QED
        BY <3>2, <4>2 DEF Validate
    <3>3. CASE LockCreate(c) \/ LockCreateFails(c)
      BY <3>3 DEF LockCreate, LockCreateFails, TypeOK, CallState
    <3>4. QED
      BY <1>1, <3>1, <3>2, <3>3
  <2>2. c \notin orders /\ \A k \in Keys : cache[k] # c
    BY <2>1 DEF Backed, Finished
  <2>3. QED
    BY <2>1, <2>2 DEF Backed, Creating
<1>2. CASE Lookup(c)
  <2>1. /\ call[c].pc = "lookup" /\ r.pc \in {"validate", "commit"}
        /\ r.result = cache[KeyOf[c]]
        /\ UNCHANGED <<orders, intents, cache>>
    BY <1>2 DEF Lookup, TypeOK, CallState
  <2>2. c \notin orders /\ \A k \in Keys : cache[k] # c
    BY <2>1 DEF Backed, Finished
  <2>3. QED
    BY <1>0, <2>1, <2>2 DEF Backed, Creating
<1>3. CASE Decremented(c)
  <2>1. /\ call[c].pc = "decrement" /\ r.pc \in {"pay", "unlock"}
        /\ r.pc = "pay" => AllTaken(c)
        /\ UNCHANGED <<orders, intents, cache>>
    BY <1>3 DEF Decremented, TypeOK, CallState
  <2>2. c \notin orders /\ \A k \in Keys : cache[k] # c
    BY <2>1 DEF Backed, Finished
  <2>3. QED
    BY <1>0, <2>1, <2>2 DEF Backed, Creating
<1>4. CASE CreatePayment(c)
  <2>1. /\ call[c].pc = "pay" /\ r.pc = "save" /\ c \in intents' /\ UNCHANGED <<orders, cache>>
    BY <1>4 DEF CreatePayment, TypeOK, CallState
  <2>2. c \notin orders /\ \A k \in Keys : cache[k] # c
    BY <2>1 DEF Backed, Finished
  <2>3. QED
    BY <1>0, <2>1, <2>2 DEF Backed, Creating
<1>5. CASE SaveResult(c)
  <2>1. /\ call[c].pc = "save" /\ r.pc = "commit" /\ UNCHANGED <<orders, intents>>
    BY <1>5 DEF SaveResult, TypeOK, CallState
  <2>2. QED
    BY <1>0, <2>1 DEF Backed, Creating, Finished
<1>6. CASE Commit(c)
  <2>1. /\ call[c].pc = "commit" /\ r.pc = "unlock" /\ UNCHANGED <<intents, cache>>
        /\ c \in orders' => c \in orders \/ Creating(c)
    BY <1>6 DEF Commit, TypeOK, CallState, Creating
  <2>2. QED
    BY <1>0, <2>1 DEF Backed, Creating, Finished
<1>7. CASE Unlock(c)
  <2>1. /\ call[c].pc = "unlock" /\ r.pc = "done" /\ UNCHANGED <<orders, intents, cache>>
    BY <1>7 DEF Unlock, TypeOK, CallState
  <2>2. QED
    BY <1>0, <2>1 DEF Backed, Creating, Finished
<1>8. CASE Fails(c) \/ Crash(c)
  <2>1. r.pc \in {"unlock", "dead"} /\ UNCHANGED <<orders, intents, cache>>
    <3>1. PICK pc \in {"unlock", "dead"} : call' = [call EXCEPT ![c] =
            [call[c] EXCEPT !.pc = pc, !.read = NothingRead, !.result = None]]
      BY <1>8 DEF Fails, Crash
    <3>2. r.pc = pc
      BY <1>0, <3>1 DEF TypeOK, CallState
    <3>3. QED
      BY <1>8, <3>2 DEF Fails, Crash
  <2>2. c \in orders => call[c].pc # "stock"
    BY DEF Backed, Finished
  <2>3. QED
    BY <1>0, <2>1, <2>2 DEF Backed, Creating, Finished
<1>9. QED
  BY <1>1, <1>2, <1>3, <1>4, <1>5, <1>6, <1>7, <1>8 DEF CallStep

LEMMA BackedStep == TypeOK /\ BackedInv /\ [Next]_vars => BackedInv'
<1> SUFFICES ASSUME TypeOK, BackedInv, [Next]_vars, NEW d \in Calls
             PROVE  Backed(d)'
  BY DEF BackedInv
<1>1. Backed(d)
  BY DEF BackedInv
<1>2. ASSUME NEW c \in Calls \ {d}, CallStep(c) \/ Fails(c) \/ Crash(c)
      PROVE  Backed(d)'
  <2>1. call'[d] = call[d]
    BY <1>2, CallFrame
  <2>2. intents \subseteq intents' /\ (d \in orders' => d \in orders)
    BY <1>2 DEF CallStep, LockCreate, LockCreateFails, Lookup, Validate, StartDecrements,
       Decremented, CreatePayment, SaveResult, Commit, Unlock, Fails, Crash
  <2>3. \A k \in Keys : cache'[k] = d => cache[k] = d
    <3>1. CASE SaveResult(c)
      BY <1>2, <3>1 DEF SaveResult, TypeOK
    <3>2. CASE ~SaveResult(c)
      <4>1. cache' = cache
        BY <1>2, <3>2 DEF CallStep, LockCreate, LockCreateFails, Lookup, Validate,
           StartDecrements, Decremented, CreatePayment, Commit, Unlock, Fails, Crash
      <4>2. QED
        BY <4>1
    <3>3. QED
      BY <3>1, <3>2
  <2>4. QED
    BY <1>1, <2>1, <2>2, <2>3, BackedOther
<1>3. CASE CallStep(d) \/ Fails(d) \/ Crash(d)
  BY <1>1, <1>3, BackedSelf
<1>4. CASE ~ \E c \in Calls : CallStep(c) \/ Fails(c) \/ Crash(c)
  <2>1. /\ call' = call /\ orders' = orders /\ intents' = intents
        /\ \A k \in Keys : cache'[k] \in {cache[k], None}
    BY <1>4, OtherSteps DEF Next
  <2>2. d # None
    BY OwnersDiffer
  <2>3. QED
    BY <1>1, <2>1, <2>2, BackedOther
<1>5. QED
  BY <1>2, <1>3, <1>4

\* An order that is committed has the stock of all its lines and its payment,
\* although neither is part of its transaction.
THEOREM OrdersAreBackedHolds == Spec => []OrdersAreBacked
<1>1. Init => BackedInv
  <2> SUFFICES ASSUME Init, NEW c \in Calls PROVE Backed(c)
    BY DEF BackedInv
  <2>1. call[c].pc = "start" /\ c \notin orders /\ c # None
    BY OwnersDiffer DEF Init
  <2>2. \A k \in Keys : cache[k] = None
    BY DEF Init
  <2>3. QED
    BY <2>1, <2>2 DEF Backed, Creating
<1>2. TypeOK /\ BackedInv => OrdersAreBacked
  BY DEF TypeOK, BackedInv, Backed, AllTaken, OrdersAreBacked
<1>3. QED
  BY <1>1, <1>2, TypeInit, TypeStep, BackedStep, PTL DEF Spec
-----------------------------------------------------------------------------
(* The stock is accounted for *)

ItemInv == ItemLockInv /\ StockIsAccounted

\* A decrement changes the stock only of an item whose lock is its own.
LEMMA ItemInvLine ==
  ASSUME TypeOK, ItemInv, NEW l \in Lines, LineStep(l)
  PROVE  ItemInv'
<1> USE DEF TypeOK
<1>0. /\ Item(l) \in Items /\ Quantity(l) \in Nat /\ l # None
      /\ lapsed' = lapsed /\ edit' = edit
      /\ \A e \in Editors : e # l /\ e # None
      /\ \A m \in Lines : m # None
  <2>1. lapsed' = lapsed /\ edit' = edit
    BY DEF LineStep, LockLine, DecrementStock, DecrementFails
  <2>2. QED
    BY <2>1, LineParts, OwnersDiffer DEF Holders
<1> DEFINE i == Item(l)
<1>1. /\ \A m \in Lines \ {l} : line'[m] = line[m]
      /\ \A j \in Items \ {i} : itemLock'[j] = itemLock[j] /\ stock'[j] = stock[j] /\ due'[j] = due[j]
      /\ itemLock[i] # None /\ itemLock[i] # l => itemLock'[i] = itemLock[i]
  BY <1>0 DEF LineStep, LockLine, DecrementStock, DecrementFails
<1>2. line'[l] = "update" => itemLock'[i] = l
  BY <1>0 DEF LineStep, LockLine, DecrementStock, DecrementFails
<1>3. ASSUME NEW m \in Lines
      PROVE  LineOwns(m)'
  <2>1. Item(m) \in Items
    BY LineParts
  <2>2. CASE m = l
    BY <1>2, <2>2 DEF LineOwns
  <2>3. CASE m # l
    BY <1>0, <1>1, <2>1, <2>3 DEF ItemInv, ItemLockInv, LineOwns
  <2>4. QED
    BY <2>2, <2>3
<1>4. stock'[i] # stock[i] /\ i \notin lapsed => itemLock[i] = l
  BY <1>0 DEF LineStep, LockLine, DecrementStock, DecrementFails, ItemInv, ItemLockInv, LineOwns
<1>5. ASSUME NEW e \in Editors
      PROVE  EditOwns(e)'
  <2>1. CASE edit[e].pc \in {"read", "save"} /\ edit[e].item \notin lapsed
    <3> DEFINE j == edit[e].item
    <3>1. j \in Items /\ itemLock[j] = e /\ EditOwns(e)
      BY <2>1 DEF ItemInv, ItemLockInv, EditOwns
    <3>2. itemLock'[j] = e
      BY <1>0, <1>1, <3>1
    <3>3. stock'[j] = stock[j]
      BY <1>0, <1>1, <1>4, <2>1, <3>1
    <3>4. QED
      BY <1>0, <2>1, <3>1, <3>2, <3>3 DEF EditOwns
  <2>2. QED
    BY <1>0, <2>1 DEF EditOwns
<1>6. StockIsAccounted'
  <2>1. i \notin lapsed => stock'[i] = due'[i]
    BY <1>0 DEF LineStep, LockLine, DecrementStock, DecrementFails, ItemInv, StockIsAccounted
  <2>2. QED
    BY <1>0, <1>1, <2>1 DEF ItemInv, ItemLockInv, StockIsAccounted
<1>7. QED
  BY <1>3, <1>5, <1>6 DEF ItemInv, ItemLockInv

\* An administrator saves the stock only of an item whose lock is his, and what he
\* read of it has not changed.
LEMMA ItemInvEdit ==
  ASSUME TypeOK, ItemInv, NEW e \in Editors, EditStep(e)
  PROVE  ItemInv'
<1> USE DEF TypeOK
<1>0. /\ lapsed' = lapsed /\ line' = line
      /\ \A f \in Editors \ {e} : edit'[f] = edit[f]
      /\ e # None /\ edit[e] \in EditState
      /\ \A l \in Lines : l # e /\ l # None /\ Item(l) \in Items
      /\ \A f \in Editors : f # None
  <2>1. lapsed' = lapsed /\ line' = line /\ \A f \in Editors \ {e} : edit'[f] = edit[f]
    BY DEF EditStep, LockEdit, ReadItem, SaveItem, EditFails
  <2>2. QED
    BY <2>1, LineParts, OwnersDiffer DEF Holders
<1>1. ASSUME NEW i \in Items, LockEdit(e, i)
      PROVE  ItemInv'
  <2>1. /\ itemLock[i] = None /\ itemLock' = [itemLock EXCEPT ![i] = e]
        /\ stock' = stock /\ due' = due
    BY <1>1 DEF LockEdit
  <2>2. PICK d \in NewStocks \cup {None} :
          edit' = [edit EXCEPT ![e] = [NoEdit EXCEPT !.pc = "read", !.item = i, !.dto = d]]
    BY <1>1 DEF LockEdit
  <2>3. edit'[e].pc = "read" /\ edit'[e].item = i
    BY <2>2, LockedIsEdit
  <2>4. \A l \in Lines : LineOwns(l)'
    BY <1>0, <2>1 DEF ItemInv, ItemLockInv, LineOwns
  <2>5. \A f \in Editors \ {e} : EditOwns(f)'
    BY <1>0, <2>1 DEF ItemInv, ItemLockInv, EditOwns
  <2>6. EditOwns(e)'
    BY <2>1, <2>3 DEF EditOwns
  <2>7. QED
    BY <1>0, <2>1, <2>4, <2>5, <2>6 DEF ItemInv, ItemLockInv, StockIsAccounted
<1>2. CASE ReadItem(e)
  <2> DEFINE i == edit[e].item
  <2> DEFINE n == IF edit[e].dto = None THEN stock[i] ELSE edit[e].dto
  <2>1. /\ edit' = [edit EXCEPT ![e] = [edit[e] EXCEPT !.pc = "save", !.stock = n]]
        /\ edit[e].pc = "read" /\ i \in Items
        /\ itemLock' = itemLock /\ stock' = stock /\ due' = due
    BY <1>2 DEF ReadItem
  <2>2. /\ edit'[e].pc = "save" /\ edit'[e].item = i /\ edit'[e].dto = edit[e].dto
        /\ edit'[e].stock = n
    <3> HIDE DEF n
    <3>1. QED
      BY <1>0, <2>1 DEF EditState
  <2>3. \A l \in Lines : LineOwns(l)'
    BY <1>0, <2>1 DEF ItemInv, ItemLockInv, LineOwns
  <2>4. \A f \in Editors \ {e} : EditOwns(f)'
    BY <1>0, <2>1 DEF ItemInv, ItemLockInv, EditOwns
  <2>5. EditOwns(e)'
    BY <1>0, <2>1, <2>2 DEF ItemInv, ItemLockInv, EditOwns
  <2>6. QED
    BY <1>0, <2>1, <2>3, <2>4, <2>5 DEF ItemInv, ItemLockInv, StockIsAccounted
<1>3. CASE SaveItem(e) \/ EditFails(e)
  <2> DEFINE i == edit[e].item
  <2>1. /\ i \in Items /\ edit[e].pc \in {"read", "save"}
        /\ edit' = [edit EXCEPT ![e] = NoEdit]
        /\ itemLock' = [itemLock EXCEPT ![i] = IF @ = e THEN None ELSE @]
    BY <1>3 DEF SaveItem, EditFails
  <2>2. edit'[e].pc = "idle"
    BY <2>1 DEF NoEdit
  <2>3. \A j \in Items \ {i} : stock'[j] = stock[j] /\ due'[j] = due[j]
    BY <1>3, <2>1 DEF SaveItem, EditFails
  <2>4. i \notin lapsed => itemLock[i] = e /\ stock'[i] = due'[i]
    <3>1. SUFFICES ASSUME i \notin lapsed
                   PROVE  itemLock[i] = e /\ stock'[i] = due'[i]
      OBVIOUS
    <3>2. EditOwns(e)
      BY DEF ItemInv, ItemLockInv
    <3>3. stock[i] = due[i]
      BY <2>1, <3>1 DEF ItemInv, ItemLockInv, StockIsAccounted
    <3>4. itemLock[i] = e
      BY <2>1, <3>1, <3>2 DEF EditOwns
    <3>5. CASE SaveItem(e)
      <4>1. /\ edit[e].stock = IF edit[e].dto = None THEN stock[i] ELSE edit[e].dto
            /\ stock'[i] = edit[e].stock
            /\ due'[i] = IF edit[e].dto = None THEN due[i] ELSE edit[e].dto
        <5>1. edit[e].pc = "save"
          BY <3>5 DEF SaveItem
        <5>2. edit[e].stock = IF edit[e].dto = None THEN stock[i] ELSE edit[e].dto
          BY <3>1, <3>2, <5>1 DEF EditOwns
        <5>3. stock'[i] = edit[e].stock
          BY <2>1, <3>5 DEF SaveItem
        <5>4. due'[i] = IF edit[e].dto = None THEN due[i] ELSE edit[e].dto
          BY <2>1, <3>5 DEF SaveItem
        <5>5. QED
          BY <5>2, <5>3, <5>4
      <4>2. QED
        BY <3>3, <3>4, <4>1
    <3>6. CASE EditFails(e)
      BY <3>3, <3>4, <3>6 DEF EditFails
    <3>7. QED
      BY <1>3, <3>5, <3>6
  <2>5. \A l \in Lines : LineOwns(l)'
    BY <1>0, <2>1 DEF ItemInv, ItemLockInv, LineOwns
  <2>6. ASSUME NEW f \in Editors \ {e}
        PROVE  EditOwns(f)'
    <3>1. CASE edit[f].pc \in {"read", "save"} /\ edit[f].item \notin lapsed
      <4>1. edit[f].item \in Items /\ itemLock[edit[f].item] = f /\ EditOwns(f)
        BY <3>1 DEF ItemInv, ItemLockInv, EditOwns
      <4>2. edit[f].item # i
        BY <2>4, <3>1, <4>1
      <4>3. QED
        BY <1>0, <2>1, <2>3, <4>1, <4>2 DEF EditOwns
    <3>2. QED
      BY <1>0, <3>1 DEF EditOwns
  <2>7. EditOwns(e)'
    BY <2>2 DEF EditOwns
  <2>8. StockIsAccounted'
    BY <1>0, <2>3, <2>4 DEF ItemInv, ItemLockInv, StockIsAccounted
  <2>9. QED
    BY <2>5, <2>6, <2>7, <2>8 DEF ItemInv, ItemLockInv
<1>4. QED
  BY <1>1, <1>2, <1>3 DEF EditStep

LEMMA ItemInvStep == TypeOK /\ ItemInv /\ [Next]_vars => ItemInv'
<1> SUFFICES ASSUME TypeOK, ItemInv, [Next]_vars PROVE ItemInv'
  OBVIOUS
<1>0. \A l \in Lines : Item(l) \in Items /\ l[1] \in Calls
  BY LineParts
<1>1. ASSUME UNCHANGED <<stock, due, edit, itemLock>>, lapsed \subseteq lapsed',
             \A l \in Lines : line'[l] = "update" => line[l] = "update"
      PROVE  ItemInv'
  BY <1>1 DEF ItemInv, ItemLockInv, LineOwns, EditOwns, StockIsAccounted
<1>2. ASSUME NEW c \in Calls, CallStep(c) \/ Fails(c)
      PROVE  ItemInv'
  <2>1. CASE StartDecrements(c)
    <3>1. UNCHANGED <<stock, due, edit, itemLock, lapsed>>
      BY <2>1 DEF StartDecrements
    <3>2. \A l \in Lines : line'[l] = "update" => line[l] = "update"
      BY <2>1 DEF StartDecrements
    <3>3. QED
      BY <1>1, <3>1, <3>2
  <2>2. CASE ~StartDecrements(c)
    <3>1. UNCHANGED <<stock, due, edit, itemLock, lapsed, line>>
      BY <1>2, <2>2 DEF CallStep, LockCreate, LockCreateFails, Lookup, Validate, Decremented,
         CreatePayment, SaveResult, Commit, Unlock, Fails
    <3>2. QED
      BY <1>1, <3>1
  <2>3. QED
    BY <2>1, <2>2
<1>3. ASSUME NEW c \in Calls, Crash(c)
      PROVE  ItemInv'
  <2>1. /\ UNCHANGED <<stock, due, edit, lapsed>>
        /\ \A l \in Lines : line'[l] = "update" => line[l] = "update" /\ l \notin LinesIn(c)
        /\ \A i \in Items : itemLock'[i] = itemLock[i] \/ itemLock[i] \in LinesIn(c)
    BY <1>3 DEF Crash, LinesIn
  <2>2. \A e \in Editors : e \notin LinesIn(c)
    BY OwnersDiffer DEF LinesIn
  <2>3. \A l \in Lines : LineOwns(l)'
    BY <1>0, <2>1 DEF ItemInv, ItemLockInv, LineOwns
  <2>4. \A e \in Editors : EditOwns(e)'
    BY <2>1, <2>2 DEF ItemInv, ItemLockInv, EditOwns, TypeOK
  <2>5. QED
    BY <2>1, <2>3, <2>4 DEF ItemInv, ItemLockInv, StockIsAccounted
<1>4. ASSUME NEW k \in Keys, CreateLockExpires(k) \/ CacheExpires(k)
      PROVE  ItemInv'
  <2>1. UNCHANGED <<stock, due, edit, itemLock, line>> /\ lapsed \subseteq lapsed'
    BY <1>4 DEF CreateLockExpires, CacheExpires
  <2>2. QED
    BY <1>1, <2>1
<1>5. ASSUME NEW i \in Items, ItemLockExpires(i)
      PROVE  ItemInv'
  <2>1. /\ UNCHANGED <<stock, due, edit, line>> /\ lapsed \subseteq lapsed'
        /\ \A j \in Items : j \notin lapsed' => itemLock'[j] = itemLock[j] \/ itemLock[j] = Dead
    BY <1>5 DEF ItemLockExpires, TypeOK
  <2>2. \A l \in Lines : l # Dead
    BY OwnersDiffer DEF Holders
  <2>3. \A e \in Editors : e # Dead
    BY OwnersDiffer DEF Holders
  <2>4. \A l \in Lines : LineOwns(l)'
    BY <1>0, <2>1, <2>2 DEF ItemInv, ItemLockInv, LineOwns
  <2>5. \A e \in Editors : EditOwns(e)'
    BY <2>1, <2>3 DEF ItemInv, ItemLockInv, EditOwns, TypeOK
  <2>6. QED
    BY <2>1, <2>4, <2>5 DEF ItemInv, ItemLockInv, StockIsAccounted
<1>6. CASE UNCHANGED vars
  BY <1>1, <1>6 DEF vars
<1>7. QED
  BY <1>2, <1>3, <1>4, <1>5, <1>6, ItemInvLine, ItemInvEdit DEF Next

\* Every decrement and every administrator's stock counts, while the leases of the
\* item last.
THEOREM StockIsAccountedHolds == Spec => []StockIsAccounted
<1>1. Init => ItemInv
  BY CheckoutAssumption DEF Init, ItemInv, ItemLockInv, LineOwns, EditOwns, StockIsAccounted, NoEdit
<1>2. ItemInv => StockIsAccounted
  BY DEF ItemInv
<1>3. QED
  BY <1>1, <1>2, TypeInit, TypeStep, ItemInvStep, PTL DEF Spec
=============================================================================
