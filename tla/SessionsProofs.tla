--------------------------- MODULE SessionsProofs ---------------------------
(* What holds of the session of an account for any number of requests,      *)
(* tokens and roles, and for any lifetimes with AccessTTL <= BlacklistTTL.  *)
EXTENDS Sessions, TLAPS

\* The role r was the account's at time at: it still is, or was lost since.
Held(r, at) == r = row.role \/ (lost[r] # None /\ at <= lost[r])

\* Who is signing: the new token is nobody else's, and was never exchanged.
SignInv ==
  /\ \A c \in Calls : call[c].fresh # None =>
       /\ issued[call[c].fresh] = None /\ exchanged[call[c].fresh] = 0
       /\ call[c].at <= now
       /\ call[c].role \in Roles /\ Held(call[c].role, call[c].at)
  /\ \A c, d \in Calls : c # d /\ call[c].fresh # None => call[c].fresh # call[d].fresh

\* What a call has at each of its steps.
StepInv ==
  \A c \in Calls :
    /\ call[c].op \in {"refresh", "reuse", "logout"} =>
         call[c].token \in Tokens /\ issued[call[c].token] # None
    /\ call[c].op \in {"login", "refresh"} /\ call[c].pc \in {"store", "stored"} =>
         call[c].fresh \in Tokens
    /\ call[c].op = "update" => call[c].role \in Roles
    /\ call[c].pc = "store" => call[c].op \in {"login", "refresh", "reuse", "logout"}
    /\ call[c].pc \in {"stored", "revoked"} => owner = c
    /\ call[c].pc \in {"stored", "revoked"} /\ call[c].op # "update" =>
         pending.token = call[c].fresh /\ pending.role = row.role
    /\ call[c].pc = "revoked" =>
         call[c].op \in {"reuse", "logout"} /\ blacklist[call[c].token] # None

\* Who exchanges a token has the lock of refreshes, and the token is good for it.
ExchangeInv ==
  /\ \A c \in Calls : call[c].op = "refresh" /\ call[c].pc \in {"store", "stored"} =>
       /\ locks["auth-refresh"] = c
       /\ exchanged[call[c].token] <= restored[call[c].token]
  /\ \A t \in Tokens : row.token = t => exchanged[t] <= restored[t]
  /\ \A t \in Tokens : exchanged[t] > 0 => issued[t] # None

\* The claims of a token were true when they were signed.
ClaimsInv ==
  \A t \in Tokens : issued[t] # None =>
    issued[t].at <= now /\ Held(issued[t].role, issued[t].at)

\* The entry a logout leaves is not older than its token.
EndedInv ==
  /\ \A t \in Tokens : blacklist[t] # None =>
       issued[t] # None /\ issued[t].at <= blacklist[t]
  /\ \A t \in ended : blacklist[t] # None

Inv == TypeOK /\ SignInv /\ StepInv /\ ExchangeInv /\ RotatedOnce /\ ClaimsInv /\ EndedInv

\* None is nothing else, and the lifetimes are numbers.
LEMMA NoneDiffers ==
  /\ None \notin Tokens /\ None \notin Calls /\ None \notin Roles /\ None \notin Nat
  /\ None \notin Claims
  /\ AccessTTL \in Nat /\ BlacklistTTL \in Nat /\ AccessTTL <= BlacklistTTL
  BY SessionsAssumption DEF Claims

LEMMA IdleIsCall == Idle \in CallState
  BY DEF Idle, CallState, Ops, Pcs

\* A call moves on in its own record.
LEMMA CallMoves ==
  ASSUME NEW x \in CallState
  PROVE  /\ \A p \in Pcs : [x EXCEPT !.pc = p] \in CallState
         /\ \A o \in Ops, p \in Pcs : [x EXCEPT !.op = o, !.pc = p] \in CallState
  BY DEF CallState

LEMMA SignedIsCall ==
  ASSUME NEW o \in Ops, NEW p \in Pcs, NEW t \in Tokens \cup {None},
         NEW f \in Tokens \cup {None}, NEW a \in Nat, NEW r \in Roles \cup {None}
  PROVE  [op |-> o, pc |-> p, token |-> t, fresh |-> f, at |-> a, role |-> r] \in CallState
  BY DEF CallState

\* A step of a call replaces its own record only.
LEMMA CallFrame ==
  ASSUME TypeOK, NEW c \in Calls, CallNext(c)
  PROVE  /\ call' \in [Calls -> CallState]
         /\ \A d \in Calls \ {c} : call'[d] = call[d]
<1> DEFINE Moves(x) == call' = [call EXCEPT ![c] = x]
<1>0. call \in [Calls -> CallState] /\ call[c] \in CallState
  BY DEF TypeOK
<1>1. ASSUME NEW x \in CallState, Moves(x)
      PROVE  /\ call' \in [Calls -> CallState]
             /\ \A d \in Calls \ {c} : call'[d] = call[d]
  BY <1>0, <1>1
<1> HIDE DEF Moves
<1>2. "store" \in Pcs /\ "stored" \in Pcs /\ "revoked" \in Pcs /\ "queued" \in Pcs
      /\ "nested" \in Pcs /\ "read" \in Pcs
      /\ {"login", "refresh", "reuse", "logout", "update"} \subseteq Ops
  BY DEF Pcs, Ops
<1>3. now \in Nat /\ 0 \in Nat /\ row.token \in Tokens \cup {None}
      /\ row.role \in Roles \cup {None} /\ call[c].token \in Tokens \cup {None}
  BY <1>0 DEF TypeOK, Row, CallState
<1>4. ASSUME NEW key, NEW op \in Ops, NEW t \in Tokens \cup {None}, Sign(c, key, op, t)
      PROVE  \E x \in CallState : Moves(x)
  <2>1. PICK f \in Tokens :
          call' = [call EXCEPT ![c] = [op |-> op, pc |-> "store", token |-> t,
                                       fresh |-> f, at |-> now, role |-> row.role]]
    BY <1>4 DEF Sign
  <2>2. [op |-> op, pc |-> "store", token |-> t, fresh |-> f, at |-> now, role |-> row.role]
          \in CallState
    BY <1>2, <1>3, SignedIsCall
  <2>3. QED
    BY <2>1, <2>2 DEF Moves
<1>5. ASSUME NEW op \in Ops, NEW t \in Tokens, Enter(c, op, t)
      PROVE  \E x \in CallState : Moves(x)
  <2>1. [op |-> op, pc |-> "queued", token |-> t, fresh |-> None, at |-> 0, role |-> None]
          \in CallState
    BY <1>2, <1>3, SignedIsCall
  <2>2. QED
    BY <1>5, <2>1 DEF Enter, Moves
<1>6. CASE Login(c)
  <2>1. Sign(c, "auth-login", "login", None)
    BY <1>6 DEF Login
  <2>2. QED
    BY <2>1, <1>1, <1>2, <1>4
<1>7. CASE Refresh(c)
  <2>1. Sign(c, "auth-refresh", "refresh", call[c].token)
    BY <1>7 DEF Refresh
  <2>2. QED
    BY <2>1, <1>1, <1>2, <1>3, <1>4
<1>8. CASE \E t \in Tokens : RefreshEnter(c, t) \/ LogoutEnter(c, t)
  <2>1. PICK t \in Tokens : Enter(c, "refresh", t) \/ Enter(c, "logout", t)
    BY <1>8 DEF RefreshEnter, LogoutEnter
  <2>2. QED
    BY <2>1, <1>1, <1>2, <1>5
<1>9. CASE RefreshRefused(c)
  <2>1. Moves([call[c] EXCEPT !.op = "reuse", !.pc = "nested"])
    BY <1>9 DEF RefreshRefused, Moves
  <2>2. [call[c] EXCEPT !.op = "reuse", !.pc = "nested"] \in CallState
    BY <1>0, <1>2, CallMoves
  <2>3. QED
    BY <2>1, <2>2, <1>1
<1>10. CASE LoginCommit(c) \/ RefreshCommit(c) \/ LogoutCommit(c) \/ UpdateCommit(c) \/ Fail(c)
  <2>1. Moves(Idle)
    BY <1>10 DEF LoginCommit, RefreshCommit, LogoutCommit, UpdateCommit, Fail, CommitRow, Moves
  <2>2. QED
    BY <2>1, <1>1, IdleIsCall
<1>11. CASE Logout(c) \/ Blacklist(c) \/ Store(c) \/ UpdateSave(c)
  <2>1. \E p \in Pcs : Moves([call[c] EXCEPT !.pc = p])
    BY <1>11, <1>2 DEF Logout, Blacklist, Store, UpdateSave, Moves
  <2>2. QED
    BY <2>1, <1>0, <1>1, CallMoves
<1>12. CASE \E r \in Roles : UpdateRead(c, r)
  <2>1. PICK r \in Roles : UpdateRead(c, r)
    BY <1>12
  <2>2. Moves([op |-> "update", pc |-> "read", token |-> row.token, fresh |-> None,
               at |-> 0, role |-> r])
    BY <2>1 DEF UpdateRead, Moves
  <2>3. [op |-> "update", pc |-> "read", token |-> row.token, fresh |-> None, at |-> 0,
         role |-> r] \in CallState
    BY <1>2, <1>3, SignedIsCall
  <2>4. QED
    BY <2>2, <2>3, <1>1
<1>13. QED
  BY <1>6, <1>7, <1>8, <1>9, <1>10, <1>11, <1>12 DEF CallNext

\* The types of the other variables.
LEMMA TypeStep ==
  ASSUME TypeOK, SignInv, StepInv, [Next]_vars
  PROVE  TypeOK'
<1>1. CASE UNCHANGED vars
  BY <1>1 DEF vars, TypeOK
<1>2. CASE Tick
  BY <1>2 DEF Tick, TypeOK
<1>3. ASSUME NEW c \in Calls, CallNext(c)
      PROVE  TypeOK'
  <2>1. call' \in [Calls -> CallState]
    BY <1>3, CallFrame
  <2>2. call[c] \in CallState /\ now \in Nat /\ row \in Row /\ pending \in Row
        /\ row.token \in Tokens \cup {None} /\ row.role \in Roles
    BY DEF TypeOK, Row
  <2>3. call[c].token \in Tokens \cup {None} /\ call[c].fresh \in Tokens \cup {None}
        /\ call[c].at \in Nat
    BY <2>2 DEF CallState
  <2>4. Unlock(c) \in [LockKeys -> Calls \cup {None}]
    BY DEF TypeOK, Unlock
  <2>5. ASSUME NEW key \in LockKeys, NEW op, NEW t, Sign(c, key, op, t), arrived' \in Nat
        PROVE  TypeOK'
    BY <2>1, <2>5 DEF Sign, TypeOK
  <2>6. CASE Login(c)
    <3>1. Sign(c, "auth-login", "login", None) /\ arrived' = arrived + 1
      BY <2>6 DEF Login, Arrive
    <3>2. arrived' \in Nat /\ "auth-login" \in LockKeys
      BY <3>1 DEF TypeOK, LockKeys
    <3>3. QED
      BY <3>1, <3>2, <2>5
  <2>7. CASE Refresh(c)
    <3>1. Sign(c, "auth-refresh", "refresh", call[c].token) /\ arrived' = arrived
      BY <2>7 DEF Refresh
    <3>2. arrived' \in Nat /\ "auth-refresh" \in LockKeys
      BY <3>1 DEF TypeOK, LockKeys
    <3>3. QED
      BY <3>1, <3>2, <2>5
  <2>8. CASE LoginCommit(c) \/ RefreshCommit(c)
    <3>1. call[c].fresh \in Tokens /\ call[c].fresh # None
      BY <2>8, NoneDiffers DEF LoginCommit, RefreshCommit, StepInv
    <3>2. call[c].role \in Roles
      BY <3>1 DEF SignInv
    <3>3. [at |-> call[c].at, role |-> call[c].role] \in Claims
      BY <2>3, <3>2 DEF Claims
    <3>4. issued' \in [Tokens -> Claims \cup {None}] /\ notices' \subseteq Tokens
          /\ exchanged' \in [Tokens -> Nat]
      <4>1. issued' = [issued EXCEPT ![call[c].fresh] =
                                        [at |-> call[c].at, role |-> call[c].role]]
        BY <2>8 DEF LoginCommit, RefreshCommit
      <4>2. issued' \in [Tokens -> Claims \cup {None}]
        BY <3>3, <4>1 DEF TypeOK
      <4>3. QED
        BY <2>8, <3>1, <4>2 DEF LoginCommit, RefreshCommit, TypeOK
    <3>5. row' \in Row /\ owner' = None /\ locks' = Unlock(c)
      BY <2>2, <2>8 DEF LoginCommit, RefreshCommit, CommitRow
    <3>6. QED
      BY <2>1, <2>4, <2>8, <3>4, <3>5 DEF LoginCommit, RefreshCommit, TypeOK
  <2>9. CASE \E t \in Tokens : RefreshEnter(c, t) \/ LogoutEnter(c, t)
    BY <2>1, <2>9 DEF RefreshEnter, LogoutEnter, Enter, Arrive, TypeOK
  <2>10. CASE RefreshRefused(c) \/ Logout(c)
    BY <2>1, <2>10 DEF RefreshRefused, Logout, LockKeys, TypeOK
  <2>11. CASE Blacklist(c)
    BY <2>1, <2>2, <2>11 DEF Blacklist, TypeOK, Time
  <2>12. CASE LogoutCommit(c)
    <3>1. call[c].token \in Tokens
      BY <2>12 DEF LogoutCommit, StepInv
    <3>2. QED
      BY <2>1, <2>2, <2>4, <2>12, <3>1 DEF LogoutCommit, CommitRow, TypeOK
  <2>13. CASE \E r \in Roles : UpdateRead(c, r)
    BY <2>1, <2>13 DEF UpdateRead, Arrive, LockKeys, TypeOK
  <2>14. CASE UpdateSave(c)
    <3>1. call[c].role \in Roles
      BY <2>14 DEF UpdateSave, StepInv
    <3>2. pending' \in Row
      BY <2>2, <2>3, <2>14, <3>1 DEF UpdateSave, Row
    <3>3. QED
      BY <2>1, <2>14, <3>2 DEF UpdateSave, TypeOK
  <2>15. CASE UpdateCommit(c)
    <3>1. lost' \in [Roles -> Time]
      BY <2>2, <2>15 DEF UpdateCommit, TypeOK, Time
    <3>2. restored' \in [Tokens -> Nat]
      BY <2>15 DEF UpdateCommit, TypeOK
    <3>3. QED
      BY <2>1, <2>2, <2>4, <2>15, <3>1, <3>2 DEF UpdateCommit, CommitRow, TypeOK
  <2>16. CASE Store(c)
    <3>1. pending' \in Row
      BY <2>2, <2>3, <2>16 DEF Store, Row
    <3>2. QED
      BY <2>1, <2>16, <3>1 DEF Store, TypeOK
  <2>17. CASE Fail(c)
    BY <2>1, <2>2, <2>4, <2>17 DEF Fail, TypeOK
  <2>18. QED
    BY <1>3, <2>6, <2>7, <2>8, <2>9, <2>10, <2>11, <2>12, <2>13, <2>14, <2>15, <2>16, <2>17
       DEF CallNext
<1>4. QED
  BY <1>1, <1>2, <1>3 DEF Next

-----------------------------------------------------------------------------
\* What the steps that do not commit leave as it is.
Commits(c) == LoginCommit(c) \/ RefreshCommit(c) \/ LogoutCommit(c) \/ UpdateCommit(c)

LEMMA QuietStep ==
  ASSUME NEW c \in Calls, CallNext(c), ~ Commits(c)
  PROVE  UNCHANGED <<row, issued, exchanged, restored, lost, ended>>
  BY DEF CallNext, Commits, Login, Refresh, Sign, RefreshEnter, LogoutEnter, Enter,
         RefreshRefused, Logout, Blacklist, UpdateRead, UpdateSave, Store, Fail

LEMMA ClockStep ==
  ASSUME NEW c \in Calls, CallNext(c)
  PROVE  now' = now
  BY DEF CallNext, Login, Refresh, Sign, RefreshEnter, LogoutEnter, Enter, RefreshRefused,
         Logout, Blacklist, UpdateRead, UpdateSave, Store, Fail, LoginCommit, RefreshCommit,
         LogoutCommit, UpdateCommit

\* A pair is signed with what is so now, and kept until the call ends.
LEMMA SignStep ==
  ASSUME TypeOK, NEW c \in Calls, NEW key, NEW op, NEW p, Sign(c, key, op, p)
  PROVE  \E t \in Tokens :
           /\ Unused(t)
           /\ call'[c] = [op |-> op, pc |-> "store", token |-> p, fresh |-> t, at |-> now,
                          role |-> row.role]
  BY DEF Sign, NextToken, TypeOK

LEMMA CallKeeps ==
  ASSUME NEW x \in CallState, NEW y,
         y = [x EXCEPT !.op = "reuse", !.pc = "nested"] \/ \E p : y = [x EXCEPT !.pc = p]
  PROVE  y.fresh = x.fresh /\ y.at = x.at /\ y.role = x.role /\ y.token = x.token
  BY DEF CallState

LEMMA FreshStep ==
  ASSUME TypeOK, NEW c \in Calls, CallNext(c), call'[c].fresh # None
  PROVE  /\ ~ Commits(c)
         /\ \/ /\ call'[c].fresh = call[c].fresh
               /\ call'[c].at = call[c].at /\ call'[c].role = call[c].role
            \/ /\ call'[c].fresh \in Tokens /\ Unused(call'[c].fresh)
               /\ call'[c].at = now /\ call'[c].role = row.role
<1>0. call \in [Calls -> CallState] /\ call[c] \in CallState
  BY DEF TypeOK
<1>1. ~ Commits(c) /\ ~ Fail(c)
  <2>1. Idle.fresh = None
    BY DEF Idle
  <2>2. QED
    BY <1>0, <2>1 DEF Commits, LoginCommit, RefreshCommit, LogoutCommit, UpdateCommit,
                      CommitRow, Fail
<1>2. CASE Login(c) \/ Refresh(c)
  <2>1. PICK key, op, p : Sign(c, key, op, p)
    BY <1>2 DEF Login, Refresh
  <2>2. PICK t \in Tokens :
          /\ Unused(t)
          /\ call'[c] = [op |-> op, pc |-> "store", token |-> p, fresh |-> t, at |-> now,
                         role |-> row.role]
    BY <2>1, SignStep
  <2>3. QED
    BY <1>1, <2>2
<1>3. CASE (\E t \in Tokens : RefreshEnter(c, t) \/ LogoutEnter(c, t))
           \/ (\E r \in Roles : UpdateRead(c, r))
  BY <1>0, <1>3 DEF RefreshEnter, LogoutEnter, Enter, UpdateRead
<1>4. CASE RefreshRefused(c) \/ Logout(c) \/ Blacklist(c) \/ Store(c) \/ UpdateSave(c)
  <2>1. call'[c] = [call[c] EXCEPT !.op = "reuse", !.pc = "nested"]
        \/ \E p : call'[c] = [call[c] EXCEPT !.pc = p]
    BY <1>0, <1>4 DEF RefreshRefused, Logout, Blacklist, Store, UpdateSave
  <2>2. QED
    BY <1>0, <1>1, <2>1, CallKeeps
<1>5. QED
  BY <1>1, <1>2, <1>3, <1>4 DEF CallNext, Commits

\* A commit gives the account what its transaction made of the row.
LEMMA CommitStep ==
  ASSUME TypeOK, StepInv, NEW c \in Calls, Commits(c)
  PROVE  /\ row' = pending /\ owner = c /\ owner' = None
         /\ call'[c] = Idle
         /\ call[c].pc \in {"stored", "revoked"}
         /\ ~ UpdateCommit(c) =>
              pending.token = call[c].fresh /\ pending.role = row.role /\ lost' = lost
              /\ restored' = restored
         /\ call[c].op = "update" => UpdateCommit(c)
<1>1. row' = pending /\ owner = c /\ owner' = None /\ call' = [call EXCEPT ![c] = Idle]
  BY DEF Commits, LoginCommit, RefreshCommit, LogoutCommit, UpdateCommit, CommitRow
<1>2. call[c].pc \in {"stored", "revoked"}
  BY DEF Commits, LoginCommit, RefreshCommit, LogoutCommit, UpdateCommit
<1>3. ASSUME ~ UpdateCommit(c)
      PROVE  call[c].op # "update" /\ lost' = lost /\ restored' = restored
  BY <1>3 DEF Commits, LoginCommit, RefreshCommit, LogoutCommit, StepInv
<1>4. call'[c] = Idle
  BY <1>1 DEF TypeOK
<1>5. QED
  BY <1>1, <1>2, <1>3, <1>4 DEF StepInv

\* What was the account's role was lost no earlier than it was so.
LEMMA HeldStays ==
  ASSUME TypeOK, StepInv, [Next]_vars, NEW r \in Roles, NEW at \in Nat, at <= now, Held(r, at)
  PROVE  Held(r, at)'
<1>1. CASE UNCHANGED vars \/ Tick
  BY <1>1 DEF vars, Tick, Held
<1>2. ASSUME NEW c \in Calls, CallNext(c)
      PROVE  Held(r, at)'
  <2>1. CASE ~ Commits(c)
    BY <1>2, <2>1, QuietStep DEF Held
  <2>2. CASE Commits(c) /\ ~ UpdateCommit(c)
    BY <2>2, CommitStep DEF Held
  <2>3. CASE UpdateCommit(c)
    <3>1. row' = pending
          /\ lost' = IF pending.role = row.role THEN lost ELSE [lost EXCEPT ![row.role] = now]
      BY <2>3 DEF UpdateCommit, CommitRow
    <3>2. now # None /\ row.role \in Roles
      BY NoneDiffers DEF TypeOK, Row
    <3>3. lost \in [Roles -> Time]
      BY DEF TypeOK
    <3>4. CASE r = row.role
      BY <3>1, <3>2, <3>3, <3>4 DEF Held
    <3>5. CASE r # row.role
      BY <3>1, <3>2, <3>3, <3>5 DEF Held
    <3>6. QED
      BY <3>4, <3>5
  <2>4. QED
    BY <2>1, <2>2, <2>3
<1>3. QED
  BY <1>1, <1>2 DEF Next

LEMMA SignInvStep ==
  ASSUME TypeOK, SignInv, StepInv, ExchangeInv, [Next]_vars
  PROVE  SignInv'
<1>0. call \in [Calls -> CallState] /\ issued \in [Tokens -> Claims \cup {None}]
      /\ exchanged \in [Tokens -> Nat] /\ now \in Nat /\ row.role \in Roles
  BY DEF TypeOK, Row
<1>1. CASE UNCHANGED vars
  BY <1>1 DEF vars, SignInv, Held
<1>2. CASE Tick
  <2>1. \A c \in Calls : call[c].at \in Nat
    BY <1>0 DEF CallState
  <2>2. UNCHANGED <<row, call, issued, exchanged, lost>> /\ now' = now + 1
    BY <1>2 DEF Tick
  <2>3. QED
    BY <1>0, <2>1, <2>2 DEF SignInv, Held
<1>3. ASSUME NEW c \in Calls, CallNext(c)
      PROVE  SignInv'
  <2>1. \A d \in Calls \ {c} : call'[d] = call[d]
    BY <1>3, CallFrame
  <2>2. now' = now
    BY <1>3, ClockStep
  \* A commit issues and exchanges tokens that nobody is about to sign.
  <2>3. ASSUME NEW d \in Calls, NEW t \in Tokens, t = call'[d].fresh, t # None,
               issued[t] = None, exchanged[t] = 0
        PROVE  issued'[t] = None /\ exchanged'[t] = 0
    <3>1. CASE ~ Commits(c)
      BY <1>3, <2>3, <3>1, QuietStep
    <3>2. CASE Commits(c)
      <4>1. d # c
        BY <1>3, <2>3, <3>2, FreshStep
      <4>2. call[c].fresh # t
        BY <2>1, <2>3, <4>1 DEF SignInv
      <4>3. issued'[t] = issued[t]
        BY <1>0, <3>2, <4>2
           DEF Commits, LoginCommit, RefreshCommit, LogoutCommit, UpdateCommit
      <4>4. call[c].op = "refresh" => call[c].token # t
        BY <2>3 DEF StepInv
      <4>5. exchanged'[t] = exchanged[t]
        BY <1>0, <3>2, <4>4
           DEF Commits, LoginCommit, RefreshCommit, LogoutCommit, UpdateCommit
      <4>6. QED
        BY <2>3, <4>3, <4>5
    <3>3. QED
      BY <3>1, <3>2
  <2>4. ASSUME NEW d \in Calls, call'[d].fresh # None
        PROVE  /\ issued'[call'[d].fresh] = None /\ exchanged'[call'[d].fresh] = 0
               /\ call'[d].at <= now'
               /\ call'[d].role \in Roles /\ Held(call[d].role, call[d].at)'
    <3>1. call'[d] \in CallState
      BY <1>3, CallFrame
    <3>2. call'[d].fresh \in Tokens /\ call'[d].at \in Nat
      BY <2>4, <3>1 DEF CallState
    <3>3. CASE /\ call'[d].fresh = call[d].fresh /\ call'[d].at = call[d].at
               /\ call'[d].role = call[d].role
      <4>1. /\ issued[call[d].fresh] = None /\ exchanged[call[d].fresh] = 0
            /\ call[d].at <= now /\ call[d].role \in Roles /\ Held(call[d].role, call[d].at)
        BY <2>4, <3>3 DEF SignInv
      <4>2. issued'[call'[d].fresh] = None /\ exchanged'[call'[d].fresh] = 0
        BY <2>3, <2>4, <3>2, <3>3, <4>1
      <4>3. Held(call[d].role, call[d].at)'
        <5>1. \E r \in Roles, a \in Nat : r = call[d].role /\ a = call[d].at
          BY <3>2, <3>3, <4>1
        <5>2. PICK r \in Roles, a \in Nat : r = call[d].role /\ a = call[d].at
          BY <5>1
        <5>3. Held(r, a)'
          BY <4>1, <5>2, HeldStays
        <5>4. r = call'[d].role /\ a = call'[d].at
          BY <3>3, <5>2
        <5>5. QED
          BY <5>3, <5>4 DEF Held
      <4>4. QED
        BY <2>2, <3>3, <4>1, <4>2, <4>3
    <3>4. CASE /\ d = c /\ Unused(call'[d].fresh)
               /\ call'[d].at = now /\ call'[d].role = row.role
      <4>1. ~ Commits(c)
        BY <1>3, <2>4, <3>4, FreshStep
      <4>2. exchanged[call'[d].fresh] = 0
        BY <1>0, <3>2, <3>4 DEF Unused, ExchangeInv
      <4>3. QED
        BY <1>0, <1>3, <2>2, <3>2, <3>4, <4>1, <4>2, QuietStep DEF Unused, Held
    <3>5. QED
      BY <1>3, <2>1, <2>4, <3>3, <3>4, FreshStep
  <2>5. ASSUME NEW d \in Calls, NEW e \in Calls, d # e, call'[d].fresh # None
        PROVE  call'[d].fresh # call'[e].fresh
    <3>1. ASSUME NEW f \in Calls \ {c}, call'[c].fresh # None
          PROVE  call'[c].fresh # call'[f].fresh
      BY <1>3, <2>1, <3>1, FreshStep DEF SignInv, Unused
    <3>2. CASE d # c /\ e # c
      BY <2>1, <2>5, <3>2 DEF SignInv
    <3>3. QED
      BY <2>5, <3>1, <3>2
  <2>6. QED
    BY <2>4, <2>5 DEF SignInv
<1>4. QED
  BY <1>1, <1>2, <1>3 DEF Next

-----------------------------------------------------------------------------
\* Claims stay as they were signed, and a blacklisted jti stays one.
LEMMA IssuedStays ==
  ASSUME TypeOK, SignInv, StepInv, [Next]_vars, NEW t \in Tokens, issued[t] # None
  PROVE  issued'[t] = issued[t]
<1>1. CASE UNCHANGED vars \/ Tick
  BY <1>1 DEF vars, Tick
<1>2. ASSUME NEW c \in Calls, CallNext(c)
      PROVE  issued'[t] = issued[t]
  <2>1. CASE ~ Commits(c)
    BY <1>2, <2>1, QuietStep
  <2>2. CASE Commits(c)
    <3>1. LoginCommit(c) \/ RefreshCommit(c) => call[c].fresh \in Tokens /\ call[c].fresh # None
      BY NoneDiffers DEF LoginCommit, RefreshCommit, StepInv
    <3>2. LoginCommit(c) \/ RefreshCommit(c) => call[c].fresh # t
      BY <3>1 DEF SignInv
    <3>3. QED
      BY <2>2, <3>2
         DEF TypeOK, Commits, LoginCommit, RefreshCommit, LogoutCommit, UpdateCommit
  <2>3. QED
    BY <2>1, <2>2
<1>3. QED
  BY <1>1, <1>2 DEF Next

LEMMA BlacklistStays ==
  ASSUME TypeOK, [Next]_vars, NEW t \in Tokens, blacklist[t] # None
  PROVE  blacklist'[t] \in {blacklist[t], now} /\ blacklist'[t] # None
<1>1. CASE UNCHANGED vars \/ Tick
  BY <1>1 DEF vars, Tick
<1>2. ASSUME NEW c \in Calls, CallNext(c)
      PROVE  blacklist'[t] \in {blacklist[t], now} /\ blacklist'[t] # None
  <2>1. blacklist' = blacklist \/ blacklist' = [blacklist EXCEPT ![call[c].token] = now]
    BY <1>2 DEF CallNext, Login, Refresh, Sign, RefreshEnter, LogoutEnter, Enter,
      RefreshRefused, Logout, Blacklist, UpdateRead, UpdateSave, Store, Fail, LoginCommit,
      RefreshCommit, LogoutCommit, UpdateCommit
  <2>2. QED
    BY <2>1, NoneDiffers DEF TypeOK
<1>3. QED
  BY <1>1, <1>2 DEF Next

\* Nobody else touches the row, or what becomes of it, while a call owns it.
LEMMA OwnerKept ==
  ASSUME NEW c \in Calls, NEW d \in Calls \ {c}, CallNext(c), owner = d
  PROVE  owner' = d /\ pending' = pending /\ row' = row
  BY NoneDiffers DEF CallNext, Login, Refresh, Sign, RefreshEnter, LogoutEnter, Enter,
     RefreshRefused, Logout, Blacklist, UpdateRead, UpdateSave, Store, Fail, LoginCommit,
     RefreshCommit, LogoutCommit, UpdateCommit, CommitRow

\* StepInv, of one call.
StepOk(c) ==
  /\ call[c].op \in {"refresh", "reuse", "logout"} =>
       call[c].token \in Tokens /\ issued[call[c].token] # None
  /\ call[c].op \in {"login", "refresh"} /\ call[c].pc \in {"store", "stored"} =>
       call[c].fresh \in Tokens
  /\ call[c].op = "update" => call[c].role \in Roles
  /\ call[c].pc = "store" => call[c].op \in {"login", "refresh", "reuse", "logout"}
  /\ call[c].pc \in {"stored", "revoked"} => owner = c
  /\ call[c].pc \in {"stored", "revoked"} /\ call[c].op # "update" =>
       pending.token = call[c].fresh /\ pending.role = row.role
  /\ call[c].pc = "revoked" =>
       call[c].op \in {"reuse", "logout"} /\ blacklist[call[c].token] # None

LEMMA StepIsOk == StepInv <=> \A c \in Calls : StepOk(c)
  BY DEF StepInv, StepOk

LEMMA StepOther ==
  ASSUME TypeOK, SignInv, StepInv, [Next]_vars, NEW c \in Calls, CallNext(c),
         NEW d \in Calls \ {c}
  PROVE  StepOk(d)'
<1>1. call'[d] = call[d]
  BY CallFrame
<1>2. StepOk(d)
  BY StepIsOk
<1>3. call[d].token \in Tokens /\ issued[call[d].token] # None =>
        issued'[call[d].token] # None
  BY IssuedStays
<1>4. call[d].token \in Tokens /\ blacklist[call[d].token] # None =>
        blacklist'[call[d].token] # None
  BY BlacklistStays
<1>5. owner = d => owner' = d /\ pending' = pending /\ row' = row
  BY OwnerKept
<1>6. QED
  BY <1>1, <1>2, <1>3, <1>4, <1>5 DEF StepOk

LEMMA StepSelf ==
  ASSUME TypeOK, SignInv, StepInv, [Next]_vars, NEW c \in Calls, CallNext(c)
  PROVE  StepOk(c)'
<1>0. call \in [Calls -> CallState] /\ call[c] \in CallState /\ row \in Row
  BY DEF TypeOK
<1>1. StepOk(c)
  BY StepIsOk
<1>2. ASSUME NEW t \in Tokens, issued[t] # None
      PROVE  issued'[t] # None
  BY <1>2, IssuedStays
<1>3. CASE Login(c)
  <2>1. Sign(c, "auth-login", "login", None)
    BY <1>3 DEF Login
  <2>2. PICK t \in Tokens :
          call'[c] = [op |-> "login", pc |-> "store", token |-> None, fresh |-> t,
                      at |-> now, role |-> row.role]
    BY <2>1, SignStep
  <2>3. QED
    BY <2>2 DEF StepOk
<1>4. CASE Refresh(c)
  <2>1. PICK p : p = call[c].token /\ Sign(c, "auth-refresh", "refresh", p)
                 /\ call[c].op = "refresh"
    BY <1>4 DEF Refresh
  <2>2. PICK t \in Tokens :
          call'[c] = [op |-> "refresh", pc |-> "store", token |-> p, fresh |-> t,
                      at |-> now, role |-> row.role]
    <3>1. Sign(c, "auth-refresh", "refresh", p)
      BY <2>1
    <3>2. QED
      BY <3>1, SignStep
  <2>3. QED
    BY <1>1, <1>2, <2>1, <2>2 DEF StepOk
<1>5. CASE \E t \in Tokens : RefreshEnter(c, t) \/ LogoutEnter(c, t)
  <2>1. PICK t \in Tokens, o \in {"refresh", "logout"} : Enter(c, o, t) /\ issued[t] # None
    BY <1>5 DEF RefreshEnter, LogoutEnter, RefreshAdmitted, AccessAdmitted
  <2>2. call'[c] = [op |-> o, pc |-> "queued", token |-> t, fresh |-> None, at |-> 0,
                    role |-> None]
    BY <1>0, <2>1 DEF Enter
  <2>3. QED
    BY <1>2, <2>1, <2>2 DEF StepOk
<1>6. CASE RefreshRefused(c)
  <2>1. call'[c] = [call[c] EXCEPT !.op = "reuse", !.pc = "nested"] /\ call[c].op = "refresh"
    BY <1>0, <1>6 DEF RefreshRefused
  <2>2. call'[c].op = "reuse" /\ call'[c].pc = "nested" /\ call'[c].token = call[c].token
    BY <1>0, <2>1 DEF CallState
  <2>3. QED
    BY <1>1, <1>2, <2>1, <2>2 DEF StepOk
<1>7. CASE Commits(c) \/ Fail(c)
  <2>1. call'[c] = Idle
    BY <1>0, <1>7 DEF Commits, Fail, LoginCommit, RefreshCommit, LogoutCommit, UpdateCommit,
                      CommitRow
  <2>2. QED
    BY <2>1 DEF StepOk, Idle
<1>8. CASE \E r \in Roles : UpdateRead(c, r)
  <2>1. PICK r \in Roles : UpdateRead(c, r)
    BY <1>8
  <2>2. call'[c] = [op |-> "update", pc |-> "read", token |-> row.token, fresh |-> None,
                    at |-> 0, role |-> r]
    BY <1>0, <2>1 DEF UpdateRead
  <2>3. QED
    BY <2>2 DEF StepOk
<1>9. CASE Logout(c)
  <2>1. call'[c] = [call[c] EXCEPT !.pc = "store"] /\ call[c].op \in {"reuse", "logout"}
    BY <1>0, <1>9 DEF Logout
  <2>2. call'[c].op = call[c].op /\ call'[c].pc = "store" /\ call'[c].token = call[c].token
    BY <1>0, <2>1 DEF CallState
  <2>3. QED
    BY <1>1, <1>2, <2>1, <2>2 DEF StepOk
<1>10. CASE Store(c)
  <2>1. call'[c] = [call[c] EXCEPT !.pc = "stored"] /\ call[c].pc = "store"
    BY <1>0, <1>10 DEF Store
  <2>2. /\ call'[c].op = call[c].op /\ call'[c].pc = "stored"
        /\ call'[c].token = call[c].token /\ call'[c].fresh = call[c].fresh
    BY <1>0, <2>1 DEF CallState
  <2>3. owner' = c /\ row' = row /\ pending'.token = call[c].fresh /\ pending'.role = row.role
    BY <1>0, <1>10 DEF Store, Row
  <2>4. QED
    BY <1>1, <1>2, <2>1, <2>2, <2>3 DEF StepOk
<1>11. CASE Blacklist(c)
  <2>1. call'[c] = [call[c] EXCEPT !.pc = "revoked"] /\ call[c].op \in {"reuse", "logout"}
        /\ call[c].pc = "stored" /\ UNCHANGED <<row, owner, pending>>
    BY <1>0, <1>11 DEF Blacklist
  <2>2. /\ call'[c].op = call[c].op /\ call'[c].pc = "revoked"
        /\ call'[c].token = call[c].token /\ call'[c].fresh = call[c].fresh
    BY <1>0, <2>1 DEF CallState
  <2>3. blacklist'[call[c].token] # None
    BY <1>1, <1>11, <2>1, NoneDiffers DEF Blacklist, StepOk, TypeOK
  <2>4. QED
    BY <1>1, <1>2, <2>1, <2>2, <2>3 DEF StepOk
<1>12. CASE UpdateSave(c)
  <2>1. call'[c] = [call[c] EXCEPT !.pc = "stored"] /\ call[c].op = "update"
    BY <1>0, <1>12 DEF UpdateSave
  <2>2. call'[c].op = "update" /\ call'[c].pc = "stored" /\ call'[c].role = call[c].role
    BY <1>0, <2>1 DEF CallState
  <2>3. owner' = c
    BY <1>12 DEF UpdateSave
  <2>4. QED
    BY <1>1, <2>1, <2>2, <2>3 DEF StepOk
<1>13. QED
  BY <1>3, <1>4, <1>5, <1>6, <1>7, <1>8, <1>9, <1>10, <1>11, <1>12 DEF CallNext, Commits

LEMMA StepInvStep ==
  ASSUME TypeOK, SignInv, StepInv, [Next]_vars
  PROVE  StepInv'
<1>1. CASE UNCHANGED vars \/ Tick
  BY <1>1 DEF vars, Tick, StepInv
<1>2. ASSUME NEW c \in Calls, CallNext(c)
      PROVE  StepInv'
  <2>1. \A d \in Calls : StepOk(d)'
    BY <1>2, StepOther, StepSelf
  <2>2. QED
    BY <2>1 DEF StepInv, StepOk
<1>3. QED
  BY <1>1, <1>2 DEF Next

-----------------------------------------------------------------------------
\* Who is between Refresh and RefreshCommit.
Exchanging(c) == call[c].op = "refresh" /\ call[c].pc \in {"store", "stored"}

LEMMA ExchangingStep ==
  ASSUME TypeOK, NEW c \in Calls, CallNext(c), Exchanging(c)'
  PROVE  /\ ~ Commits(c)
         /\ \/ Exchanging(c) /\ call'[c].token = call[c].token /\ locks' = locks
            \/ /\ Refresh(c)
               /\ call'[c].token = row.token /\ locks'["auth-refresh"] = c
               /\ locks["auth-refresh"] = None
<1>0. call \in [Calls -> CallState] /\ call[c] \in CallState
  BY DEF TypeOK
<1>1. Idle.op # "refresh"
  BY DEF Idle
<1>2. ~ Commits(c) /\ ~ Fail(c)
  BY <1>0, <1>1 DEF Exchanging, Commits, LoginCommit, RefreshCommit, LogoutCommit,
                    UpdateCommit, CommitRow, Fail
<1>3. CASE Login(c)
  <2>1. Sign(c, "auth-login", "login", None)
    BY <1>3 DEF Login
  <2>2. PICK t \in Tokens :
          call'[c] = [op |-> "login", pc |-> "store", token |-> None, fresh |-> t,
                      at |-> now, role |-> row.role]
    BY <2>1, SignStep
  <2>3. QED
    BY <2>2 DEF Exchanging
<1>4. CASE Refresh(c)
  <2>1. PICK p : p = call[c].token /\ Sign(c, "auth-refresh", "refresh", p)
                 /\ row.token = call[c].token
    BY <1>4 DEF Refresh
  <2>2. PICK t \in Tokens :
          call'[c] = [op |-> "refresh", pc |-> "store", token |-> p, fresh |-> t,
                      at |-> now, role |-> row.role]
    BY <2>1, SignStep
  <2>3. locks["auth-refresh"] = None /\ locks' = [locks EXCEPT !["auth-refresh"] = c]
    BY <2>1 DEF Sign
  <2>4. locks'["auth-refresh"] = c
    BY <2>3 DEF TypeOK, LockKeys
  <2>5. QED
    BY <1>2, <1>4, <2>1, <2>2, <2>3, <2>4
<1>5. CASE (\E t \in Tokens : RefreshEnter(c, t) \/ LogoutEnter(c, t))
           \/ (\E r \in Roles : UpdateRead(c, r))
  <2>1. call'[c].pc \in {"queued", "read"}
    BY <1>0, <1>5 DEF RefreshEnter, LogoutEnter, Enter, UpdateRead
  <2>2. QED
    BY <2>1 DEF Exchanging
<1>6. CASE RefreshRefused(c)
  <2>1. call'[c] = [call[c] EXCEPT !.op = "reuse", !.pc = "nested"]
    BY <1>0, <1>6 DEF RefreshRefused
  <2>2. call'[c].op = "reuse"
    BY <1>0, <2>1 DEF CallState
  <2>3. QED
    BY <2>2 DEF Exchanging
<1>7. CASE Logout(c) \/ Blacklist(c) \/ UpdateSave(c)
  <2>1. \E p : call'[c] = [call[c] EXCEPT !.pc = p]
    BY <1>0, <1>7 DEF Logout, Blacklist, UpdateSave
  <2>2. call'[c].op = call[c].op
    BY <1>0, <2>1 DEF CallState
  <2>3. call[c].op # "refresh"
    BY <1>7 DEF Logout, Blacklist, UpdateSave
  <2>4. QED
    BY <2>2, <2>3 DEF Exchanging
<1>8. CASE Store(c)
  <2>1. call'[c] = [call[c] EXCEPT !.pc = "stored"] /\ call[c].pc = "store" /\ locks' = locks
    BY <1>0, <1>8 DEF Store
  <2>2. call'[c].op = call[c].op /\ call'[c].token = call[c].token
    BY <1>0, <2>1 DEF CallState
  <2>3. QED
    BY <1>2, <2>1, <2>2 DEF Exchanging
<1>9. QED
  BY <1>2, <1>3, <1>4, <1>5, <1>6, <1>7, <1>8 DEF CallNext, Commits

\* A lock is taken when nobody has it and given back by its owner.
LEMMA LockKept ==
  ASSUME TypeOK, NEW c \in Calls, NEW d \in Calls \ {c}, CallNext(c),
         locks["auth-refresh"] = d
  PROVE  locks'["auth-refresh"] = d
<1>1. d # None
  BY NoneDiffers
<1>2. \/ locks' = locks
      \/ \E k \in LockKeys : locks[k] = None /\ locks' = [locks EXCEPT ![k] = c]
      \/ locks' = Unlock(c)
  BY DEF CallNext, Login, Refresh, Sign, RefreshEnter, LogoutEnter, Enter, RefreshRefused,
     Logout, Blacklist, UpdateRead, UpdateSave, Store, Fail, LoginCommit, RefreshCommit,
     LogoutCommit, UpdateCommit, CommitRow, LockKeys
<1>3. "auth-refresh" \in LockKeys
  BY DEF LockKeys
<1>4. QED
  BY <1>1, <1>2, <1>3 DEF Unlock, TypeOK

\* What a step does to the counts of exchanges and of tokens written back.
LEMMA CountStep ==
  ASSUME TypeOK, NEW c \in Calls, CallNext(c), NEW t \in Tokens
  PROVE  /\ exchanged'[t] = IF RefreshCommit(c) /\ call[c].token = t THEN exchanged[t] + 1
                                                                     ELSE exchanged[t]
         /\ restored[t] <= restored'[t]
         /\ UpdateCommit(c) /\ row'.token = t /\ row.token # t =>
              restored'[t] = restored[t] + 1
<1>0. exchanged \in [Tokens -> Nat] /\ restored \in [Tokens -> Nat]
  BY DEF TypeOK
<1>1. CASE ~ Commits(c)
  BY <1>0, <1>1, QuietStep DEF Commits
<1>2. CASE Commits(c)
  <2>1. CASE RefreshCommit(c)
    BY <1>0, <2>1 DEF RefreshCommit, UpdateCommit
  <2>2. CASE LoginCommit(c) \/ LogoutCommit(c)
    <3>1. ~ RefreshCommit(c) /\ ~ UpdateCommit(c)
      BY <2>2 DEF LoginCommit, LogoutCommit, RefreshCommit, UpdateCommit
    <3>2. QED
      BY <1>0, <2>2, <3>1 DEF LoginCommit, LogoutCommit
  <2>3. CASE UpdateCommit(c)
    <3>1. ~ RefreshCommit(c)
      BY <2>3 DEF RefreshCommit, UpdateCommit
    <3>2. row' = pending /\ exchanged' = exchanged
      BY <2>3 DEF UpdateCommit, CommitRow
    <3>3. restored'[t] = IF t = pending.token /\ t # row.token THEN restored[t] + 1
                                                               ELSE restored[t]
      BY <2>3 DEF UpdateCommit
    <3>4. QED
      BY <1>0, <3>1, <3>2, <3>3
  <2>4. QED
    BY <1>2, <2>1, <2>2, <2>3 DEF Commits
<1>3. QED
  BY <1>1, <1>2

LEMMA ExchangeInvStep ==
  ASSUME TypeOK, SignInv, StepInv, ExchangeInv, RotatedOnce, [Next]_vars
  PROVE  ExchangeInv' /\ RotatedOnce'
<1>0. exchanged \in [Tokens -> Nat] /\ restored \in [Tokens -> Nat]
      /\ call \in [Calls -> CallState]
  BY DEF TypeOK
<1>1. CASE UNCHANGED vars \/ Tick
  BY <1>1 DEF vars, Tick, ExchangeInv, RotatedOnce
<1>2. ASSUME NEW c \in Calls, CallNext(c)
      PROVE  ExchangeInv' /\ RotatedOnce'
  <2>0. /\ \A d \in Calls : Exchanging(d) =>
               /\ locks["auth-refresh"] = d
               /\ exchanged[call[d].token] <= restored[call[d].token]
        /\ \A t \in Tokens : row.token = t => exchanged[t] <= restored[t]
        /\ \A t \in Tokens : exchanged[t] <= 1 + restored[t]
    BY DEF ExchangeInv, Exchanging, RotatedOnce
  <2>1. \A d \in Calls \ {c} : call'[d] = call[d]
    BY <1>2, CallFrame
  <2>2. ASSUME RefreshCommit(c)
        PROVE  /\ Exchanging(c) /\ call[c].token \in Tokens /\ call[c].fresh \in Tokens
               /\ row'.token = call[c].fresh /\ call[c].token # call[c].fresh
               /\ exchanged[call[c].fresh] = 0
    <3>1. Exchanging(c) /\ call[c].op # "update"
      BY <2>2 DEF RefreshCommit, Exchanging
    <3>2. /\ call[c].token \in Tokens /\ issued[call[c].token] # None
          /\ call[c].fresh \in Tokens
      BY <3>1 DEF Exchanging, StepInv
    <3>3. issued[call[c].fresh] = None /\ exchanged[call[c].fresh] = 0
      BY <3>2, NoneDiffers DEF SignInv
    <3>4. row'.token = call[c].fresh
      <4>1. Commits(c) /\ ~ UpdateCommit(c)
        BY <2>2, <3>1 DEF Commits, UpdateCommit
      <4>2. QED
        BY <4>1, CommitStep
    <3>5. QED
      BY <3>1, <3>2, <3>3, <3>4
  <2>3. ASSUME NEW t \in Tokens
        PROVE  exchanged'[t] <= 1 + restored'[t] /\ (exchanged'[t] > 0 => issued'[t] # None)
    <3>1. CASE RefreshCommit(c) /\ call[c].token = t
      <4>1. exchanged[t] <= restored[t] /\ restored[t] <= restored'[t]
        BY <1>2, <2>0, <2>2, <3>1, CountStep
      <4>2. exchanged'[t] = exchanged[t] + 1
        BY <1>2, <3>1, CountStep
      <4>3. issued[t] # None
        BY <2>2, <3>1 DEF Exchanging, StepInv
      <4>4. exchanged[t] \in Nat /\ restored[t] \in Nat /\ restored'[t] \in Nat
        BY <1>0, TypeStep DEF TypeOK
      <4>5. QED
        BY <4>1, <4>2, <4>3, <4>4, IssuedStays
    <3>2. CASE ~ (RefreshCommit(c) /\ call[c].token = t)
      <4>1. exchanged'[t] = exchanged[t] /\ restored[t] <= restored'[t]
        BY <1>2, <3>2, CountStep
      <4>2. exchanged[t] > 0 => issued'[t] # None
        BY IssuedStays DEF ExchangeInv
      <4>3. exchanged[t] \in Nat /\ restored[t] \in Nat /\ restored'[t] \in Nat
        BY <1>0, TypeStep DEF TypeOK
      <4>4. QED
        BY <2>0, <4>1, <4>2, <4>3
    <3>3. QED
      BY <3>1, <3>2
  <2>4. ASSUME NEW t \in Tokens, row'.token = t
        PROVE  exchanged'[t] <= restored'[t]
    <3>0. exchanged[t] \in Nat /\ restored[t] \in Nat /\ restored'[t] \in Nat
      BY <1>0, TypeStep DEF TypeOK
    <3>1. ~ (RefreshCommit(c) /\ call[c].token = t)
      BY <2>2, <2>4
    <3>2. exchanged'[t] = exchanged[t] /\ restored[t] <= restored'[t]
      BY <1>2, <3>1, CountStep
    <3>3. CASE row.token = t
      BY <2>0, <3>0, <3>2, <3>3
    <3>4. CASE row.token # t /\ UpdateCommit(c)
      <4>1. restored'[t] = restored[t] + 1
        BY <1>2, <2>4, <3>4, CountStep
      <4>2. QED
        BY <2>0, <3>0, <3>2, <4>1
    <3>5. CASE row.token # t /\ ~ UpdateCommit(c)
      <4>1. Commits(c)
        BY <1>2, <2>4, <3>5, QuietStep
      <4>2. t = call[c].fresh /\ t # None
        BY <2>4, <3>5, <4>1, CommitStep, NoneDiffers
      <4>3. exchanged[t] = 0
        BY <4>2 DEF SignInv
      <4>4. QED
        BY <3>0, <3>2, <4>3
    <3>6. QED
      BY <3>3, <3>4, <3>5
  <2>5. ASSUME NEW d \in Calls, Exchanging(d)'
        PROVE  /\ locks'["auth-refresh"] = d
               /\ exchanged'[call'[d].token] <= restored'[call'[d].token]
    <3>1. CASE d # c
      <4>1. Exchanging(d) /\ call'[d] = call[d]
        BY <2>1, <2>5, <3>1 DEF Exchanging
      <4>2. locks["auth-refresh"] = d /\ exchanged[call[d].token] <= restored[call[d].token]
        BY <2>0, <4>1
      <4>3. ~ RefreshCommit(c)
        BY <2>0, <2>2, <3>1, <4>2
      <4>4. call[d].token \in Tokens
        BY <4>1 DEF Exchanging, StepInv
      <4>5. exchanged'[call[d].token] = exchanged[call[d].token]
            /\ restored[call[d].token] <= restored'[call[d].token]
        <5>1. \A t \in Tokens : exchanged'[t] = exchanged[t] /\ restored[t] <= restored'[t]
          BY <1>2, <4>3, CountStep
        <5>2. QED
          BY <4>4, <5>1
      <4>6. exchanged[call[d].token] \in Nat /\ restored[call[d].token] \in Nat
            /\ restored'[call[d].token] \in Nat
        BY <1>0, <4>4, TypeStep DEF TypeOK
      <4>7. exchanged'[call[d].token] <= restored'[call[d].token]
        BY <4>2, <4>5, <4>6
      <4>8. QED
        BY <1>2, <3>1, <4>1, <4>2, <4>7, LockKept
    <3>2. CASE d = c
      <4>1. ~ Commits(c)
        BY <1>2, <2>5, <3>2, ExchangingStep
      <4>2. exchanged' = exchanged /\ restored' = restored
        BY <1>2, <4>1, QuietStep
      <4>3. CASE Exchanging(c) /\ call'[c].token = call[c].token /\ locks' = locks
        BY <2>0, <3>2, <4>2, <4>3
      <4>4. CASE Refresh(c) /\ call'[c].token = row.token /\ locks'["auth-refresh"] = c
        <5>1. row.token \in Tokens
          BY <4>4 DEF Refresh, StepInv
        <5>2. QED
          BY <2>0, <3>2, <4>2, <4>4, <5>1
      <4>5. QED
        BY <1>2, <2>5, <3>2, <4>3, <4>4, ExchangingStep
    <3>3. QED
      BY <3>1, <3>2
  <2>6. QED
    BY <2>3, <2>4, <2>5 DEF ExchangeInv, Exchanging, RotatedOnce
<1>3. QED
  BY <1>1, <1>2 DEF Next

LEMMA ClaimsInvStep ==
  ASSUME TypeOK, SignInv, StepInv, ClaimsInv, [Next]_vars
  PROVE  ClaimsInv'
<1>0. issued \in [Tokens -> Claims \cup {None}] /\ now \in Nat /\ now' \in Nat /\ now <= now'
  <2>1. now' = now \/ now' = now + 1
    BY ClockStep DEF Next, Tick, vars
  <2>2. QED
    BY <2>1 DEF TypeOK
<1>1. ASSUME NEW t \in Tokens, issued[t] # None
      PROVE  issued'[t].at <= now' /\ Held(issued[t].role, issued[t].at)'
  <2>1. issued'[t] = issued[t] /\ issued[t].at <= now
        /\ Held(issued[t].role, issued[t].at)
    BY <1>1, IssuedStays DEF ClaimsInv
  <2>2. PICK r \in Roles, a \in Nat : r = issued[t].role /\ a = issued[t].at
    BY <1>0, <1>1 DEF Claims
  <2>3. Held(r, a)'
    BY <2>1, <2>2, HeldStays
  <2>4. r = issued'[t].role /\ a = issued'[t].at
    BY <2>1, <2>2
  <2>5. QED
    BY <1>0, <2>1, <2>2, <2>3, <2>4 DEF Held
<1>2. ASSUME NEW t \in Tokens, issued[t] = None, issued'[t] # None
      PROVE  issued'[t].at <= now' /\ Held(issued[t].role, issued[t].at)'
  <2>1. PICK c \in Calls : CallNext(c)
    BY <1>2 DEF Next, Tick, vars
  <2>2. LoginCommit(c) \/ RefreshCommit(c)
    BY <1>2, <2>1, QuietStep DEF Commits, LogoutCommit, UpdateCommit
  <2>3. call[c].fresh = t
        /\ issued'[t] = [at |-> call[c].at, role |-> call[c].role]
    BY <1>0, <1>2, <2>2 DEF LoginCommit, RefreshCommit
  <2>4. call[c].role \in Roles /\ call[c].at <= now /\ Held(call[c].role, call[c].at)
        /\ call[c].at \in Nat
    BY <2>3, NoneDiffers DEF SignInv, TypeOK, CallState
  <2>5. PICK r \in Roles, a \in Nat : r = call[c].role /\ a = call[c].at
    BY <2>4
  <2>6. Held(r, a)'
    BY <2>4, <2>5, HeldStays
  <2>7. r = issued'[t].role /\ a = issued'[t].at
    BY <2>3, <2>5
  <2>8. QED
    BY <1>0, <2>4, <2>5, <2>6, <2>7 DEF Held
<1>3. QED
  BY <1>1, <1>2 DEF ClaimsInv

LEMMA EndedInvStep ==
  ASSUME TypeOK, SignInv, StepInv, ClaimsInv, EndedInv, [Next]_vars
  PROVE  EndedInv'
<1>0. ended \subseteq Tokens /\ blacklist \in [Tokens -> Time] /\ now \in Nat
      /\ issued \in [Tokens -> Claims \cup {None}]
  BY DEF TypeOK
\* Only a call that presents an issued token blacklists it, at the time it is.
<1>1. ASSUME NEW t \in Tokens, blacklist[t] = None, blacklist'[t] # None
      PROVE  issued[t] # None /\ blacklist'[t] = now
  <2>1. PICK c \in Calls : CallNext(c)
    BY <1>1 DEF Next, Tick, vars
  <2>2. Blacklist(c)
    BY <1>1, <2>1 DEF CallNext, Login, Refresh, Sign, RefreshEnter, LogoutEnter, Enter,
       RefreshRefused, Logout, UpdateRead, UpdateSave, Store, Fail, LoginCommit,
       RefreshCommit, LogoutCommit, UpdateCommit
  <2>3. call[c].token = t /\ blacklist'[t] = now
    BY <1>0, <1>1, <2>2 DEF Blacklist
  <2>4. issued[call[c].token] # None
    BY <2>2 DEF Blacklist, StepInv
  <2>5. QED
    BY <2>3, <2>4
<1>2. ASSUME NEW t \in Tokens, blacklist'[t] # None
      PROVE  issued'[t] # None /\ issued'[t].at <= blacklist'[t]
  <2>1. CASE blacklist[t] # None
    <3>1. issued[t] # None /\ issued[t].at <= blacklist[t] /\ issued[t].at <= now
      BY <2>1 DEF EndedInv, ClaimsInv
    <3>2. issued'[t] = issued[t]
      BY <3>1, IssuedStays
    <3>3. blacklist'[t] \in {blacklist[t], now}
      BY <2>1, BlacklistStays
    <3>4. QED
      BY <3>1, <3>2, <3>3
  <2>2. CASE blacklist[t] = None
    <3>1. issued[t] # None /\ blacklist'[t] = now
      BY <1>1, <1>2, <2>2
    <3>2. issued'[t] = issued[t] /\ issued[t].at <= now
      BY <3>1, IssuedStays DEF ClaimsInv
    <3>3. QED
      BY <3>1, <3>2
  <2>3. QED
    BY <2>1, <2>2
<1>3. ASSUME NEW t \in ended'
      PROVE  blacklist'[t] # None
  <2>1. CASE t \in ended
    <3>1. blacklist[t] # None /\ t \in Tokens
      BY <1>0, <2>1 DEF EndedInv
    <3>2. QED
      BY <3>1, BlacklistStays
  <2>2. CASE t \notin ended
    <3>1. PICK c \in Calls : CallNext(c)
      BY <1>3, <2>2 DEF Next, Tick, vars
    <3>2. LogoutCommit(c)
      BY <2>2, <1>3, <3>1, QuietStep DEF Commits, LoginCommit, RefreshCommit, UpdateCommit
    <3>3. call[c].token = t /\ blacklist' = blacklist
      BY <1>3, <2>2, <3>2 DEF LogoutCommit
    <3>4. blacklist[call[c].token] # None
      BY <3>2 DEF LogoutCommit, StepInv
    <3>5. QED
      BY <3>3, <3>4
  <2>3. QED
    BY <2>1, <2>2
<1>4. QED
  BY <1>2, <1>3 DEF EndedInv

-----------------------------------------------------------------------------
\* What a call has at each step, what tokens and roles were when they were signed or lost:
\* together they are inductive.
THEOREM InvariantHolds == Spec => []Inv
<1>1. Init => Inv
  <2> SUFFICES ASSUME Init
               PROVE  Inv
    OBVIOUS
  <2>1. TypeOK
    BY IdleIsCall DEF Init, TypeOK, Row, Time
  <2>2. \A c \in Calls : call[c].op = "none" /\ call[c].pc = "idle" /\ call[c].fresh = None
    BY DEF Init, Idle
  <2>3. \A t \in Tokens : /\ issued[t] = None /\ blacklist[t] = None
                          /\ exchanged[t] = 0 /\ restored[t] = 0
    BY DEF Init
  <2>4. row.token = None /\ ended = {}
    BY DEF Init
  <2>5. SignInv /\ StepInv
    BY <2>2 DEF SignInv, StepInv
  <2>6. ExchangeInv /\ RotatedOnce
    BY <2>2, <2>3 DEF ExchangeInv, RotatedOnce
  <2>7. ClaimsInv /\ EndedInv
    BY <2>3, <2>4 DEF ClaimsInv, EndedInv
  <2>8. QED
    BY <2>1, <2>5, <2>6, <2>7 DEF Inv
<1>2. Inv /\ [Next]_vars => Inv'
  BY TypeStep, SignInvStep, StepInvStep, ExchangeInvStep, ClaimsInvStep, EndedInvStep DEF Inv
<1>3. QED
  BY <1>1, <1>2, PTL DEF Spec

\* The variables keep their types: no session is issued without its claims, no save makes a
\* row without a role.
THEOREM TypeCorrect == Spec => []TypeOK
<1>1. Inv => TypeOK
  BY DEF Inv
<1>2. QED
  BY <1>1, InvariantHolds, PTL

\* AuthService.refresh compares and replaces the stored token under one lock: a refresh token
\* is exchanged once, and once more for each time a save of the profile wrote it back.
THEOREM RotatedOnceHolds == Spec => []RotatedOnce
<1>1. Inv => RotatedOnce
  BY DEF Inv
<1>2. QED
  BY <1>1, InvariantHolds, PTL

\* AuthService.logout blacklists a jti for no less than its access token lives: whatever the
\* two lifetimes are, a token whose logout was committed is not admitted again.
THEOREM AccessEndsAtLogoutHolds == Spec => []AccessEndsAtLogout
<1>1. Inv => AccessEndsAtLogout
  <2> SUFFICES ASSUME Inv, NEW t \in ended, AccessAdmitted(t)
               PROVE  FALSE
    BY DEF AccessEndsAtLogout
  <2>1. t \in Tokens /\ now \in Nat /\ issued \in [Tokens -> Claims \cup {None}]
        /\ blacklist \in [Tokens -> Time]
    BY DEF Inv, TypeOK
  <2>2. issued[t] # None /\ blacklist[t] # None /\ issued[t].at <= blacklist[t]
    BY <2>1 DEF Inv, EndedInv
  <2>3. now < issued[t].at + AccessTTL /\ ~ (now < blacklist[t] + BlacklistTTL)
    BY <2>2 DEF AccessAdmitted, Blacklisted
  <2>4. issued[t].at \in Nat /\ blacklist[t] \in Nat
    BY <2>1, <2>2 DEF Claims, Time
  <2>5. QED
    BY <2>1, <2>2, <2>3, <2>4, NoneDiffers
<1>2. QED
  BY <1>1, InvariantHolds, PTL

\* AuthService.refresh signs the role it reads, not the one it was shown: no access token
\* claims a role that the account lost an access token's life ago.
THEOREM RolesGoStaleHolds == Spec => []RolesGoStale
<1>1. Inv => RolesGoStale
  <2> SUFFICES ASSUME Inv, NEW t \in Tokens, AccessAdmitted(t), issued[t].role # row.role
               PROVE  /\ lost[issued[t].role] # None
                      /\ now < lost[issued[t].role] + AccessTTL
    BY DEF RolesGoStale
  <2>1. now \in Nat /\ issued \in [Tokens -> Claims \cup {None}] /\ lost \in [Roles -> Time]
    BY DEF Inv, TypeOK
  <2>2. issued[t] # None /\ now < issued[t].at + AccessTTL
    BY DEF AccessAdmitted
  <2>3. lost[issued[t].role] # None /\ issued[t].at <= lost[issued[t].role]
    BY <2>2 DEF Inv, ClaimsInv, Held
  <2>4. issued[t].at \in Nat /\ issued[t].role \in Roles
    BY <2>1, <2>2 DEF Claims
  <2>5. lost[issued[t].role] \in Nat
    BY <2>1, <2>3, <2>4 DEF Time
  <2>6. QED
    BY <2>1, <2>2, <2>3, <2>4, <2>5, NoneDiffers
<1>2. QED
  BY <1>1, InvariantHolds, PTL
=============================================================================
