------------------------------ MODULE Sessions ------------------------------
(***************************************************************************)
(* The session of one account: AuthService.login, refresh and logout, the  *)
(* two passport strategies that admit a token, and the part of             *)
(* UsersService.publicUpdate and adminUpdate that reaches the same row.    *)
(*                                                                         *)
(* The row of the account holds the hash of one refresh token and a role.  *)
(* Login, refresh and logout run in a transaction under a lock of their    *)
(* own; each writes the token with an UPDATE made under the user-update    *)
(* lock, which is given back before the transaction commits.  An update of *)
(* the profile holds user-update to its end, but saves a whole entity.     *)
(*                                                                         *)
(* A token stands for the pair that one generateTokens signs: access and   *)
(* refresh token share a jti and are told apart by how long they live.     *)
(* The clock counts minutes, the calls take milliseconds: reading the row  *)
(* and signing its claims is one step.  Calls are taken to end before the  *)
(* leases of their locks do: OrderLifecycle and Checkout have the others.  *)
(***************************************************************************)
EXTENDS Naturals

CONSTANTS
  Calls,        \* the requests being served
  Tokens,       \* the token pairs, numbered in the order they are signed
  Roles,
  AccessTTL,    \* JWT_ACCESS_EXPIRES_IN, '15m' by default
  RefreshTTL,   \* JWT_REFRESH_EXPIRES_IN, '7d' by default
  BlacklistTTL, \* CACHE_TTL.AUTH_BLACKLIST, 15 minutes
  MaxTime,      \* bound on the clock
  MaxRequests,  \* bound on the requests
  None          \* no token, no call, no time

ASSUME SessionsAssumption ==
  /\ Tokens \subseteq Nat
  /\ AccessTTL \in Nat /\ RefreshTTL \in Nat /\ BlacklistTTL \in Nat
  /\ AccessTTL <= BlacklistTTL
  /\ MaxTime \in Nat /\ MaxRequests \in Nat
  /\ None \notin Tokens \cup Calls \cup Roles \cup Nat \cup [at : Nat, role : Roles]

VARIABLES
  now,
  row,       \* the committed columns of the account: its refresh token and its role
  owner,     \* the call whose transaction has written the row and not ended
  pending,   \* what the owner's transaction makes of the row
  locks,     \* the owner of each Redlock key of the account
  call,      \* the requests
  issued,    \* the claims of the tokens a login or refresh answered with
  blacklist, \* when each jti was blacklisted
  notices,   \* the logins that put an AUTH_LOGIN notification in the outbox
  ended,     \* history: the tokens whose logout was committed
  exchanged, \* history: how often each token was exchanged for a new one
  restored,  \* history: how often a profile's save wrote an old token back
  lost,      \* history: when the account last lost each role
  arrived    \* how many requests came

vars == <<now, row, owner, pending, locks, call, issued, blacklist, notices, ended,
          exchanged, restored, lost, arrived>>

LockKeys == {"auth-login", "auth-refresh", "auth-logout", "user-update"}

\* "reuse" is a refresh that was refused and logs the account out.
Ops == {"none", "login", "refresh", "reuse", "logout", "update"}

Pcs == {"idle", "queued", "nested", "store", "stored", "revoked", "read"}

Time == Nat \cup {None}

Claims == [at : Nat, role : Roles]

Row == [token : Tokens \cup {None}, role : Roles]

\* token is the one presented (for an update: the one read), fresh the one signed, at when,
\* role the one it claims or the one an update sets.
CallState == [op : Ops, pc : Pcs, token : Tokens \cup {None}, fresh : Tokens \cup {None},
              at : Nat, role : Roles \cup {None}]

Idle == [op |-> "none", pc |-> "idle", token |-> None, fresh |-> None, at |-> 0,
         role |-> None]

TypeOK ==
  /\ now \in Nat
  /\ row \in Row
  /\ owner \in Calls \cup {None}
  /\ pending \in Row
  /\ locks \in [LockKeys -> Calls \cup {None}]
  /\ call \in [Calls -> CallState]
  /\ issued \in [Tokens -> Claims \cup {None}]
  /\ blacklist \in [Tokens -> Time]
  /\ notices \subseteq Tokens
  /\ ended \subseteq Tokens
  /\ exchanged \in [Tokens -> Nat]
  /\ restored \in [Tokens -> Nat]
  /\ lost \in [Roles -> Time]
  /\ arrived \in Nat

Init ==
  /\ now = 0
  /\ \E r \in Roles : row = [token |-> None, role |-> r]
  /\ pending = row
  /\ owner = None
  /\ call = [c \in Calls |-> Idle]
  /\ issued = [t \in Tokens |-> None]
  /\ locks = [k \in LockKeys |-> None]
  /\ blacklist = [t \in Tokens |-> None]
  /\ notices = {}
  /\ ended = {}
  /\ exchanged = [t \in Tokens |-> 0]
  /\ restored = [t \in Tokens |-> 0]
  /\ lost = [r \in Roles |-> None]
  /\ arrived = 0

-----------------------------------------------------------------------------
(* What a request is admitted with *)

\* A bug: the entry is kept for less than the access token lives.
BlacklistedBriefly(t) == blacklist[t] # None /\ now < blacklist[t]

Blacklisted(t) == blacklist[t] # None /\ now < blacklist[t] + BlacklistTTL

\* JwtStrategy: the access token has not expired and its jti is not blacklisted.
AccessAdmitted(t) == issued[t] # None /\ now < issued[t].at + AccessTTL /\ ~ Blacklisted(t)

\* JwtRefreshStrategy, for the refresh token of the pair.
RefreshAdmitted(t) == issued[t] # None /\ now < issued[t].at + RefreshTTL /\ ~ Blacklisted(t)

-----------------------------------------------------------------------------
(* The steps the calls are made of *)

Arrive(c) ==
  /\ call[c].pc = "idle"
  /\ arrived < MaxRequests
  /\ arrived' = arrived + 1

\* A token nobody holds: a random jti.
Unused(t) == issued[t] = None /\ \A c \in Calls : call[c].fresh # t

NextToken(t) == Unused(t) /\ \A u \in Tokens : Unused(u) => t <= u

\* The call takes its lock, reads the row and signs a new pair with the role it read.
Sign(c, key, op, presented) ==
  /\ locks[key] = None
  /\ \E t \in Tokens :
       /\ NextToken(t)
       /\ call' = [call EXCEPT ![c] = [op |-> op, pc |-> "store", token |-> presented,
                                       fresh |-> t, at |-> now, role |-> row.role]]
  /\ locks' = [locks EXCEPT ![key] = c]
  /\ UNCHANGED <<now, row, owner, pending, issued, blacklist, notices, ended, exchanged,
                 restored, lost>>

\* updateRefreshToken: under user-update, which is given back as the UPDATE returns; the
\* UPDATE waits for the row while another transaction has written it.
Store(c) ==
  /\ call[c].pc = "store"
  /\ locks["user-update"] = None
  /\ owner = None
  /\ owner' = c
  /\ pending' = [row EXCEPT !.token = call[c].fresh]
  /\ call' = [call EXCEPT ![c] = [@ EXCEPT !.pc = "stored"]]
  /\ UNCHANGED <<now, row, locks, issued, blacklist, notices, ended, exchanged,
                 restored, lost, arrived>>

\* The locks a call holds go back when it ends, however it ends.
Unlock(c) == [k \in LockKeys |-> IF locks[k] = c THEN None ELSE locks[k]]

\* The transaction commits; the locks go back after it, as lockAndTransaction has it.
CommitRow(c) ==
  /\ owner = c
  /\ row' = pending
  /\ owner' = None
  /\ locks' = Unlock(c)
  /\ call' = [call EXCEPT ![c] = Idle]

-----------------------------------------------------------------------------
(* AuthService.login *)

\* A wrong password, or an unknown email, ends the call with nothing done.
Login(c) ==
  /\ Arrive(c)
  /\ Sign(c, "auth-login", "login", None)

LoginCommit(c) ==
  /\ call[c].op = "login" /\ call[c].pc = "stored"
  /\ CommitRow(c)
  /\ issued' = [issued EXCEPT ![call[c].fresh] = [at |-> call[c].at, role |-> call[c].role]]
  /\ notices' = notices \cup {call[c].fresh}
  /\ UNCHANGED <<now, pending, blacklist, ended, exchanged, restored, lost, arrived>>

-----------------------------------------------------------------------------
(* AuthService.refresh *)

\* The guards let the request in; it then waits for the lock.
Enter(c, op, t) ==
  /\ Arrive(c)
  /\ call' = [call EXCEPT ![c] = [op |-> op, pc |-> "queued", token |-> t, fresh |-> None,
                                  at |-> 0, role |-> None]]
  /\ UNCHANGED <<now, row, owner, pending, locks, issued, blacklist, notices, ended,
                 exchanged, restored, lost>>

RefreshEnter(c, t) == RefreshAdmitted(t) /\ Enter(c, "refresh", t)

\* A bug: each refresh locks something of its own, and nothing keeps two apart.
RefreshUnlocked(c) ==
  /\ call[c].op = "refresh" /\ call[c].pc = "queued"
  /\ row.token = call[c].token
  /\ \E t \in Tokens :
       /\ NextToken(t)
       /\ call' = [call EXCEPT ![c] = [@ EXCEPT !.pc = "store", !.fresh = t, !.at = now,
                                                !.role = row.role]]
  /\ UNCHANGED <<now, row, owner, pending, locks, issued, blacklist, notices, ended,
                 exchanged, restored, lost, arrived>>

\* A bug: the new pair repeats the claims of the presented one.
RefreshCopyingClaims(c) ==
  /\ call[c].op = "refresh" /\ call[c].pc = "queued"
  /\ row.token = call[c].token
  /\ locks["auth-refresh"] = None
  /\ \E t \in Tokens :
       /\ NextToken(t)
       /\ call' = [call EXCEPT ![c] = [@ EXCEPT !.pc = "store", !.fresh = t, !.at = now,
                                                !.role = issued[call[c].token].role]]
  /\ locks' = [locks EXCEPT !["auth-refresh"] = c]
  /\ UNCHANGED <<now, row, owner, pending, issued, blacklist, notices, ended, exchanged,
                 restored, lost, arrived>>

\* The presented token is the stored one: a new pair replaces it.
Refresh(c) ==
  /\ call[c].op = "refresh" /\ call[c].pc = "queued"
  /\ row.token = call[c].token
  /\ Sign(c, "auth-refresh", "refresh", call[c].token)
  /\ UNCHANGED arrived

\* It is not: the account is logged out, in a transaction of logout's own.  With no token
\* stored the comparison itself throws, which is Fail.
RefreshRefused(c) ==
  /\ call[c].op = "refresh" /\ call[c].pc = "queued"
  /\ row.token \notin {call[c].token, None}
  /\ locks["auth-refresh"] = None
  /\ locks' = [locks EXCEPT !["auth-refresh"] = c]
  /\ call' = [call EXCEPT ![c] = [@ EXCEPT !.op = "reuse", !.pc = "nested"]]
  /\ UNCHANGED <<now, row, owner, pending, issued, blacklist, notices, ended,
                 exchanged, restored, lost, arrived>>

RefreshCommit(c) ==
  /\ call[c].op = "refresh" /\ call[c].pc = "stored"
  /\ CommitRow(c)
  /\ issued' = [issued EXCEPT ![call[c].fresh] = [at |-> call[c].at, role |-> call[c].role]]
  /\ exchanged' = [exchanged EXCEPT ![call[c].token] = @ + 1]
  /\ UNCHANGED <<now, pending, blacklist, notices, ended, restored, lost, arrived>>

-----------------------------------------------------------------------------
(* AuthService.logout *)

LogoutEnter(c, t) == AccessAdmitted(t) /\ Enter(c, "logout", t)

\* The call of a client, or of a refused refresh.
Logout(c) ==
  /\ \/ call[c].op = "logout" /\ call[c].pc = "queued"
     \/ call[c].op = "reuse" /\ call[c].pc = "nested"
  /\ locks["auth-logout"] = None
  /\ locks' = [locks EXCEPT !["auth-logout"] = c]
  /\ call' = [call EXCEPT ![c] = [@ EXCEPT !.pc = "store"]]
  /\ UNCHANGED <<now, row, owner, pending, issued, blacklist, notices, ended,
                 exchanged, restored, lost, arrived>>

\* The jti is blacklisted while the transaction is open, and stays so if it fails.
Blacklist(c) ==
  /\ call[c].op \in {"logout", "reuse"} /\ call[c].pc = "stored"
  /\ blacklist' = [blacklist EXCEPT ![call[c].token] = now]
  /\ call' = [call EXCEPT ![c] = [@ EXCEPT !.pc = "revoked"]]
  /\ UNCHANGED <<now, row, owner, pending, locks, issued, notices, ended, exchanged,
                 restored, lost, arrived>>

LogoutCommit(c) ==
  /\ call[c].pc = "revoked"
  /\ CommitRow(c)
  /\ ended' = ended \cup {call[c].token}
  /\ UNCHANGED <<now, pending, issued, blacklist, notices, exchanged, restored, lost, arrived>>

-----------------------------------------------------------------------------
(* UsersService.publicUpdate and adminUpdate: the columns a session depends on *)

\* The lock is held to the end; the entity is read in the transaction. An administrator may
\* give another role, the user himself keeps his.
UpdateRead(c, r) ==
  /\ Arrive(c)
  /\ locks["user-update"] = None
  /\ locks' = [locks EXCEPT !["user-update"] = c]
  /\ call' = [call EXCEPT ![c] = [op |-> "update", pc |-> "read", token |-> row.token,
                                  fresh |-> None, at |-> 0, role |-> r]]
  /\ UNCHANGED <<now, row, owner, pending, issued, blacklist, notices, ended,
                 exchanged, restored, lost>>

\* A bug: an update that names no role clears it.
UpdateSaveClearing(c) ==
  /\ call[c].op = "update" /\ call[c].pc = "read"
  /\ owner = None
  /\ owner' = c
  /\ pending' = [token |-> row.token, role |-> None]
  /\ call' = [call EXCEPT ![c] = [@ EXCEPT !.pc = "stored"]]
  /\ UNCHANGED <<now, row, locks, issued, blacklist, notices, ended, exchanged, restored,
                 lost, arrived>>

\* save() reads the row again and writes the columns that differ from the entity, the token
\* with them if another transaction committed a new one before that second read.
UpdateSave(c) ==
  /\ call[c].op = "update" /\ call[c].pc = "read"
  /\ owner = None
  /\ owner' = c
  /\ \E t \in {row.token, call[c].token} : pending' = [token |-> t, role |-> call[c].role]
  /\ call' = [call EXCEPT ![c] = [@ EXCEPT !.pc = "stored"]]
  /\ UNCHANGED <<now, row, locks, issued, blacklist, notices, ended, exchanged,
                 restored, lost, arrived>>

UpdateCommit(c) ==
  /\ call[c].op = "update" /\ call[c].pc = "stored"
  /\ CommitRow(c)
  /\ lost' = IF pending.role = row.role THEN lost ELSE [lost EXCEPT ![row.role] = now]
  /\ restored' = [t \in Tokens |->
                    IF t = pending.token /\ t # row.token THEN restored[t] + 1
                                                          ELSE restored[t]]
  /\ UNCHANGED <<now, pending, issued, blacklist, notices, ended, exchanged, arrived>>

-----------------------------------------------------------------------------
(* Failures and time *)

\* A lock is not had after Redlock's retries, or a statement, the cache or the commit fails:
\* the transaction is rolled back and the locks go back.
Fail(c) ==
  /\ call[c].pc # "idle"
  /\ owner' = IF owner = c THEN None ELSE owner
  /\ pending' = IF owner = c THEN row ELSE pending
  /\ locks' = Unlock(c)
  /\ call' = [call EXCEPT ![c] = Idle]
  /\ UNCHANGED <<now, row, issued, blacklist, notices, ended, exchanged, restored,
                 lost, arrived>>

Tick ==
  /\ now < MaxTime
  /\ now' = now + 1
  /\ UNCHANGED <<row, owner, pending, locks, call, issued, blacklist, notices, ended,
                 exchanged, restored, lost, arrived>>

CallNext(c) ==
  \/ Login(c) \/ LoginCommit(c)
  \/ \E t \in Tokens : RefreshEnter(c, t) \/ LogoutEnter(c, t)
  \/ Refresh(c) \/ RefreshRefused(c) \/ RefreshCommit(c)
  \/ Logout(c) \/ Blacklist(c) \/ LogoutCommit(c)
  \/ \E r \in Roles : UpdateRead(c, r)
  \/ UpdateSave(c) \/ UpdateCommit(c)
  \/ Store(c) \/ Fail(c)

Next == Tick \/ \E c \in Calls : CallNext(c)

Spec == Init /\ [][Next]_vars

-----------------------------------------------------------------------------
(* Properties *)

\* A refresh token is exchanged once: two refreshes that carry the same one, side by side or
\* one after the other, do not both get a new pair.  Only a profile's save that wrote the
\* token back over a newer one makes it good for one exchange more.
RotatedOnce == \A t \in Tokens : exchanged[t] <= 1 + restored[t]

\* Once a logout is committed its access token opens nothing, whichever of the token and its
\* entry in the blacklist lapses first.
AccessEndsAtLogout == \A t \in ended : ~ AccessAdmitted(t)

\* A role an account lost is not claimed for longer than an access token lives: refreshing
\* reads the role again, however old the chain of refreshes is.
RolesGoStale ==
  \A t \in Tokens :
    AccessAdmitted(t) /\ issued[t].role # row.role =>
      /\ lost[issued[t].role] # None
      /\ now < lost[issued[t].role] + AccessTTL

=============================================================================
