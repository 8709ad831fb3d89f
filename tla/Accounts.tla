------------------------------ MODULE Accounts ------------------------------
(***************************************************************************)
(* Accounts and the customers that mirror them: UsersService's creations,  *)
(* updates and removals, the three customer jobs they put in the outbox,   *)
(* PaymentsService and the Stripe adapter under those jobs, and the job    *)
(* that writes the customer's id back into the user's row.                 *)
(*                                                                         *)
(* A call of UsersService is one transaction under one Redlock key of its  *)
(* user; update and remove use different keys.  The jobs run in no         *)
(* transaction, up to QUEUE_PAYMENT_CONCURRENCY (15) at a time, in any     *)
(* order and up to MaxAttempts times; what an attempt did stays done.      *)
(*                                                                         *)
(* Name, password, language and address are left out: what matters is that *)
(* the customer has the data of the account, and the email stands for it.  *)
(* Each creation carries an idempotency key of its own (Checkout has the   *)
(* repetitions of one key), how jobs reach their worker is the matter of   *)
(* Outbox and JobExecution, and calls are taken to end before the leases   *)
(* of their locks do (OrderLifecycle and Checkout have leases that end).   *)
(***************************************************************************)
EXTENDS Naturals

CONSTANTS
  Calls,       \* the calls of UsersService, each made once
  Users,       \* the accounts they may create
  Emails,
  MaxAttempts, \* attempts of a job
  None         \* no account, no email

ASSUME AccountsAssumption ==
  /\ MaxAttempts \in Nat \ {0}
  /\ None \notin Users \cup Emails

VARIABLES
  user,     \* the committed row of each account
  call,     \* the calls
  customer, \* the committed row of each account's customer
  gateway,  \* the gateway's customer of each account
  job,      \* the payment job that each call put in the outbox
  link,     \* the user job that each payment job put in the outbox
  overlap   \* history: the accounts of which two payment jobs were unsettled at one time

vars == <<user, call, customer, gateway, job, link, overlap>>

\* email is None while there is no row; live is deletedAt IS NULL, linked customerId.
UserRow == [email : Emails \cup {None}, live : BOOLEAN, linked : BOOLEAN]

NoUser == [email |-> None, live |-> FALSE, linked |-> FALSE]

\* The routes of the two controllers that change an account.
PublicOps == {"publicCreate", "publicUpdate", "publicRemove"}
AdminOps == {"adminCreate", "adminUpdate", "adminRemove"}

Creates == {"publicCreate", "adminCreate"}
Updates == {"publicUpdate", "adminUpdate"}
Removes == {"publicRemove", "adminRemove"}

\* row is the entity: as read, then as it is written and not committed yet.
CallState == [op : {"none"} \cup PublicOps \cup AdminOps,
              pc : {"start", "checked", "written", "committed", "failed"},
              user : Users \cup {None}, email : Emails \cup {None}, row : UserRow]

CustomerRow == [email : Emails \cup {None}, live : BOOLEAN]

\* made counts the customers the gateway ever created for the account.
GatewayState == [made : Nat, email : Emails \cup {None}, live : BOOLEAN]

JobState == [pc : {"none", "ready", "called", "saved", "done", "failed"}, attempts : Nat]

NoJob == [pc |-> "none", attempts |-> 0]

TypeOK ==
  /\ user \in [Users -> UserRow]
  /\ call \in [Calls -> CallState]
  /\ customer \in [Users -> CustomerRow]
  /\ gateway \in [Users -> GatewayState]
  /\ job \in [Calls -> JobState]
  /\ link \in [Calls -> JobState]
  /\ overlap \subseteq Users

Init ==
  /\ user = [u \in Users |-> NoUser]
  /\ call = [c \in Calls |-> [op |-> "none", pc |-> "start", user |-> None, email |-> None,
                              row |-> NoUser]]
  /\ customer = [u \in Users |-> [email |-> None, live |-> FALSE]]
  /\ gateway = [u \in Users |-> [made |-> 0, email |-> None, live |-> FALSE]]
  /\ job = [c \in Calls |-> NoJob]
  /\ link = [c \in Calls |-> NoJob]
  /\ overlap = {}

-----------------------------------------------------------------------------
(* UsersService: what the calls share *)

InFlight(c) == call[c].pc \in {"checked", "written"}

\* The owners of user-update:<u> and user-remove:<u>.
Locked(ops, u) == \E c \in Calls : InFlight(c) /\ call[c].op \in ops /\ call[c].user = u

\* The row is written by a transaction that has not ended.
RowLocked(u) == \E c \in Calls : call[c].pc = "written" /\ call[c].user = u

\* existsBy does not see soft-deleted rows.
EmailTaken(e) == \E u \in Users : user[u].live /\ user[u].email = e

\* A bug: nothing but existsBy keeps emails apart.
IndexUnused(u, e) == TRUE

\* IDX_user_email, which has soft-deleted rows too: a second row with the email waits for
\* the transaction that writes the first, and is refused once that is committed.
IndexAdmits(u, e) ==
  /\ \A v \in Users \ {u} : user[v].email # e
  /\ \A c \in Calls : call[c].pc = "written" /\ call[c].user # u => call[c].row.email # e

\* The call has its lock and has read and checked what it works on.
Checked(c, op, u, e) ==
  call' = [call EXCEPT ![c] = [op |-> op, pc |-> "checked", user |-> u, email |-> e,
                               row |-> user[u]]]

Written(c, row) ==
  /\ call' = [call EXCEPT ![c] = [@ EXCEPT !.pc = "written", !.row = row]]
  /\ UNCHANGED <<user, customer, gateway, job, link, overlap>>

Unsettled(c) == job[c].pc \in {"ready", "called", "saved"}

\* The transaction commits: the row, and the payment job in the outbox.
Commit(c) ==
  LET u == call[c].user
  IN /\ call[c].pc = "written"
     /\ user' = [user EXCEPT ![u] = call[c].row]
     /\ call' = [call EXCEPT ![c] = [@ EXCEPT !.pc = "committed"]]
     /\ job' = [job EXCEPT ![c] = [pc |-> "ready", attempts |-> 0]]
     /\ overlap' = IF \E d \in Calls : call[d].user = u /\ Unsettled(d)
                   THEN overlap \cup {u} ELSE overlap
     /\ UNCHANGED <<customer, gateway, link>>

\* Forbidden, a conflict, a lock that is not had, the index, a failing statement or commit:
\* the transaction is rolled back.
CallFails(c) ==
  /\ InFlight(c)
  /\ call' = [call EXCEPT ![c] = [@ EXCEPT !.pc = "failed"]]
  /\ UNCHANGED <<user, customer, gateway, job, link, overlap>>

-----------------------------------------------------------------------------
(* The operations of UsersService *)

\* Ids are generated, so no two creations share an account.
Create(c, op, u, e) ==
  /\ call[c].pc = "start"
  /\ user[u].email = None /\ \A d \in Calls : call[d].user # u
  /\ ~ EmailTaken(e)
  /\ Checked(c, op, u, e)
  /\ UNCHANGED <<user, customer, gateway, job, link, overlap>>

CreateSave(c) ==
  /\ call[c].op \in Creates /\ call[c].pc = "checked"
  /\ IndexAdmits(call[c].user, call[c].email)
  /\ Written(c, [email |-> call[c].email, live |-> TRUE, linked |-> FALSE])

Update(c, op, u, e) ==
  /\ call[c].pc = "start"
  /\ ~ Locked(Updates, u)
  /\ user[u].live
  /\ user[u].email # e => ~ EmailTaken(e)
  /\ Checked(c, op, u, e)
  /\ UNCHANGED <<user, customer, gateway, job, link, overlap>>

\* A bug: the entity is saved before the dto is assigned to it.
UpdateSaveUnassigned(c) ==
  /\ call[c].op \in Updates /\ call[c].pc = "checked"
  /\ ~ RowLocked(call[c].user)
  /\ IndexAdmits(call[c].user, call[c].email)
  /\ Written(c, [call[c].row EXCEPT !.live = user[call[c].user].live])

\* save() reads the row again and writes what differs from the entity: a column another
\* transaction committed before that second read gets its old value back, deletedAt too.
UpdateSave(c) ==
  LET u == call[c].user
  IN /\ call[c].op \in Updates /\ call[c].pc = "checked"
     /\ ~ RowLocked(u)
     /\ IndexAdmits(u, call[c].email)
     /\ \E live \in {user[u].live, call[c].row.live},
           linked \in {user[u].linked, call[c].row.linked} :
          Written(c, [email |-> call[c].email, live |-> live, linked |-> linked])

\* Under a lock that is not the update's.
Remove(c, op, u) ==
  /\ call[c].pc = "start"
  /\ ~ Locked(Removes, u)
  /\ user[u].live
  /\ Checked(c, op, u, user[u].email)
  /\ UNCHANGED <<user, customer, gateway, job, link, overlap>>

\* assertWriteAccess asks for a level above that of the account: one's own is never below
\* oneself, and publicRemove fails.
SoftDelete(c) ==
  /\ call[c].op = "adminRemove" /\ call[c].pc = "checked"
  /\ ~ RowLocked(call[c].user)
  /\ Written(c, [user[call[c].user] EXCEPT !.live = FALSE])

-----------------------------------------------------------------------------
(* The customer jobs *)

JobAt(c, ops, pc) == call[c].op \in ops /\ job[c].pc = pc

JobStep(c, pc) ==
  /\ job' = [job EXCEPT ![c] = [@ EXCEPT !.pc = pc]]
  /\ UNCHANGED <<user, call, overlap>>

\* A bug: each attempt asks the gateway with a key of its own.
CreateCustomerAtGatewayAgain(c) ==
  /\ JobAt(c, Creates, "ready")
  /\ gateway' = [gateway EXCEPT ![call[c].user] =
                   [made |-> @.made + 1, email |-> call[c].email, live |-> TRUE]]
  /\ UNCHANGED <<customer, link>>
  /\ JobStep(c, "called")

\* StripeAdapter.createCustomer: under the key 'create-customer:<userId>' the gateway answers
\* a repetition with the customer it made, and makes no other.
CreateCustomerAtGateway(c) ==
  LET u == call[c].user
  IN /\ JobAt(c, Creates, "ready")
     /\ gateway' = IF gateway[u].made > 0 THEN gateway
                   ELSE [gateway EXCEPT ![u] =
                           [made |-> 1, email |-> call[c].email, live |-> TRUE]]
     /\ UNCHANGED <<customer, link>>
     /\ JobStep(c, "called")

\* userId is unique in the table: an attempt after one that inserted the row fails.
InsertCustomer(c) ==
  /\ JobAt(c, Creates, "called")
  /\ customer[call[c].user].email = None
  /\ customer' = [customer EXCEPT ![call[c].user] = [email |-> call[c].email, live |-> TRUE]]
  /\ UNCHANGED <<gateway, link>>
  /\ JobStep(c, "saved")

\* PaymentsService.updateCustomer: the row is read, the gateway written, then the row.
UpdateCustomerAtGateway(c) ==
  LET u == call[c].user
  IN /\ JobAt(c, Updates, "ready")
     /\ customer[u].live /\ gateway[u].live
     /\ gateway' = [gateway EXCEPT ![u] = [@ EXCEPT !.email = call[c].email]]
     /\ UNCHANGED <<customer, link>>
     /\ JobStep(c, "called")

\* The whole entity is written, deletedAt as it was read: a customer deleted meanwhile is back.
UpdateCustomerRow(c) ==
  /\ JobAt(c, Updates, "called")
  /\ customer' = [customer EXCEPT ![call[c].user] = [email |-> call[c].email, live |-> TRUE]]
  /\ UNCHANGED <<gateway, link>>
  /\ JobStep(c, "done")

\* PaymentsService.deleteCustomer; the gateway refuses to delete a customer twice.
DeleteCustomerAtGateway(c) ==
  LET u == call[c].user
  IN /\ JobAt(c, Removes, "ready")
     /\ customer[u].live /\ gateway[u].live
     /\ gateway' = [gateway EXCEPT ![u] = [@ EXCEPT !.live = FALSE]]
     /\ UNCHANGED <<customer, link>>
     /\ JobStep(c, "called")

SoftDeleteCustomer(c) ==
  /\ JobAt(c, Removes, "called")
  /\ customer' = [customer EXCEPT ![call[c].user] = [@ EXCEPT !.live = FALSE]]
  /\ UNCHANGED <<gateway, link>>
  /\ JobStep(c, "saved")

\* The end of a creation's and of a deletion's job: UpdateUserJobPayload in the outbox.
AddLink(c) ==
  /\ call[c].op \in Creates \cup Removes /\ job[c].pc = "saved"
  /\ link' = [link EXCEPT ![c] = [pc |-> "ready", attempts |-> 0]]
  /\ UNCHANGED <<customer, gateway>>
  /\ JobStep(c, "done")

\* A bug: the attempts are counted down.
FailedAttemptDown(j) ==
  [pc |-> IF j.attempts - 1 < MaxAttempts THEN "ready" ELSE "failed",
   attempts |-> j.attempts - 1]

\* An attempt throws wherever it is; the next one starts from the beginning.
FailedAttempt(j) ==
  [pc |-> IF j.attempts + 1 < MaxAttempts THEN "ready" ELSE "failed",
   attempts |-> j.attempts + 1]

JobFails(c) ==
  /\ Unsettled(c)
  /\ job' = [job EXCEPT ![c] = FailedAttempt(@)]
  /\ UNCHANGED <<user, call, customer, gateway, link, overlap>>

-----------------------------------------------------------------------------
(* UpdateUserJobStrategy *)

\* The user is looked up without the lock; a removed one ends the job.
FindUser(c) ==
  /\ link[c].pc = "ready"
  /\ link' = [link EXCEPT ![c] =
                [@ EXCEPT !.pc = IF user[call[c].user].live THEN "called" ELSE "done"]]
  /\ UNCHANGED <<user, call, customer, gateway, job, overlap>>

\* A bug: the update does not take the lock.
LinkUserUnlocked(c) ==
  /\ link[c].pc = "called"
  /\ ~ RowLocked(call[c].user)
  /\ user' = [user EXCEPT ![call[c].user] = [@ EXCEPT !.linked = call[c].op \in Creates]]
  /\ link' = [link EXCEPT ![c] = [@ EXCEPT !.pc = "done"]]
  /\ UNCHANGED <<call, customer, gateway, job, overlap>>

\* Under user-update, in no transaction: the one column is set, or cleared, and committed.
LinkUser(c) ==
  LET u == call[c].user
  IN /\ link[c].pc = "called"
     /\ ~ Locked(Updates, u)
     /\ ~ RowLocked(u)
     /\ user' = [user EXCEPT ![u] = [@ EXCEPT !.linked = call[c].op \in Creates]]
     /\ link' = [link EXCEPT ![c] = [@ EXCEPT !.pc = "done"]]
     /\ UNCHANGED <<call, customer, gateway, job, overlap>>

LinkFails(c) ==
  /\ link[c].pc \in {"ready", "called"}
  /\ link' = [link EXCEPT ![c] = FailedAttempt(@)]
  /\ UNCHANGED <<user, call, customer, gateway, job, overlap>>

-----------------------------------------------------------------------------
CallNext(c) ==
  \/ \E u \in Users, e \in Emails, op \in Creates : Create(c, op, u, e)
  \/ \E u \in Users, e \in Emails, op \in Updates : Update(c, op, u, e)
  \/ \E u \in Users, op \in Removes : Remove(c, op, u)
  \/ CreateSave(c) \/ UpdateSave(c) \/ SoftDelete(c)
  \/ Commit(c) \/ CallFails(c)

JobNext(c) ==
  \/ CreateCustomerAtGateway(c) \/ InsertCustomer(c)
  \/ UpdateCustomerAtGateway(c) \/ UpdateCustomerRow(c)
  \/ DeleteCustomerAtGateway(c) \/ SoftDeleteCustomer(c)
  \/ AddLink(c) \/ JobFails(c)
  \/ FindUser(c) \/ LinkUser(c) \/ LinkFails(c)

Next == \E c \in Calls : CallNext(c) \/ JobNext(c)

Spec == Init /\ [][Next]_vars

-----------------------------------------------------------------------------
(* Properties *)

\* No two accounts have one email, a removed account's included, whatever creations and
\* updates race between their existsBy and their commit.
UniqueEmails ==
  \A u, v \in Users : u # v /\ user[u].email # None => user[u].email # user[v].email

\* The gateway has one customer for an account at most, however often the job that creates
\* it fails and is tried again, and its id is that of the account's row if there is one.
OneGatewayCustomer ==
  \A u \in Users :
    /\ gateway[u].made <= 1
    /\ customer[u].email # None => gateway[u].made = 1

\* What the mirror promises: if no two payment jobs of an account were under way at one time
\* and none was given up, then once they have settled the customer, here and at the gateway,
\* has the account's data, and is gone if the account is.
SerialJobsMirror ==
  \A u \in Users \ overlap :
    (\E c \in Calls : call[c].user = u /\ job[c].pc = "done")
      /\ (\A c \in Calls : call[c].user = u => job[c].pc \in {"none", "done"})
    => /\ customer[u].live = user[u].live /\ gateway[u].live = user[u].live
       /\ user[u].live => customer[u].email = user[u].email /\ gateway[u].email = user[u].email

\* Once the creation of its customer and the job that follows it are done, an account is
\* linked to its customer for as long as nobody has removed it: no save of a profile that was
\* read before takes the link away.
CreatedIsLinked ==
  \A c \in Calls :
    LET u == call[c].user
    IN /\ call[c].op \in Creates /\ link[c].pc = "done"
       /\ \A d \in Calls : call[d].user = u /\ call[d].op \in Removes => call[d].pc # "committed"
       => user[u].linked

=============================================================================
