--------------------------- MODULE AccountsProofs ---------------------------
(* What holds of accounts and their customers for any number of calls,      *)
(* accounts, emails and attempts.                                           *)
EXTENDS Accounts, TLAPS

Removed(u) ==
  \E d \in Calls : call[d].op \in Removes /\ call[d].user = u /\ call[d].pc = "committed"

\* What a call has once it has begun, and that jobs are those of committed calls.
CallInv ==
  \A c \in Calls :
    /\ call[c].pc = "start" => call[c].op = "none" /\ call[c].user = None
    /\ call[c].pc # "start" => call[c].op # "none" /\ call[c].user \in Users
    /\ call[c].pc # "start" => call[c].email \in Emails
    /\ job[c].pc # "none" \/ link[c].pc # "none" => call[c].pc = "committed"
    /\ link[c].pc # "none" => call[c].op \in Creates \cup Removes

\* The emails that are written and not committed yet are apart as well.
EmailInv ==
  /\ \A u \in Users : user[u].live => user[u].email # None
  /\ \A c \in Calls : InFlight(c) /\ call[c].op \notin Creates => user[call[c].user].email # None
  /\ \A c \in Calls : call[c].pc = "written" =>
       /\ call[c].row.email # None
       /\ \A v \in Users \ {call[c].user} : user[v].email # call[c].row.email
  /\ \A c, d \in Calls :
       call[c].pc = "written" /\ call[d].pc = "written" /\ call[c].user # call[d].user =>
         call[c].row.email # call[d].row.email

\* A job past its call of the gateway has a customer there.
MirrorInv ==
  /\ \A u \in Users : /\ gateway[u].made <= 1
                      /\ customer[u].live \/ customer[u].email # None => gateway[u].made = 1
  /\ \A c \in Calls : job[c].pc \in {"called", "saved"} => gateway[call[c].user].made = 1

\* An account is created once.
OneCreation ==
  \A c, d \in Calls : c # d /\ call[c].op \in Creates /\ call[d].op \in Creates =>
    call[c].user # call[d].user

\* Only a removal takes an account away, whatever updates write back.
LiveUnlessRemoved ==
  /\ \A u \in Users : user[u].email # None /\ ~ Removed(u) => user[u].live
  /\ \A c \in Calls :
       /\ call[c].op \in Updates /\ call[c].pc = "checked" => call[c].row.live
       /\ call[c].op \in Creates \cup Updates /\ call[c].pc = "written" =>
            call[c].row.live \/ Removed(call[c].user)
       /\ call[c].pc = "committed" => user[call[c].user].email # None

\* The creation's link is done and nobody has removed the account.
Linked(c) == call[c].op \in Creates /\ link[c].pc = "done" /\ ~ Removed(call[c].user)

\* An update that is under way then has read the link.
UpdatesKeepLink ==
  \A c, d \in Calls :
    Linked(c) /\ call[d].op \in Updates /\ InFlight(d) /\ call[d].user = call[c].user =>
      call[d].row.linked

LinkInv == OneCreation /\ LiveUnlessRemoved /\ UpdatesKeepLink

Inv == TypeOK /\ CallInv /\ EmailInv /\ UniqueEmails /\ MirrorInv /\ LinkInv /\ CreatedIsLinked

AllOps == PublicOps \cup AdminOps

LEMMA NoneDiffers ==
  /\ None \notin Users /\ None \notin Emails
  /\ MaxAttempts \in Nat
  BY AccountsAssumption

LEMMA OpsAre ==
  /\ AllOps = Creates \cup Updates \cup Removes
  /\ Creates \cap Updates = {} /\ Creates \cap Removes = {} /\ Updates \cap Removes = {}
  /\ "none" \notin AllOps
  BY DEF AllOps, PublicOps, AdminOps, Creates, Updates, Removes

\* The fields of a call.
LEMMA CallFields ==
  ASSUME TypeOK, NEW c \in Calls
  PROVE  /\ call[c] \in CallState
         /\ call[c].op \in {"none"} \cup AllOps
         /\ call[c].pc \in {"start", "checked", "written", "committed", "failed"}
         /\ call[c].user \in Users \cup {None} /\ call[c].email \in Emails \cup {None}
         /\ call[c].row \in UserRow
  BY DEF TypeOK, CallState, AllOps

\* A call begins: it has read its account's row, if there is one.
Begins(c) ==
  \/ \E u \in Users, e \in Emails, op \in Creates : Create(c, op, u, e)
  \/ \E u \in Users, e \in Emails, op \in Updates : Update(c, op, u, e)
  \/ \E u \in Users, op \in Removes : Remove(c, op, u)

\* A call writes its row.
Writes(c) == CreateSave(c) \/ UpdateSave(c) \/ SoftDelete(c)

LEMMA BeginStep ==
  ASSUME Inv, NEW c \in Calls, Begins(c)
  PROVE  \E op \in AllOps, u \in Users, e \in Emails :
           /\ call[c].pc = "start"
           /\ call' = [call EXCEPT ![c] = [op |-> op, pc |-> "checked", user |-> u, email |-> e,
                                           row |-> user[u]]]
           /\ UNCHANGED <<user, customer, gateway, job, link, overlap>>
           /\ op \in Creates => user[u].email = None /\ \A d \in Calls : call[d].user # u
           /\ op \notin Creates => user[u].live
<1>1. CASE \E u \in Users, e \in Emails, op \in Creates : Create(c, op, u, e)
  BY <1>1, OpsAre DEF Create, Checked
<1>2. CASE \E u \in Users, e \in Emails, op \in Updates : Update(c, op, u, e)
  <2>1. PICK u \in Users, e \in Emails, op \in Updates : Update(c, op, u, e)
    BY <1>2
  <2>2. op \in AllOps /\ op \notin Creates
    BY OpsAre
  <2>3. QED
    BY <2>1, <2>2 DEF Update, Checked
<1>3. CASE \E u \in Users, op \in Removes : Remove(c, op, u)
  <2>1. PICK u \in Users, op \in Removes : Remove(c, op, u)
    BY <1>3
  <2>2. op \in AllOps /\ op \notin Creates
    BY OpsAre
  <2>3. user[u].live /\ user[u].email # None /\ user[u].email \in Emails
    BY <2>1 DEF Remove, Inv, EmailInv, TypeOK, UserRow
  <2>4. QED
    BY <2>1, <2>2, <2>3 DEF Remove, Checked
<1>4. QED
  BY <1>1, <1>2, <1>3 DEF Begins

\* What is written, and what it may be.
LEMMA WriteStep ==
  ASSUME Inv, NEW c \in Calls, Writes(c)
  PROVE  \E row \in UserRow :
           /\ call[c].pc = "checked" /\ call[c].op # "none" /\ call[c].user \in Users
           /\ call' = [call EXCEPT ![c] = [@ EXCEPT !.pc = "written", !.row = row]]
           /\ UNCHANGED <<user, customer, gateway, job, link, overlap>>
           /\ row.email # None
           /\ \/ IndexAdmits(call[c].user, row.email)
              \/ row.email = user[call[c].user].email
           /\ call[c].op \in Creates => row.live
           /\ call[c].op \in Updates =>
                /\ row.live \/ row.live = user[call[c].user].live
                /\ row.linked \in {call[c].row.linked, user[call[c].user].linked}
<1>0. /\ call[c].op \in {"none"} \cup AllOps
      /\ call[c].row \in UserRow
  BY CallFields DEF Inv
<1>1. CASE CreateSave(c)
  <2> DEFINE row == [email |-> call[c].email, live |-> TRUE, linked |-> FALSE]
  <2>1. /\ call[c].op \in Creates /\ call[c].pc = "checked"
        /\ IndexAdmits(call[c].user, call[c].email) /\ Written(c, row)
    BY <1>1 DEF CreateSave
  <2>2. call[c].op # "none" /\ call[c].op \notin Updates /\ call[c].user \in Users
        /\ call[c].email \in Emails
    BY <2>1, OpsAre DEF Inv, CallInv
  <2>3. row \in UserRow /\ row.email = call[c].email /\ row.live /\ row.email # None
    BY <2>2, NoneDiffers DEF UserRow
  <2> HIDE DEF row
  <2>4. QED
    BY <2>1, <2>2, <2>3 DEF Written
<1>2. CASE UpdateSave(c)
  <2>1. /\ call[c].op \in Updates /\ call[c].pc = "checked"
        /\ IndexAdmits(call[c].user, call[c].email)
    BY <1>2 DEF UpdateSave
  <2>2. call[c].op # "none" /\ call[c].op \notin Creates /\ call[c].user \in Users
        /\ call[c].email \in Emails
    BY <2>1, OpsAre DEF Inv, CallInv
  <2>3. PICK live \in {user[call[c].user].live, call[c].row.live},
             linked \in {user[call[c].user].linked, call[c].row.linked} :
          Written(c, [email |-> call[c].email, live |-> live, linked |-> linked])
    BY <1>2 DEF UpdateSave
  <2>4. call[c].row.live = TRUE
    BY <2>1 DEF Inv, LinkInv, LiveUnlessRemoved, CallState, UserRow, TypeOK
  <2>5. user[call[c].user] \in UserRow
    BY <2>2 DEF Inv, TypeOK
  <2>6. live \in BOOLEAN /\ linked \in BOOLEAN
    BY <2>5, <1>0 DEF UserRow
  <2> DEFINE row == [email |-> call[c].email, live |-> live, linked |-> linked]
  <2>7. row \in UserRow /\ row.email = call[c].email /\ row.email # None
        /\ row.live = live /\ row.linked = linked
    BY <2>2, <2>6, NoneDiffers DEF UserRow
  <2>8. Written(c, row)
    BY <2>3
  <2>9. row.live \/ row.live = user[call[c].user].live
    BY <2>4, <2>7
  <2>10. row.linked \in {call[c].row.linked, user[call[c].user].linked}
    BY <2>7
  <2> HIDE DEF row
  <2>11. QED
    BY <2>1, <2>2, <2>7, <2>8, <2>9, <2>10 DEF Written
<1>3. CASE SoftDelete(c)
  <2> DEFINE row == [user[call[c].user] EXCEPT !.live = FALSE]
  <2>1. call[c].op = "adminRemove" /\ call[c].pc = "checked" /\ Written(c, row)
    BY <1>3 DEF SoftDelete
  <2>2. call[c].op # "none" /\ call[c].op \notin Creates /\ call[c].op \notin Updates
    BY <2>1 DEF Creates, Updates
  <2>3. call[c].user \in Users /\ user[call[c].user].email # None
    BY <2>1, <2>2 DEF Inv, CallInv, EmailInv, InFlight
  <2>4. user[call[c].user] \in UserRow
    BY <2>3 DEF Inv, TypeOK
  <2>5. row \in UserRow /\ row.email = user[call[c].user].email
    BY <2>4 DEF UserRow
  <2> HIDE DEF row
  <2>6. QED
    BY <2>1, <2>2, <2>3, <2>5 DEF Written
<1>4. QED
  BY <1>1, <1>2, <1>3 DEF Writes

\* A job moves: rows of accounts and calls are left alone, and the link of its call at most
\* begins.
Works(c) ==
  \/ CreateCustomerAtGateway(c) \/ InsertCustomer(c)
  \/ UpdateCustomerAtGateway(c) \/ UpdateCustomerRow(c)
  \/ DeleteCustomerAtGateway(c) \/ SoftDeleteCustomer(c)
  \/ AddLink(c) \/ JobFails(c)

Links(c) == FindUser(c) \/ LinkUser(c) \/ LinkFails(c)

LEMMA FailedAttemptIsJob ==
  ASSUME NEW j \in JobState
  PROVE  FailedAttempt(j) \in JobState /\ FailedAttempt(j).pc \in {"ready", "failed"}
  BY NoneDiffers DEF JobState, FailedAttempt

LEMMA WorkStep ==
  ASSUME Inv, NEW c \in Calls, Works(c)
  PROVE  \E j, k \in JobState :
           /\ job[c].pc # "none" /\ call[c].pc = "committed"
           /\ job' = [job EXCEPT ![c] = j] /\ j.pc # "none"
           /\ link' = [link EXCEPT ![c] = k]
           /\ k = link[c] \/ (k.pc = "ready" /\ call[c].op \in Creates \cup Removes)
           /\ UNCHANGED <<user, call, overlap>>
<1>0. job \in [Calls -> JobState] /\ link \in [Calls -> JobState]
      /\ job[c] \in JobState /\ link[c] \in JobState
  BY DEF Inv, TypeOK
<1>1. job[c].pc # "none"
  BY DEF Works, CreateCustomerAtGateway, InsertCustomer, UpdateCustomerAtGateway,
         UpdateCustomerRow, DeleteCustomerAtGateway, SoftDeleteCustomer, AddLink, JobFails,
         JobAt, Unsettled
<1>2. call[c].pc = "committed"
  BY <1>1 DEF Inv, CallInv
<1>3. ASSUME NEW pc \in {"called", "saved", "done"}, JobStep(c, pc)
      PROVE  /\ [job[c] EXCEPT !.pc = pc] \in JobState
             /\ [job[c] EXCEPT !.pc = pc].pc # "none"
             /\ job' = [job EXCEPT ![c] = [job[c] EXCEPT !.pc = pc]]
             /\ UNCHANGED <<user, call, overlap>>
  BY <1>0, <1>3 DEF JobStep, JobState
<1>4. link = [link EXCEPT ![c] = link[c]]
  BY <1>0
<1>5. CASE \E pc \in {"called", "saved", "done"} : JobStep(c, pc) /\ UNCHANGED link
  <2>1. PICK pc \in {"called", "saved", "done"} : JobStep(c, pc) /\ UNCHANGED link
    BY <1>5
  <2>2. QED
    BY <2>1, <1>0, <1>1, <1>2, <1>3, <1>4
<1>6. CASE AddLink(c)
  <2>1. [pc |-> "ready", attempts |-> 0] \in JobState
    BY DEF JobState
  <2>2. JobStep(c, "done") /\ link' = [link EXCEPT ![c] = [pc |-> "ready", attempts |-> 0]]
        /\ call[c].op \in Creates \cup Removes
    BY <1>6 DEF AddLink
  <2>3. QED
    BY <2>1, <2>2, <1>1, <1>2, <1>3
<1>7. CASE JobFails(c)
  <2>1. job' = [job EXCEPT ![c] = FailedAttempt(job[c])]
        /\ UNCHANGED <<user, call, customer, gateway, link, overlap>>
    BY <1>7, <1>0 DEF JobFails
  <2>2. FailedAttempt(job[c]) \in JobState /\ FailedAttempt(job[c]).pc # "none"
    BY <1>0, FailedAttemptIsJob
  <2>3. QED
    BY <2>1, <2>2, <1>0, <1>1, <1>2, <1>4
<1>8. QED
  BY <1>5, <1>6, <1>7 DEF Works, CreateCustomerAtGateway, InsertCustomer,
     UpdateCustomerAtGateway, UpdateCustomerRow, DeleteCustomerAtGateway, SoftDeleteCustomer

\* The write of a customer's id touches one column of one row, and only as a link ends.
LEMMA LinkStep ==
  ASSUME Inv, NEW c \in Calls, Links(c)
  PROVE  \E k \in JobState :
           /\ call[c].pc = "committed" /\ call[c].user \in Users
           /\ link[c].pc \in {"ready", "called"} /\ link' = [link EXCEPT ![c] = k]
           /\ UNCHANGED <<call, customer, gateway, job, overlap>>
           /\ \/ UNCHANGED user /\ (k.pc = "done" => ~ user[call[c].user].live)
              \/ /\ ~ Locked(Updates, call[c].user) /\ ~ RowLocked(call[c].user)
                 /\ user' = [user EXCEPT ![call[c].user] =
                               [@ EXCEPT !.linked = call[c].op \in Creates]]
                 /\ k.pc = "done"
<1>0. link \in [Calls -> JobState] /\ link[c] \in JobState
  BY DEF Inv, TypeOK
<1>1. link[c].pc \in {"ready", "called"}
  BY DEF Links, FindUser, LinkUser, LinkFails
<1>2. call[c].pc = "committed" /\ call[c].user \in Users
  BY <1>1 DEF Inv, CallInv
<1>3. \A pc \in {"called", "done"} :
        [link[c] EXCEPT !.pc = pc] \in JobState /\ [link[c] EXCEPT !.pc = pc].pc = pc
  BY <1>0 DEF JobState
<1>4. CASE FindUser(c)
  <2>1. PICK pc \in {"called", "done"} :
          /\ link' = [link EXCEPT ![c] = [link[c] EXCEPT !.pc = pc]]
          /\ pc = "done" => ~ user[call[c].user].live
    BY <1>4, <1>0 DEF FindUser
  <2>2. UNCHANGED <<user, call, customer, gateway, job, overlap>>
    BY <1>4 DEF FindUser
  <2>3. QED
    BY <2>1, <2>2, <1>1, <1>2, <1>3
<1>5. CASE LinkUser(c)
  <2>1. link' = [link EXCEPT ![c] = [link[c] EXCEPT !.pc = "done"]]
    BY <1>5, <1>0 DEF LinkUser
  <2>2. QED
    BY <2>1, <1>1, <1>2, <1>3, <1>5 DEF LinkUser
<1>6. CASE LinkFails(c)
  <2>1. link' = [link EXCEPT ![c] = FailedAttempt(link[c])]
        /\ UNCHANGED <<user, call, customer, gateway, job, overlap>>
    BY <1>6, <1>0 DEF LinkFails
  <2>2. FailedAttempt(link[c]) \in JobState /\ FailedAttempt(link[c]).pc # "done"
    BY <1>0, FailedAttemptIsJob
  <2>3. QED
    BY <2>1, <2>2, <1>1, <1>2
<1>7. QED
  BY <1>4, <1>5, <1>6 DEF Links

\* The kinds of step.
LEMMA Steps ==
  ASSUME Next
  PROVE  \E c \in Calls : Begins(c) \/ Writes(c) \/ Commit(c) \/ CallFails(c)
                          \/ Works(c) \/ Links(c)
  BY DEF Next, CallNext, JobNext, Begins, Writes, Works, Links

\* What a commit and a failure do to the call.
LEMMA EndStep ==
  ASSUME Inv, NEW c \in Calls, Commit(c) \/ CallFails(c)
  PROVE  /\ InFlight(c) /\ call[c].op # "none" /\ call[c].user \in Users
         /\ \E pc \in {"committed", "failed"} : call' = [call EXCEPT ![c] = [@ EXCEPT !.pc = pc]]
<1>1. InFlight(c)
  BY DEF Commit, CallFails, InFlight
<1>2. call[c].op # "none" /\ call[c].user \in Users
  BY <1>1 DEF InFlight, Inv, CallInv
<1>3. QED
  BY <1>1, <1>2 DEF Commit, CallFails

-----------------------------------------------------------------------------
LEMMA TypeInit == Init => TypeOK
  BY DEF Init, TypeOK, UserRow, NoUser, CallState, CustomerRow, GatewayState, JobState, NoJob

LEMMA TypeStep ==
  ASSUME Inv, [Next]_vars
  PROVE  TypeOK'
<1>0. TypeOK
  BY DEF Inv
<1>1. CASE UNCHANGED vars
  BY <1>0, <1>1 DEF vars, TypeOK
<1>2. ASSUME NEW c \in Calls, Begins(c)
      PROVE  TypeOK'
  <2>1. PICK op \in AllOps, u \in Users, e \in Emails :
          /\ call' = [call EXCEPT ![c] = [op |-> op, pc |-> "checked", user |-> u, email |-> e,
                                          row |-> user[u]]]
          /\ UNCHANGED <<user, customer, gateway, job, link, overlap>>
    BY <1>2, BeginStep
  <2>2. user[u] \in UserRow
    BY <1>0 DEF TypeOK
  <2>3. [op |-> op, pc |-> "checked", user |-> u, email |-> e, row |-> user[u]] \in CallState
    BY <2>2 DEF CallState, AllOps
  <2>4. QED
    BY <2>1, <2>3, <1>0 DEF TypeOK
<1>3. ASSUME NEW c \in Calls, Writes(c)
      PROVE  TypeOK'
  <2>1. PICK row \in UserRow :
          /\ call' = [call EXCEPT ![c] = [@ EXCEPT !.pc = "written", !.row = row]]
          /\ UNCHANGED <<user, customer, gateway, job, link, overlap>>
    BY <1>3, WriteStep
  <2>2. [call[c] EXCEPT !.pc = "written", !.row = row] \in CallState
    BY <1>0 DEF TypeOK, CallState
  <2>3. QED
    BY <2>1, <2>2, <1>0 DEF TypeOK
<1>4. ASSUME NEW c \in Calls, Commit(c) \/ CallFails(c)
      PROVE  TypeOK'
  <2>1. PICK pc \in {"committed", "failed"} : call' = [call EXCEPT ![c] = [@ EXCEPT !.pc = pc]]
    BY <1>4, EndStep
  <2>2. [call[c] EXCEPT !.pc = pc] \in CallState
    BY <1>0 DEF TypeOK, CallState
  <2>3. call' \in [Calls -> CallState]
    BY <2>1, <2>2, <1>0 DEF TypeOK
  <2>4. call[c].row \in UserRow /\ call[c].user \in Users
    BY <1>0, <1>4, CallFields, EndStep
  <2>5. CASE Commit(c)
    <3>1. user' \in [Users -> UserRow]
      BY <2>4, <2>5, <1>0 DEF Commit, TypeOK
    <3>2. [pc |-> "ready", attempts |-> 0] \in JobState
      BY DEF JobState
    <3>3. job' \in [Calls -> JobState]
      BY <3>2, <2>5, <1>0 DEF Commit, TypeOK
    <3>4. overlap' \subseteq Users
      BY <2>4, <2>5, <1>0 DEF Commit, TypeOK
    <3>5. QED
      BY <3>1, <3>3, <3>4, <2>3, <2>5, <1>0 DEF Commit, TypeOK
  <2>6. CASE CallFails(c)
    BY <2>3, <2>6, <1>0 DEF CallFails, TypeOK
  <2>7. QED
    BY <1>4, <2>5, <2>6
<1>5. ASSUME NEW c \in Calls, Works(c)
      PROVE  TypeOK'
  <2>1. job' \in [Calls -> JobState] /\ link' \in [Calls -> JobState]
        /\ UNCHANGED <<user, call, overlap>> /\ call[c].pc = "committed"
    BY <1>0, <1>5, WorkStep DEF TypeOK
  <2>2. call[c].email \in Emails /\ call[c].user \in Users
    BY <2>1 DEF Inv, CallInv
  <2>3. customer[call[c].user] \in CustomerRow /\ gateway[call[c].user] \in GatewayState
    BY <2>2, <1>0 DEF TypeOK
  <2>4. /\ [email |-> call[c].email, live |-> TRUE] \in CustomerRow
        /\ [customer[call[c].user] EXCEPT !.live = FALSE] \in CustomerRow
        /\ [made |-> 1, email |-> call[c].email, live |-> TRUE] \in GatewayState
        /\ [gateway[call[c].user] EXCEPT !.email = call[c].email] \in GatewayState
        /\ [gateway[call[c].user] EXCEPT !.live = FALSE] \in GatewayState
    BY <2>2, <2>3 DEF CustomerRow, GatewayState
  <2>5. customer' \in [Users -> CustomerRow] /\ gateway' \in [Users -> GatewayState]
    <3>0. customer \in [Users -> CustomerRow] /\ gateway \in [Users -> GatewayState]
      BY <1>0 DEF TypeOK
    <3>1. CASE CreateCustomerAtGateway(c)
      BY <3>0, <3>1, <2>4 DEF CreateCustomerAtGateway
    <3>2. CASE InsertCustomer(c) \/ UpdateCustomerRow(c) \/ SoftDeleteCustomer(c)
      BY <3>0, <3>2, <2>2, <2>4 DEF InsertCustomer, UpdateCustomerRow, SoftDeleteCustomer
    <3>3. CASE UpdateCustomerAtGateway(c) \/ DeleteCustomerAtGateway(c)
      BY <3>0, <3>3, <2>2, <2>4 DEF UpdateCustomerAtGateway, DeleteCustomerAtGateway
    <3>4. CASE AddLink(c) \/ JobFails(c)
      BY <3>0, <3>4 DEF AddLink, JobFails
    <3>5. QED
      BY <1>5, <3>1, <3>2, <3>3, <3>4 DEF Works
  <2>6. QED
    BY <2>1, <2>5, <1>0 DEF TypeOK
<1>6. ASSUME NEW c \in Calls, Links(c)
      PROVE  TypeOK'
  <2>1. PICK k \in JobState :
           /\ call[c].user \in Users
           /\ link' = [link EXCEPT ![c] = k]
           /\ UNCHANGED <<call, customer, gateway, job, overlap>>
           /\ \/ UNCHANGED user
              \/ user' = [user EXCEPT ![call[c].user] =
                            [@ EXCEPT !.linked = call[c].op \in Creates]]
    BY <1>6, LinkStep
  <2>2. user[call[c].user] \in UserRow
    BY <2>1, <1>0 DEF TypeOK
  <2>3. \A b \in BOOLEAN : [user[call[c].user] EXCEPT !.linked = b] \in UserRow
    BY <2>2 DEF UserRow
  <2>4. (call[c].op \in Creates) \in BOOLEAN
    OBVIOUS
  <2>5. user' \in [Users -> UserRow]
    BY <2>1, <2>3, <2>4, <1>0 DEF TypeOK
  <2>6. QED
    BY <2>1, <2>5, <1>0 DEF TypeOK
<1>7. QED
  BY <1>1, <1>2, <1>3, <1>4, <1>5, <1>6, Steps

-----------------------------------------------------------------------------
LEMMA CallInit == Init => CallInv
<1>1. SUFFICES ASSUME Init, NEW c \in Calls
               PROVE  /\ call[c].pc = "start" /\ call[c].op = "none" /\ call[c].user = None
                      /\ job[c].pc = "none" /\ link[c].pc = "none"
  BY DEF CallInv
<1>2. QED
  BY <1>1 DEF Init, NoJob

LEMMA CallStep ==
  ASSUME Inv, [Next]_vars
  PROVE  CallInv'
<1>0. CallInv /\ call \in [Calls -> CallState] /\ job \in [Calls -> JobState]
      /\ link \in [Calls -> JobState]
  BY DEF Inv, TypeOK
<1>1. CASE UNCHANGED vars
  BY <1>0, <1>1 DEF vars, CallInv
<1>2. ASSUME NEW c \in Calls, Begins(c)
      PROVE  CallInv'
  <2>1. PICK op \in AllOps, u \in Users, e \in Emails :
          /\ call[c].pc = "start"
          /\ call' = [call EXCEPT ![c] = [op |-> op, pc |-> "checked", user |-> u, email |-> e,
                                          row |-> user[u]]]
          /\ UNCHANGED <<user, customer, gateway, job, link, overlap>>
    BY <1>2, BeginStep
  <2>2. op # "none"
    BY OpsAre
  <2>3. QED
    BY <2>1, <2>2, <1>0 DEF CallInv
<1>3. ASSUME NEW c \in Calls, Writes(c)
      PROVE  CallInv'
  <2>1. PICK row \in UserRow :
          /\ call[c].pc = "checked"
          /\ call' = [call EXCEPT ![c] = [@ EXCEPT !.pc = "written", !.row = row]]
          /\ UNCHANGED <<user, customer, gateway, job, link, overlap>>
    BY <1>3, WriteStep
  <2>2. call[c] \in CallState
    BY <1>0
  <2>3. QED
    BY <2>1, <2>2, <1>0 DEF CallInv, CallState
<1>4. ASSUME NEW c \in Calls, Commit(c) \/ CallFails(c)
      PROVE  CallInv'
  <2>1. PICK pc \in {"committed", "failed"} : call' = [call EXCEPT ![c] = [@ EXCEPT !.pc = pc]]
    BY <1>4, EndStep
  <2>2. InFlight(c) /\ call[c] \in CallState
    BY <1>0, <1>4, EndStep
  <2>3. CASE Commit(c)
    BY <2>2, <2>3, <1>0 DEF Commit, InFlight, CallInv, CallState
  <2>4. CASE CallFails(c)
    BY <2>2, <2>4, <1>0 DEF CallFails, InFlight, CallInv, CallState
  <2>5. QED
    BY <1>4, <2>3, <2>4
<1>5. ASSUME NEW c \in Calls, Works(c)
      PROVE  CallInv'
  <2>1. PICK j, k \in JobState :
          /\ call[c].pc = "committed"
          /\ job' = [job EXCEPT ![c] = j]
          /\ link' = [link EXCEPT ![c] = k]
          /\ k = link[c] \/ call[c].op \in Creates \cup Removes
          /\ UNCHANGED <<user, call, overlap>>
    BY <1>5, WorkStep
  <2>2. QED
    BY <2>1, <1>0 DEF CallInv
<1>6. ASSUME NEW c \in Calls, Links(c)
      PROVE  CallInv'
  <2>1. PICK k \in JobState :
          /\ call[c].pc = "committed"
          /\ link[c].pc \in {"ready", "called"} /\ link' = [link EXCEPT ![c] = k]
          /\ UNCHANGED <<call, customer, gateway, job, overlap>>
    BY <1>6, LinkStep
  <2>2. QED
    BY <2>1, <1>0 DEF CallInv
<1>7. QED
  BY <1>1, <1>2, <1>3, <1>4, <1>5, <1>6, Steps

-----------------------------------------------------------------------------
LEMMA EmailInit == Init => EmailInv /\ UniqueEmails
  BY DEF Init, NoUser, EmailInv, UniqueEmails, InFlight

\* Emails of rows change by commits only.
EmailsStay == \A u \in Users : user'[u].email = user[u].email /\ user'[u].live = user[u].live

LEMMA EmailStep ==
  ASSUME Inv, [Next]_vars
  PROVE  EmailInv' /\ UniqueEmails'
<1>0. EmailInv /\ UniqueEmails /\ call \in [Calls -> CallState] /\ user \in [Users -> UserRow]
  BY DEF Inv, TypeOK
<1>1. CASE UNCHANGED <<user, call>>
  BY <1>0, <1>1 DEF EmailInv, UniqueEmails, InFlight
<1>2. ASSUME NEW c \in Calls, Begins(c)
      PROVE  EmailInv' /\ UniqueEmails'
  <2>1. PICK op \in AllOps, u \in Users, e \in Emails :
          /\ call[c].pc = "start"
          /\ call' = [call EXCEPT ![c] = [op |-> op, pc |-> "checked", user |-> u, email |-> e,
                                          row |-> user[u]]]
          /\ UNCHANGED <<user, customer, gateway, job, link, overlap>>
          /\ op \notin Creates => user[u].live
    BY <1>2, BeginStep
  <2>2. op \notin Creates => user[u].email # None
    BY <2>1, <1>0 DEF EmailInv
  <2>3. QED
    BY <2>1, <2>2, <1>0 DEF EmailInv, UniqueEmails, InFlight
<1>3. ASSUME NEW c \in Calls, Writes(c)
      PROVE  EmailInv' /\ UniqueEmails'
  <2>1. PICK row \in UserRow :
          /\ call[c].pc = "checked" /\ call[c].user \in Users
          /\ call' = [call EXCEPT ![c] = [@ EXCEPT !.pc = "written", !.row = row]]
          /\ UNCHANGED <<user, customer, gateway, job, link, overlap>>
          /\ row.email # None
          /\ \/ IndexAdmits(call[c].user, row.email)
             \/ row.email = user[call[c].user].email
    BY <1>3, WriteStep
  <2>2. /\ \A v \in Users \ {call[c].user} : user[v].email # row.email
        /\ \A d \in Calls : call[d].pc = "written" /\ call[d].user # call[c].user =>
             call[d].row.email # row.email
    <3>1. CASE IndexAdmits(call[c].user, row.email)
      BY <3>1 DEF IndexAdmits
    <3>2. CASE row.email = user[call[c].user].email
      <4>1. \A v \in Users \ {call[c].user} : user[v].email # row.email
        BY <3>2, <2>1, <1>0 DEF UniqueEmails
      <4>2. \A d \in Calls : call[d].pc = "written" /\ call[d].user # call[c].user =>
              call[d].row.email # row.email
        BY <3>2, <2>1, <1>0 DEF EmailInv
      <4>3. QED
        BY <4>1, <4>2
    <3>3. QED
      BY <2>1, <3>1, <3>2
  <2>3. /\ call'[c].pc = "written" /\ call'[c].op = call[c].op /\ call'[c].user = call[c].user
        /\ call'[c].row = row
        /\ \A d \in Calls \ {c} : call'[d] = call[d]
    <3>1. call[c] \in CallState
      BY <1>0
    <3>2. QED
      BY <2>1, <1>0, <3>1 DEF CallState
  <2>4. user' = user
    BY <2>1
  <2>5. \A d \in Calls : InFlight(d)' /\ call'[d].op \notin Creates =>
          user'[call'[d].user].email # None
    BY <2>1, <2>3, <2>4, <1>0 DEF EmailInv, InFlight
  <2>6. \A d \in Calls : call'[d].pc = "written" =>
          /\ call'[d].row.email # None
          /\ \A v \in Users \ {call'[d].user} : user'[v].email # call'[d].row.email
    BY <2>1, <2>2, <2>3, <2>4, <1>0 DEF EmailInv
  <2>7. \A d, f \in Calls :
          call'[d].pc = "written" /\ call'[f].pc = "written" /\ call'[d].user # call'[f].user =>
            call'[d].row.email # call'[f].row.email
    BY <2>1, <2>2, <2>3, <1>0 DEF EmailInv
  <2>8. QED
    BY <2>4, <2>5, <2>6, <2>7, <1>0 DEF EmailInv, UniqueEmails
<1>4. ASSUME NEW c \in Calls, Commit(c) \/ CallFails(c)
      PROVE  EmailInv' /\ UniqueEmails'
  <2>1. PICK pc \in {"committed", "failed"} : call' = [call EXCEPT ![c] = [@ EXCEPT !.pc = pc]]
    BY <1>4, EndStep
  <2>2. call[c] \in CallState /\ call[c].user \in Users
    BY <1>0, <1>4, EndStep
  <2>3. /\ call'[c].pc = pc /\ \A d \in Calls \ {c} : call'[d] = call[d]
    BY <2>1, <2>2, <1>0 DEF CallState
  <2>4. CASE CallFails(c)
    <3>1. user' = user
      BY <2>4 DEF CallFails
    <3>2. QED
      BY <2>3, <3>1, <1>0 DEF EmailInv, UniqueEmails, InFlight
  <2>5. CASE Commit(c)
    <3>1. call[c].pc = "written" /\ user' = [user EXCEPT ![call[c].user] = call[c].row]
      BY <2>5 DEF Commit
    <3>2. /\ user'[call[c].user] = call[c].row
          /\ \A v \in Users \ {call[c].user} : user'[v] = user[v]
      BY <3>1, <2>2, <1>0
    <3>3. /\ call[c].row.email # None
          /\ \A v \in Users \ {call[c].user} : user[v].email # call[c].row.email
      BY <3>1, <1>0 DEF EmailInv
    <3>4. UniqueEmails'
      BY <3>2, <3>3, <1>0 DEF UniqueEmails
    <3>5. \A u \in Users : user[u].email # None => user'[u].email # None
      BY <3>2, <3>3
    <3>6. \A u \in Users : user'[u].live => user'[u].email # None
      BY <3>2, <3>3, <1>0 DEF EmailInv
    <3>7. \A d \in Calls : InFlight(d)' /\ call'[d].op \notin Creates =>
            user'[call'[d].user].email # None
      <4>1. SUFFICES ASSUME NEW d \in Calls, InFlight(d)', call'[d].op \notin Creates
                     PROVE  user'[call'[d].user].email # None
        OBVIOUS
      <4>2. d # c /\ call'[d] = call[d]
        BY <4>1, <2>3 DEF InFlight
      <4>3. InFlight(d) /\ call[d].op \notin Creates
        BY <4>1, <4>2 DEF InFlight
      <4>4. user[call[d].user].email # None /\ call[d].user \in Users
        BY <4>3, <1>0 DEF EmailInv, Inv, CallInv, InFlight
      <4>5. QED
        BY <4>2, <4>4, <3>5
    <3>8. \A d \in Calls : call'[d].pc = "written" =>
            /\ call'[d].row.email # None
            /\ \A v \in Users \ {call'[d].user} : user'[v].email # call'[d].row.email
      BY <2>3, <3>1, <3>2, <1>0 DEF EmailInv
    <3>9. \A d, f \in Calls :
            call'[d].pc = "written" /\ call'[f].pc = "written" /\ call'[d].user # call'[f].user =>
              call'[d].row.email # call'[f].row.email
      BY <2>3, <1>0 DEF EmailInv
    <3>10. QED
      BY <3>4, <3>6, <3>7, <3>8, <3>9 DEF EmailInv
  <2>6. QED
    BY <1>4, <2>4, <2>5
<1>5. ASSUME NEW c \in Calls, Works(c)
      PROVE  EmailInv' /\ UniqueEmails'
  BY <1>1, <1>5, WorkStep
<1>6. ASSUME NEW c \in Calls, Links(c)
      PROVE  EmailInv' /\ UniqueEmails'
  <2>1. /\ UNCHANGED call
        /\ \/ UNCHANGED user
           \/ user' = [user EXCEPT ![call[c].user] = [@ EXCEPT !.linked = call[c].op \in Creates]]
    BY <1>6, LinkStep
  <2>2. EmailsStay
    BY <2>1, <1>0 DEF EmailsStay, UserRow
  <2>3. \A d \in Calls : call[d].pc # "start" => call[d].user \in Users
    BY DEF Inv, CallInv
  <2>4. \A d \in Calls : InFlight(d)' /\ call'[d].op \notin Creates =>
          user'[call'[d].user].email # None
    BY <2>1, <2>2, <2>3, <1>0 DEF EmailsStay, EmailInv, InFlight
  <2>5. QED
    BY <2>1, <2>2, <2>4, <1>0 DEF EmailsStay, EmailInv, UniqueEmails
<1>7. CASE UNCHANGED vars
  BY <1>1, <1>7 DEF vars
<1>8. QED
  BY <1>2, <1>3, <1>4, <1>5, <1>6, <1>7, Steps

-----------------------------------------------------------------------------
LEMMA MirrorInit == Init => MirrorInv
  BY DEF Init, NoJob, MirrorInv

LEMMA MirrorStep ==
  ASSUME Inv, [Next]_vars
  PROVE  MirrorInv'
<1>0. /\ MirrorInv /\ call \in [Calls -> CallState] /\ job \in [Calls -> JobState]
      /\ gateway \in [Users -> GatewayState] /\ customer \in [Users -> CustomerRow]
  BY DEF Inv, TypeOK
<1>1. \A d \in Calls : job[d].pc \in {"called", "saved"} =>
        call[d].user \in Users /\ call[d].pc = "committed"
  BY DEF Inv, CallInv
<1>2. ASSUME NEW c \in Calls,
             UNCHANGED <<customer, gateway>>,
             \A d \in Calls \ {c} : call'[d] = call[d] /\ job'[d] = job[d],
             job'[c].pc = "ready" \/ (job'[c].pc = job[c].pc /\ call[c].pc # "committed")
      PROVE  MirrorInv'
  <2>1. \A d \in Calls : job'[d].pc \in {"called", "saved"} =>
          d # c /\ gateway[call[d].user].made = 1
    BY <1>0, <1>1, <1>2 DEF MirrorInv
  <2>2. QED
    BY <2>1, <1>0, <1>2 DEF MirrorInv
<1>3. CASE UNCHANGED <<call, job, customer, gateway>>
  BY <1>0, <1>3 DEF MirrorInv
<1>4. ASSUME NEW c \in Calls, Begins(c)
      PROVE  MirrorInv'
  <2>1. /\ call[c].pc = "start" /\ \A d \in Calls \ {c} : call'[d] = call[d]
        /\ UNCHANGED <<customer, gateway, job>>
    BY <1>0, <1>4, BeginStep
  <2>2. QED
    BY <2>1, <1>2
<1>5. ASSUME NEW c \in Calls, Writes(c)
      PROVE  MirrorInv'
  <2>1. /\ call[c].pc = "checked" /\ \A d \in Calls \ {c} : call'[d] = call[d]
        /\ UNCHANGED <<customer, gateway, job>>
    BY <1>0, <1>5, WriteStep
  <2>2. QED
    BY <2>1, <1>2
<1>6. ASSUME NEW c \in Calls, Commit(c) \/ CallFails(c)
      PROVE  MirrorInv'
  <2>1. \A d \in Calls \ {c} : call'[d] = call[d]
    BY <1>0, <1>6, EndStep
  <2>2. InFlight(c)
    BY <1>6, EndStep
  <2>3. /\ UNCHANGED <<customer, gateway>>
        /\ \A d \in Calls \ {c} : job'[d] = job[d]
        /\ job'[c].pc = "ready" \/ job'[c].pc = job[c].pc
    BY <1>0, <1>6 DEF Commit, CallFails
  <2>4. QED
    BY <2>1, <2>2, <2>3, <1>2 DEF InFlight
<1>7. ASSUME NEW c \in Calls, Works(c)
      PROVE  MirrorInv'
  <2>1. /\ UNCHANGED call
        /\ \A d \in Calls \ {c} : job'[d] = job[d]
        /\ call[c].pc = "committed"
    BY <1>0, <1>7, WorkStep
  <2>2. call[c].user \in Users /\ call[c].email # None
    BY <2>1, NoneDiffers DEF Inv, CallInv
  <2>3. \A u \in Users : gateway[u].made \in Nat
    BY <1>0 DEF GatewayState
  <2>4. \A u \in Users : gateway[u].made = 1 => gateway'[u].made = 1
    <3>1. CASE CreateCustomerAtGateway(c)
      BY <3>1, <2>2, <1>0 DEF CreateCustomerAtGateway
    <3>2. CASE UpdateCustomerAtGateway(c) \/ DeleteCustomerAtGateway(c)
      BY <3>2, <2>2, <1>0 DEF UpdateCustomerAtGateway, DeleteCustomerAtGateway, GatewayState
    <3>3. CASE UNCHANGED gateway
      BY <3>3
    <3>4. QED
      BY <1>7, <3>1, <3>2, <3>3 DEF Works, InsertCustomer, UpdateCustomerRow,
         SoftDeleteCustomer, AddLink, JobFails
  <2>5. \A u \in Users : gateway'[u].made <= 1
    <3>1. CASE CreateCustomerAtGateway(c)
      BY <3>1, <2>2, <1>0 DEF CreateCustomerAtGateway, MirrorInv
    <3>2. CASE UpdateCustomerAtGateway(c) \/ DeleteCustomerAtGateway(c)
      BY <3>2, <2>2, <1>0
      DEF UpdateCustomerAtGateway, DeleteCustomerAtGateway, GatewayState, MirrorInv
    <3>3. CASE UNCHANGED gateway
      BY <3>3, <1>0 DEF MirrorInv
    <3>4. QED
      BY <1>7, <3>1, <3>2, <3>3 DEF Works, InsertCustomer, UpdateCustomerRow,
         SoftDeleteCustomer, AddLink, JobFails
  <2>6. job'[c].pc \in {"called", "saved"} => gateway'[call[c].user].made = 1
    <3>0. job[c] \in JobState
      BY <1>0
    <3>1. CASE CreateCustomerAtGateway(c)
      BY <3>1, <2>2, <2>3, <1>0 DEF CreateCustomerAtGateway, MirrorInv
    <3>2. CASE UpdateCustomerAtGateway(c) \/ DeleteCustomerAtGateway(c)
      BY <3>2, <2>2, <2>4, <1>0 DEF UpdateCustomerAtGateway, DeleteCustomerAtGateway, MirrorInv
    <3>3. CASE InsertCustomer(c) \/ UpdateCustomerRow(c) \/ SoftDeleteCustomer(c)
      BY <3>3, <2>2, <2>4, <1>0
      DEF InsertCustomer, UpdateCustomerRow, SoftDeleteCustomer, JobAt, MirrorInv
    <3>4. CASE AddLink(c)
      BY <3>4, <3>0, <1>0 DEF AddLink, JobStep, JobState
    <3>5. CASE JobFails(c)
      <4>1. job'[c] = FailedAttempt(job[c])
        BY <3>5, <1>0 DEF JobFails
      <4>2. QED
        BY <4>1, <3>0, FailedAttemptIsJob
    <3>6. QED
      BY <1>7, <3>1, <3>2, <3>3, <3>4, <3>5 DEF Works
  <2>7. \A u \in Users : customer'[u].live \/ customer'[u].email # None => gateway'[u].made = 1
    <3>1. CASE InsertCustomer(c) \/ UpdateCustomerRow(c)
      <4>1. gateway'[call[c].user].made = 1
        BY <3>1, <2>2, <2>4, <1>0 DEF InsertCustomer, UpdateCustomerRow, JobAt, MirrorInv
      <4>2. \A u \in Users \ {call[c].user} : customer'[u] = customer[u]
        BY <3>1, <1>0 DEF InsertCustomer, UpdateCustomerRow
      <4>3. QED
        BY <4>1, <4>2, <2>4, <1>0 DEF MirrorInv
    <3>2. CASE SoftDeleteCustomer(c)
      <4>1. \A u \in Users : customer'[u].email = customer[u].email
                            /\ (customer'[u].live => customer[u].live)
        BY <3>2, <1>0 DEF SoftDeleteCustomer, CustomerRow
      <4>2. QED
        BY <4>1, <2>4, <1>0 DEF MirrorInv
    <3>3. CASE UNCHANGED customer
      BY <3>3, <2>4, <1>0 DEF MirrorInv
    <3>4. QED
      BY <1>7, <3>1, <3>2, <3>3 DEF Works, CreateCustomerAtGateway, UpdateCustomerAtGateway,
         DeleteCustomerAtGateway, AddLink, JobFails
  <2>8. \A d \in Calls \ {c} : job'[d].pc \in {"called", "saved"} =>
          gateway'[call[d].user].made = 1
    BY <2>1, <2>4, <1>0, <1>1 DEF MirrorInv
  <2>9. QED
    BY <2>1, <2>5, <2>6, <2>7, <2>8 DEF MirrorInv
<1>8. ASSUME NEW c \in Calls, Links(c)
      PROVE  MirrorInv'
  BY <1>3, <1>8, LinkStep
<1>9. CASE UNCHANGED vars
  BY <1>3, <1>9 DEF vars
<1>10. QED
  BY <1>4, <1>5, <1>6, <1>7, <1>8, <1>9, Steps

-----------------------------------------------------------------------------
LEMMA LinkInit == Init => LinkInv /\ CreatedIsLinked
<1>1. SUFFICES ASSUME Init
               PROVE  LinkInv /\ CreatedIsLinked
  OBVIOUS
<1>2. \A c \in Calls : call[c].op = "none" /\ call[c].pc = "start"
  BY <1>1 DEF Init
<1>3. \A u \in Users : user[u].email = None
  BY <1>1 DEF Init, NoUser
<1>4. "none" \notin Creates /\ "none" \notin Updates
  BY OpsAre DEF Creates, Updates
<1>5. QED
  BY <1>2, <1>3, <1>4
  DEF LinkInv, OneCreation, LiveUnlessRemoved, UpdatesKeepLink, Linked, CreatedIsLinked

\* CreatedIsLinked in the terms of the invariant.
LEMMA CreatedIsLinkedSays ==
  /\ CreatedIsLinked <=> \A c \in Calls : Linked(c) => user[call[c].user].linked
  /\ CreatedIsLinked' <=> \A c \in Calls : Linked(c)' => user'[call'[c].user].linked
  BY DEF CreatedIsLinked, Linked, Removed

\* A call that is under way may change by a step; what is committed stays.
LEMMA RemovedStays ==
  ASSUME Inv, NEW c \in Calls, call[c].pc # "committed",
         \A d \in Calls \ {c} : call'[d] = call[d]
  PROVE  \A u \in Users : Removed(u) => Removed(u)'
  BY DEF Removed

\* What is linked after the step of a call was linked before it.
LEMMA LinkedBefore ==
  ASSUME Inv, NEW c \in Calls, call[c].pc # "committed", UNCHANGED link,
         \A d \in Calls \ {c} : call'[d] = call[d]
  PROVE  \A d \in Calls : Linked(d)' => d # c /\ call'[d] = call[d] /\ Linked(d)
<1>1. SUFFICES ASSUME NEW d \in Calls, Linked(d)'
               PROVE  d # c /\ call'[d] = call[d] /\ Linked(d)
  OBVIOUS
<1>2. link[d].pc = "done" /\ call[d].pc = "committed" /\ call[d].user \in Users
  BY <1>1 DEF Linked, Inv, CallInv
<1>3. d # c /\ call'[d] = call[d]
  BY <1>2
<1>4. QED
  BY <1>1, <1>2, <1>3, RemovedStays DEF Linked

LEMMA LinkInvStep ==
  ASSUME Inv, [Next]_vars
  PROVE  LinkInv' /\ CreatedIsLinked'
<1>0. /\ LinkInv /\ CreatedIsLinked /\ call \in [Calls -> CallState]
      /\ user \in [Users -> UserRow] /\ link \in [Calls -> JobState]
  BY DEF Inv, TypeOK
<1>1. CASE UNCHANGED <<user, call, link>>
  BY <1>0, <1>1 DEF LinkInv, OneCreation, LiveUnlessRemoved, UpdatesKeepLink, Linked,
     CreatedIsLinked, Removed, InFlight
<1>2. \A d \in Calls : Linked(d) => user[call[d].user].linked
  BY <1>0, CreatedIsLinkedSays
<1>3. \A d \in Calls : call[d].pc # "start" => call[d].user \in Users
  BY DEF Inv, CallInv
<1>4. ASSUME NEW c \in Calls, Begins(c)
      PROVE  LinkInv' /\ CreatedIsLinked'
  <2>1. PICK op \in AllOps, u \in Users, e \in Emails :
          /\ call[c].pc = "start"
          /\ call' = [call EXCEPT ![c] = [op |-> op, pc |-> "checked", user |-> u, email |-> e,
                                          row |-> user[u]]]
          /\ UNCHANGED <<user, customer, gateway, job, link, overlap>>
          /\ op \in Creates => \A d \in Calls : call[d].user # u
          /\ op \notin Creates => user[u].live
    BY <1>4, BeginStep
  <2>2. /\ call'[c].op = op /\ call'[c].pc = "checked" /\ call'[c].user = u
        /\ call'[c].row = user[u]
        /\ \A d \in Calls \ {c} : call'[d] = call[d]
    BY <2>1, <1>0
  <2>3. \A v \in Users : Removed(v) => Removed(v)'
    BY <2>1, <2>2, RemovedStays
  <2>4. \A d \in Calls : Linked(d)' => d # c /\ call'[d] = call[d] /\ Linked(d)
    BY <2>1, <2>2, LinkedBefore
  <2>5. OneCreation'
    BY <2>1, <2>2, <1>0 DEF LinkInv, OneCreation
  <2>6. LiveUnlessRemoved'
    <3>1. \A v \in Users : user'[v].email # None /\ ~ Removed(v)' => user'[v].live
      BY <2>1, <2>3, <1>0 DEF LinkInv, LiveUnlessRemoved
    <3>2. op \in Updates => user[u].live
      BY <2>1, OpsAre
    <3>3. ASSUME NEW d \in Calls
          PROVE  /\ call'[d].op \in Updates /\ call'[d].pc = "checked" => call'[d].row.live
                 /\ call'[d].op \in Creates \cup Updates /\ call'[d].pc = "written" =>
                      call'[d].row.live \/ Removed(call[d].user)'
                 /\ call'[d].pc = "committed" => user'[call'[d].user].email # None
      <4>1. CASE d = c
        BY <4>1, <2>2, <3>2
      <4>2. CASE d # c
        BY <4>2, <2>1, <2>2, <2>3, <1>0, <1>3 DEF LinkInv, LiveUnlessRemoved
      <4>3. QED
        BY <4>1, <4>2
    <3>4. QED
      BY <3>1, <3>3 DEF LiveUnlessRemoved
  <2>7. UpdatesKeepLink'
    BY <2>1, <2>2, <2>4, <1>0, <1>2 DEF LinkInv, UpdatesKeepLink, InFlight
  <2>8. CreatedIsLinked'
    BY <2>1, <2>4, <1>2, CreatedIsLinkedSays
  <2>9. QED
    BY <2>5, <2>6, <2>7, <2>8 DEF LinkInv
<1>5. ASSUME NEW c \in Calls, Writes(c)
      PROVE  LinkInv' /\ CreatedIsLinked'
  <2>1. PICK row \in UserRow :
          /\ call[c].pc = "checked" /\ call[c].user \in Users
          /\ call' = [call EXCEPT ![c] = [@ EXCEPT !.pc = "written", !.row = row]]
          /\ UNCHANGED <<user, customer, gateway, job, link, overlap>>
          /\ call[c].op \in Creates => row.live
          /\ call[c].op \in Updates =>
               /\ row.live \/ row.live = user[call[c].user].live
               /\ row.linked \in {call[c].row.linked, user[call[c].user].linked}
    BY <1>5, WriteStep
  <2>2. /\ call'[c].op = call[c].op /\ call'[c].pc = "written" /\ call'[c].user = call[c].user
        /\ call'[c].row = row
        /\ \A d \in Calls \ {c} : call'[d] = call[d]
    <3>1. call[c] \in CallState
      BY <1>0
    <3>2. QED
      BY <2>1, <1>0, <3>1 DEF CallState
  <2>3. \A v \in Users : Removed(v) => Removed(v)'
    BY <2>1, <2>2, RemovedStays
  <2>4. \A d \in Calls : Linked(d)' => d # c /\ call'[d] = call[d] /\ Linked(d)
    BY <2>1, <2>2, LinkedBefore
  <2>5. OneCreation'
    BY <2>2, <1>0 DEF LinkInv, OneCreation
  <2>6. LiveUnlessRemoved'
    <3>1. \A v \in Users : user'[v].email # None /\ ~ Removed(v)' => user'[v].live
      BY <2>1, <2>3, <1>0 DEF LinkInv, LiveUnlessRemoved
    <3>2. call[c].op \in Creates \cup Updates => row.live \/ Removed(call[c].user)
      <4>1. CASE call[c].op \in Updates
        <5>1. call[c].op \notin Creates
          BY <4>1, OpsAre
        <5>2. user[call[c].user].email # None
          BY <5>1, <2>1 DEF Inv, EmailInv, InFlight
        <5>3. QED
          BY <4>1, <5>2, <2>1, <1>0 DEF LinkInv, LiveUnlessRemoved
      <4>2. QED
        BY <4>1, <2>1
    <3>3. ASSUME NEW d \in Calls
          PROVE  /\ call'[d].op \in Updates /\ call'[d].pc = "checked" => call'[d].row.live
                 /\ call'[d].op \in Creates \cup Updates /\ call'[d].pc = "written" =>
                      call'[d].row.live \/ Removed(call[d].user)'
                 /\ call'[d].pc = "committed" => user'[call'[d].user].email # None
      <4>1. CASE d = c
        BY <4>1, <2>1, <2>2, <2>3, <3>2
      <4>2. CASE d # c
        BY <4>2, <2>1, <2>2, <2>3, <1>0, <1>3 DEF LinkInv, LiveUnlessRemoved
      <4>3. QED
        BY <4>1, <4>2
    <3>4. QED
      BY <3>1, <3>3 DEF LiveUnlessRemoved
  <2>7. UpdatesKeepLink'
    <3>1. SUFFICES ASSUME NEW b \in Calls, NEW d \in Calls, Linked(b)',
                          call'[d].op \in Updates, InFlight(d)', call'[d].user = call'[b].user
                   PROVE  call'[d].row.linked
      BY DEF UpdatesKeepLink
    <3>2. Linked(b) /\ call'[b] = call[b]
      BY <3>1, <2>4
    <3>3. CASE d = c
      <4>1. call[c].op \in Updates /\ InFlight(c) /\ call[c].user = call[b].user
        BY <3>1, <3>2, <3>3, <2>1, <2>2 DEF InFlight
      <4>2. call[c].row.linked /\ user[call[c].user].linked
        BY <4>1, <3>2, <1>0, <1>2 DEF LinkInv, UpdatesKeepLink
      <4>3. QED
        BY <4>1, <4>2, <2>1, <2>2, <3>3
    <3>4. CASE d # c
      BY <3>1, <3>2, <3>4, <2>2, <1>0 DEF LinkInv, UpdatesKeepLink, InFlight
    <3>5. QED
      BY <3>3, <3>4
  <2>8. CreatedIsLinked'
    BY <2>1, <2>4, <1>2, CreatedIsLinkedSays
  <2>9. QED
    BY <2>5, <2>6, <2>7, <2>8 DEF LinkInv
<1>6. ASSUME NEW c \in Calls, Commit(c) \/ CallFails(c)
      PROVE  LinkInv' /\ CreatedIsLinked'
  <2>1. PICK pc \in {"committed", "failed"} : call' = [call EXCEPT ![c] = [@ EXCEPT !.pc = pc]]
    BY <1>6, EndStep
  <2>2. InFlight(c) /\ call[c] \in CallState /\ call[c].user \in Users /\ call[c].op # "none"
    BY <1>0, <1>6, EndStep
  <2>3. /\ call'[c].op = call[c].op /\ call'[c].pc = pc /\ call'[c].user = call[c].user
        /\ \A d \in Calls \ {c} : call'[d] = call[d]
    BY <2>1, <2>2, <1>0 DEF CallState
  <2>4. call[c].pc # "committed" /\ UNCHANGED link
    BY <1>6, <2>2 DEF InFlight, Commit, CallFails
  <2>5. \A v \in Users : Removed(v) => Removed(v)'
    BY <2>3, <2>4, RemovedStays
  <2>6. \A d \in Calls : Linked(d)' => d # c /\ call'[d] = call[d] /\ Linked(d)
    BY <2>3, <2>4, LinkedBefore
  <2>7. OneCreation'
    BY <2>3, <1>0 DEF LinkInv, OneCreation
  <2>8. UpdatesKeepLink'
    BY <2>3, <2>6, <1>0 DEF LinkInv, UpdatesKeepLink, InFlight
  <2>9. CASE CallFails(c)
    <3>1. UNCHANGED user /\ call' = [call EXCEPT ![c] = [@ EXCEPT !.pc = "failed"]]
      BY <2>9 DEF CallFails
    <3>2. call'[c].pc = "failed"
      BY <3>1, <2>2, <1>0 DEF CallState
    <3>3. LiveUnlessRemoved'
      BY <3>1, <3>2, <2>3, <2>5, <1>0, <1>3 DEF LinkInv, LiveUnlessRemoved
    <3>4. CreatedIsLinked'
      BY <3>1, <2>6, <1>2, CreatedIsLinkedSays
    <3>5. QED
      BY <3>3, <3>4, <2>7, <2>8 DEF LinkInv
  <2>10. CASE Commit(c)
    <3>1. /\ call[c].pc = "written" /\ user' = [user EXCEPT ![call[c].user] = call[c].row]
          /\ call' = [call EXCEPT ![c] = [@ EXCEPT !.pc = "committed"]]
      BY <2>10 DEF Commit
    <3>2. call'[c].pc = "committed"
      BY <3>1, <2>2, <1>0 DEF CallState
    <3>3. /\ user'[call[c].user] = call[c].row
          /\ \A v \in Users \ {call[c].user} : user'[v] = user[v]
      BY <3>1, <2>2, <1>0
    <3>4. call[c].row.email # None
      BY <3>1 DEF Inv, EmailInv
    <3>5. call[c].op \in Creates \cup Updates \cup Removes
      BY <2>2, CallFields, OpsAre DEF Inv
    <3>6. call[c].op \in Removes => Removed(call[c].user)'
      BY <3>2, <2>3 DEF Removed
    <3>7. \A v \in Users : user'[v].email # None /\ ~ Removed(v)' => user'[v].live
      <4>1. SUFFICES ASSUME NEW v \in Users, user'[v].email # None, ~ Removed(v)'
                     PROVE  user'[v].live
        OBVIOUS
      <4>2. ~ Removed(v)
        BY <4>1, <2>5
      <4>3. CASE v = call[c].user
        BY <4>1, <4>2, <4>3, <3>1, <3>3, <3>5, <3>6, <1>0 DEF LinkInv, LiveUnlessRemoved
      <4>4. CASE v # call[c].user
        BY <4>1, <4>2, <4>4, <3>3, <1>0 DEF LinkInv, LiveUnlessRemoved
      <4>5. QED
        BY <4>3, <4>4
    <3>8. \A v \in Users : user[v].email # None => user'[v].email # None
      BY <3>3, <3>4
    <3>9. ASSUME NEW d \in Calls
          PROVE  /\ call'[d].op \in Updates /\ call'[d].pc = "checked" => call'[d].row.live
                 /\ call'[d].op \in Creates \cup Updates /\ call'[d].pc = "written" =>
                      call'[d].row.live \/ Removed(call[d].user)'
                 /\ call'[d].pc = "committed" => user'[call'[d].user].email # None
      <4>1. CASE d = c
        BY <4>1, <2>3, <3>2, <3>3, <3>4
      <4>2. CASE d # c
        BY <4>2, <2>3, <2>5, <3>8, <1>0, <1>3 DEF LinkInv, LiveUnlessRemoved
      <4>3. QED
        BY <4>1, <4>2
    <3>10. LiveUnlessRemoved'
      BY <3>7, <3>9 DEF LiveUnlessRemoved
    <3>11. \A d \in Calls : Linked(d)' => user'[call'[d].user].linked
      <4>1. SUFFICES ASSUME NEW d \in Calls, Linked(d)'
                     PROVE  user'[call'[d].user].linked
        OBVIOUS
      <4>2. d # c /\ call'[d] = call[d] /\ Linked(d)
        BY <4>1, <2>6
      <4>3. user[call[d].user].linked /\ call[d].user \in Users
        BY <4>2, <1>2, <1>3 DEF Linked, Inv, CallInv
      <4>4. CASE call[d].user = call[c].user
        <5>1. call[c].op \notin Creates
          BY <4>2, <4>4, <1>0 DEF Linked, LinkInv, OneCreation
        <5>2. call[c].op \notin Removes
          BY <4>1, <4>2, <4>4, <2>3, <3>6 DEF Linked, Removed
        <5>3. call[c].op \in Updates
          BY <5>1, <5>2, <3>5
        <5>4. call[c].row.linked
          BY <5>3, <4>2, <4>4, <2>2, <1>0 DEF LinkInv, UpdatesKeepLink
        <5>5. QED
          BY <5>4, <4>2, <4>4, <3>3
      <4>5. CASE call[d].user # call[c].user
        BY <4>2, <4>3, <4>5, <3>3
      <4>6. QED
        BY <4>4, <4>5
    <3>12. CreatedIsLinked'
      BY <3>11, CreatedIsLinkedSays
    <3>13. QED
      BY <3>10, <3>12, <2>7, <2>8 DEF LinkInv
  <2>11. QED
    BY <1>6, <2>9, <2>10
<1>7. ASSUME NEW c \in Calls, Works(c)
      PROVE  LinkInv' /\ CreatedIsLinked'
  <2>1. PICK k \in JobState :
          /\ link' = [link EXCEPT ![c] = k] /\ (k = link[c] \/ k.pc = "ready")
          /\ UNCHANGED <<user, call, overlap>>
    BY <1>7, WorkStep
  <2>2. \A d \in Calls : Linked(d)' => Linked(d)
    BY <2>1, <1>0 DEF Linked, Removed
  <2>3. LinkInv'
    BY <2>1, <2>2, <1>0
    DEF LinkInv, OneCreation, LiveUnlessRemoved, UpdatesKeepLink, Removed, InFlight
  <2>4. CreatedIsLinked'
    BY <2>1, <2>2, <1>2, CreatedIsLinkedSays
  <2>5. QED
    BY <2>3, <2>4
<1>8. ASSUME NEW c \in Calls, Links(c)
      PROVE  LinkInv' /\ CreatedIsLinked'
  <2>1. PICK k \in JobState :
           /\ call[c].pc = "committed" /\ call[c].user \in Users
           /\ link[c].pc \in {"ready", "called"} /\ link' = [link EXCEPT ![c] = k]
           /\ UNCHANGED <<call, customer, gateway, job, overlap>>
           /\ \/ UNCHANGED user /\ (k.pc = "done" => ~ user[call[c].user].live)
              \/ /\ ~ Locked(Updates, call[c].user) /\ ~ RowLocked(call[c].user)
                 /\ user' = [user EXCEPT ![call[c].user] =
                               [@ EXCEPT !.linked = call[c].op \in Creates]]
                 /\ k.pc = "done"
    BY <1>8, LinkStep
  <2>2. \A v \in Users : user'[v].email = user[v].email /\ user'[v].live = user[v].live
    BY <2>1, <1>0 DEF UserRow
  <2>3. link'[c] = k /\ \A d \in Calls \ {c} : link'[d] = link[d]
    BY <2>1, <1>0
  <2>4. \A v \in Users : Removed(v)' <=> Removed(v)
    BY <2>1 DEF Removed
  <2>5. \A d \in Calls \ {c} : Linked(d)' => Linked(d)
    BY <2>1, <2>3 DEF Linked, Removed
  <2>6. OneCreation'
    BY <2>1, <1>0 DEF LinkInv, OneCreation
  <2>7. LiveUnlessRemoved'
    BY <2>1, <2>2, <2>4, <1>0, <1>3 DEF LinkInv, LiveUnlessRemoved, Removed
  <2>8. call[c].op \in Creates \cup Removes /\ user[call[c].user].email # None
    BY <2>1, <1>0 DEF Inv, CallInv, LinkInv, LiveUnlessRemoved
  <2>9. CASE UNCHANGED user /\ (k.pc = "done" => ~ user[call[c].user].live)
    <3>1. ~ Linked(c)'
      <4>1. SUFFICES ASSUME k.pc = "done"
                     PROVE  ~ Linked(c)'
        BY <2>3 DEF Linked
      <4>2. Removed(call[c].user)
        BY <4>1, <2>1, <2>8, <2>9, <1>0 DEF LinkInv, LiveUnlessRemoved
      <4>3. QED
        BY <4>2, <2>1 DEF Linked, Removed
    <3>2. \A d \in Calls : Linked(d)' => Linked(d)
      BY <3>1, <2>5
    <3>3. UpdatesKeepLink'
      BY <3>2, <2>1, <1>0 DEF LinkInv, UpdatesKeepLink, InFlight
    <3>4. CreatedIsLinked'
      BY <3>2, <2>1, <2>9, <1>2, CreatedIsLinkedSays
    <3>5. QED
      BY <3>3, <3>4, <2>6, <2>7 DEF LinkInv
  <2>10. CASE /\ ~ Locked(Updates, call[c].user)
              /\ user' = [user EXCEPT ![call[c].user] =
                            [@ EXCEPT !.linked = call[c].op \in Creates]]
    <3>1. user'[call[c].user].linked = (call[c].op \in Creates)
          /\ \A v \in Users \ {call[c].user} : user'[v] = user[v]
      BY <2>1, <2>10, <1>0 DEF UserRow
    <3>2. call[c].op \in Removes => Removed(call[c].user)'
      BY <2>1 DEF Removed
    <3>3. \A d \in Calls : call[d].op \in Updates /\ InFlight(d) => call[d].user # call[c].user
      BY <2>10 DEF Locked
    <3>4. UpdatesKeepLink'
      BY <3>3, <2>1, <2>5, <1>0 DEF LinkInv, UpdatesKeepLink, InFlight
    <3>5. \A d \in Calls : Linked(d)' => user'[call'[d].user].linked
      <4>1. SUFFICES ASSUME NEW d \in Calls, Linked(d)'
                     PROVE  user'[call[d].user].linked
        BY <2>1
      <4>2. CASE call[d].user = call[c].user
        <5>1. call[c].op \notin Removes
          BY <4>1, <4>2, <3>2, <2>1 DEF Linked
        <5>2. QED
          BY <5>1, <4>2, <2>8, <3>1
      <4>3. CASE call[d].user # call[c].user
        <5>1. d # c /\ Linked(d) /\ user[call[d].user].linked
          BY <4>1, <4>3, <2>5, <1>2
        <5>2. call[d].user \in Users
          BY <5>1 DEF Linked, Inv, CallInv
        <5>3. QED
          BY <5>1, <5>2, <4>3, <3>1
      <4>4. QED
        BY <4>2, <4>3
    <3>6. CreatedIsLinked'
      BY <3>5, CreatedIsLinkedSays
    <3>7. QED
      BY <3>4, <3>6, <2>6, <2>7 DEF LinkInv
  <2>11. QED
    BY <2>1, <2>9, <2>10
<1>9. CASE UNCHANGED vars
  BY <1>1, <1>9 DEF vars
<1>10. QED
  BY <1>4, <1>5, <1>6, <1>7, <1>8, <1>9, Steps

-----------------------------------------------------------------------------
\* The invariant, from which the theorems below follow.
THEOREM InvariantHolds == Spec => []Inv
<1>1. Init => Inv
  BY TypeInit, CallInit, EmailInit, MirrorInit, LinkInit DEF Inv
<1>2. Inv /\ [Next]_vars => Inv'
  BY TypeStep, CallStep, EmailStep, MirrorStep, LinkInvStep DEF Inv
<1>3. QED
  BY <1>1, <1>2, PTL DEF Spec

\* The variables have their types: UsersService and the customer jobs write rows of the tables
\* and nothing else.
THEOREM TypeCorrect == Spec => []TypeOK
<1>1. Inv => TypeOK
  BY DEF Inv
<1>2. QED
  BY <1>1, InvariantHolds, PTL

\* No two accounts have one email: the index is enough, however many creations and updates
\* pass existsBy side by side (users.service.ts, IDX_user_email).
THEOREM UniqueEmailsHolds == Spec => []UniqueEmails
<1>1. Inv => UniqueEmails
  BY DEF Inv
<1>2. QED
  BY <1>1, InvariantHolds, PTL

\* The gateway makes one customer for an account, however often and in whatever order its
\* jobs are attempted (stripe.adapter.ts, the key of createCustomer).
THEOREM OneGatewayCustomerHolds == Spec => []OneGatewayCustomer
<1>1. Inv => OneGatewayCustomer
  BY DEF Inv, MirrorInv, OneGatewayCustomer
<1>2. QED
  BY <1>1, InvariantHolds, PTL

\* The link of an account to its customer survives every save of a profile that was read
\* before it (update-user-job.strategy.ts takes the lock of updates).
THEOREM CreatedIsLinkedHolds == Spec => []CreatedIsLinked
<1>1. Inv => CreatedIsLinked
  BY DEF Inv
<1>2. QED
  BY <1>1, InvariantHolds, PTL

-----------------------------------------------------------------------------
(* SerialJobsMirror: the invariant it follows from *)

\* A creation that is under way has its account for itself, and nothing is known of the account
\* before it commits.
CreateAlone ==
  /\ \A c \in Calls :
       call[c].op \in Creates /\ InFlight(c) =>
         /\ user[call[c].user].email = None
         /\ \A d \in Calls \ {c} : call[d].user # call[c].user
  /\ \A u \in Users :
       user[u].email = None =>
         gateway[u].made = 0 /\ ~ gateway[u].live /\ ~ customer[u].live

\* One transaction at a time has written an account's row, and this is what it wrote.
RowExclusive ==
  \A c, d \in Calls :
    c # d /\ call[c].pc = "written" /\ call[d].pc = "written" => call[c].user # call[d].user

WrittenRow ==
  \A c \in Calls :
    call[c].pc = "written" =>
      /\ call[c].op \in Creates \cup Updates => call[c].row.email = call[c].email
      /\ call[c].op \in Creates => call[c].row.live
      /\ call[c].op \in Updates /\ user[call[c].user].live => call[c].row.live
      /\ call[c].op \in Removes => ~ call[c].row.live

OneActive ==
  \A c, d \in Calls :
    c # d /\ Unsettled(c) /\ Unsettled(d) /\ call[c].user = call[d].user =>
      call[c].user \in overlap

\* The hypothesis of SerialJobsMirror, as far as it has to hold at every step.
Serial(u) ==
  /\ u \notin overlap
  /\ \A c \in Calls : call[c].user = u => job[c].pc # "failed"

Settled(u) == \A c \in Calls : call[c].user = u => ~ Unsettled(c)

Mirrored(u) ==
  /\ customer[u].live = user[u].live /\ gateway[u].live = user[u].live
  /\ user[u].live => customer[u].email = user[u].email /\ gateway[u].email = user[u].email

\* How far the customer is, by what the one job under way has done.
Progress(c) ==
  LET u == call[c].user
      at == job[c].pc
  IN /\ call[c].op \in Creates =>
          /\ user[u].live /\ user[u].email = call[c].email
          /\ gateway[u].made = 1 => gateway[u].live /\ gateway[u].email = call[c].email
          /\ at = "saved" => customer[u].live /\ customer[u].email = call[c].email
     /\ call[c].op \in Updates =>
          /\ user[u].email = call[c].email
          /\ customer[u].live /\ gateway[u].live => user[u].live
          /\ at # "ready" => /\ at = "called" /\ user[u].live
                             /\ gateway[u].live /\ gateway[u].email = call[c].email
     /\ call[c].op \in Removes =>
          /\ ~ user[u].live
          /\ at # "ready" => ~ gateway[u].live
          /\ at = "saved" => ~ customer[u].live

MirrorFollows ==
  /\ \A u \in Users : Serial(u) /\ Settled(u) => Mirrored(u)
  /\ \A c \in Calls : Unsettled(c) /\ Serial(call[c].user) => Progress(c)

SerialInv == CreateAlone /\ RowExclusive /\ WrittenRow /\ OneActive /\ MirrorFollows

\* A write leaves the row of its account to one transaction, and has what the call is for.
LEMMA WrittenIs ==
  ASSUME Inv, CreateAlone, NEW c \in Calls, Writes(c)
  PROVE  \E row \in UserRow :
           /\ call[c].pc = "checked" /\ call[c].user \in Users
           /\ call' = [call EXCEPT ![c] = [@ EXCEPT !.pc = "written", !.row = row]]
           /\ UNCHANGED <<user, customer, gateway, job, link, overlap>>
           /\ ~ RowLocked(call[c].user)
           /\ call[c].op \in Creates \cup Updates => row.email = call[c].email
           /\ call[c].op \in Creates => row.live
           /\ call[c].op \in Updates /\ user[call[c].user].live => row.live
           /\ call[c].op \in Removes => ~ row.live
<1>0. /\ user \in [Users -> UserRow] /\ call[c].row \in UserRow
      /\ call[c].pc = "checked" => call[c].user \in Users /\ call[c].email \in Emails
  BY CallFields DEF Inv, TypeOK, CallInv
<1>1. CASE CreateSave(c)
  <2> DEFINE row == [email |-> call[c].email, live |-> TRUE, linked |-> FALSE]
  <2>1. call[c].op \in Creates /\ call[c].pc = "checked" /\ Written(c, row)
    BY <1>1 DEF CreateSave
  <2>2. row \in UserRow /\ row.email = call[c].email /\ row.live
    BY <2>1, <1>0 DEF UserRow
  <2>3. ~ RowLocked(call[c].user)
    BY <2>1 DEF CreateAlone, RowLocked, InFlight
  <2>4. call[c].op \notin Updates \cup Removes
    BY <2>1, OpsAre
  <2> HIDE DEF row
  <2>5. QED
    BY <2>1, <2>2, <2>3, <2>4, <1>0 DEF Written
<1>2. CASE UpdateSave(c)
  <2>1. call[c].op \in Updates /\ call[c].pc = "checked" /\ ~ RowLocked(call[c].user)
    BY <1>2 DEF UpdateSave
  <2>2. PICK live \in {user[call[c].user].live, call[c].row.live},
             linked \in {user[call[c].user].linked, call[c].row.linked} :
          Written(c, [email |-> call[c].email, live |-> live, linked |-> linked])
    BY <1>2 DEF UpdateSave
  <2>3. call[c].row.live = TRUE
    BY <2>1, <1>0 DEF Inv, LinkInv, LiveUnlessRemoved, UserRow
  <2>4. user[call[c].user] \in UserRow
    BY <2>1, <1>0
  <2>5. live \in BOOLEAN /\ linked \in BOOLEAN
    BY <2>4, <1>0 DEF UserRow
  <2> DEFINE row == [email |-> call[c].email, live |-> live, linked |-> linked]
  <2>6. row \in UserRow /\ row.email = call[c].email /\ row.live = live
    BY <2>1, <2>5, <1>0 DEF UserRow
  <2>7. Written(c, row)
    BY <2>2
  <2>8. user[call[c].user].live => row.live
    BY <2>3, <2>6
  <2>9. call[c].op \notin Creates \cup Removes
    BY <2>1, OpsAre
  <2> HIDE DEF row
  <2>10. QED
    BY <2>1, <2>6, <2>7, <2>8, <2>9, <1>0 DEF Written
<1>3. CASE SoftDelete(c)
  <2> DEFINE row == [user[call[c].user] EXCEPT !.live = FALSE]
  <2>1. /\ call[c].op \in Removes /\ call[c].pc = "checked"
        /\ ~ RowLocked(call[c].user) /\ Written(c, row)
    BY <1>3 DEF SoftDelete, Removes
  <2>2. user[call[c].user] \in UserRow
    BY <2>1, <1>0
  <2>3. row \in UserRow /\ ~ row.live
    BY <2>2 DEF UserRow
  <2>4. call[c].op \notin Creates \cup Updates
    BY <2>1, OpsAre
  <2> HIDE DEF row
  <2>5. QED
    BY <2>1, <2>3, <2>4, <1>0 DEF Written
<1>4. QED
  BY <1>1, <1>2, <1>3 DEF Writes

\* A step of a job is that of an unsettled job, and touches no other account's customer.
LEMMA WorkFrame ==
  ASSUME Inv, NEW c \in Calls, Works(c)
  PROVE  /\ Unsettled(c)
         /\ call[c].pc = "committed" /\ call[c].user \in Users /\ call[c].email \in Emails
         /\ call[c].op \in AllOps /\ user[call[c].user].email # None
         /\ UNCHANGED <<user, call, overlap>>
         /\ \A d \in Calls \ {c} : job'[d] = job[d]
         /\ \A u \in Users \ {call[c].user} : gateway'[u] = gateway[u] /\ customer'[u] = customer[u]
<1>1. Unsettled(c)
  BY DEF Works, CreateCustomerAtGateway, InsertCustomer, UpdateCustomerAtGateway,
         UpdateCustomerRow, DeleteCustomerAtGateway, SoftDeleteCustomer, AddLink, JobFails,
         JobAt, Unsettled
<1>2. call[c].pc = "committed"
  BY <1>1 DEF Unsettled, Inv, CallInv
<1>3. /\ call[c].user \in Users /\ call[c].email \in Emails /\ call[c].op \in AllOps
      /\ user[call[c].user].email # None
  BY <1>2, CallFields DEF Inv, CallInv, LinkInv, LiveUnlessRemoved
<1>4. UNCHANGED <<user, call, overlap>> /\ \A d \in Calls \ {c} : job'[d] = job[d]
  BY WorkStep DEF Inv, TypeOK
<1>5. customer \in [Users -> CustomerRow] /\ gateway \in [Users -> GatewayState]
  BY DEF Inv, TypeOK
<1>6. \A u \in Users \ {call[c].user} : gateway'[u] = gateway[u] /\ customer'[u] = customer[u]
  <2>1. CASE CreateCustomerAtGateway(c)
    BY <2>1, <1>5 DEF CreateCustomerAtGateway
  <2>2. CASE InsertCustomer(c) \/ UpdateCustomerRow(c) \/ SoftDeleteCustomer(c)
    BY <2>2, <1>5 DEF InsertCustomer, UpdateCustomerRow, SoftDeleteCustomer
  <2>3. CASE UpdateCustomerAtGateway(c) \/ DeleteCustomerAtGateway(c)
    BY <2>3, <1>5 DEF UpdateCustomerAtGateway, DeleteCustomerAtGateway
  <2>4. CASE AddLink(c) \/ JobFails(c)
    BY <2>4 DEF AddLink, JobFails
  <2>5. QED
    BY <2>1, <2>2, <2>3, <2>4 DEF Works
<1>7. QED
  BY <1>1, <1>2, <1>3, <1>4, <1>6

\* The write of a customer's id leaves the rest of the account alone.
LEMMA LinkKeepsEmails ==
  ASSUME Inv, NEW c \in Calls, Links(c)
  PROVE  UNCHANGED <<call, customer, gateway, job, overlap>> /\ EmailsStay
<1>0. user \in [Users -> UserRow]
  BY DEF Inv, TypeOK
<1>1. /\ UNCHANGED <<call, customer, gateway, job, overlap>>
      /\ \/ UNCHANGED user
         \/ user' = [user EXCEPT ![call[c].user] = [@ EXCEPT !.linked = call[c].op \in Creates]]
  BY LinkStep
<1>2. QED
  BY <1>0, <1>1 DEF EmailsStay, UserRow

\* The one job under way moves the customer on, and leaves the mirror right when it is done.
LEMMA ProgressStep ==
  ASSUME Inv, NEW c \in Calls, Works(c), Progress(c), job'[c].pc # "failed"
  PROVE  /\ job'[c].pc \in {"ready", "called", "saved"} => Progress(c)'
         /\ job'[c].pc = "done" => Mirrored(call[c].user)'
         /\ job'[c].pc \in {"ready", "called", "saved", "done"}
<1> DEFINE u == call[c].user
<1>0. /\ job \in [Calls -> JobState] /\ job[c] \in JobState
      /\ gateway \in [Users -> GatewayState] /\ customer \in [Users -> CustomerRow]
      /\ MirrorInv
  BY DEF Inv, TypeOK
<1>1. /\ u \in Users /\ UNCHANGED <<user, call>>
  BY WorkFrame
<1>2. gateway[u] \in GatewayState /\ customer[u] \in CustomerRow
  BY <1>0, <1>1
<1>3. \A pc \in {"called", "saved", "done"} : JobStep(c, pc) => job'[c].pc = pc
  BY <1>0 DEF JobStep, JobState
<1>4. CASE CreateCustomerAtGateway(c)
  <2>1. call[c].op \in Creates /\ job[c].pc = "ready" /\ job'[c].pc = "called"
    BY <1>3, <1>4 DEF CreateCustomerAtGateway, JobAt
  <2>2. call[c].op \notin Updates /\ call[c].op \notin Removes
    BY <2>1, OpsAre
  <2>3. gateway'[u].live /\ gateway'[u].email = call[c].email
    <3>1. CASE gateway[u].made > 0
      <4>1. gateway[u].made = 1 /\ UNCHANGED gateway
        BY <3>1, <1>0, <1>1, <1>2, <1>4 DEF CreateCustomerAtGateway, MirrorInv, GatewayState
      <4>2. QED
        BY <4>1, <2>1 DEF Progress
    <3>2. CASE ~ (gateway[u].made > 0)
      <4>1. gateway' = [gateway EXCEPT ![u] = [made |-> 1, email |-> call[c].email, live |-> TRUE]]
        BY <3>2, <1>4 DEF CreateCustomerAtGateway
      <4>2. gateway'[u] = [made |-> 1, email |-> call[c].email, live |-> TRUE]
        BY <4>1, <1>0, <1>1
      <4>3. QED
        BY <4>2
    <3>3. QED
      BY <3>1, <3>2
  <2>4. QED
    BY <2>1, <2>2, <2>3, <1>1 DEF Progress
<1>5. CASE InsertCustomer(c)
  <2>1. /\ call[c].op \in Creates /\ job[c].pc = "called" /\ job'[c].pc = "saved"
        /\ customer' = [customer EXCEPT ![u] = [email |-> call[c].email, live |-> TRUE]]
        /\ UNCHANGED gateway
    BY <1>3, <1>5 DEF InsertCustomer, JobAt
  <2>2. call[c].op \notin Updates /\ call[c].op \notin Removes
    BY <2>1, OpsAre
  <2>3. customer'[u].live /\ customer'[u].email = call[c].email
    BY <2>1, <1>0, <1>1
  <2>4. QED
    BY <2>1, <2>2, <2>3, <1>1 DEF Progress
<1>6. CASE UpdateCustomerAtGateway(c)
  <2>1. /\ call[c].op \in Updates /\ job[c].pc = "ready" /\ job'[c].pc = "called"
        /\ customer[u].live /\ gateway[u].live
        /\ gateway' = [gateway EXCEPT ![u] = [@ EXCEPT !.email = call[c].email]]
        /\ UNCHANGED customer
    BY <1>3, <1>6 DEF UpdateCustomerAtGateway, JobAt
  <2>2. call[c].op \notin Creates /\ call[c].op \notin Removes
    BY <2>1, OpsAre
  <2>3. gateway'[u].live /\ gateway'[u].email = call[c].email
    BY <2>1, <1>0, <1>1, <1>2 DEF GatewayState
  <2>4. QED
    BY <2>1, <2>2, <2>3, <1>1 DEF Progress
<1>7. CASE UpdateCustomerRow(c)
  <2>1. /\ call[c].op \in Updates /\ job[c].pc = "called" /\ job'[c].pc = "done"
        /\ customer' = [customer EXCEPT ![u] = [email |-> call[c].email, live |-> TRUE]]
        /\ UNCHANGED gateway
    BY <1>3, <1>7 DEF UpdateCustomerRow, JobAt
  <2>2. customer'[u].live = TRUE /\ customer'[u].email = call[c].email
    BY <2>1, <1>0, <1>1
  <2>3. user[u].live /\ gateway[u].live /\ gateway[u].email = call[c].email
        /\ user[u].email = call[c].email
    BY <2>1 DEF Progress
  <2>4. user[u].live \in BOOLEAN /\ gateway[u].live \in BOOLEAN
    BY <1>1, <1>2 DEF Inv, TypeOK, UserRow, GatewayState
  <2>5. QED
    BY <2>1, <2>2, <2>3, <2>4, <1>1 DEF Mirrored
<1>8. CASE DeleteCustomerAtGateway(c)
  <2>1. /\ call[c].op \in Removes /\ job[c].pc = "ready" /\ job'[c].pc = "called"
        /\ gateway' = [gateway EXCEPT ![u] = [@ EXCEPT !.live = FALSE]]
        /\ UNCHANGED customer
    BY <1>3, <1>8 DEF DeleteCustomerAtGateway, JobAt
  <2>2. call[c].op \notin Creates /\ call[c].op \notin Updates
    BY <2>1, OpsAre
  <2>3. ~ gateway'[u].live
    BY <2>1, <1>0, <1>1, <1>2 DEF GatewayState
  <2>4. QED
    BY <2>1, <2>2, <2>3, <1>1 DEF Progress
<1>9. CASE SoftDeleteCustomer(c)
  <2>1. /\ call[c].op \in Removes /\ job[c].pc = "called" /\ job'[c].pc = "saved"
        /\ customer' = [customer EXCEPT ![u] = [@ EXCEPT !.live = FALSE]]
        /\ UNCHANGED gateway
    BY <1>3, <1>9 DEF SoftDeleteCustomer, JobAt
  <2>2. call[c].op \notin Creates /\ call[c].op \notin Updates
    BY <2>1, OpsAre
  <2>3. ~ customer'[u].live
    BY <2>1, <1>0, <1>1, <1>2 DEF CustomerRow
  <2>4. QED
    BY <2>1, <2>2, <2>3, <1>1 DEF Progress
<1>10. CASE AddLink(c)
  <2>1. /\ call[c].op \in Creates \/ call[c].op \in Removes
        /\ job[c].pc = "saved" /\ job'[c].pc = "done"
        /\ UNCHANGED <<customer, gateway>>
    BY <1>3, <1>10 DEF AddLink
  <2>2. /\ user[u].live \in BOOLEAN /\ gateway[u].live \in BOOLEAN /\ customer[u].live \in BOOLEAN
    BY <1>1, <1>2 DEF Inv, TypeOK, UserRow, GatewayState, CustomerRow
  <2>3. gateway[u].made = 1
    BY <2>1, <1>0 DEF MirrorInv
  <2>4. CASE call[c].op \in Creates
    BY <2>1, <2>2, <2>3, <2>4, <1>1 DEF Progress, Mirrored
  <2>5. CASE call[c].op \in Removes
    BY <2>1, <2>2, <2>5, <1>1 DEF Progress, Mirrored
  <2>6. QED
    BY <2>1, <2>4, <2>5
<1>11. CASE JobFails(c)
  <2>1. /\ job' = [job EXCEPT ![c] = FailedAttempt(job[c])]
        /\ UNCHANGED <<customer, gateway>>
    BY <1>11, <1>0 DEF JobFails
  <2>2. job'[c].pc = "ready"
    BY <2>1, <1>0, FailedAttemptIsJob
  <2>3. QED
    BY <2>1, <2>2, <1>1 DEF Progress
<1>12. QED
  BY <1>4, <1>5, <1>6, <1>7, <1>8, <1>9, <1>10, <1>11 DEF Works

LEMMA SerialInit == Init => SerialInv
<1>1. SUFFICES ASSUME Init
               PROVE  SerialInv
  OBVIOUS
<1>2. /\ \A c \in Calls : call[c].op = "none" /\ call[c].pc = "start" /\ job[c].pc = "none"
      /\ \A u \in Users : /\ ~ user[u].live /\ user[u].live = FALSE
                          /\ gateway[u].made = 0 /\ gateway[u].live = FALSE
                          /\ customer[u].live = FALSE
  BY <1>1 DEF Init, NoUser, NoJob
<1>3. CreateAlone /\ RowExclusive /\ WrittenRow /\ OneActive
  BY <1>2 DEF CreateAlone, RowExclusive, WrittenRow, OneActive, InFlight, Unsettled
<1>4. MirrorFollows
  BY <1>2 DEF MirrorFollows, Mirrored, Unsettled
<1>5. QED
  BY <1>3, <1>4 DEF SerialInv

LEMMA CreateAloneStep ==
  ASSUME Inv, SerialInv, [Next]_vars
  PROVE  CreateAlone'
<1>0. /\ CreateAlone /\ call \in [Calls -> CallState] /\ user \in [Users -> UserRow]
      /\ EmailInv
  BY DEF Inv, TypeOK, SerialInv
<1>1. CASE UNCHANGED vars
  BY <1>0, <1>1 DEF vars, CreateAlone, InFlight
<1>2. ASSUME NEW c \in Calls, Begins(c)
      PROVE  CreateAlone'
  <2>1. PICK op \in AllOps, u \in Users, e \in Emails :
          /\ call[c].pc = "start"
          /\ call' = [call EXCEPT ![c] = [op |-> op, pc |-> "checked", user |-> u, email |-> e,
                                          row |-> user[u]]]
          /\ UNCHANGED <<user, customer, gateway, job, link, overlap>>
          /\ op \in Creates => user[u].email = None /\ \A d \in Calls : call[d].user # u
          /\ op \notin Creates => user[u].live
    BY <1>2, BeginStep
  <2>2. /\ call'[c].op = op /\ call'[c].user = u
        /\ \A d \in Calls \ {c} : call'[d] = call[d]
    BY <2>1, <1>0
  <2>3. op \notin Creates => user[u].email # None
    BY <2>1, <1>0 DEF EmailInv
  <2>4. ASSUME NEW d \in Calls, call'[d].op \in Creates, InFlight(d)'
        PROVE  /\ user[call'[d].user].email = None
               /\ \A b \in Calls \ {d} : call'[b].user # call'[d].user
    <3>1. CASE d = c
      BY <2>1, <2>2, <2>4, <3>1
    <3>2. CASE d # c
      <4>1. /\ user[call[d].user].email = None /\ call'[d] = call[d]
            /\ \A b \in Calls \ {d} : call[b].user # call[d].user
        BY <2>2, <2>4, <3>2, <1>0 DEF CreateAlone, InFlight
      <4>2. u # call[d].user
        BY <4>1, <2>1, <2>3
      <4>3. QED
        BY <4>1, <4>2, <2>2
    <3>3. QED
      BY <3>1, <3>2
  <2>5. QED
    BY <2>1, <2>4, <1>0 DEF CreateAlone
<1>3. ASSUME NEW c \in Calls, Writes(c)
      PROVE  CreateAlone'
  <2>1. PICK row \in UserRow :
          /\ call[c].pc = "checked"
          /\ call' = [call EXCEPT ![c] = [@ EXCEPT !.pc = "written", !.row = row]]
          /\ UNCHANGED <<user, customer, gateway, job, link, overlap>>
    BY <1>3, WriteStep
  <2>2. call[c] \in CallState
    BY <1>0
  <2>3. \A d \in Calls : /\ call'[d].op = call[d].op /\ call'[d].user = call[d].user
                         /\ InFlight(d)' => InFlight(d)
    BY <2>1, <2>2, <1>0 DEF CallState, InFlight
  <2>4. QED
    BY <2>1, <2>3, <1>0 DEF CreateAlone
<1>4. ASSUME NEW c \in Calls, Commit(c) \/ CallFails(c)
      PROVE  CreateAlone'
  <2>1. PICK pc \in {"committed", "failed"} : call' = [call EXCEPT ![c] = [@ EXCEPT !.pc = pc]]
    BY <1>4, EndStep
  <2>2. call[c] \in CallState /\ call[c].user \in Users
    BY <1>0, <1>4, EndStep
  <2>3. \A d \in Calls : /\ call'[d].op = call[d].op /\ call'[d].user = call[d].user
                         /\ InFlight(d)' => d # c /\ InFlight(d)
    BY <2>1, <2>2, <1>0 DEF CallState, InFlight
  <2>4. UNCHANGED <<customer, gateway>>
    BY <1>4 DEF Commit, CallFails
  <2>5. CASE CallFails(c)
    BY <2>3, <2>4, <2>5, <1>0 DEF CallFails, CreateAlone
  <2>6. CASE Commit(c)
    <3>1. /\ call[c].pc = "written" /\ call[c].row.email # None
          /\ user' = [user EXCEPT ![call[c].user] = call[c].row]
      BY <2>6, <1>0 DEF Commit, EmailInv
    <3>2. /\ user'[call[c].user].email # None
          /\ \A v \in Users \ {call[c].user} : user'[v] = user[v]
      BY <3>1, <2>2, <1>0
    <3>3. ASSUME NEW d \in Calls, call'[d].op \in Creates, InFlight(d)'
          PROVE  /\ user'[call'[d].user].email = None
                 /\ \A b \in Calls \ {d} : call'[b].user # call'[d].user
      <4>1. d # c /\ InFlight(d) /\ call[d].op \in Creates
        BY <3>3, <2>3
      <4>2. /\ user[call[d].user].email = None
            /\ \A b \in Calls \ {d} : call[b].user # call[d].user
        BY <4>1, <1>0 DEF CreateAlone
      <4>3. call[d].user \in Users /\ call[d].user # call[c].user
        BY <4>1, <4>2 DEF Inv, CallInv, InFlight
      <4>4. QED
        BY <4>2, <4>3, <3>2, <2>3
    <3>4. \A u \in Users : user'[u].email = None => user[u].email = None
      BY <3>2
    <3>5. QED
      BY <3>3, <3>4, <2>4, <1>0 DEF CreateAlone
  <2>7. QED
    BY <1>4, <2>5, <2>6
<1>5. ASSUME NEW c \in Calls, Works(c)
      PROVE  CreateAlone'
  <2>1. /\ UNCHANGED <<user, call>>
        /\ user[call[c].user].email # None
        /\ \A u \in Users \ {call[c].user} : gateway'[u] = gateway[u] /\ customer'[u] = customer[u]
    BY <1>5, WorkFrame
  <2>2. QED
    BY <2>1, <1>0 DEF CreateAlone, InFlight
<1>6. ASSUME NEW c \in Calls, Links(c)
      PROVE  CreateAlone'
  <2>1. /\ UNCHANGED <<call, customer, gateway>>
        /\ EmailsStay
    BY <1>6, <1>0, LinkKeepsEmails
  <2>2. \A d \in Calls : InFlight(d) => call[d].user \in Users
    BY DEF Inv, CallInv, InFlight
  <2>3. QED
    BY <2>1, <2>2, <1>0 DEF CreateAlone, InFlight, EmailsStay
<1>7. QED
  BY <1>1, <1>2, <1>3, <1>4, <1>5, <1>6, Steps

\* A commit starts a job: on a mirrored account its progress is as it should be, and on one
\* with another job under way there is an overlap.
LEMMA CommitFollows ==
  ASSUME Inv, SerialInv, NEW c \in Calls, Commit(c)
  PROVE  OneActive' /\ MirrorFollows'
<1> DEFINE u == call[c].user
<1>0. /\ CreateAlone /\ RowExclusive /\ WrittenRow /\ OneActive /\ MirrorFollows
      /\ call \in [Calls -> CallState] /\ user \in [Users -> UserRow]
      /\ job \in [Calls -> JobState] /\ overlap \subseteq Users
  BY DEF Inv, TypeOK, SerialInv
<1>1. /\ call[c].pc = "written" /\ u \in Users /\ call[c].op \in AllOps
      /\ call[c].email \in Emails
  BY CallFields DEF Commit, Inv, CallInv
<1>2. /\ call'[c].op = call[c].op /\ call'[c].user = u /\ call'[c].email = call[c].email
      /\ \A d \in Calls \ {c} : call'[d] = call[d]
  <2>1. call[c] \in CallState /\ call' = [call EXCEPT ![c] = [@ EXCEPT !.pc = "committed"]]
    BY <1>0 DEF Commit
  <2>2. QED
    BY <2>1, <1>0 DEF CallState
<1>3. /\ user'[u] = call[c].row /\ \A v \in Users \ {u} : user'[v] = user[v]
      /\ UNCHANGED <<customer, gateway>>
  BY <1>0, <1>1 DEF Commit
<1>4. job[c].pc = "none" /\ job'[c].pc = "ready" /\ \A d \in Calls \ {c} : job'[d] = job[d]
  BY <1>0, <1>1 DEF Commit, Inv, CallInv
<1>5. /\ overlap \subseteq overlap' /\ overlap' \subseteq overlap \cup {u}
      /\ (\E d \in Calls : call[d].user = u /\ Unsettled(d)) => u \in overlap'
  BY DEF Commit
<1>6. /\ ~ Unsettled(c) /\ Unsettled(c)'
      /\ \A d \in Calls \ {c} : Unsettled(d)' <=> Unsettled(d)
  BY <1>4 DEF Unsettled
<1>7. \A d \in Calls : Unsettled(d) => call[d].user \in Users
  BY DEF Unsettled, Inv, CallInv
<1>8. OneActive'
  <2>1. SUFFICES ASSUME NEW b \in Calls, NEW d \in Calls, b # d, Unsettled(b)', Unsettled(d)',
                        call'[b].user = call'[d].user
                 PROVE  call'[b].user \in overlap'
    BY DEF OneActive
  <2>2. CASE b # c /\ d # c
    BY <2>1, <2>2, <1>0, <1>2, <1>5, <1>6 DEF OneActive
  <2>3. CASE b = c \/ d = c
    BY <2>1, <2>3, <1>2, <1>5, <1>6
  <2>4. QED
    BY <2>2, <2>3
<1>9. ASSUME NEW v \in Users, Serial(v)'
      PROVE  Serial(v)
  <2>1. v \notin overlap
    BY <1>5, <1>9 DEF Serial
  <2>2. \A d \in Calls : call[d].user = v => job[d].pc # "failed"
    BY <1>2, <1>4, <1>9 DEF Serial
  <2>3. QED
    BY <2>1, <2>2 DEF Serial
<1>10. ASSUME NEW v \in Users, Serial(v)', Settled(v)'
       PROVE  Mirrored(v)'
  <2>1. v # u
    BY <1>2, <1>6, <1>10 DEF Settled
  <2>2. Settled(v)
    BY <1>2, <1>6, <1>10 DEF Settled
  <2>3. Mirrored(v)
    BY <2>2, <1>0, <1>9, <1>10 DEF MirrorFollows
  <2>4. QED
    BY <2>1, <2>3, <1>3 DEF Mirrored
<1>11. ASSUME NEW d \in Calls, Unsettled(d)', Serial(call[d].user)'
       PROVE  Progress(d)'
  <2>1. CASE d # c
    <3>1. /\ Unsettled(d) /\ call[d].user \in Users /\ Serial(call[d].user)
          /\ call'[d] = call[d] /\ job'[d] = job[d]
      BY <2>1, <1>2, <1>4, <1>6, <1>7, <1>9, <1>11
    <3>2. Progress(d)
      BY <3>1, <1>0 DEF MirrorFollows
    <3>3. call[d].user # u
      BY <3>1, <1>5, <1>11 DEF Serial
    <3>4. QED
      BY <3>1, <3>2, <3>3, <1>3 DEF Progress
  <2>2. CASE d = c
    <3>1. Serial(u) /\ u \notin overlap'
      BY <2>2, <1>1, <1>2, <1>9, <1>11 DEF Serial
    <3>2. Settled(u)
      BY <3>1, <1>5 DEF Settled
    <3>3. Mirrored(u)
      BY <3>1, <3>2, <1>0, <1>1 DEF MirrorFollows
    <3>4. CASE call[c].op \in Creates
      <4>1. call[c].op \notin Updates /\ call[c].op \notin Removes
        BY <3>4, OpsAre
      <4>2. gateway[u].made = 0
        BY <3>4, <1>0, <1>1 DEF CreateAlone, InFlight
      <4>3. call[c].row.live /\ call[c].row.email = call[c].email
        BY <3>4, <1>0, <1>1 DEF WrittenRow
      <4>4. QED
        BY <2>2, <3>4, <4>1, <4>2, <4>3, <1>2, <1>3, <1>4 DEF Progress
    <3>5. CASE call[c].op \in Updates
      <4>1. call[c].op \notin Creates /\ call[c].op \notin Removes
        BY <3>5, OpsAre
      <4>2. /\ call[c].row.email = call[c].email
            /\ user[u].live => call[c].row.live
        BY <3>5, <1>0, <1>1 DEF WrittenRow
      <4>3. customer[u].live => call[c].row.live
        BY <3>3, <4>2 DEF Mirrored
      <4>4. QED
        BY <2>2, <3>5, <4>1, <4>2, <4>3, <1>2, <1>3, <1>4 DEF Progress
    <3>6. CASE call[c].op \in Removes
      <4>1. call[c].op \notin Creates /\ call[c].op \notin Updates
        BY <3>6, OpsAre
      <4>2. ~ call[c].row.live
        BY <3>6, <1>0, <1>1 DEF WrittenRow
      <4>3. QED
        BY <2>2, <3>6, <4>1, <4>2, <1>2, <1>3, <1>4 DEF Progress
    <3>7. QED
      BY <3>4, <3>5, <3>6, <1>1, OpsAre
  <2>3. QED
    BY <2>1, <2>2
<1>12. QED
  BY <1>8, <1>10, <1>11 DEF MirrorFollows

\* A step of a job is that of its account's only job, if the account's jobs are serial.
LEMMA WorkFollows ==
  ASSUME Inv, SerialInv, NEW c \in Calls, Works(c)
  PROVE  OneActive' /\ MirrorFollows'
<1> DEFINE u == call[c].user
<1>0. OneActive /\ MirrorFollows /\ user \in [Users -> UserRow]
  BY DEF SerialInv, Inv, TypeOK
<1>1. /\ Unsettled(c) /\ u \in Users /\ UNCHANGED <<user, call, overlap>>
      /\ \A d \in Calls \ {c} : job'[d] = job[d]
      /\ \A v \in Users \ {u} : gateway'[v] = gateway[v] /\ customer'[v] = customer[v]
  BY WorkFrame
<1>2. \A d \in Calls : Unsettled(d)' => Unsettled(d) /\ call[d].user \in Users
  BY <1>1 DEF Unsettled, Inv, CallInv
<1>3. OneActive'
  BY <1>0, <1>1, <1>2 DEF OneActive
<1>4. ASSUME NEW v \in Users, Serial(v)'
      PROVE  Serial(v)
  <2>1. job[c].pc # "failed"
    BY <1>1 DEF Unsettled
  <2>2. \A d \in Calls : call[d].user = v => job[d].pc # "failed"
    BY <2>1, <1>1, <1>4 DEF Serial
  <2>3. QED
    BY <2>2, <1>1, <1>4 DEF Serial
<1>5. ASSUME Serial(u)'
      PROVE  /\ Settled(u)' => Mirrored(u)'
             /\ Unsettled(c)' => Progress(c)'
  <2>1. Progress(c)
    BY <1>0, <1>1, <1>4, <1>5 DEF MirrorFollows
  <2>2. job'[c].pc # "failed"
    BY <1>1, <1>5 DEF Serial
  <2>3. QED
    BY <2>1, <2>2, <1>1, ProgressStep DEF Settled, Unsettled
<1>6. ASSUME NEW v \in Users, Serial(v)', Settled(v)'
      PROVE  Mirrored(v)'
  <2>1. CASE v = u
    <3>1. Serial(u)'
      BY <2>1, <1>1, <1>6 DEF Serial
    <3>2. Settled(u)'
      BY <2>1, <1>1, <1>6 DEF Settled
    <3>3. Mirrored(u)'
      BY <3>1, <3>2, <1>5
    <3>4. QED
      BY <2>1, <3>3, <1>1 DEF Mirrored
  <2>2. CASE v # u
    <3>1. Settled(v)
      BY <2>2, <1>1, <1>6 DEF Settled, Unsettled
    <3>2. Mirrored(v)
      BY <3>1, <1>0, <1>4, <1>6 DEF MirrorFollows
    <3>3. QED
      BY <2>2, <3>2, <1>1 DEF Mirrored
  <2>3. QED
    BY <2>1, <2>2
<1>7. ASSUME NEW d \in Calls, Unsettled(d)', Serial(call[d].user)'
      PROVE  Progress(d)'
  <2>1. /\ Unsettled(d) /\ call[d].user \in Users /\ Serial(call[d].user)
        /\ Serial(call[d].user)'
    BY <1>1, <1>2, <1>4, <1>7
  <2>2. CASE d = c
    BY <2>1, <2>2, <1>5, <1>7
  <2>3. CASE d # c
    <3>1. call[d].user # u
      BY <2>1, <2>3, <1>0, <1>1 DEF OneActive, Serial
    <3>2. Progress(d)
      BY <2>1, <1>0 DEF MirrorFollows
    <3>3. QED
      BY <2>1, <2>3, <3>1, <3>2, <1>1 DEF Progress
  <2>4. QED
    BY <2>2, <2>3
<1>8. QED
  BY <1>3, <1>6, <1>7 DEF MirrorFollows

LEMMA RowStep ==
  ASSUME Inv, SerialInv, [Next]_vars
  PROVE  RowExclusive' /\ WrittenRow'
<1>0. /\ CreateAlone /\ RowExclusive /\ WrittenRow
      /\ call \in [Calls -> CallState] /\ user \in [Users -> UserRow]
  BY DEF Inv, TypeOK, SerialInv
<1>1. ASSUME EmailsStay, \A d \in Calls : call'[d].pc = "written" => call'[d] = call[d]
      PROVE  RowExclusive' /\ WrittenRow'
  <2>1. \A d \in Calls : call[d].pc = "written" => call[d].user \in Users
    BY DEF Inv, CallInv
  <2>2. QED
    BY <1>0, <1>1, <2>1 DEF RowExclusive, WrittenRow, EmailsStay
<1>2. CASE UNCHANGED vars
  BY <1>1, <1>2 DEF vars, EmailsStay
<1>3. ASSUME NEW c \in Calls, Begins(c)
      PROVE  RowExclusive' /\ WrittenRow'
  <2>1. PICK op \in AllOps, u \in Users, e \in Emails :
          /\ call' = [call EXCEPT ![c] = [op |-> op, pc |-> "checked", user |-> u, email |-> e,
                                          row |-> user[u]]]
          /\ UNCHANGED <<user, customer, gateway, job, link, overlap>>
    BY <1>3, BeginStep
  <2>2. \A d \in Calls : call'[d].pc = "written" => call'[d] = call[d]
    BY <2>1, <1>0
  <2>3. QED
    BY <2>1, <2>2, <1>1 DEF EmailsStay
<1>4. ASSUME NEW c \in Calls, Writes(c)
      PROVE  RowExclusive' /\ WrittenRow'
  <2>1. PICK row \in UserRow :
          /\ call[c].pc = "checked" /\ call[c].user \in Users
          /\ call' = [call EXCEPT ![c] = [@ EXCEPT !.pc = "written", !.row = row]]
          /\ UNCHANGED <<user, customer, gateway, job, link, overlap>>
          /\ ~ RowLocked(call[c].user)
          /\ call[c].op \in Creates \cup Updates => row.email = call[c].email
          /\ call[c].op \in Creates => row.live
          /\ call[c].op \in Updates /\ user[call[c].user].live => row.live
          /\ call[c].op \in Removes => ~ row.live
    BY <1>0, <1>4, WrittenIs
  <2>2. call[c] \in CallState
    BY <1>0
  <2>3. /\ call'[c].op = call[c].op /\ call'[c].user = call[c].user
        /\ call'[c].email = call[c].email /\ call'[c].row = row
        /\ \A d \in Calls \ {c} : call'[d] = call[d]
    BY <2>1, <2>2, <1>0 DEF CallState
  <2>4. RowExclusive'
    BY <2>1, <2>3, <1>0 DEF RowExclusive, RowLocked
  <2>5. WrittenRow'
    BY <2>1, <2>3, <1>0 DEF WrittenRow
  <2>6. QED
    BY <2>4, <2>5
<1>5. ASSUME NEW c \in Calls, Commit(c) \/ CallFails(c)
      PROVE  RowExclusive' /\ WrittenRow'
  <2>1. PICK pc \in {"committed", "failed"} : call' = [call EXCEPT ![c] = [@ EXCEPT !.pc = pc]]
    BY <1>5, EndStep
  <2>2. call[c] \in CallState /\ call[c].user \in Users
    BY <1>0, <1>5, EndStep
  <2>3. call'[c].pc # "written" /\ \A d \in Calls \ {c} : call'[d] = call[d]
    BY <2>1, <2>2, <1>0 DEF CallState
  <2>4. CASE CallFails(c)
    <3>1. UNCHANGED user
      BY <2>4 DEF CallFails
    <3>2. QED
      BY <3>1, <2>3, <1>1 DEF EmailsStay
  <2>5. CASE Commit(c)
    <3>1. call[c].pc = "written" /\ \A v \in Users \ {call[c].user} : user'[v] = user[v]
      BY <2>5, <1>0 DEF Commit
    <3>2. \A d \in Calls \ {c} :
            call[d].pc = "written" => call[d].user \in Users \ {call[c].user}
      BY <3>1, <1>0 DEF RowExclusive, Inv, CallInv
    <3>3. RowExclusive'
      BY <2>3, <1>0 DEF RowExclusive
    <3>4. WrittenRow'
      BY <3>1, <3>2, <2>3, <1>0 DEF WrittenRow
    <3>5. QED
      BY <3>3, <3>4
  <2>6. QED
    BY <1>5, <2>4, <2>5
<1>6. ASSUME NEW c \in Calls, Works(c)
      PROVE  RowExclusive' /\ WrittenRow'
  BY <1>1, <1>6, WorkFrame DEF EmailsStay
<1>7. ASSUME NEW c \in Calls, Links(c)
      PROVE  RowExclusive' /\ WrittenRow'
  BY <1>1, <1>7, LinkKeepsEmails
<1>8. QED
  BY <1>2, <1>3, <1>4, <1>5, <1>6, <1>7, Steps

\* What one account's jobs and customer say is not changed by a step that leaves them, the
\* calls of those jobs and the account's email alone.
LEMMA MirrorFrame ==
  ASSUME Inv, SerialInv,
         EmailsStay, UNCHANGED <<customer, gateway, job, overlap>>,
         \A d \in Calls : job[d].pc # "none" => call'[d] = call[d],
         \A d \in Calls : call[d].pc # "start" => call'[d].user = call[d].user
  PROVE  OneActive' /\ MirrorFollows'
<1>0. OneActive /\ MirrorFollows
  BY DEF SerialInv
<1>1. \A d \in Calls : Unsettled(d)' <=> Unsettled(d)
  BY DEF Unsettled
<1>2. \A d \in Calls : Unsettled(d) => call'[d] = call[d] /\ call[d].user \in Users
  BY DEF Unsettled, Inv, CallInv
<1>3. OneActive'
  BY <1>0, <1>1, <1>2 DEF OneActive
<1>4. ASSUME NEW u \in Users, Serial(u)'
      PROVE  Serial(u)
  <2>1. ASSUME NEW d \in Calls, call[d].user = u, job[d].pc = "failed"
        PROVE  FALSE
    BY <1>4, <2>1 DEF Serial
  <2>2. QED
    BY <1>4, <2>1 DEF Serial
<1>5. ASSUME NEW u \in Users, Settled(u)'
      PROVE  Settled(u)
  BY <1>1, <1>2, <1>5 DEF Settled
<1>6. ASSUME NEW u \in Users, Mirrored(u)
      PROVE  Mirrored(u)'
  BY <1>6 DEF Mirrored, EmailsStay
<1>7. ASSUME NEW d \in Calls, Unsettled(d), Progress(d)
      PROVE  Progress(d)'
  BY <1>2, <1>7 DEF Progress, EmailsStay
<1>8. MirrorFollows'
  <2>1. \A u \in Users : Serial(u)' /\ Settled(u)' => Mirrored(u)'
    BY <1>0, <1>4, <1>5, <1>6 DEF MirrorFollows
  <2>2. ASSUME NEW d \in Calls, Unsettled(d)', Serial(call[d].user)'
        PROVE  Progress(d)'
    BY <1>0, <1>1, <1>2, <1>4, <1>7, <2>2 DEF MirrorFollows
  <2>3. QED
    BY <2>1, <2>2 DEF MirrorFollows
<1>9. QED
  BY <1>3, <1>8

LEMMA FollowStep ==
  ASSUME Inv, SerialInv, [Next]_vars
  PROVE  OneActive' /\ MirrorFollows'
<1>0. /\ CreateAlone /\ RowExclusive /\ WrittenRow /\ OneActive /\ MirrorFollows
      /\ call \in [Calls -> CallState] /\ user \in [Users -> UserRow]
      /\ job \in [Calls -> JobState]
  BY DEF Inv, TypeOK, SerialInv
<1>1. \A d \in Calls : job[d].pc # "none" =>
        call[d].pc = "committed" /\ call[d].user \in Users /\ call[d].op \in AllOps
  BY CallFields DEF Inv, CallInv
<1>2. ASSUME UNCHANGED <<user, customer, gateway, job, overlap>>,
             NEW c \in Calls, call[c].pc # "committed",
             \A d \in Calls \ {c} : call'[d] = call[d],
             call[c].pc = "start" \/ call'[c].user = call[c].user
      PROVE  OneActive' /\ MirrorFollows'
  <2>1. EmailsStay
    BY <1>2 DEF EmailsStay
  <2>2. \A d \in Calls : job[d].pc # "none" => call'[d] = call[d]
    BY <1>1, <1>2
  <2>3. \A d \in Calls : call[d].pc # "start" => call'[d].user = call[d].user
    BY <1>2
  <2>4. QED
    BY <1>2, <2>1, <2>2, <2>3, MirrorFrame
<1>3. CASE UNCHANGED vars
  BY <1>3, MirrorFrame DEF vars, EmailsStay
<1>4. ASSUME NEW c \in Calls, Begins(c)
      PROVE  OneActive' /\ MirrorFollows'
  <2>1. /\ call[c].pc = "start" /\ \A d \in Calls \ {c} : call'[d] = call[d]
        /\ UNCHANGED <<user, customer, gateway, job, overlap>>
    BY <1>0, <1>4, BeginStep
  <2>2. QED
    BY <2>1, <1>2
<1>5. ASSUME NEW c \in Calls, Writes(c)
      PROVE  OneActive' /\ MirrorFollows'
  <2>1. PICK row \in UserRow :
          /\ call[c].pc = "checked"
          /\ call' = [call EXCEPT ![c] = [@ EXCEPT !.pc = "written", !.row = row]]
          /\ UNCHANGED <<user, customer, gateway, job, link, overlap>>
    BY <1>5, WriteStep
  <2>2. call[c] \in CallState
    BY <1>0
  <2>3. call'[c].user = call[c].user /\ \A d \in Calls \ {c} : call'[d] = call[d]
    BY <2>1, <2>2, <1>0 DEF CallState
  <2>4. QED
    BY <2>1, <2>3, <1>2
<1>6. ASSUME NEW c \in Calls, CallFails(c)
      PROVE  OneActive' /\ MirrorFollows'
  <2>1. /\ call[c].pc # "committed" /\ UNCHANGED <<user, customer, gateway, job, overlap>>
        /\ call' = [call EXCEPT ![c] = [@ EXCEPT !.pc = "failed"]]
    BY <1>6 DEF CallFails, InFlight
  <2>2. call[c] \in CallState
    BY <1>0
  <2>3. call'[c].user = call[c].user /\ \A d \in Calls \ {c} : call'[d] = call[d]
    BY <2>1, <2>2, <1>0 DEF CallState
  <2>4. QED
    BY <2>1, <2>3, <1>2
<1>7. ASSUME NEW c \in Calls, Links(c)
      PROVE  OneActive' /\ MirrorFollows'
  BY <1>7, LinkKeepsEmails, MirrorFrame
<1>8. ASSUME NEW c \in Calls, Commit(c)
      PROVE  OneActive' /\ MirrorFollows'
  BY <1>8, CommitFollows
<1>9. ASSUME NEW c \in Calls, Works(c)
      PROVE  OneActive' /\ MirrorFollows'
  BY <1>9, WorkFollows
<1>10. QED
  BY <1>3, <1>4, <1>5, <1>6, <1>7, <1>8, <1>9, Steps

\* The mirror of accounts whose jobs do not overlap: if no two payment jobs of an account were
\* under way at one time and none was given up, the customer has settled into what the account
\* is (users.service.ts and payments.service.ts, which nothing else keeps together).
THEOREM SerialJobsMirrorHolds == Spec => []SerialJobsMirror
<1>1. Init => Inv /\ SerialInv
  BY TypeInit, CallInit, EmailInit, MirrorInit, LinkInit, SerialInit DEF Inv
<1>2. Inv /\ [Next]_vars => Inv'
  BY TypeStep, CallStep, EmailStep, MirrorStep, LinkInvStep DEF Inv
<1>3. Inv /\ SerialInv /\ [Next]_vars => SerialInv'
  BY CreateAloneStep, RowStep, FollowStep DEF SerialInv
<1>4. Inv /\ SerialInv => SerialJobsMirror
  <2>1. SUFFICES ASSUME Inv, SerialInv, NEW u \in Users \ overlap,
                        \A c \in Calls : call[c].user = u => job[c].pc \in {"none", "done"}
                 PROVE  Mirrored(u)
    BY DEF SerialJobsMirror, Mirrored
  <2>2. Serial(u) /\ Settled(u)
    BY <2>1 DEF Serial, Settled, Unsettled
  <2>3. QED
    BY <2>1, <2>2 DEF SerialInv, MirrorFollows
<1>5. QED
  BY <1>1, <1>2, <1>3, <1>4, PTL DEF Spec
=============================================================================
