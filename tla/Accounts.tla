------------------------------ MODULE Accounts ------------------------------
(***************************************************************************)
(* User accounts as modules/auth/service.py keeps them: registration with  *)
(* the promotion of the first administrator, login through an OAuth        *)
(* provider, changes of role, status and e-mail, and deletion.  Requests   *)
(* run against a READ COMMITTED PostgreSQL; one action is one statement    *)
(* (or one commit) of one request.  The OAuth handler is a coroutine: it   *)
(* runs its statements on the event loop itself, so no request can arrive  *)
(* until it is done.                                                       *)
(*                                                                         *)
(* Left out: names, passwords and their reset, which no check on accounts  *)
(* reads, and the role Manager, which acts like TeamMember here.           *)
(***************************************************************************)
EXTENDS Naturals, Sequences, FiniteSets

CONSTANTS
    Emails,         \* e-mail addresses
    MaxId,          \* bound: ids the sequence of users.user_id hands out
    Requests,       \* request slots
    Operations,     \* the operations users ask for
    NULL            \* nothing

ASSUME MaxIdAssumption == MaxId \in Nat
ASSUME NullAssumption == NULL \notin Nat /\ NULL \notin Emails
ASSUME OperationsAssumption ==
    Operations \subseteq {"register", "oauth", "role", "status", "email", "delete"}

Admin == "Administrator"

UserRoles == {Admin, "TeamMember"}

Ids == 1 .. MaxId

User == [email : Emails, role : UserRoles, active : BOOLEAN]

OrNull(S) == S \cup {NULL}

VARIABLES
    users,      \* table users: id -> row
    nextId,     \* the sequence behind user_id
    lock,       \* who holds the advisory lock (the first) and who waits for it
    req,        \* per slot, the local state of the handler it runs
    overlapped, \* history: two requests have been under way at once
    granted     \* history: an administrator has given somebody that role

vars == <<users, nextId, lock, req, overlapped, granted>>

live == DOMAIN users

Request ==
    [pc    : {"idle", "email", "lock", "admins", "insert", "target", "write", "delete"},
     op    : {"none", "register", "oauth", "role", "status", "email", "delete"},
     email : OrNull(Emails),        \* payload.email
     role  : OrNull(UserRoles),     \* role of the new account, or new_role
     active : BOOLEAN,              \* is_active
     id    : OrNull(Ids),           \* the account to change
     row   : OrNull(User)]          \* that account as it was loaded

Idle == [pc |-> "idle", op |-> "none", email |-> NULL, role |-> NULL, active |-> TRUE,
         id |-> NULL, row |-> NULL]

Init ==
    /\ users = [i \in {} |-> NULL]
    /\ nextId = 1
    /\ lock = <<>>
    /\ req = [r \in Requests |-> Idle]
    /\ overlapped = FALSE
    /\ granted = FALSE

Local(r, q) ==
    /\ req' = [req EXCEPT ![r] = q]
    /\ UNCHANGED <<users, nextId, lock, overlapped, granted>>

Finish(r) == Local(r, Idle)

LoopBusy == \E r \in Requests : req[r].op = "oauth"

-----------------------------------------------------------------------------
(* A request arrives; get_current_user has loaded the caller, who must be  *)
(* active, and require_admin has looked at the role.                       *)
Arrives(r, q) ==
    /\ q.op \in Operations
    /\ req[r].pc = "idle"
    /\ ~LoopBusy
    /\ req' = [req EXCEPT ![r] = q]
    /\ overlapped' = (overlapped \/ \E s \in Requests : req[s].pc # "idle")
    /\ UNCHANGED <<users, nextId, lock, granted>>

StartRegister(r, op, e) ==
    Arrives(r, [Idle EXCEPT !.pc = "email", !.op = op, !.email = e])

NotSelfUnchecked(caller, i) == TRUE  \* mutant: administrators may change themselves
NotSelf(caller, i) == caller # i

StartAdminChange(r, op, caller, i, role, active) ==
    /\ caller \in live
    /\ users[caller].active /\ users[caller].role = Admin
    /\ NotSelf(caller, i)
    /\ Arrives(r, [Idle EXCEPT !.pc = "target", !.op = op, !.id = i, !.role = role,
                               !.active = active])

StartChangeEmail(r, caller, e) ==
    /\ caller \in live
    /\ users[caller].active
    /\ Arrives(r, [Idle EXCEPT !.pc = "email", !.op = "email", !.id = caller, !.email = e,
                               !.row = users[caller]])

StartDelete(r, caller) ==
    /\ caller \in live
    /\ users[caller].active
    /\ Arrives(r, [Idle EXCEPT !.pc = "delete", !.op = "delete", !.id = caller])

-----------------------------------------------------------------------------
(* _get_user_by_email: register and change of e-mail refuse a known one    *)
(* (409); OAuth logs that user in, or refuses (403), and writes nothing.   *)
CheckEmail(r) ==
    LET q == req[r]
        known == \E i \in live : users[i].email = q.email
    IN  /\ q.pc = "email"
        /\ Local(r, IF known THEN Idle
                    ELSE [q EXCEPT !.pc = IF q.op = "email" THEN "write" ELSE "lock"])

(* _pick_role_for_new_user: pg_advisory_xact_lock, which serves in order.  *)
AskLock(r) ==
    /\ req[r].pc = "lock"
    /\ lock' = Append(lock, r)
    /\ req' = [req EXCEPT ![r].pc = "admins"]
    /\ UNCHANGED <<users, nextId, overlapped, granted>>

HoldsLockAlways(r) == TRUE  \* mutant: the lock is not taken
HoldsLockAfterLoop(r) == LoopBusy => req[r].op = "oauth"  \* mutant: threads wait until the event loop is free
HoldsLock(r) == Head(lock) = r

(* _admin_exists, once the lock is granted; inactive ones count. *)
PickRole(r) ==
    /\ req[r].pc = "admins"
    /\ HoldsLock(r)
    /\ Local(r, [req[r] EXCEPT !.pc = "insert",
                               !.role = IF \E i \in live : users[i].role = Admin
                                        THEN "TeamMember" ELSE Admin])

(* The end of the transaction, by commit or by rollback, gives up the lock,*)
(* which the next in the queue is granted.                                 *)
Unlocked == Tail(lock)

EmailFree(e, i) == \A j \in live \ {i} : users[j].email # e

(* The INSERT fails on the unique index when the address was taken         *)
(* meanwhile; the id is used up all the same.                              *)
Insert(r) ==
    LET q == req[r] IN
    /\ q.pc = "insert"
    /\ nextId <= MaxId
    /\ nextId' = nextId + 1
    /\ IF EmailFree(q.email, NULL)
       THEN users' = [i \in live \cup {nextId} |->
                         IF i = nextId THEN [email |-> q.email, role |-> q.role, active |-> TRUE]
                                       ELSE users[i]]
       ELSE UNCHANGED users
    /\ lock' = Unlocked
    /\ req' = [req EXCEPT ![r] = Idle]
    /\ UNCHANGED <<overlapped, granted>>

(* The ids have run out: the bound of the model stops the request here. *)
NoMoreIds(r) ==
    /\ req[r].pc = "insert"
    /\ nextId > MaxId
    /\ lock' = Unlocked
    /\ req' = [req EXCEPT ![r] = Idle]
    /\ UNCHANGED <<users, nextId, overlapped, granted>>

-----------------------------------------------------------------------------
ReadTarget(r) ==
    /\ req[r].pc = "target"
    /\ req[r].id \in live
    /\ Local(r, [req[r] EXCEPT !.pc = "write", !.row = users[req[r].id]])

NoTarget(r) ==
    /\ req[r].pc = "target"
    /\ req[r].id \notin live
    /\ Finish(r)

ChangedRole(q, row) == [row EXCEPT !.role = q.role]  \* mutant: one setter for all

(* The row with the one column the request sets. *)
Changed(q, row) ==
    CASE q.op = "role"   -> [row EXCEPT !.role = q.role]
      [] q.op = "status" -> [row EXCEPT !.active = q.active]
      [] q.op = "email"  -> [row EXCEPT !.email = q.email]

(* No UPDATE is sent for a value that was loaded; the UPDATE of a row that *)
(* is gone, or to an address that is taken, fails.                         *)
WriteCommits(q) ==
    /\ q.id \in live
    /\ Changed(q, q.row) # q.row
    /\ q.op = "email" => EmailFree(q.email, q.id)

Written(q) == Changed(q, users[q.id])

Write(r) ==
    LET q == req[r] IN
    /\ q.pc = "write"
    /\ WriteCommits(q)
    /\ users' = [users EXCEPT ![q.id] = Written(q)]
    /\ granted' = (granted \/ (q.op = "role" /\ q.role = Admin))
    /\ req' = [req EXCEPT ![r] = Idle]
    /\ UNCHANGED <<nextId, lock, overlapped>>

NoWrite(r) ==
    /\ req[r].pc = "write"
    /\ ~WriteCommits(req[r])
    /\ Finish(r)

(* delete_user; deleting a row that is gone changes nothing. *)
Delete(r) ==
    /\ req[r].pc = "delete"
    /\ users' = [i \in live \ {req[r].id} |-> users[i]]
    /\ req' = [req EXCEPT ![r] = Idle]
    /\ UNCHANGED <<nextId, lock, overlapped, granted>>

-----------------------------------------------------------------------------
Arrive(r) ==
    \/ \E op \in {"register", "oauth"}, e \in Emails : StartRegister(r, op, e)
    \/ \E caller \in Ids, i \in Ids, role \in UserRoles :
          StartAdminChange(r, "role", caller, i, role, TRUE)
    \/ \E caller \in Ids, i \in Ids, active \in BOOLEAN :
          StartAdminChange(r, "status", caller, i, NULL, active)
    \/ \E caller \in Ids : StartDelete(r, caller) \/ \E e \in Emails : StartChangeEmail(r, caller, e)

Proceed(r) ==
    \/ CheckEmail(r) \/ AskLock(r) \/ PickRole(r) \/ Insert(r) \/ NoMoreIds(r)
    \/ ReadTarget(r) \/ NoTarget(r) \/ Write(r) \/ NoWrite(r)
    \/ Delete(r)

Next == \E r \in Requests : Arrive(r) \/ Proceed(r)

Spec == Init /\ [][Next]_vars

(* A handler that has been started keeps running, in its thread or on the  *)
(* event loop, and the database grants the lock in the order of arrival.   *)
FairSpec == Spec /\ \A r \in Requests : WF_vars(Proceed(r))

-----------------------------------------------------------------------------
admins == {i \in live : users[i].role = Admin}

(* Type invariant. *)
TypeOK ==
    /\ live \subseteq Ids
    /\ users \in [live -> User]
    /\ nextId \in 1 .. MaxId + 1
    /\ lock \in Seq(Requests)
    /\ req \in [Requests -> Request]
    /\ overlapped \in BOOLEAN
    /\ granted \in BOOLEAN

(* Two concurrent first registrations are never "both promoted"            *)
(* (service.py:86-92): until an administrator gives the role to somebody,  *)
(* there is at most one.                                                   *)
OneAdministrator == granted \/ Cardinality(admins) <= 1

(* Served one by one, no request but the deletion of the own account takes *)
(* away the last administrator who can act: nobody changes the own role or *)
(* status (service.py:172, 196).                                           *)
Acting == {i \in admins : users[i].active}

AdminStays ==
    [][~overlapped /\ live \subseteq live' /\ Acting # {} => Acting' # {}]_vars

(* Every request gets an answer: nobody waits for the lock for ever. *)
RequestsFinish == \A r \in Requests : req[r].pc # "idle" ~> req[r].pc = "idle"
=============================================================================
