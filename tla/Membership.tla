----------------------------- MODULE Membership -----------------------------
(***************************************************************************)
(* The team of one project as modules/projects/services.py keeps it.  The  *)
(* requests that add, remove and change members run in threads of one      *)
(* server, each with its own session, against a READ COMMITTED database;   *)
(* one action is one statement (or one commit) of one request.  The table  *)
(* has no unique key on (project_id, user_id): rows are told apart by id.  *)
(*                                                                         *)
(* Every request writes in a single commit and answers after it, so one    *)
(* that dies half-way is one that stops here; that it does is not an       *)
(* action of its own.                                                      *)
(***************************************************************************)
EXTENDS Naturals, FiniteSets

CONSTANTS
    Users,              \* the accounts there may be
    Admins,             \* those with the Administrator role
    MaxId,              \* bound: ids the sequence of project_members.id hands out
    Requests,           \* request slots: handlers the server runs at the same time
    AccountsGo,         \* may users delete their accounts?
    NULL                \* no row

ASSUME MaxIdAssumption == MaxId \in Nat \ {0}
ASSUME AdminsAssumption == Admins \subseteq Users
ASSUME NullAssumption == NULL \notin Nat /\ NULL \notin Users
ASSUME AccountsGoAssumption == AccountsGo \in BOOLEAN

Owner == "project_owner"

ScrumMaster == "scrum_master"

(* "developer" stands for the roles no check asks for (qa, maintainer). *)
Roles == {Owner, ScrumMaster, "developer"}

RoleSets == (SUBSET Roles) \ {{}}

Ids == 1 .. MaxId

VARIABLES
    accounts,   \* the users whose account exists
    members,    \* table project_members: id -> [user, roles], rows of this project
    nextId,     \* the sequence behind project_members.id
    req         \* per slot, the local state of the handler it runs

vars == <<accounts, members, nextId, req>>

rows == DOMAIN members

RowsOf(u) == {i \in rows : members[i].user = u}

(* A row as a session holds it; id NULL is the membership made up for an   *)
(* administrator who has none.                                             *)
Copy == [id : Ids \cup {NULL}, roles : SUBSET Roles]

Request ==
    [pc     : {"idle", "gate", "lookup", "existing", "insert", "caller", "target",
               "count", "delete", "update"},
     op     : {"none", "add", "remove", "update"},
     caller : Users \cup {NULL},
     user   : Users \cup {NULL},        \* the member the request is about
     roles  : SUBSET Roles,             \* payload.roles
     mine   : Copy,                     \* membership of the caller, as it was read
     theirs : Copy]                     \* membership of user, as it was read

Unread == [id |-> NULL, roles |-> {}]

Idle == [pc |-> "idle", op |-> "none", caller |-> NULL, user |-> NULL, roles |-> {},
         mine |-> Unread, theirs |-> Unread]

(* create_project commits the project and its owner row together. *)
Init ==
    /\ accounts = Users
    /\ \E u \in Users : members = [i \in {1} |-> [user |-> u, roles |-> {Owner}]]
    /\ nextId = 2
    /\ req = [r \in Requests |-> Idle]

Local(r, q) ==
    /\ req' = [req EXCEPT ![r] = q]
    /\ UNCHANGED <<accounts, members, nextId>>

Finish(r) == Local(r, Idle)

-----------------------------------------------------------------------------
(* A request of an account that exists; the project is never deleted. *)
Start(r, op, c, u, R) ==
    /\ req[r].pc = "idle"
    /\ c \in accounts
    /\ Local(r, [Idle EXCEPT !.pc = "gate", !.op = op, !.caller = c, !.user = u, !.roles = R])

(* _get_membership_or_403: the rows first() may give for the caller.  The  *)
(* account itself was loaded on arrival and is not read again.             *)
Memberships(c) ==
    IF RowsOf(c) # {} THEN {[id |-> i, roles |-> members[i].roles] : i \in RowsOf(c)}
    ELSE IF c \in Admins THEN {[id |-> NULL, roles |-> {Owner}]}
    ELSE {}

MayManageAnyone(m) == TRUE  \* mutant: any member passes the gate
MayManage(m) == m.roles \cap {Owner, ScrumMaster} # {}

(* _require_project_roles.  add_member and remove_member drop the row it   *)
(* returns; remove_member reads the membership again.                      *)
PassGate(r) ==
    LET q == req[r] IN
    /\ q.pc = "gate"
    /\ \E m \in Memberships(q.caller) :
          /\ MayManage(m)
          /\ Local(r, CASE q.op = "add"    -> [q EXCEPT !.pc = "lookup"]
                        [] q.op = "remove" -> [q EXCEPT !.pc = "caller"]
                        [] q.op = "update" -> [q EXCEPT !.pc = "target", !.mine = m])

RefuseGate(r) ==
    /\ req[r].pc = "gate"
    /\ \/ Memberships(req[r].caller) = {}
       \/ \E m \in Memberships(req[r].caller) : ~MayManage(m)
    /\ Finish(r)

-----------------------------------------------------------------------------
(* add_member *)
LookUp(r) ==
    /\ req[r].pc = "lookup"
    /\ Local(r, IF req[r].user \in accounts THEN [req[r] EXCEPT !.pc = "existing"] ELSE Idle)

MayJoin(u) == RowsOf(u) = {}

CheckExisting(r) ==
    /\ req[r].pc = "existing"
    /\ Local(r, IF MayJoin(req[r].user) THEN [req[r] EXCEPT !.pc = "insert"] ELSE Idle)

(* The foreign key on user_id holds at the INSERT; a failed one has used   *)
(* up its id.                                                              *)
UserStands(u) == u \in accounts

Insert(r) ==
    LET q == req[r] IN
    /\ q.pc = "insert"
    /\ nextId <= MaxId
    /\ nextId' = nextId + 1
    /\ IF UserStands(q.user)
       THEN members' = [i \in rows \cup {nextId} |->
                           IF i = nextId THEN [user |-> q.user, roles |-> q.roles]
                                         ELSE members[i]]
       ELSE UNCHANGED members
    /\ req' = [req EXCEPT ![r] = Idle]
    /\ UNCHANGED accounts

(* The ids have run out: the bound of the model stops the request here. *)
NoMoreIds(r) ==
    /\ req[r].pc = "insert"
    /\ nextId > MaxId
    /\ Finish(r)

-----------------------------------------------------------------------------
(* remove_member reads the membership of the caller a second time. *)
ReadCaller(r) ==
    /\ req[r].pc = "caller"
    /\ \/ \E m \in Memberships(req[r].caller) :
             Local(r, [req[r] EXCEPT !.pc = "target", !.mine = m])
       \/ /\ Memberships(req[r].caller) = {}
          /\ Finish(r)

(* What the handlers decide from the two copies. *)
MayRemove(q) ==
    /\ Owner \notin q.theirs.roles
    /\ Owner \in q.mine.roles \/ ScrumMaster \notin q.theirs.roles

MayChange(q) == Owner \in q.theirs.roles \cup q.roles => Owner \in q.mine.roles

Demotes(q) == Owner \in q.theirs.roles /\ Owner \notin q.roles

AfterTarget(q) ==
    CASE q.op = "remove" /\ MayRemove(q) -> [q EXCEPT !.pc = "delete"]
      [] q.op = "update" /\ MayChange(q) -> [q EXCEPT !.pc = IF Demotes(q) THEN "count" ELSE "update"]
      [] OTHER -> Idle

(* The session still holds the row of the caller, so a caller who acts on  *)
(* the own membership gets that copy again.                                *)
ReadTarget(r) ==
    LET q == req[r] IN
    /\ q.pc = "target"
    /\ \E i \in RowsOf(q.user) :
          LET copy == IF i = q.mine.id THEN q.mine ELSE [id |-> i, roles |-> members[i].roles]
          IN  Local(r, AfterTarget([q EXCEPT !.theirs = copy]))

NoTarget(r) ==
    /\ req[r].pc = "target"
    /\ RowsOf(req[r].user) = {}
    /\ Finish(r)

(* DELETE by primary key; a row that is gone already only logs a warning. *)
Delete(r) ==
    /\ req[r].pc = "delete"
    /\ members' = [i \in rows \ {req[r].theirs.id} |-> members[i]]
    /\ req' = [req EXCEPT ![r] = Idle]
    /\ UNCHANGED <<accounts, nextId>>

-----------------------------------------------------------------------------
(* update_member_roles counts rows, not people. *)
OwnerRows == {i \in rows : Owner \in members[i].roles}

OwnersRemainNone(n) == n >= 1  \* mutant: off by one
OwnersRemain(n) == n > 1

CountOwners(r) ==
    /\ req[r].pc = "count"
    /\ Local(r, IF OwnersRemain(Cardinality(OwnerRows))
                THEN [req[r] EXCEPT !.pc = "update"] ELSE Idle)

(* The UPDATE of a row that is gone fails.  When the list of roles is the  *)
(* one that was loaded no UPDATE is sent; the same roles in another order  *)
(* are written.                                                            *)
NewRoles(q) == q.roles

Update(r) ==
    LET q == req[r] IN
    /\ q.pc = "update"
    /\ IF q.theirs.id \in rows
       THEN members' = [members EXCEPT ![q.theirs.id].roles = NewRoles(q)]
       ELSE UNCHANGED members
    /\ req' = [req EXCEPT ![r] = Idle]
    /\ UNCHANGED <<accounts, nextId>>

NoUpdate(r) ==
    /\ req[r].pc = "update"
    /\ req[r].roles = req[r].theirs.roles
    /\ Finish(r)

-----------------------------------------------------------------------------
(* A user deletes the own account: the foreign key takes the memberships   *)
(* along.                                                                  *)
KeptRows(u) == rows \ RowsOf(u)

DeleteAccount(u) ==
    /\ AccountsGo
    /\ u \in accounts
    /\ accounts' = accounts \ {u}
    /\ members' = [i \in KeptRows(u) |-> members[i]]
    /\ UNCHANGED <<nextId, req>>

Proceed(r) ==
    \/ PassGate(r) \/ RefuseGate(r)
    \/ LookUp(r) \/ CheckExisting(r) \/ Insert(r) \/ NoMoreIds(r)
    \/ ReadCaller(r) \/ ReadTarget(r) \/ NoTarget(r)
    \/ Delete(r)
    \/ CountOwners(r) \/ Update(r) \/ NoUpdate(r)

Arrive(r) ==
    \E c \in Users, u \in Users :
        \/ \E R \in RoleSets : Start(r, "add", c, u, R) \/ Start(r, "update", c, u, R)
        \/ Start(r, "remove", c, u, {})

Next ==
    \/ \E r \in Requests : Arrive(r) \/ Proceed(r)
    \/ \E u \in Users : DeleteAccount(u)

Spec == Init /\ [][Next]_vars

-----------------------------------------------------------------------------
(* The abstract team: everybody's roles, whichever row holds them, and who *)
(* waits for an answer.                                                    *)
RolesOf(u) == UNION {members[i].roles : i \in RowsOf(u)}

T == INSTANCE Team WITH
        team   <- [u \in {members[i].user : i \in rows} |-> RolesOf(u)],
        asking <- {req[r].caller : r \in Requests} \ {NULL}

(* Type invariant. *)
TypeOK ==
    /\ accounts \subseteq Users
    /\ rows \subseteq Ids
    /\ members \in [rows -> [user : Users, roles : RoleSets]]
    /\ nextId \in 1 .. MaxId + 1
    /\ req \in [Requests -> Request]

(* "a project must have at least one Owner" (services.py:553), unless an   *)
(* account has gone and has taken its memberships along.                   *)
HasOwner == accounts = Users => OwnerRows # {}

(* "409 if the user is already a member" (router.py:162): nobody has two   *)
(* memberships of the project.                                             *)
OneRowPerUser == \A i, j \in rows : members[i].user = members[j].user => i = j

(* A membership belongs to an account that exists, also when the account   *)
(* goes between the lookup by email and the INSERT (services.py:360-394).  *)
MembersHaveAccounts == \A i \in rows : members[i].user \in accounts

(* One request at a time, and until an account goes, every request is one  *)
(* atomic operation of Team, which are those of the user guide             *)
(* (docs/user-guide-pl.md:166-169), with two exceptions, where the service *)
(* does what the guide rules out: a Scrum Master adds a Project Owner      *)
(* (services.py:358-393), and the only Scrum Master drops the role         *)
(* (services.py:517-556).                                                  *)
ImplementsTeam ==
    T!Init /\ [][accounts' = Users => T!Next \/ T!Departs]_(T!vars)
=============================================================================
