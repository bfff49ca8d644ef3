------------------------------- MODULE Sprints -------------------------------
(***************************************************************************)
(* The sprints of one project as modules/projects/services.py keeps them.  *)
(* Requests that create, change and delete sprints run in threads of one   *)
(* server against a READ COMMITTED database; one action is one statement   *)
(* (or one commit) of one request.  sprint_id of a task is no foreign key. *)
(*                                                                         *)
(* Left out: the goal, which no check reads; the gate on the caller's role *)
(* and the bodies the schema or the columns refuse (a null where none may  *)
(* be), which write nothing.  A request writes in a single commit, so one  *)
(* that dies is one that stops here.                                       *)
(***************************************************************************)
EXTENDS Integers, FiniteSets

CONSTANTS
    MaxId,          \* bound: ids the sequence of sprints.sprint_id hands out
    Days,           \* dates, as day numbers
    MaxLength,      \* longest sprint in days (60 in the code)
    Lengths,        \* lengths of the names in request bodies
    Width,          \* length of the name column (255 in the code)
    Tasks,          \* tasks of the project
    Requests,       \* request slots
    MaxShared,      \* bound: requests overlap, and sprints are inserted after
                    \* that, while nextId is at most this
    MaxFields,      \* bound: fields a request changes
    NULL            \* the SQL null; in a body, a field that is left out

(* Length of " (1)"; the bound on ids keeps the counter to one digit. *)
SuffixWidth == 4

ASSUME MaxIdAssumption == MaxId \in 1 .. 9 /\ {MaxShared, MaxFields} \subseteq Nat
ASSUME DaysAssumption == Days \subseteq Nat /\ MaxLength \in Nat
ASSUME WidthAssumption == Width \in Nat /\ Width > SuffixWidth /\ Lengths \subseteq 1 .. Width

Ids == 1 .. MaxId

Statuses == {"planned", "active", "completed"}

(* A name is the first letters of one long word, with the suffix " (copy)" *)
(* unless copy is 0.                                                       *)
Name == [letters : 1 .. Width, copy : 0 .. MaxId]

ASSUME NullAssumption == NULL \notin Nat /\ NULL \notin Name /\ NULL \notin Statuses

Row == [name : Name, start : Days, end : Days, status : Statuses]

OrNull(S) == S \cup {NULL}

Body == [name : OrNull(Name), start : OrNull(Days), end : OrNull(Days), status : OrNull(Statuses)]

VARIABLES
    sprints,    \* table sprints: id -> row
    nextId,     \* the sequence behind sprint_id
    tasks,      \* column sprint_id of the project's tasks
    req,        \* per slot, the local state of the handler it runs
    overlapped  \* history: two requests have been under way at once

vars == <<sprints, nextId, tasks, req, overlapped>>

live == DOMAIN sprints

Request ==
    [pc   : {"idle", "active", "name", "insert", "update", "delete"},
     op   : {"none", "create", "update", "delete"},
     id   : OrNull(Ids),
     row  : OrNull(Row),    \* the sprint as it was loaded
     body : Body]           \* changes; the final name once it is chosen

Nothing == [name |-> NULL, start |-> NULL, end |-> NULL, status |-> NULL]

Idle == [pc |-> "idle", op |-> "none", id |-> NULL, row |-> NULL, body |-> Nothing]

Init ==
    /\ sprints = [i \in {} |-> NULL]
    /\ nextId = 1
    /\ tasks = [t \in Tasks |-> NULL]
    /\ req = [r \in Requests |-> Idle]
    /\ overlapped = FALSE

Local(r, q) ==
    /\ req' = [req EXCEPT ![r] = q]
    /\ UNCHANGED <<sprints, nextId, tasks, overlapped>>

Alone == \A r \in Requests : req[r].pc = "idle"

(* A request arrives, alone or not. *)
Begin(r, q) ==
    /\ req' = [req EXCEPT ![r] = q]
    /\ overlapped' = (overlapped \/ ~Alone)
    /\ UNCHANGED <<sprints, nextId, tasks>>

Finish(r) == Local(r, Idle)

-----------------------------------------------------------------------------
(* endDate after startDate, and not too far. *)
DatesFitLoosely(s, e) == e - s <= MaxLength  \* mutant: the order is not looked at
DatesFit(s, e) == s < e /\ e - s <= MaxLength

(* create_sprint checks the body before any query; a new sprint is planned. *)
StartCreate(r, n, s, e) ==
    /\ DatesFit(s, e)
    /\ Begin(r, [Idle EXCEPT !.pc = "name", !.op = "create",
                             !.body = [name |-> n, start |-> s, end |-> e, status |-> "planned"]])

(* update_sprint: which query comes next. *)
Renames(q) == q.body.name # NULL /\ q.body.name # q.row.name

AfterActive(q) == [q EXCEPT !.pc = IF Renames(q) THEN "name" ELSE "update"]

NeedsCheckOnce(q) == q.body.status = "active" /\ q.row.status = "planned"  \* mutant: reopening is not checked
NeedsCheck(q) == q.body.status = "active"

StartUpdate(r, i, b) ==
    LET q == [Idle EXCEPT !.op = "update", !.id = i, !.row = sprints[i], !.body = b]
    IN  /\ i \in live
        /\ Begin(r, IF NeedsCheck(q) THEN [q EXCEPT !.pc = "active"] ELSE AfterActive(q))

StartDelete(r, i) ==
    /\ i \in live
    /\ Begin(r, [Idle EXCEPT !.pc = "delete", !.op = "delete", !.id = i])

(* 409 when another sprint of the project is active. *)
CheckActive(r) ==
    LET q == req[r] IN
    /\ q.pc = "active"
    /\ Local(r, IF \E i \in live \ {q.id} : sprints[i].status = "active"
                THEN Idle ELSE AfterActive(q))

-----------------------------------------------------------------------------
(* The first of the name, the name with suffix (1), (2), ... that is free. *)
(* Only the names that start with the one in the body are looked at.       *)
Suffixed(n, k) ==
    [letters |-> IF n.letters <= Width - SuffixWidth THEN n.letters ELSE Width - SuffixWidth,
     copy    |-> k]

FinalNameOnce(n, taken) ==  \* mutant: one suffix is tried, not the next ones
    IF n \notin taken THEN n ELSE Suffixed(n, 1)

FinalName(n, taken) ==
    IF n \notin taken THEN n
    ELSE LET free == {k \in 1 .. MaxId : Suffixed(n, k) \notin taken}
         IN  Suffixed(n, CHOOSE k \in free : \A l \in free : k <= l)

NamesBut(i, n) ==
    {sprints[j].name : j \in {j \in live \ {i} : sprints[j].name.letters >= n.letters}}

ChooseName(r) ==
    LET q == req[r] IN
    /\ q.pc = "name"
    /\ Local(r, [q EXCEPT !.pc = IF q.op = "create" THEN "insert" ELSE "update",
                          !.body.name = FinalName(q.body.name, NamesBut(q.id, q.body.name))])

-----------------------------------------------------------------------------
(* The commits.  The sequence never hands out an id twice. *)
NewIdAfterLast ==  \* mutant: the id after the largest one in the table
    IF live = {} THEN 1 ELSE (CHOOSE i \in live : \A j \in live : j <= i) + 1

NewId == nextId

LastId == IF overlapped /\ MaxShared < MaxId THEN MaxShared ELSE MaxId

Insert(r) ==
    /\ req[r].pc = "insert"
    /\ NewId <= LastId
    /\ sprints' = [i \in live \cup {NewId} |-> IF i = NewId THEN req[r].body ELSE sprints[i]]
    /\ nextId' = NewId + 1
    /\ req' = [req EXCEPT ![r] = Idle]
    /\ UNCHANGED <<tasks, overlapped>>

(* The ids have run out: the bound of the model stops the request here. *)
NoMoreIds(r) ==
    /\ req[r].pc = "insert"
    /\ NewId > LastId
    /\ Finish(r)

(* A column of the session's copy after the body is set on it. *)
Edited(new, old) == IF new = NULL THEN old ELSE new

(* Only the columns that differ from the loaded row are written. *)
WrittenNull(new, old, now) == IF new = old THEN now ELSE new  \* mutant: fields left out are set to null
Written(new, old, now) == IF Edited(new, old) = old THEN now ELSE new

(* The dates are checked on the session's copy.  updated_at always         *)
(* changes, so the UPDATE of a row that is gone fails.                     *)
UpdateCommits(q) ==
    /\ DatesFit(Edited(q.body.start, q.row.start), Edited(q.body.end, q.row.end))
    /\ q.id \in live

Update(r) ==
    LET q   == req[r]
        now == sprints[q.id]
    IN  /\ q.pc = "update"
        /\ UpdateCommits(q)
        /\ sprints' = [sprints EXCEPT ![q.id] =
                          [name   |-> Written(q.body.name, q.row.name, now.name),
                           start  |-> Written(q.body.start, q.row.start, now.start),
                           end    |-> Written(q.body.end, q.row.end, now.end),
                           status |-> Written(q.body.status, q.row.status, now.status)]]
        /\ req' = [req EXCEPT ![r] = Idle]
        /\ UNCHANGED <<nextId, tasks, overlapped>>

FailUpdate(r) ==
    /\ req[r].pc = "update"
    /\ ~UpdateCommits(req[r])
    /\ Finish(r)

Delete(r) ==
    /\ req[r].pc = "delete"
    /\ sprints' = [i \in live \ {req[r].id} |-> sprints[i]]
    /\ req' = [req EXCEPT ![r] = Idle]
    /\ UNCHANGED <<nextId, tasks, overlapped>>

-----------------------------------------------------------------------------
(* A task is put in a sprint the client was shown; the tasks service does  *)
(* not look the sprint up.                                                 *)
Assign(t, i) ==
    /\ i \in live
    /\ tasks' = [tasks EXCEPT ![t] = i]
    /\ UNCHANGED <<sprints, nextId, req, overlapped>>

BodyNames == [letters : Lengths, copy : {0}]

Bodies ==
    {b \in [name : OrNull(BodyNames), start : OrNull(Days), end : OrNull(Days), status : OrNull(Statuses)] :
        Cardinality({f \in DOMAIN b : b[f] # NULL}) <= MaxFields}

Arrive(r) ==
    /\ req[r].pc = "idle"
    /\ Alone \/ nextId <= MaxShared
    /\ \/ \E n \in BodyNames, s \in Days, e \in Days : StartCreate(r, n, s, e)
       \/ \E i \in Ids : StartDelete(r, i) \/ \E b \in Bodies : StartUpdate(r, i, b)

Proceed(r) ==
    \/ CheckActive(r) \/ ChooseName(r)
    \/ Insert(r) \/ NoMoreIds(r)
    \/ Update(r) \/ FailUpdate(r)
    \/ Delete(r)

Next ==
    \/ \E r \in Requests : Arrive(r) \/ Proceed(r)
    \/ \E t \in Tasks, i \in Ids : Assign(t, i)

Spec == Init /\ [][Next]_vars

-----------------------------------------------------------------------------
(* Type invariant. *)
TypeOK ==
    /\ live \subseteq Ids
    /\ sprints \in [live -> Row]
    /\ nextId \in 1 .. MaxId + 1
    /\ tasks \in [Tasks -> OrNull(Ids)]
    /\ req \in [Requests -> Request]
    /\ overlapped \in BOOLEAN

(* "There is already an active sprint in this project." (services.py:678): *)
(* never two at a time, as long as requests have been served one by one.   *)
OneActive ==
    ~overlapped =>
        \A i, j \in live : sprints[i].status = "active" /\ sprints[j].status = "active" => i = j

(* "endDate must be after startDate." (services.py:713), and the sprint is *)
(* not longer than allowed, also when requests change one date after the   *)
(* other.                                                                  *)
DatesInOrder ==
    ~overlapped => \A i \in live : sprints[i].end - sprints[i].start \in 1 .. MaxLength

(* A name may have been cut to make room for its suffix. *)
NothingCut == Lengths \subseteq 1 .. Width - SuffixWidth

WasCut(n) == ~NothingCut /\ n.copy # 0 /\ n.letters = Width - SuffixWidth

(* Served one by one, the suffixes keep the names of the project's sprints *)
(* apart (services.py:600-619, 681-705): unless a name was cut to make     *)
(* room for its suffix.  It does not start with the name it was made of    *)
(* any more, so that the query does not find it (line 604), and the next   *)
(* request for that name makes it again.                                   *)
NamesApart ==
    ~overlapped =>
        \A i, j \in live : sprints[i].name = sprints[j].name => i = j \/ WasCut(sprints[i].name)

(* A deleted sprint stays in the tasks that were put in it, as delete_sprint *)
(* leaves them alone and the column is no foreign key (services.py:731).   *)
(* None of them turns up in a sprint created later: nothing but the        *)
(* sequence of the ids keeps them apart.                                   *)
NewSprintsEmpty == [][\A i \in live' \ live, t \in Tasks : tasks'[t] # i]_vars
=============================================================================
