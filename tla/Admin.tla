------------------------------- MODULE Admin -------------------------------
(***************************************************************************)
(* The dictionary of task types and the forced backups (modules/admin).    *)
(* One action is one statement or commit of one request of an              *)
(* administrator, or the run of the backup program, which is external.     *)
(***************************************************************************)
EXTENDS Naturals, FiniteSets, Sequences

CONSTANTS
    Names,          \* names of task types
    Initial,        \* the one the table is created with, "Bug"
    MaxId,          \* bound: ids of task types
    MaxBackups,     \* bound: rows of backups
    MaxTime,        \* bound: seconds
    Requests,       \* request slots
    NULL            \* nothing; as a file, the empty path

Ids == 1 .. MaxId

Seconds == 0 .. MaxTime

ASSUME InitialAssumption == Initial \in Names
ASSUME BoundsAssumption == MaxId \in Nat \ {0} /\ MaxBackups \in Nat /\ MaxTime \in Nat
ASSUME NullAssumption == NULL \notin Nat /\ NULL \notin Names

OrNull(S) == S \cup {NULL}

(* A file is named after the second the backup began in. *)
Backup == [file : OrNull(Seconds), status : {"in_progress", "completed", "failed"}]

VARIABLES
    types,      \* table task_types: id -> name
    nextId,     \* the sequence behind its ids
    backups,    \* table backups, in the order of its ids
    now,        \* the time in seconds
    req,        \* per slot, the local state of the handler it runs
    overlapped  \* history: two requests have been under way at once

vars == <<types, nextId, backups, now, req, overlapped>>

live == DOMAIN types

Request ==
    [pc    : {"idle", "insert", "count", "delete", "name", "record", "run", "save"},
     id    : OrNull(Nat),             \* task_type_id, or the id of record
     name  : OrNull(Names),           \* payload.name, stripped
     stamp : OrNull(Seconds),         \* timestamp
     file  : OrNull(Seconds)]         \* destination, empty unless success

Idle == [pc |-> "idle", id |-> NULL, name |-> NULL, stamp |-> NULL, file |-> NULL]

Init ==
    /\ types = [i \in {1} |-> Initial]
    /\ nextId = 2
    /\ backups = <<>>
    /\ now = 0
    /\ req = [r \in Requests |-> Idle]
    /\ overlapped = FALSE

Local(r, q) ==
    /\ req' = [req EXCEPT ![r] = q]
    /\ UNCHANGED <<types, nextId, backups, now, overlapped>>

Goes(r, pc) == Local(r, [req[r] EXCEPT !.pc = pc])

Finish(r) == Local(r, Idle)

(* A request arrives and its first query lets it go on. *)
Begin(r, q) ==
    /\ req[r].pc = "idle"
    /\ req' = [req EXCEPT ![r] = q]
    /\ overlapped' = (overlapped \/ \E s \in Requests : req[s].pc # "idle")
    /\ UNCHANGED <<types, nextId, backups, now>>

-----------------------------------------------------------------------------
(* create_task_type: the name is free, and at the commit the unique column *)
(* has the last word.                                                      *)
StartCreate(r, n) ==
    /\ nextId <= MaxId
    /\ \A i \in live : types[i] # n
    /\ Begin(r, [Idle EXCEPT !.pc = "insert", !.name = n])

NameFree(n) == \A i \in live : types[i] # n

Insert(r) ==
    LET n == req[r].name IN
    /\ req[r].pc = "insert"
    /\ NameFree(n)
    /\ nextId <= MaxId
    /\ types' = [i \in live \cup {nextId} |-> IF i = nextId THEN n ELSE types[i]]
    /\ nextId' = nextId + 1
    /\ req' = [req EXCEPT ![r] = Idle]
    /\ UNCHANGED <<backups, now, overlapped>>

(* 409, or the bound of the model. *)
FailInsert(r) ==
    /\ req[r].pc = "insert"
    /\ ~NameFree(req[r].name) \/ nextId > MaxId
    /\ Finish(r)

(* delete_task_type: the row, the number of rows, the DELETE. *)
StartDelete(r, i) ==
    /\ i \in live
    /\ Begin(r, [Idle EXCEPT !.pc = "count", !.id = i])

EnoughCounted(n) == n >= 1  \* mutant: off by one
Enough(n) == n >= 2

Count(r) ==
    /\ req[r].pc = "count"
    /\ IF Enough(Cardinality(live)) THEN Goes(r, "delete") ELSE Finish(r)

Delete(r) ==
    /\ req[r].pc = "delete"
    /\ types' = [i \in live \ {req[r].id} |-> types[i]]
    /\ req' = [req EXCEPT ![r] = Idle]
    /\ UNCHANGED <<nextId, backups, now, overlapped>>

-----------------------------------------------------------------------------
(* create_backup: none in progress, then the name, then the row. *)
InProgress == {k \in DOMAIN backups : backups[k].status = "in_progress"}

StartBackup(r) ==
    /\ Len(backups) < MaxBackups
    /\ InProgress = {}
    /\ Begin(r, [Idle EXCEPT !.pc = "name", !.stamp = now])

(* The file the name of which holds the same second. *)
NameTakenRunning(s) == \E k \in InProgress : backups[k].file = s  \* mutant: only the rows in progress
NameTaken(s) == \E k \in DOMAIN backups : backups[k].file = s

CheckName(r) ==
    /\ req[r].pc = "name"
    /\ IF NameTaken(req[r].stamp) THEN Finish(r) ELSE Goes(r, "record")

Record(r) ==
    /\ req[r].pc = "record"
    /\ Len(backups) < MaxBackups
    /\ backups' = Append(backups, [file |-> NULL, status |-> "in_progress"])
    /\ req' = [req EXCEPT ![r].pc = "run", ![r].id = Len(backups) + 1]
    /\ UNCHANGED <<types, nextId, now, overlapped>>

(* The bound of the model stops the request here. *)
NoMoreBackups(r) ==
    /\ req[r].pc = "record"
    /\ Len(backups) >= MaxBackups
    /\ Finish(r)

(* pg_dump and what stands in for it works, or not. *)
Destination(q, ok) == IF ok THEN q.stamp ELSE NULL

RunBackup(r) ==
    /\ req[r].pc = "run"
    /\ \E ok \in BOOLEAN :
          Local(r, [req[r] EXCEPT !.pc = "save", !.file = Destination(req[r], ok)])

Outcome(file) == IF file = NULL THEN "failed" ELSE "completed"

Save(r) ==
    LET q == req[r] IN
    /\ q.pc = "save"
    /\ backups' = [backups EXCEPT ![q.id] = [file |-> q.file, status |-> Outcome(q.file)]]
    /\ req' = [req EXCEPT ![r] = Idle]
    /\ UNCHANGED <<types, nextId, now, overlapped>>

-----------------------------------------------------------------------------
(* The request dies: a row in progress stays. *)
Abort(r) ==
    /\ req[r].pc # "idle"
    /\ Finish(r)

Tick ==
    /\ now < MaxTime
    /\ now' = now + 1
    /\ UNCHANGED <<types, nextId, backups, req, overlapped>>

Arrive(r) ==
    \/ \E n \in Names : StartCreate(r, n)
    \/ \E i \in Ids : StartDelete(r, i)
    \/ StartBackup(r)

Proceed(r) ==
    \/ Insert(r) \/ FailInsert(r) \/ Count(r) \/ Delete(r)
    \/ CheckName(r) \/ Record(r) \/ NoMoreBackups(r) \/ RunBackup(r) \/ Save(r)

Next ==
    \/ \E r \in Requests : Arrive(r) \/ Proceed(r) \/ Abort(r)
    \/ Tick

Spec == Init /\ [][Next]_vars

-----------------------------------------------------------------------------
(* Type invariant. *)
TypeOK ==
    /\ live \subseteq Ids
    /\ types \in [live -> Names]
    /\ nextId \in 1 .. MaxId + 1
    /\ backups \in Seq(Backup)
    /\ now \in Seconds
    /\ req \in [Requests -> Request]
    /\ overlapped \in BOOLEAN

(* "Cannot delete the last task type in the system." (service.py:78), as   *)
(* long as requests have been served one by one.                           *)
TypeLeft == ~overlapped => live # {}

(* Two creations of one name at the same moment leave one type             *)
(* (service.py:54-57).                                                     *)
NamesApart == \A i, j \in live : types[i] = types[j] => i = j

(* Served one by one, at most one backup is in progress, also when earlier *)
(* requests died, and every completed backup has a file of its own         *)
(* (service.py:195-206, 229-230).                                          *)
BackupsApart ==
    ~overlapped =>
        /\ Cardinality(InProgress) <= 1
        /\ \A j, k \in DOMAIN backups :
              backups[j].status = "completed" /\ backups[k].status = "completed"
                /\ backups[j].file = backups[k].file => j = k
=============================================================================
