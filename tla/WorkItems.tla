------------------------------ MODULE WorkItems ------------------------------
(***************************************************************************)
(* The task hierarchy as modules/tasks/service.py keeps it: requests that  *)
(* create, edit and delete work items run in threads of one server, each   *)
(* with its own session, against a READ COMMITTED database.  One action is *)
(* one statement (or one commit) of one request, so what a request has     *)
(* read may be stale when it writes.  The foreign key of parent_id is the  *)
(* only constraint the database itself enforces here.                      *)
(*                                                                         *)
(* Columns no check reads (title, description, priority, story points,     *)
(* assignee, status) are left out, and so are requests the membership gate *)
(* or the task type check refuses: they write nothing.                     *)
(***************************************************************************)
EXTENDS Naturals

CONSTANTS
    Projects,   \* project ids
    Sprints,    \* sprint ids; sprint_id is not a foreign key
    MaxId,      \* bound: ids the sequence of work_items.id hands out
    Requests,   \* request slots: handlers the server runs at the same time
    CanAbort,   \* may a request die between two statements?
    NULL        \* the SQL null

TaskIds == 1 .. MaxId

ASSUME MaxIdAssumption == MaxId \in Nat
ASSUME NullAssumption == NULL \notin Nat /\ NULL \notin Sprints
ASSUME CanAbortAssumption == CanAbort \in BOOLEAN

VARIABLES
    items,      \* table work_items: id -> row
    nextId,     \* the sequence behind work_items.id; ids are not reused
    activity,   \* table audit_logs, as the set of [action, task] it holds
    req         \* per slot, the local state of the handler it runs

vars == <<items, nextId, activity, req>>

OrNull(S) == S \cup {NULL}

Row == [project : Projects, parent : OrNull(TaskIds), sprint : OrNull(Sprints)]

Entry == [action : {"CREATE_TASK", "UPDATE_FIELD", "DELETE_TASK"}, task : TaskIds]

live == DOMAIN items

Request ==
    [pc       : {"idle", "parent", "walk", "cascade", "insert", "update",
                 "descend", "delete", "refresh", "audit"},
     op       : {"none", "create", "update", "delete"},
     task     : OrNull(TaskIds),          \* task_id (the new id once inserted)
     project  : OrNull(Projects),         \* project_id given to _validate_parent
     parent   : OrNull(TaskIds),          \* next_parent_id
     sprint   : OrNull(Sprints),          \* next_sprint_id
     row      : OrNull(Row),              \* db_item as it was loaded
     above    : OrNull(Row),              \* parent as it was loaded
     at       : OrNull(TaskIds),          \* current.parent_id of the walk
     frontier : SUBSET TaskIds,           \* pending_parent_ids
     level    : 0 .. MaxId,               \* levels fetched; more only go round a cycle
     found    : [TaskIds -> 0 .. MaxId],  \* level a descendant was found at, 0: not found
     differing : SUBSET TaskIds,          \* changed_descendants
     owed     : SUBSET Entry]             \* log_activity calls still to make

Idle == [pc |-> "idle", op |-> "none", task |-> NULL, project |-> NULL,
         parent |-> NULL, sprint |-> NULL, row |-> NULL, above |-> NULL, at |-> NULL,
         frontier |-> {}, level |-> 0, found |-> [t \in TaskIds |-> 0], differing |-> {}, owed |-> {}]

Init ==
    /\ items = [t \in {} |-> NULL]
    /\ nextId = 1
    /\ activity = {}
    /\ req = [r \in Requests |-> Idle]

(* Only the local state of r changes: a SELECT, or a refusal. *)
Local(r, q) ==
    /\ req' = [req EXCEPT ![r] = q]
    /\ UNCHANGED <<items, nextId, activity>>

Finish(r) == Local(r, Idle)

-----------------------------------------------------------------------------
(* A request arrives.  The gate loads the task (404 when it is gone) and   *)
(* drops it; the service loads it again, and that copy is the one it uses. *)
(* A field the body leaves out keeps its column, which is the same as      *)
(* asking for the value the row has.                                       *)
StartCreate(r, pr, p, s) ==
    /\ req[r].pc = "idle"
    /\ Local(r, [Idle EXCEPT !.pc = "parent", !.op = "create", !.project = pr,
                             !.parent = p, !.sprint = s])

StartUpdate(r, t, p, s) ==
    /\ req[r].pc = "idle"
    /\ t \in live
    /\ Local(r, [Idle EXCEPT !.pc = "parent", !.op = "update", !.task = t,
                             !.project = items[t].project, !.row = items[t],
                             !.parent = p, !.sprint = s])

StartDelete(r, t) ==
    /\ req[r].pc = "idle"
    /\ t \in live
    /\ Local(r, [Idle EXCEPT !.pc = "descend", !.op = "delete", !.task = t,
                             !.frontier = {t}])

-----------------------------------------------------------------------------
(* _validate_parent and _validate_parent_sprint: where the request goes    *)
(* when the checks of the parent are over, or the refusal (400).           *)
SprintMatchesSkipped(q) == TRUE  \* mutant: the sprint check is forgotten
SprintMatches(q) == q.parent # NULL => q.above.sprint = q.sprint

NothingChanged(q) == q.parent = q.row.parent /\ q.sprint = q.row.sprint

AfterValidation(q) ==
    IF ~SprintMatches(q) THEN Idle
    ELSE IF q.op = "create" THEN [q EXCEPT !.pc = "insert"]
    ELSE IF NothingChanged(q) THEN Idle
    ELSE IF q.sprint # q.row.sprint
         THEN [q EXCEPT !.pc = "cascade", !.frontier = {q.task}]
    ELSE [q EXCEPT !.pc = "update"]

(* The requested parent is null: no statement, on to the next check. *)
NoParent(r) ==
    /\ req[r].pc = "parent"
    /\ req[r].parent = NULL
    /\ Local(r, AfterValidation(req[r]))

AcceptsParentAnywhere(q) == q.parent \in live /\ q.parent # q.task  \* mutant: any project
AcceptsParent(q) ==
    /\ q.parent \in live
    /\ items[q.parent].project = q.project
    /\ q.parent # q.task

ReadParent(r) ==
    /\ req[r].pc = "parent"
    /\ req[r].parent # NULL
    /\ AcceptsParent(req[r])
    /\ Local(r, [req[r] EXCEPT !.pc = "walk", !.above = items[req[r].parent],
                               !.at = items[req[r].parent].parent])

RefuseParent(r) ==
    /\ req[r].pc = "parent"
    /\ req[r].parent # NULL
    /\ ~AcceptsParent(req[r])
    /\ Finish(r)

(* The walk has met the task itself: moving it here would close a cycle. *)
ClosesCycleNever(q) == FALSE  \* mutant: the walk forgets to compare
ClosesCycle(q) == q.at = q.task

RefuseCycle(r) ==
    /\ req[r].pc = "walk"
    /\ req[r].at # NULL
    /\ ClosesCycle(req[r])
    /\ Finish(r)

(* One SELECT up the tree.  The session still holds the parent it loaded   *)
(* first, so a walk that comes back to it sees that copy.                  *)
WalkUp(r) ==
    LET q == req[r] IN
    /\ q.pc = "walk"
    /\ q.at \in live
    /\ ~ClosesCycle(q)
    /\ Local(r, [q EXCEPT !.at = IF q.at = q.parent THEN q.above.parent
                                                    ELSE items[q.at].parent])

(* current.parent_id is null, or its row is gone. *)
WalkDone(r) ==
    LET q == req[r] IN
    /\ q.pc = "walk"
    /\ q.at \notin live
    /\ q.at = NULL \/ ~ClosesCycle(q)
    /\ Local(r, AfterValidation([q EXCEPT !.at = NULL]))

-----------------------------------------------------------------------------
(* _get_descendants: one SELECT per level. *)
Children(S) == {c \in live : items[c].parent \in S}

Seen(q) == {t \in TaskIds : q.found[t] > 0}

DescendedNowhere(q) ==  \* mutant: pending_parent_ids is not advanced
    [q EXCEPT !.found = [t \in TaskIds |-> IF t \in Children(q.frontier) THEN 1 ELSE q.found[t]]]

Descended(q) ==
    LET next  == Children(q.frontier)
        depth == IF q.level < MaxId THEN q.level + 1 ELSE MaxId
    IN  [q EXCEPT !.frontier = next, !.level = depth,
                  !.found = [t \in TaskIds |-> IF t \in next THEN depth ELSE q.found[t]]]

(* _cascade_sprint_to_descendants compares the sprint each child had when  *)
(* the session first loaded it; db_item and parent are loaded already.     *)
NewlyDiffering(q) ==
    {c \in Children(q.frontier) \ (Seen(q) \cup {q.task, q.parent}) :
        items[c].sprint # q.sprint}

CascadeLevel(r) ==
    LET q == req[r] IN
    /\ q.pc = "cascade"
    /\ Children(q.frontier) # {}
    /\ Local(r, [Descended(q) EXCEPT !.differing = q.differing \cup NewlyDiffering(q)])

CascadeDone(r) ==
    /\ req[r].pc = "cascade"
    /\ Children(req[r].frontier) = {}
    /\ Local(r, [req[r] EXCEPT !.pc = "update", !.frontier = {}])

DescendLevel(r) ==
    /\ req[r].pc = "descend"
    /\ Children(req[r].frontier) # {}
    /\ Local(r, Descended(req[r]))

DescendDone(r) ==
    /\ req[r].pc = "descend"
    /\ Children(req[r].frontier) = {}
    /\ Local(r, [req[r] EXCEPT !.pc = "delete", !.frontier = {}])

-----------------------------------------------------------------------------
(* The commits.  A statement that breaks the foreign key, or an UPDATE of  *)
(* a row that is gone, fails the commit: rollback, response 500.           *)
ParentStands(p) == p = NULL \/ p \in live

(* create_work_item.  A failed INSERT has used up its id all the same. *)
Insert(r) ==
    LET q == req[r] IN
    /\ q.pc = "insert"
    /\ nextId <= MaxId
    /\ nextId' = nextId + 1
    /\ IF ParentStands(q.parent)
       THEN /\ items' = [t \in live \cup {nextId} |->
                            IF t = nextId THEN [project |-> q.project, parent |-> q.parent,
                                                sprint |-> q.sprint]
                                          ELSE items[t]]
            /\ req' = [req EXCEPT ![r] =
                          [Idle EXCEPT !.pc = "refresh", !.op = "create", !.task = nextId,
                                       !.owed = {[action |-> "CREATE_TASK", task |-> nextId]}]]
       ELSE /\ req' = [req EXCEPT ![r] = Idle]
            /\ UNCHANGED items
    /\ UNCHANGED activity

(* The ids have run out: the bound of the model stops the request here. *)
NoMoreIds(r) ==
    /\ req[r].pc = "insert"
    /\ nextId > MaxId
    /\ Finish(r)

(* update_work_item writes the columns that differ from the loaded row,    *)
(* and sprint_id of the descendants that differed.                         *)
WrittenWhole(q, i) ==  \* mutant: the whole loaded row is written back
    IF i = q.task THEN [items[i] EXCEPT !.parent = q.parent, !.sprint = q.sprint]
    ELSE IF i \in q.differing THEN [items[i] EXCEPT !.sprint = q.sprint]
    ELSE items[i]

Written(q, i) ==
    IF i = q.task
    THEN [items[i] EXCEPT !.parent = IF q.parent = q.row.parent THEN @ ELSE q.parent,
                          !.sprint = IF q.sprint = q.row.sprint THEN @ ELSE q.sprint]
    ELSE IF i \in q.differing THEN [items[i] EXCEPT !.sprint = q.sprint]
    ELSE items[i]

UpdateCommits(q) ==
    /\ {q.task} \cup q.differing \subseteq live
    /\ q.parent = q.row.parent \/ ParentStands(q.parent)

Update(r) ==
    LET q == req[r] IN
    /\ q.pc = "update"
    /\ UpdateCommits(q)
    /\ items' = [i \in live |-> Written(q, i)]
    /\ req' = [req EXCEPT ![r] =
                  [Idle EXCEPT !.pc = "refresh", !.op = "update", !.task = q.task,
                               !.owed = {[action |-> "UPDATE_FIELD", task |-> t] :
                                            t \in {q.task} \cup q.differing}]]
    /\ UNCHANGED <<nextId, activity>>

FailUpdate(r) ==
    /\ req[r].pc = "update"
    /\ ~UpdateCommits(req[r])
    /\ Finish(r)

(* _delete_work_item_tree deletes the descendants from the last found to   *)
(* the first and the task at the end; each DELETE must leave no reference. *)
Doomed(q) == Seen(q) \cup {q.task}

DeletedEntriesOfRoot(q) ==  \* mutant: the descendants go unlogged
    {[action |-> "DELETE_TASK", task |-> q.task]}

DeletedEntries(q) == {[action |-> "DELETE_TASK", task |-> t] : t \in Doomed(q)}

DeletedBefore(q, c, p) ==
    \/ q.found[c] > q.found[p]
    \/ q.found[c] = q.found[p] /\ c > p

DeleteCommits(q) ==
    \A c \in Children(Doomed(q)) :
        c \in Doomed(q) /\ DeletedBefore(q, c, items[c].parent)

Delete(r) ==
    LET q == req[r] IN
    /\ q.pc = "delete"
    /\ DeleteCommits(q)
    /\ items' = [i \in live \ Doomed(q) |-> items[i]]
    /\ req' = [req EXCEPT ![r] =
                  [Idle EXCEPT !.pc = "audit", !.op = "delete", !.task = q.task,
                               !.owed = DeletedEntries(q)]]
    /\ UNCHANGED <<nextId, activity>>

FailDelete(r) ==
    /\ req[r].pc = "delete"
    /\ ~DeleteCommits(req[r])
    /\ Finish(r)

-----------------------------------------------------------------------------
(* db.refresh(db_item) after the commit raises when the row is gone. *)
Refresh(r) ==
    /\ req[r].pc = "refresh"
    /\ Local(r, IF req[r].task \in live THEN [req[r] EXCEPT !.pc = "audit"] ELSE Idle)

(* One log_activity call, with its own commit.  The set leaves the order   *)
(* of the entries out.                                                     *)
LogActivity(r, e) ==
    LET rest == req[r].owed \ {e} IN
    /\ req[r].pc = "audit"
    /\ e \in req[r].owed
    /\ activity' = activity \cup {e}
    /\ req' = [req EXCEPT ![r] = IF rest = {} THEN Idle ELSE [@ EXCEPT !.owed = rest]]
    /\ UNCHANGED <<items, nextId>>

(* The server stops, the connection breaks, or the database picks the      *)
(* transaction as the victim of a deadlock: what was not committed is gone.*)
Abort(r) ==
    /\ CanAbort
    /\ req[r].pc # "idle"
    /\ Finish(r)

-----------------------------------------------------------------------------
Arrive(r) ==
    \/ \E pr \in Projects, p \in OrNull(TaskIds), s \in OrNull(Sprints) :
          StartCreate(r, pr, p, s)
    \/ \E t \in TaskIds, p \in OrNull(TaskIds), s \in OrNull(Sprints) :
          StartUpdate(r, t, p, s)
    \/ \E t \in TaskIds : StartDelete(r, t)

(* What the thread of r does on its own once the request has arrived. *)
Proceed(r) ==
    \/ NoParent(r) \/ ReadParent(r) \/ RefuseParent(r)
    \/ RefuseCycle(r) \/ WalkUp(r) \/ WalkDone(r)
    \/ CascadeLevel(r) \/ CascadeDone(r)
    \/ DescendLevel(r) \/ DescendDone(r)
    \/ Insert(r) \/ NoMoreIds(r)
    \/ Update(r) \/ FailUpdate(r)
    \/ Delete(r) \/ FailDelete(r)
    \/ Refresh(r)
    \/ \E e \in req[r].owed : LogActivity(r, e)

Next == \E r \in Requests : Arrive(r) \/ Proceed(r) \/ Abort(r)

Spec == Init /\ [][Next]_vars

(* A thread the server has started keeps running; nobody has to send one. *)
FairSpec == Spec /\ \A r \in Requests : WF_vars(Proceed(r))

-----------------------------------------------------------------------------
(* The abstract specification, read off the table itself. *)
B == INSTANCE Backlog WITH TaskIds <- TaskIds

(* Type invariant: the table, the sequence, the log and the handlers'      *)
(* local state have the types the models and schemas declare.              *)
TypeOK ==
    /\ live \subseteq TaskIds
    /\ items \in [live -> Row]
    /\ nextId \in 1 .. MaxId + 1
    /\ activity \subseteq Entry
    /\ req \in [Requests -> Request]

(* Whatever requests run together, the parent of a task exists and is in   *)
(* the task's project: the check of service.py:54-64 is made long before   *)
(* the commit, and the foreign key closes the gap.                         *)
ParentInProject == B!ParentInProject

(* What a handler holds between two statements: the ids and rows its next  *)
(* statement needs, and a parent that, once checked, is in the project for *)
(* as long as it is there.                                                 *)
Editing == {"parent", "walk", "cascade", "insert", "update"}

Checked == {"walk", "cascade", "insert", "update"}

HandlerOK(q, rows, next) ==
    /\ q.pc \in Editing => q.op \in {"create", "update"} /\ q.project \in Projects
    /\ q.pc = "insert" => q.op = "create"
    /\ q.pc \in {"cascade", "update"} => q.op = "update"
    /\ q.pc \in Editing /\ q.op = "update" =>
          /\ q.task \in TaskIds
          /\ q.task < next
          /\ q.row \in Row
          /\ q.task \in DOMAIN rows => rows[q.task].project = q.project
    /\ q.pc = "walk" => q.parent # NULL /\ q.above \in Row
    /\ q.pc \in Checked /\ q.parent # NULL =>
          /\ q.parent < next
          /\ q.parent \in DOMAIN rows => rows[q.parent].project = q.project
    /\ q.pc \in {"descend", "delete", "refresh", "audit"} => q.task \in TaskIds

(* The inductive invariant behind TypeOK and ParentInProject: ids at or    *)
(* above the sequence are unused, and every handler's state is sound.      *)
HandlersSound ==
    /\ \A t \in live : t < nextId
    /\ \A r \in Requests : HandlerOK(req[r], items, nextId)

(* "Hierarchia zadan nie moze zawierac cykli" (service.py:76). *)
Acyclic == B!Acyclic

(* An edit of the sprint never undoes a concurrent move of the task: only  *)
(* a request that asked for another parent changes parent_id               *)
(* (service.py:224-229 sets, and the ORM writes, changed columns only).    *)
NoLostMove ==
    [][\A t \in live \cap live' : items'[t].parent # items[t].parent =>
           \E r \in Requests : /\ req[r].pc = "update"
                              /\ req[r].task = t
                              /\ items'[t].parent = req[r].parent
                              /\ req[r].parent # req[r].row.parent]_items

(* With no request under way, every task has its CREATE_TASK entry and     *)
(* every task that is gone its DELETE_TASK entry (service.py:134-140, 160).*)
AuditComplete ==
    (\A r \in Requests : req[r].pc = "idle") =>
        \A t \in 1 .. nextId - 1 :
            /\ [action |-> "CREATE_TASK", task |-> t] \in activity
            /\ t \in live \/ [action |-> "DELETE_TASK", task |-> t] \in activity

(* Every request gets an answer: the loops up and down the tree end. *)
RequestsFinish == \A r \in Requests : req[r].pc # "idle" ~> req[r].pc = "idle"

(* One request at a time, the service implements the atomic operations on  *)
(* a forest that Backlog describes.                                        *)
ImplementsBacklog == B!Spec
=============================================================================
