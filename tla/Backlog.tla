------------------------------- MODULE Backlog -------------------------------
(***************************************************************************)
(* What the task hierarchy of a project promises, with no request and no   *)
(* database in sight: tasks form a forest inside their project, a subtask  *)
(* is in the sprint of its parent task, and every operation is one atomic  *)
(* step.  It abstracts the service functions of modules/tasks/service.py;  *)
(* WorkItems is the detailed specification, statement by statement.        *)
(***************************************************************************)
CONSTANTS
    Projects,   \* project ids
    Sprints,    \* sprint ids
    TaskIds,    \* ids a task can be given
    NULL        \* the SQL null: no parent task, no sprint; it is no id

VARIABLE items  \* the table work_items: task id -> row, one entry per task

Row == [project : Projects,
        parent  : TaskIds \cup {NULL},
        sprint  : Sprints \cup {NULL}]

live == DOMAIN items

(* S holds every task whose parent task is in S. *)
ClosedDown(S) == \A c \in live : items[c].parent \in S => c \in S

(* t and its descendants: the tasks of every downward closed set around t. *)
Subtree(t) ==
    {d \in live : \A S \in SUBSET live : t \in S /\ ClosedDown(S) => d \in S}

(* p may stand above a task of project pr in sprint s; the forbidden tasks *)
(* are the ones the task itself stands above.                              *)
MayBeParent(p, pr, s, forbidden) ==
    \/ p = NULL
    \/ /\ p \in live \ forbidden
       /\ items[p].project = pr
       /\ items[p].sprint = s

-----------------------------------------------------------------------------
Init == items = [t \in {} |-> [project |-> NULL, parent |-> NULL, sprint |-> NULL]]

Add(t, pr, p, s) ==
    /\ t \notin live
    /\ MayBeParent(p, pr, s, {})
    /\ items' = [i \in live \cup {t} |->
                    IF i = t THEN [project |-> pr, parent |-> p, sprint |-> s]
                             ELSE items[i]]

(* Editing moves the task under p and takes the whole subtree to sprint s. *)
EditedRow(i, t, p, s) ==
    IF i = t THEN [items[i] EXCEPT !.parent = p, !.sprint = s]
    ELSE IF i \in Subtree(t) THEN [items[i] EXCEPT !.sprint = s]
    ELSE items[i]

Edit(t, p, s) ==
    /\ t \in live
    /\ MayBeParent(p, items[t].project, s, Subtree(t))
    /\ items' = [i \in live |-> EditedRow(i, t, p, s)]

Remove(t) ==
    /\ t \in live
    /\ items' = [i \in live \ Subtree(t) |-> items[i]]

Next ==
    \/ \E t \in TaskIds, pr \in Projects, p \in TaskIds \cup {NULL}, s \in Sprints \cup {NULL} :
          Add(t, pr, p, s)
    \/ \E t \in TaskIds, p \in TaskIds \cup {NULL}, s \in Sprints \cup {NULL} : Edit(t, p, s)
    \/ \E t \in TaskIds : Remove(t)

Spec == Init /\ [][Next]_items

-----------------------------------------------------------------------------
(* Type invariant: the table holds rows of work_items under task ids. *)
TypeOK ==
    /\ live \subseteq TaskIds
    /\ items \in [live -> Row]

(* No task is its own ancestor (service.py:71-80): every nonempty set of   *)
(* tasks has a member whose parent is outside it.                          *)
Acyclic ==
    \A S \in SUBSET live : S # {} => \E t \in S : items[t].parent \notin S

(* The parent of a task is a task, of the same project (service.py:54-64). *)
ParentInProject ==
    \A t \in live : items[t].parent # NULL =>
        /\ items[t].parent \in live
        /\ items[items[t].parent].project = items[t].project

(* A subtask is in the sprint of its parent task (service.py:85-110). *)
SprintInherited ==
    \A t \in live : items[t].parent \in live =>
        items[items[t].parent].sprint = items[t].sprint

Hierarchy == Acyclic /\ ParentInProject /\ SprintInherited
=============================================================================
