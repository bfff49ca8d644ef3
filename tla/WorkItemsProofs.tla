--------------------------- MODULE WorkItemsProofs ---------------------------
(***************************************************************************)
(* Proofs about WorkItems for every number of ids, projects, sprints and   *)
(* request slots, with requests that may die at any statement.             *)
(***************************************************************************)
EXTENDS WorkItems, TLAPS

(* The inductive invariant. *)
IInv == TypeOK /\ HandlersSound /\ ParentInProject

-----------------------------------------------------------------------------
(* The forest of Backlog, one atomic operation at a time. *)

Forest == B!TypeOK /\ B!Hierarchy

LEMMA NullFacts == NULL \notin TaskIds /\ NULL \notin Sprints
  BY NullAssumption DEF TaskIds

LEMMA SubtreeFacts ==
  ASSUME NEW t \in B!live
  PROVE  /\ t \in B!Subtree(t)
         /\ B!Subtree(t) \subseteq B!live
         /\ B!ClosedDown(B!Subtree(t))
  BY DEF B!Subtree, B!ClosedDown

(* Every member of the subtree but t has its parent in the subtree: the    *)
(* subtree without such a member would be a smaller closed set.            *)
LEMMA SubtreeGrownFromRoot ==
  ASSUME NEW t \in B!live, NEW d \in B!Subtree(t), d # t
  PROVE  items[d].parent \in B!Subtree(t)
  <1> SUFFICES ASSUME items[d].parent \notin B!Subtree(t) PROVE FALSE
    OBVIOUS
  <1> DEFINE S == B!Subtree(t) \ {d}
  <1>1. S \in SUBSET B!live /\ t \in S
    BY SubtreeFacts
  <1>2. B!ClosedDown(S)
    BY SubtreeFacts DEF B!ClosedDown
  <1>3. d \in S
    BY <1>1, <1>2 DEF B!Subtree
  <1> QED BY <1>3

LEMMA ForestInit == B!Init => Forest
  <1> SUFFICES ASSUME B!Init PROVE Forest
    OBVIOUS
  <1>1. B!live = {}
    BY DEF B!Init, B!live
  <1> QED BY <1>1 DEF B!Init, Forest, B!TypeOK, B!Hierarchy, B!Acyclic, B!ParentInProject, B!SprintInherited, B!live

LEMMA AddStep ==
  ASSUME Forest, NEW t \in TaskIds, NEW pr \in Projects, NEW p \in TaskIds \cup {NULL},
         NEW s \in Sprints \cup {NULL}, B!Add(t, pr, p, s),
         NULL \notin TaskIds, NULL \notin Sprints
  PROVE  Forest'
  <1> DEFINE new == [project |-> pr, parent |-> p, sprint |-> s]
  <1>1. /\ t \notin B!live
        /\ B!live' = B!live \cup {t}
        /\ items' = [i \in B!live \cup {t} |-> IF i = t THEN new ELSE items[i]]
        /\ items'[t] = new
        /\ \A i \in B!live : items'[i] = items[i]
    BY DEF B!Add, B!live
  <1>2. \/ p = NULL
        \/ p \in B!live /\ items[p].project = pr /\ items[p].sprint = s
    BY DEF B!Add, B!MayBeParent
  <1>3. new \in B!Row /\ new.parent = p /\ new.project = pr /\ new.sprint = s
    BY DEF B!Row
  <1> HIDE DEF new
  <1>4. B!TypeOK'
    BY <1>1, <1>3 DEF Forest, B!TypeOK
  <1>5. B!Acyclic'
    <2>1. ASSUME NEW S \in SUBSET B!live', S # {}
          PROVE  \E i \in S : items'[i].parent \notin S
      <3>1. CASE t \notin S
        BY <2>1, <3>1, <1>1 DEF Forest, B!Hierarchy, B!Acyclic
      <3>2. CASE t \in S /\ S \ {t} = {}
        BY <3>2, <1>1, <1>2, <1>3
      <3>3. CASE t \in S /\ S \ {t} # {}
        <4>1. PICK i \in S \ {t} : items[i].parent \notin S \ {t}
          BY <2>1, <3>3, <1>1 DEF Forest, B!Hierarchy, B!Acyclic
        <4>2. items[i].parent # t
          BY <4>1, <1>1, <2>1 DEF Forest, B!Hierarchy, B!ParentInProject
        <4> QED BY <4>1, <4>2, <1>1, <2>1
      <3> QED BY <3>1, <3>2, <3>3
    <2> QED BY <2>1 DEF B!Acyclic, B!live
  <1>6. B!ParentInProject' /\ B!SprintInherited'
    <2>1. ASSUME NEW i \in B!live', items'[i].parent # NULL
          PROVE  /\ items'[i].parent \in B!live'
                 /\ items'[items'[i].parent].project = items'[i].project
                 /\ items'[items'[i].parent].sprint = items'[i].sprint
      <3>1. CASE i = t
        BY <2>1, <3>1, <1>1, <1>2, <1>3
      <3>2. CASE i \in B!live
        BY <2>1, <3>2, <1>1 DEF Forest, B!Hierarchy, B!ParentInProject, B!SprintInherited
      <3> QED BY <3>1, <3>2, <1>1
    <2> QED BY <2>1, <1>4 DEF B!TypeOK, B!ParentInProject, B!SprintInherited, B!live
  <1> QED BY <1>4, <1>5, <1>6 DEF Forest, B!Hierarchy

LEMMA EditStep ==
  ASSUME Forest, NEW t \in TaskIds, NEW p \in TaskIds \cup {NULL},
         NEW s \in Sprints \cup {NULL}, B!Edit(t, p, s),
         NULL \notin TaskIds, NULL \notin Sprints
  PROVE  Forest'
  <1>1. /\ t \in B!live /\ B!live' = B!live
        /\ \A i \in B!live : items'[i] = B!EditedRow(i, t, p, s)
        /\ items' = [i \in B!live |-> B!EditedRow(i, t, p, s)]
    BY DEF B!Edit, B!live
  <1>2. \/ p = NULL
        \/ /\ p \in B!live \ B!Subtree(t)
           /\ items[p].project = items[t].project
           /\ items[p].sprint = s
    BY DEF B!Edit, B!MayBeParent
  <1>3. ASSUME NEW i \in B!live
        PROVE  /\ B!EditedRow(i, t, p, s) \in B!Row
               /\ B!EditedRow(i, t, p, s).project = items[i].project
               /\ B!EditedRow(i, t, p, s).parent = IF i = t THEN p ELSE items[i].parent
               /\ B!EditedRow(i, t, p, s).sprint = IF i \in B!Subtree(t) THEN s ELSE items[i].sprint
    <2>1. items[i] \in B!Row /\ t \in B!Subtree(t)
      BY <1>1, SubtreeFacts DEF Forest, B!TypeOK
    <2>2. CASE i = t
      BY <2>1, <2>2 DEF B!EditedRow, B!Row
    <2>3. CASE i # t /\ i \in B!Subtree(t)
      BY <2>1, <2>3 DEF B!EditedRow, B!Row
    <2>4. CASE i # t /\ i \notin B!Subtree(t)
      BY <2>1, <2>4 DEF B!EditedRow, B!Row
    <2> QED BY <2>2, <2>3, <2>4
  <1>4. B!TypeOK'
    BY <1>1, <1>3 DEF Forest, B!TypeOK
  <1>5. B!Acyclic'
    <2>1. ASSUME NEW S \in SUBSET B!live', S # {}
          PROVE  \E i \in S : items'[i].parent \notin S
      <3>1. CASE t \notin S
        BY <2>1, <3>1, <1>1, <1>3 DEF Forest, B!Hierarchy, B!Acyclic
      <3>2. CASE t \in S /\ p \notin S
        BY <3>2, <1>1, <1>3
      \* The members of S outside the subtree include p, and their parents
      \* are outside the subtree too: they were a cycle before the edit.
      <3>3. CASE t \in S /\ p \in S
        <4> DEFINE U == S \ B!Subtree(t)
        <4>1. p \in U /\ U \in SUBSET B!live
          BY <3>3, <2>1, <1>1, <1>2 DEF Forest, B!TypeOK
        <4>2. PICK i \in U : items[i].parent \notin U
          BY <4>1 DEF Forest, B!Hierarchy, B!Acyclic
        <4>3. items[i].parent \notin B!Subtree(t)
          BY <4>1, <4>2, <1>1, SubtreeFacts DEF B!ClosedDown
        <4>4. i # t
          BY <4>2, <1>1, SubtreeFacts
        <4> QED BY <4>1, <4>2, <4>3, <4>4, <1>1, <1>3
      <3> QED BY <3>1, <3>2, <3>3
    <2> QED BY <2>1 DEF B!Acyclic, B!live
  <1>6. B!ParentInProject' /\ B!SprintInherited'
    <2>1. ASSUME NEW i \in B!live', items'[i].parent # NULL
          PROVE  /\ items'[i].parent \in B!live'
                 /\ items'[items'[i].parent].project = items'[i].project
                 /\ items'[items'[i].parent].sprint = items'[i].sprint
      <3>1. CASE i = t
        BY <2>1, <3>1, <1>1, <1>2, <1>3, SubtreeFacts
      <3>2. CASE i # t
        <4>1. items'[i].parent = items[i].parent /\ items[i].parent \in B!live
          BY <2>1, <3>2, <1>1, <1>3 DEF Forest, B!Hierarchy, B!ParentInProject
        <4>2. items[i].parent \in B!Subtree(t) <=> i \in B!Subtree(t)
          BY <3>2, <4>1, <1>1, <2>1, SubtreeFacts, SubtreeGrownFromRoot DEF B!ClosedDown
        <4> QED BY <2>1, <4>1, <4>2, <1>1, <1>3
                DEF Forest, B!Hierarchy, B!ParentInProject, B!SprintInherited
      <3> QED BY <3>1, <3>2
    <2> QED BY <2>1, <1>4 DEF B!TypeOK, B!ParentInProject, B!SprintInherited, B!live
  <1> QED BY <1>4, <1>5, <1>6 DEF Forest, B!Hierarchy

LEMMA RemoveStep ==
  ASSUME Forest, NEW t \in TaskIds, B!Remove(t),
         NULL \notin TaskIds, NULL \notin Sprints
  PROVE  Forest'
  <1>1. /\ t \in B!live /\ B!live' = B!live \ B!Subtree(t)
        /\ items' = [i \in B!live \ B!Subtree(t) |-> items[i]]
        /\ \A i \in B!live' : i \in B!live /\ items'[i] = items[i]
    BY DEF B!Remove, B!live
  <1>2. B!TypeOK'
    BY <1>1 DEF Forest, B!TypeOK
  <1>3. B!Acyclic'
    <2>1. ASSUME NEW S \in SUBSET B!live', S # {}
          PROVE  \E i \in S : items'[i].parent \notin S
      BY <2>1, <1>1 DEF Forest, B!Hierarchy, B!Acyclic
    <2> QED BY <2>1 DEF B!Acyclic, B!live
  <1>4. B!ParentInProject' /\ B!SprintInherited'
    <2>1. ASSUME NEW i \in B!live', items'[i].parent # NULL
          PROVE  /\ items'[i].parent \in B!live'
                 /\ items'[items'[i].parent].project = items'[i].project
                 /\ items'[items'[i].parent].sprint = items'[i].sprint
      <3>1. items[i].parent \in B!live /\ items[i].parent \notin B!Subtree(t)
        BY <2>1, <1>1, SubtreeFacts DEF Forest, B!Hierarchy, B!ParentInProject, B!ClosedDown
      <3> QED BY <2>1, <3>1, <1>1 DEF Forest, B!Hierarchy, B!ParentInProject, B!SprintInherited
    <2> QED BY <2>1, <1>2 DEF B!TypeOK, B!ParentInProject, B!SprintInherited, B!live
  <1> QED BY <1>2, <1>3, <1>4 DEF Forest, B!Hierarchy

LEMMA ForestStep ==
  ASSUME NULL \notin TaskIds, NULL \notin Sprints, Forest, [B!Next]_items
  PROVE  Forest'
  <1>1. CASE B!Next
    BY <1>1, AddStep, EditStep, RemoveStep DEF B!Next
  <1>2. CASE UNCHANGED items
    BY <1>2 DEF Forest, B!TypeOK, B!Hierarchy, B!Acyclic, B!ParentInProject, B!SprintInherited, B!live
  <1> QED BY <1>1, <1>2

(* Whatever is added, edited and removed, no task is its own ancestor, a   *)
(* parent is of the same project and a subtask in the sprint of its parent.*)
THEOREM HierarchyKept == B!Spec => []B!Hierarchy
  <1>1. Forest /\ [B!Next]_items => Forest'
    BY NullFacts, ForestStep
  <1>2. B!Spec => []Forest
    BY ForestInit, <1>1, PTL DEF B!Spec
  <1>3. Forest => B!Hierarchy
    BY DEF Forest
  <1> QED BY <1>2, <1>3, PTL

-----------------------------------------------------------------------------
(* The local state of a handler. *)

LEMMA IdleTyped == Idle \in Request
  <1>1. 0 \in 0 .. MaxId
    BY MaxIdAssumption
  <1>2. [t \in TaskIds |-> 0] \in [TaskIds -> 0 .. MaxId]
    BY <1>1
  <1> QED BY <1>1, <1>2 DEF Idle, Request, OrNull

LEMMA IdleSound ==
  ASSUME NEW rows, NEW n
  PROVE  HandlerOK(Idle, rows, n)
  BY DEF Idle, HandlerOK, Editing, Checked

(* Going on after the checks keeps a handler's state sound. *)
LEMMA AfterValidationSound ==
  ASSUME NEW q \in Request, NEW rows, NEW n, HandlerOK(q, rows, n),
         q.pc \in {"parent", "walk"},
         q.pc = "parent" => q.parent = NULL
  PROVE  AfterValidation(q) \in Request /\ HandlerOK(AfterValidation(q), rows, n)
  <1>1. CASE AfterValidation(q) = Idle
    BY <1>1, IdleTyped, IdleSound
  <1>2. CASE q.op = "create" /\ AfterValidation(q) = [q EXCEPT !.pc = "insert"]
    <2>1. AfterValidation(q) \in Request
      BY <1>2 DEF Request
    <2> QED BY <1>2, <2>1 DEF Request, HandlerOK, Editing, Checked
  <1>3. CASE q.op = "update" /\ AfterValidation(q) = [q EXCEPT !.pc = "cascade", !.frontier = {q.task}]
    <2>1. {q.task} \in SUBSET TaskIds
      BY <1>3 DEF HandlerOK, Editing
    <2>2. AfterValidation(q) \in Request
      BY <1>3, <2>1 DEF Request
    <2> QED BY <1>3, <2>1, <2>2 DEF Request, HandlerOK, Editing, Checked
  <1>4. CASE q.op = "update" /\ AfterValidation(q) = [q EXCEPT !.pc = "update"]
    <2>1. AfterValidation(q) \in Request
      BY <1>4 DEF Request
    <2> QED BY <1>4, <2>1 DEF Request, HandlerOK, Editing, Checked
  <1>5. q.op \in {"create", "update"}
    BY DEF HandlerOK, Editing
  <1> QED BY <1>1, <1>2, <1>3, <1>4, <1>5 DEF AfterValidation

(* A commit of another request leaves a handler's state sound: rows keep   *)
(* their project, and the ones that appear have ids not handed out before. *)
LEMMA SoundAcrossCommit ==
  ASSUME NEW q \in Request, NEW rows, NEW rows2, NEW n \in Nat, NEW n2 \in Nat,
         HandlerOK(q, rows, n), n <= n2,
         \A t \in DOMAIN rows2 : \/ t \in DOMAIN rows /\ rows2[t].project = rows[t].project
                                 \/ ~(t < n)
  PROVE  HandlerOK(q, rows2, n2)
  <1>1. q.parent \in TaskIds \/ q.parent = NULL
    BY DEF Request, OrNull
  <1>2. q.parent \in TaskIds => q.parent \in Nat
    BY DEF TaskIds
  <1>3. q.task \in TaskIds => q.task \in Nat
    BY DEF TaskIds
  <1> QED BY <1>1, <1>2, <1>3 DEF HandlerOK, Checked, Editing

-----------------------------------------------------------------------------
(* A step that touches the local state of one handler only. *)
LEMMA LocalStep ==
  ASSUME IInv, NEW r \in Requests, NEW q \in Request,
         HandlerOK(q, items, nextId), Local(r, q)
  PROVE  IInv'
  <1>1. req' = [req EXCEPT ![r] = q] /\ items' = items /\ nextId' = nextId /\ activity' = activity
    BY DEF Local
  <1>2. TypeOK'
    BY <1>1 DEF IInv, TypeOK, live
  <1>3. HandlersSound'
    BY <1>1 DEF IInv, TypeOK, HandlersSound, live
  <1>4. ParentInProject'
    BY <1>1 DEF IInv, ParentInProject, B!ParentInProject, B!live
  <1> QED BY <1>2, <1>3, <1>4 DEF IInv

LEMMA FinishStep ==
  ASSUME IInv, NEW r \in Requests, Finish(r)
  PROVE  IInv'
  BY LocalStep, IdleTyped, IdleSound DEF Finish

-----------------------------------------------------------------------------
(* Arrivals and the statements that only read. *)

LEMMA ReqTyped ==
  ASSUME IInv, NEW r \in Requests
  PROVE  req[r] \in Request /\ HandlerOK(req[r], items, nextId)
  BY DEF IInv, TypeOK, HandlersSound

LEMMA RowTyped ==
  ASSUME IInv, NEW t \in live
  PROVE  /\ t \in TaskIds
         /\ t < nextId
         /\ items[t] \in Row
         /\ items[t].project \in Projects
         /\ items[t].parent \in OrNull(TaskIds)
         /\ items[t].sprint \in OrNull(Sprints)
  BY DEF IInv, TypeOK, HandlersSound, Row

LEMMA ChildrenTyped ==
  ASSUME IInv, NEW S
  PROVE  Children(S) \subseteq TaskIds
  BY RowTyped DEF Children

LEMMA ArriveStep ==
  ASSUME IInv, NEW r \in Requests, Arrive(r)
  PROVE  IInv'
  <1>1. ASSUME NEW pr \in Projects, NEW p \in OrNull(TaskIds), NEW s \in OrNull(Sprints),
               StartCreate(r, pr, p, s)
        PROVE  IInv'
    <2> DEFINE q == [Idle EXCEPT !.pc = "parent", !.op = "create", !.project = pr,
                                 !.parent = p, !.sprint = s]
    <2>1. q \in Request
      BY IdleTyped DEF Request, OrNull
    <2>2. HandlerOK(q, items, nextId)
      BY IdleTyped DEF HandlerOK, Request, Idle, Editing, Checked
    <2> QED BY <1>1, <2>1, <2>2, LocalStep DEF StartCreate
  <1>2. ASSUME NEW t \in TaskIds, NEW p \in OrNull(TaskIds), NEW s \in OrNull(Sprints),
               StartUpdate(r, t, p, s)
        PROVE  IInv'
    <2> DEFINE q == [Idle EXCEPT !.pc = "parent", !.op = "update", !.task = t,
                                 !.project = items[t].project, !.row = items[t],
                                 !.parent = p, !.sprint = s]
    <2>1. t \in live
      BY <1>2 DEF StartUpdate
    <2>2. q \in Request
      BY <2>1, RowTyped, IdleTyped DEF Request, OrNull
    <2>3. HandlerOK(q, items, nextId)
      BY <2>1, RowTyped, IdleTyped DEF HandlerOK, Request, Idle, Editing, Checked
    <2> QED BY <1>2, <2>2, <2>3, LocalStep DEF StartUpdate
  <1>3. ASSUME NEW t \in TaskIds, StartDelete(r, t)
        PROVE  IInv'
    <2> DEFINE q == [Idle EXCEPT !.pc = "descend", !.op = "delete", !.task = t,
                                 !.frontier = {t}]
    <2>1. {t} \in SUBSET TaskIds
      OBVIOUS
    <2>2. q \in Request
      BY <2>1, IdleTyped DEF Request, OrNull
    <2>3. HandlerOK(q, items, nextId)
      BY IdleTyped DEF HandlerOK, Request, Idle, Editing, Checked
    <2> QED BY <1>3, <2>2, <2>3, LocalStep DEF StartDelete
  <1> QED BY <1>1, <1>2, <1>3 DEF Arrive

LEMMA NoParentStep ==
  ASSUME IInv, NEW r \in Requests, NoParent(r)
  PROVE  IInv'
  <1>1. AfterValidation(req[r]) \in Request /\ HandlerOK(AfterValidation(req[r]), items, nextId)
    BY ReqTyped, AfterValidationSound DEF NoParent
  <1> QED BY <1>1, LocalStep DEF NoParent

LEMMA ReadParentStep ==
  ASSUME IInv, NEW r \in Requests, ReadParent(r)
  PROVE  IInv'
  <1> DEFINE q == [req[r] EXCEPT !.pc = "walk", !.above = items[req[r].parent],
                                 !.at = items[req[r].parent].parent]
  <1>1. req[r].parent \in live /\ items[req[r].parent].project = req[r].project
    BY DEF ReadParent, AcceptsParent
  <1>2. q \in Request
    <2>1. PICK o, p : o = req[r] /\ p = items[req[r].parent]
      OBVIOUS
    <2>2. o \in Request /\ p \in OrNull(Row) /\ p.parent \in OrNull(TaskIds)
      BY <1>1, <2>1, RowTyped, ReqTyped DEF OrNull, Row
    <2>3. [o EXCEPT !.pc = "walk", !.above = p, !.at = p.parent] \in Request
      BY <2>2 DEF Request
    <2> QED BY <2>1, <2>3
  <1>3. HandlerOK(q, items, nextId)
    BY <1>1, RowTyped, ReqTyped DEF ReadParent, HandlerOK, Request, Editing, Checked
  <1> QED BY <1>2, <1>3, LocalStep DEF ReadParent

LEMMA WalkUpStep ==
  ASSUME IInv, NEW r \in Requests, WalkUp(r)
  PROVE  IInv'
  <1> DEFINE p == IF req[r].at = req[r].parent THEN req[r].above.parent
                                               ELSE items[req[r].at].parent
             q == [req[r] EXCEPT !.at = p]
  <1>1. req[r].pc = "walk" /\ req[r].at \in live /\ Local(r, q)
    BY DEF WalkUp
  <1>2. req[r].above \in Row
    BY <1>1, ReqTyped DEF HandlerOK
  <1>3. p \in OrNull(TaskIds)
    BY <1>1, <1>2, RowTyped DEF Row
  <1>4. q \in Request
    BY <1>3, ReqTyped DEF Request
  <1>5. HandlerOK(q, items, nextId)
    BY ReqTyped DEF HandlerOK, Request, Editing, Checked
  <1> QED BY <1>1, <1>4, <1>5, LocalStep

LEMMA WalkDoneStep ==
  ASSUME IInv, NEW r \in Requests, WalkDone(r)
  PROVE  IInv'
  <1> DEFINE q == [req[r] EXCEPT !.at = NULL]
  <1>1. req[r].pc = "walk" /\ Local(r, AfterValidation(q))
    BY DEF WalkDone
  <1>2. q \in Request
    BY ReqTyped DEF Request, OrNull
  <1>3. HandlerOK(q, items, nextId)
    BY ReqTyped DEF HandlerOK, Request, Editing, Checked
  <1>4. q.pc = "walk"
    BY <1>1, ReqTyped DEF Request
  <1>5. AfterValidation(q) \in Request /\ HandlerOK(AfterValidation(q), items, nextId)
    BY <1>2, <1>3, <1>4, AfterValidationSound
  <1> QED BY <1>1, <1>5, LocalStep

LEMMA DescendedSound ==
  ASSUME IInv, NEW r \in Requests, req[r].pc \in {"cascade", "descend"}
  PROVE  Descended(req[r]) \in Request /\ HandlerOK(Descended(req[r]), items, nextId)
  <1> DEFINE next  == Children(req[r].frontier)
             depth == IF req[r].level < MaxId THEN req[r].level + 1 ELSE MaxId
             found == [t \in TaskIds |-> IF t \in next THEN depth ELSE req[r].found[t]]
  <1>1. req[r] \in Request
    BY ReqTyped
  <1>2. next \in SUBSET TaskIds
    BY ChildrenTyped
  <1>3. depth \in 0 .. MaxId
    BY <1>1, MaxIdAssumption DEF Request
  <1>4. \A t \in TaskIds : req[r].found[t] \in 0 .. MaxId
    BY <1>1 DEF Request
  <1>5. found \in [TaskIds -> 0 .. MaxId]
    BY <1>3, <1>4
  <1>6. Descended(req[r]) = [req[r] EXCEPT !.frontier = next, !.level = depth, !.found = found]
    BY DEF Descended
  <1> HIDE DEF next, depth, found
  <1>7. Descended(req[r]) \in Request
    BY <1>1, <1>2, <1>3, <1>5, <1>6 DEF Request
  <1>8. HandlerOK(Descended(req[r]), items, nextId)
    BY <1>1, <1>6, ReqTyped DEF HandlerOK, Request, Editing, Checked
  <1> QED BY <1>7, <1>8

LEMMA CascadeStep ==
  ASSUME IInv, NEW r \in Requests, CascadeLevel(r) \/ CascadeDone(r)
  PROVE  IInv'
  <1>1. CASE CascadeLevel(r)
    <2> DEFINE d == Descended(req[r])
               D == req[r].differing \cup NewlyDiffering(req[r])
    <2>1. d \in Request /\ HandlerOK(d, items, nextId)
      BY <1>1, DescendedSound DEF CascadeLevel
    <2>2. D \in SUBSET TaskIds
      BY ReqTyped, ChildrenTyped DEF NewlyDiffering, Request
    <2>3. Local(r, [d EXCEPT !.differing = D])
      BY <1>1 DEF CascadeLevel
    <2> HIDE DEF d, D
    <2>4. [d EXCEPT !.differing = D] \in Request
      BY <2>1, <2>2 DEF Request
    <2>5. HandlerOK([d EXCEPT !.differing = D], items, nextId)
      BY <2>1 DEF HandlerOK, Request, Editing, Checked
    <2> QED BY <2>3, <2>4, <2>5, LocalStep
  <1>2. CASE CascadeDone(r)
    <2> DEFINE q == [req[r] EXCEPT !.pc = "update", !.frontier = {}]
    <2>1. q \in Request
      BY ReqTyped DEF Request
    <2>2. HandlerOK(q, items, nextId)
      BY <1>2, ReqTyped DEF CascadeDone, HandlerOK, Request, Editing, Checked
    <2> QED BY <1>2, <2>1, <2>2, LocalStep DEF CascadeDone
  <1> QED BY <1>1, <1>2

LEMMA DescendStep ==
  ASSUME IInv, NEW r \in Requests, DescendLevel(r) \/ DescendDone(r)
  PROVE  IInv'
  <1>1. CASE DescendLevel(r)
    BY <1>1, DescendedSound, LocalStep DEF DescendLevel
  <1>2. CASE DescendDone(r)
    <2> DEFINE q == [req[r] EXCEPT !.pc = "delete", !.frontier = {}]
    <2>1. q \in Request
      BY ReqTyped DEF Request
    <2>2. HandlerOK(q, items, nextId)
      BY <1>2, ReqTyped DEF DescendDone, HandlerOK, Request, Editing, Checked
    <2> QED BY <1>2, <2>1, <2>2, LocalStep DEF DescendDone
  <1> QED BY <1>1, <1>2

LEMMA RefreshStep ==
  ASSUME IInv, NEW r \in Requests, Refresh(r)
  PROVE  IInv'
  <1> DEFINE q == [req[r] EXCEPT !.pc = "audit"]
  <1>1. q \in Request
    BY ReqTyped DEF Request
  <1>2. HandlerOK(q, items, nextId)
    BY ReqTyped DEF Refresh, HandlerOK, Request, Editing, Checked
  <1> QED BY <1>1, <1>2, LocalStep, IdleTyped, IdleSound DEF Refresh

LEMMA LogActivityStep ==
  ASSUME IInv, NEW r \in Requests, NEW e \in req[r].owed, LogActivity(r, e)
  PROVE  IInv'
  <1> DEFINE rest == req[r].owed \ {e}
             q == IF rest = {} THEN Idle ELSE [req[r] EXCEPT !.owed = rest]
  <1>1. req[r].owed \subseteq Entry
    BY ReqTyped DEF Request
  <1>2. q \in Request
    BY <1>1, ReqTyped, IdleTyped DEF Request
  <1>3. HandlerOK(q, items, nextId)
    BY ReqTyped, IdleSound DEF LogActivity, HandlerOK, Request, Editing, Checked
  <1>4. req' = [req EXCEPT ![r] = q] /\ items' = items /\ nextId' = nextId
    BY DEF LogActivity
  <1>5. activity' \subseteq Entry
    BY <1>1 DEF LogActivity, IInv, TypeOK
  <1> HIDE DEF q
  <1>6. TypeOK'
    BY <1>2, <1>4, <1>5 DEF IInv, TypeOK, live
  <1>7. HandlersSound'
    BY <1>3, <1>4 DEF IInv, TypeOK, HandlersSound, live
  <1>8. ParentInProject'
    BY <1>4 DEF IInv, ParentInProject, B!ParentInProject, B!live
  <1> QED BY <1>6, <1>7, <1>8 DEF IInv

-----------------------------------------------------------------------------
(* The commits. *)

(* A commit that keeps the project of every row and gives new rows fresh   *)
(* ids leaves the other handlers sound.                                    *)
LEMMA CommitStep ==
  ASSUME IInv, NEW r \in Requests, NEW q \in Request,
         req' = [req EXCEPT ![r] = q], HandlerOK(q, items', nextId'),
         nextId' \in 1 .. MaxId + 1, nextId <= nextId', activity' = activity,
         live' \subseteq TaskIds, items' \in [live' -> Row],
         \A t \in live' : t < nextId',
         \A t \in live' : \/ t \in live /\ items'[t].project = items[t].project
                         \/ ~(t < nextId),
         ParentInProject'
  PROVE  IInv'
  <1>1. TypeOK'
    BY DEF IInv, TypeOK
  <1>2. ASSUME NEW x \in Requests
        PROVE  HandlerOK(req'[x], items', nextId')
    <2>1. CASE x = r
      BY <2>1 DEF IInv, TypeOK
    <2>2. CASE x # r
      <3>1. req'[x] = req[x]
        BY <2>2 DEF IInv, TypeOK
      <3>2. nextId \in Nat /\ nextId' \in Nat
        BY MaxIdAssumption DEF IInv, TypeOK
      <3> QED BY <3>1, <3>2, ReqTyped, SoundAcrossCommit DEF live
    <2> QED BY <2>1, <2>2
  <1>3. HandlersSound'
    BY <1>2 DEF HandlersSound
  <1> QED BY <1>1, <1>3 DEF IInv

LEMMA InsertStep ==
  ASSUME IInv, NEW r \in Requests, Insert(r)
  PROVE  IInv'
  <1>1. PICK q : q = req[r]
    OBVIOUS
  <1>2. /\ q.pc = "insert" /\ nextId <= MaxId /\ nextId' = nextId + 1
        /\ UNCHANGED activity
    BY <1>1 DEF Insert
  <1>3. /\ nextId \in TaskIds /\ nextId \in Nat
        /\ nextId' \in 1 .. MaxId + 1 /\ nextId <= nextId' /\ nextId < nextId'
    BY <1>2, MaxIdAssumption DEF IInv, TypeOK, TaskIds
  <1>4. q \in Request /\ q.project \in Projects /\ q.parent \in OrNull(TaskIds)
        /\ q.sprint \in OrNull(Sprints)
    BY <1>1, <1>2, ReqTyped DEF HandlerOK, Editing, Request
  <1>5. \A t \in live : t \in Nat /\ t < nextId' /\ t # nextId
    BY <1>3, RowTyped DEF TaskIds
  <1>6. CASE ParentStands(q.parent)
    <2> DEFINE new == [project |-> q.project, parent |-> q.parent, sprint |-> q.sprint]
               z == [Idle EXCEPT !.pc = "refresh", !.op = "create", !.task = nextId,
                                 !.owed = {[action |-> "CREATE_TASK", task |-> nextId]}]
    <2>1. /\ items' = [t \in live \cup {nextId} |-> IF t = nextId THEN new ELSE items[t]]
          /\ req' = [req EXCEPT ![r] = z]
      BY <1>1, <1>6 DEF Insert
    <2>2. z \in Request
      <3>1. {[action |-> "CREATE_TASK", task |-> nextId]} \in SUBSET Entry
        BY <1>3 DEF Entry
      <3> QED BY <1>3, <3>1, IdleTyped DEF Request, OrNull
    <2>3. HandlerOK(z, items', nextId')
      BY <1>3, IdleTyped DEF HandlerOK, Request, Idle, Editing, Checked
    <2>4. new \in Row
      BY <1>4 DEF Row
    <2> HIDE DEF new, z
    <2>5. live' = live \cup {nextId} /\ live' \subseteq TaskIds
      BY <2>1, <1>3, RowTyped DEF live
    <2>6. items' \in [live' -> Row]
      BY <2>1, <2>4, <2>5, RowTyped
    <2>7. \A t \in live' : t < nextId'
      BY <2>5, <1>3, <1>5
    <2>8. \A t \in live' : \/ t \in live /\ items'[t].project = items[t].project
                           \/ ~(t < nextId)
      BY <2>1, <2>5, <1>3, <1>5
    <2>9. ParentInProject'
      <3>1. q.parent # NULL => q.parent \in live /\ items[q.parent].project = q.project
        BY <1>1, <1>2, <1>6, ReqTyped DEF ParentStands, HandlerOK, Checked, live
      <3>2. new.parent = q.parent /\ new.project = q.project
        BY DEF new
      <3>3. \A t \in live : items'[t] = items[t]
        BY <2>1, <1>5
      <3>4. items'[nextId] = new
        BY <2>1
      <3>5. ASSUME NEW t \in live', items'[t].parent # NULL
            PROVE  /\ items'[t].parent \in live'
                   /\ items'[items'[t].parent].project = items'[t].project
        <4>1. CASE t = nextId
          BY <4>1, <3>1, <3>2, <3>3, <3>4, <3>5, <2>5
        <4>2. CASE t \in live
          BY <4>2, <3>3, <3>5, <2>5 DEF IInv, ParentInProject, B!ParentInProject, B!live, live
        <4> QED BY <4>1, <4>2, <2>5
      <3> QED BY <3>5 DEF ParentInProject, B!ParentInProject, B!live, live
    <2> QED BY <1>2, <1>3, <2>1, <2>2, <2>3, <2>5, <2>6, <2>7, <2>8, <2>9, CommitStep
  <1>7. CASE ~ParentStands(q.parent)
    <2>1. items' = items /\ req' = [req EXCEPT ![r] = Idle]
      BY <1>1, <1>7 DEF Insert
    <2>2. live' = live /\ ParentInProject' /\ live' \subseteq TaskIds /\ items' \in [live' -> Row]
      BY <2>1 DEF IInv, TypeOK, live, ParentInProject, B!ParentInProject, B!live
    <2>3. \A t \in live' : t < nextId'
      BY <2>2, <1>5
    <2>4. \A t \in live' : \/ t \in live /\ items'[t].project = items[t].project
                           \/ ~(t < nextId)
      BY <2>1, <2>2
    <2> QED BY <1>2, <1>3, <2>1, <2>2, <2>3, <2>4, IdleTyped, IdleSound, CommitStep
  <1> QED BY <1>6, <1>7

LEMMA UpdateStep ==
  ASSUME IInv, NEW r \in Requests, Update(r)
  PROVE  IInv'
  <1>1. PICK q : q = req[r]
    OBVIOUS
  <1> DEFINE owed == {[action |-> "UPDATE_FIELD", task |-> t] : t \in {q.task} \cup q.differing}
             z == [Idle EXCEPT !.pc = "refresh", !.op = "update", !.task = q.task, !.owed = owed]
  <1>2. /\ q.pc = "update" /\ UpdateCommits(q)
        /\ items' = [i \in live |-> Written(q, i)]
        /\ req' = [req EXCEPT ![r] = z]
        /\ UNCHANGED <<nextId, activity>>
    BY <1>1 DEF Update
  <1>3. q \in Request /\ HandlerOK(q, items, nextId)
    BY <1>1, ReqTyped
  <1>4. /\ q.op = "update" /\ q.task \in TaskIds /\ q.row \in Row /\ q.task \in live
        /\ items[q.task].project = q.project
        /\ q.parent \in OrNull(TaskIds) /\ q.sprint \in OrNull(Sprints)
        /\ q.differing \subseteq TaskIds
    BY <1>2, <1>3 DEF HandlerOK, Editing, UpdateCommits, Request, live
  <1>5. z \in Request
    <2>1. owed \in SUBSET Entry
      BY <1>4 DEF Entry
    <2> QED BY <1>4, <2>1, IdleTyped DEF Request, OrNull
  <1>6. HandlerOK(z, items', nextId')
    BY <1>4, IdleTyped DEF HandlerOK, Request, Idle, Editing, Checked
  <1> HIDE DEF z, owed
  <1>7. live' = live
    BY <1>2 DEF live
  <1>8. ASSUME NEW i \in live
        PROVE  /\ items'[i] = Written(q, i)
               /\ Written(q, i) \in Row
               /\ Written(q, i).project = items[i].project
               /\ \/ Written(q, i).parent = items[i].parent
                  \/ i = q.task /\ q.parent # q.row.parent /\ Written(q, i).parent = q.parent
    BY <1>2, <1>4, RowTyped DEF Written, Row
  <1>9. items' \in [live' -> Row] /\ live' \subseteq TaskIds
    BY <1>2, <1>7, <1>8, RowTyped
  <1>10. \A t \in live' : /\ t < nextId'
                          /\ t \in live /\ items'[t].project = items[t].project
    BY <1>2, <1>7, <1>8, RowTyped
  <1>11. ParentInProject'
    <2>1. ASSUME NEW t \in live', items'[t].parent # NULL
          PROVE  /\ items'[t].parent \in live'
                 /\ items'[items'[t].parent].project = items'[t].project
      <3>1. CASE items'[t].parent = items[t].parent
        BY <2>1, <3>1, <1>7, <1>8, <1>10 DEF IInv, ParentInProject, B!ParentInProject, B!live, live
      <3>2. CASE t = q.task /\ q.parent # q.row.parent /\ items'[t].parent = q.parent
        <4>1. q.parent \in live /\ items[q.parent].project = q.project
          BY <2>1, <3>2, <1>2, <1>3 DEF UpdateCommits, ParentStands, HandlerOK, Checked, live
        <4> QED BY <4>1, <3>2, <1>4, <1>7, <1>10
      <3> QED BY <3>1, <3>2, <1>7, <1>8
    <2> QED BY <2>1 DEF ParentInProject, B!ParentInProject, B!live, live
  <1>12. nextId' \in 1 .. MaxId + 1 /\ nextId <= nextId'
    BY <1>2, MaxIdAssumption DEF IInv, TypeOK
  <1> QED BY <1>2, <1>5, <1>6, <1>9, <1>10, <1>11, <1>12, CommitStep

LEMMA DeleteStep ==
  ASSUME IInv, NEW r \in Requests, Delete(r)
  PROVE  IInv'
  <1>1. PICK q : q = req[r]
    OBVIOUS
  <1> DEFINE z == [Idle EXCEPT !.pc = "audit", !.op = "delete", !.task = q.task,
                               !.owed = DeletedEntries(q)]
  <1>2. /\ q.pc = "delete" /\ DeleteCommits(q)
        /\ items' = [i \in live \ Doomed(q) |-> items[i]]
        /\ req' = [req EXCEPT ![r] = z]
        /\ UNCHANGED <<nextId, activity>>
    BY <1>1 DEF Delete
  <1>3. q \in Request /\ q.task \in TaskIds
    BY <1>1, <1>2, ReqTyped DEF HandlerOK
  <1>4. z \in Request
    <2>1. Doomed(q) \subseteq TaskIds
      BY <1>3 DEF Doomed, Seen
    <2>2. DeletedEntries(q) \in SUBSET Entry
      BY <2>1 DEF DeletedEntries, Entry
    <2>3. PICK i, d, t : i = Idle /\ d = DeletedEntries(q) /\ t = q.task
      OBVIOUS
    <2>4. i \in Request /\ d \in SUBSET Entry /\ t \in OrNull(TaskIds)
      BY <1>3, <2>2, <2>3, IdleTyped DEF OrNull
    <2>5. [i EXCEPT !.pc = "audit", !.op = "delete", !.task = t, !.owed = d] \in Request
      BY <2>4 DEF Request
    <2> QED BY <2>3, <2>5
  <1>5. HandlerOK(z, items', nextId')
    BY <1>3, IdleTyped DEF HandlerOK, Request, Idle, Editing, Checked
  <1> HIDE DEF z
  <1>6. live' = live \ Doomed(q) /\ \A t \in live' : t \in live /\ items'[t] = items[t]
    BY <1>2 DEF live
  <1>7. items' \in [live' -> Row] /\ live' \subseteq TaskIds
    BY <1>2, <1>6, RowTyped
  <1>8. \A t \in live' : /\ t < nextId'
                         /\ t \in live /\ items'[t].project = items[t].project
    BY <1>2, <1>6, RowTyped
  <1>9. ParentInProject'
    <2>1. ASSUME NEW t \in live', items'[t].parent # NULL
          PROVE  /\ items'[t].parent \in live'
                 /\ items'[items'[t].parent].project = items'[t].project
      <3>1. /\ items[t].parent \in live
            /\ items[items[t].parent].project = items[t].project
        BY <2>1, <1>6 DEF IInv, ParentInProject, B!ParentInProject, B!live, live
      <3>2. items[t].parent \notin Doomed(q)
        BY <2>1, <1>2, <1>6 DEF DeleteCommits, Children
      <3> QED BY <3>1, <3>2, <1>6
    <2> QED BY <2>1 DEF ParentInProject, B!ParentInProject, B!live, live
  <1>10. nextId' \in 1 .. MaxId + 1 /\ nextId <= nextId'
    BY <1>2, MaxIdAssumption DEF IInv, TypeOK
  <1> QED BY <1>2, <1>4, <1>5, <1>7, <1>8, <1>9, <1>10, CommitStep

-----------------------------------------------------------------------------
LEMMA InitIInv == Init => IInv
  <1> SUFFICES ASSUME Init PROVE IInv
    OBVIOUS
  <1>1. live = {}
    BY DEF Init, live
  <1>2. TypeOK
    BY <1>1, IdleTyped, MaxIdAssumption DEF Init, TypeOK, live
  <1>3. HandlersSound
    BY <1>1, IdleSound DEF Init, HandlersSound
  <1>4. ParentInProject
    BY <1>1 DEF ParentInProject, B!ParentInProject, B!live, live
  <1> QED BY <1>2, <1>3, <1>4 DEF IInv

LEMMA ProceedStep ==
  ASSUME IInv, NEW r \in Requests, Proceed(r)
  PROVE  IInv'
  <1>1. CASE NoParent(r) \/ ReadParent(r) \/ WalkUp(r) \/ WalkDone(r)
    BY <1>1, NoParentStep, ReadParentStep, WalkUpStep, WalkDoneStep
  <1>2. CASE RefuseParent(r) \/ RefuseCycle(r) \/ NoMoreIds(r) \/ FailUpdate(r) \/ FailDelete(r)
    BY <1>2, FinishStep DEF RefuseParent, RefuseCycle, NoMoreIds, FailUpdate, FailDelete
  <1>3. CASE CascadeLevel(r) \/ CascadeDone(r) \/ DescendLevel(r) \/ DescendDone(r)
    BY <1>3, CascadeStep, DescendStep
  <1>4. CASE Insert(r) \/ Update(r) \/ Delete(r)
    BY <1>4, InsertStep, UpdateStep, DeleteStep
  <1>5. CASE Refresh(r) \/ \E e \in req[r].owed : LogActivity(r, e)
    BY <1>5, RefreshStep, LogActivityStep
  <1> QED BY <1>1, <1>2, <1>3, <1>4, <1>5 DEF Proceed

LEMMA NextIInv == IInv /\ [Next]_vars => IInv'
  <1> SUFFICES ASSUME IInv, [Next]_vars PROVE IInv'
    OBVIOUS
  <1>1. CASE Next
    <2>1. PICK r \in Requests : Arrive(r) \/ Proceed(r) \/ Abort(r)
      BY <1>1 DEF Next
    <2> QED BY <2>1, ArriveStep, ProceedStep, FinishStep DEF Abort
  <1>2. CASE UNCHANGED vars
    BY <1>2 DEF vars, IInv, TypeOK, HandlersSound, ParentInProject, B!ParentInProject, B!live, live
  <1> QED BY <1>1, <1>2

THEOREM IInvHolds == Spec => []IInv
  BY InitIInv, NextIInv, PTL DEF Spec

(* The table, the sequence, the audit log and the handlers keep their      *)
(* types, for every number of ids and of concurrent requests.              *)
THEOREM TypeCorrect == Spec => []TypeOK
  <1>1. IInv => TypeOK
    BY DEF IInv
  <1> QED BY <1>1, IInvHolds, PTL

(* The parent of a task exists and is of its project, however requests     *)
(* interleave and wherever they die.                                       *)
THEOREM ParentAlwaysInProject == Spec => []ParentInProject
  <1>1. IInv => ParentInProject
    BY DEF IInv
  <1> QED BY <1>1, IInvHolds, PTL

(* What a handler read and checked stays true until its commit, or its row *)
(* is gone.                                                                *)
THEOREM HandlersStaySound == Spec => []HandlersSound
  <1>1. IInv => HandlersSound
    BY DEF IInv
  <1> QED BY <1>1, IInvHolds, PTL

-----------------------------------------------------------------------------
(* One request at a time.  What the handler has read is what is there      *)
(* until its own commit: the loaded row, the parent it checked, and the    *)
(* part of the subtree its SELECTs have reached.                           *)
Serial(r0) == Requests = {r0}

(* The subtree of t in a table: Backlog's Subtree, of any table. *)
Below(rows, t) ==
    {d \in DOMAIN rows :
        \A S \in SUBSET DOMAIN rows :
            t \in S /\ (\A c \in DOMAIN rows : rows[c].parent \in S => c \in S) => d \in S}

(* The descent has found descendants only, and every child of what it has  *)
(* asked about.                                                            *)
Descent(q, rows) ==
    /\ q.task \in DOMAIN rows
    /\ q.frontier \subseteq Doomed(q)
    /\ Doomed(q) \subseteq Below(rows, q.task)
    /\ \A c \in DOMAIN rows : rows[c].parent \in Doomed(q) \ q.frontier => c \in Seen(q)

AsRead(q, rows) ==
    /\ q.pc \in {"parent", "walk"} => Seen(q) = {} /\ q.differing = {}
    /\ q.pc \in Editing /\ q.op = "update" => q.task \in DOMAIN rows /\ q.row = rows[q.task]
    /\ q.pc \in Checked /\ q.parent # NULL => q.parent \in DOMAIN rows
    /\ q.pc = "walk" => q.above = rows[q.parent]
    \* The walk up has not left the subtree if the parent is in it.
    /\ q.pc \in Checked /\ q.op = "update" /\ q.parent \in Below(rows, q.task) =>
          q.pc = "walk" /\ q.at \in Below(rows, q.task)
    /\ q.pc \in Checked \ {"walk"} /\ q.parent # NULL => rows[q.parent].sprint = q.sprint
    /\ q.pc = "cascade" =>
          /\ Descent(q, rows)
          /\ q.differing = {c \in Seen(q) \ {q.task, q.parent} : rows[c].sprint # q.sprint}
    /\ q.pc = "update" =>
          q.differing = {c \in Below(rows, q.task) \ {q.task} : rows[c].sprint # q.sprint}
    /\ q.pc = "descend" => Descent(q, rows)
    /\ q.pc = "delete" => q.task \in DOMAIN rows /\ Doomed(q) = Below(rows, q.task)
    /\ q.pc = "refresh" => q.task \in DOMAIN rows

SerialInv == IInv /\ Forest /\ \A r \in Requests : AsRead(req[r], items)

LEMMA BelowIsSubtree ==
  ASSUME NEW t
  PROVE  Below(items, t) = B!Subtree(t)
  BY DEF Below, B!Subtree, B!live, B!ClosedDown

(* The subtree in a table of the forest, in terms of the table. *)
LEMMA BelowFacts ==
  ASSUME Forest, NEW t \in live
  PROVE  /\ t \in Below(items, t)
         /\ Below(items, t) \subseteq live
         /\ \A c \in live : items[c].parent \in Below(items, t) => c \in Below(items, t)
         /\ \A d \in Below(items, t) : d # t => items[d].parent \in Below(items, t)
  BY BelowIsSubtree, SubtreeFacts, SubtreeGrownFromRoot DEF live, B!live, B!ClosedDown

(* The task itself hangs outside its subtree: a parent inside would close  *)
(* a cycle.                                                                *)
LEMMA RootHangsOutside ==
  ASSUME Forest, NEW t \in live
  PROVE  items[t].parent \notin Below(items, t)
  <1> SUFFICES ASSUME items[t].parent \in Below(items, t) PROVE FALSE
    OBVIOUS
  <1>1. Below(items, t) \in SUBSET B!live /\ Below(items, t) # {}
    BY BelowFacts DEF live, B!live
  <1>2. \A d \in Below(items, t) : items[d].parent \in Below(items, t)
    BY BelowFacts
  <1> QED BY <1>1, <1>2 DEF Forest, B!Hierarchy, B!Acyclic

(* A subtree is in one sprint. *)
LEMMA SprintOfSubtree ==
  ASSUME Forest, NEW t \in live, NEW d \in Below(items, t)
  PROVE  items[d].sprint = items[t].sprint
  <1> DEFINE S == {c \in live : items[c].sprint = items[t].sprint}
  <1>1. S \in SUBSET DOMAIN items /\ t \in S
    BY DEF live
  <1>2. \A c \in DOMAIN items : items[c].parent \in S => c \in S
    BY DEF Forest, B!Hierarchy, B!SprintInherited, B!live, live
  <1>3. d \in S
    BY <1>1, <1>2 DEF Below
  <1> QED BY <1>3

LEMMA IdleAsRead ==
  ASSUME NEW rows
  PROVE  AsRead(Idle, rows)
  <1>1. Idle.pc = "idle"
    BY DEF Idle
  <1> QED BY <1>1 DEF AsRead, Editing, Checked

LEMMA AfterValidationAsRead ==
  ASSUME IInv, Forest, NEW q \in Request, HandlerOK(q, items, nextId), AsRead(q, items),
         q.pc \in {"parent", "walk"},
         q.pc = "parent" => q.parent = NULL,
         q.op = "update" => q.parent \notin Below(items, q.task)
  PROVE  AsRead(AfterValidation(q), items)
  <1>1. q.op \in {"create", "update"} /\ Seen(q) = {} /\ q.differing = {}
    BY DEF HandlerOK, Editing, AsRead
  <1>2. q.op = "update" => q.task \in live /\ q.row = items[q.task]
    BY DEF AsRead, Editing, live
  <1>3. q.parent # NULL => q.parent \in DOMAIN items /\ q.above = items[q.parent]
    BY DEF AsRead, Checked
  <1>4. CASE AfterValidation(q) = Idle
    BY <1>4, IdleAsRead
  <1>5. ASSUME SprintMatches(q), NEW z, z = [q EXCEPT !.pc = "insert"], q.op = "create"
        PROVE  AsRead(z, items)
    <2>1. z.pc = "insert" /\ z.op = "create" /\ z.parent = q.parent /\ z.sprint = q.sprint
      BY <1>5 DEF Request
    <2> QED BY <1>3, <1>5, <2>1 DEF AsRead, Editing, Checked, SprintMatches
  <1>6. ASSUME SprintMatches(q), q.op = "update", NEW z,
               z = [q EXCEPT !.pc = "cascade", !.frontier = {q.task}]
        PROVE  AsRead(z, items)
    <2>1. /\ z.pc = "cascade" /\ z.op = "update" /\ z.parent = q.parent /\ z.sprint = q.sprint
          /\ z.task = q.task /\ z.row = q.row /\ z.frontier = {q.task}
          /\ z.found = q.found /\ z.differing = q.differing
      BY <1>6 DEF Request
    <2>2. Seen(z) = {} /\ Doomed(z) = {q.task}
      BY <1>1, <2>1 DEF Seen, Doomed
    <2>3. Descent(z, items)
      BY <1>2, <1>6, <2>1, <2>2, BelowFacts DEF Descent, live
    <2> QED BY <1>1, <1>2, <1>3, <1>6, <2>1, <2>2, <2>3
            DEF AsRead, Editing, Checked, SprintMatches, live
  <1>7. ASSUME SprintMatches(q), q.op = "update", NEW z, z = [q EXCEPT !.pc = "update"],
               q.sprint = q.row.sprint
        PROVE  AsRead(z, items)
    <2>1. /\ z.pc = "update" /\ z.op = "update" /\ z.parent = q.parent /\ z.sprint = q.sprint
          /\ z.task = q.task /\ z.row = q.row /\ z.differing = {}
      BY <1>1, <1>7 DEF Request
    <2>2. {c \in Below(items, z.task) \ {z.task} : items[c].sprint # z.sprint} = {}
      BY <1>2, <1>7, <2>1, SprintOfSubtree
    <2> QED BY <1>2, <1>3, <1>7, <2>1, <2>2
            DEF AsRead, Editing, Checked, SprintMatches, live
  <1> QED BY <1>1, <1>4, <1>5, <1>6, <1>7 DEF AfterValidation

(* What the request of slot r holds after a statement that only reads. *)
ReadsOn(r) == \E q : Local(r, q) /\ AsRead(q, items)

LEMMA SerialFacts ==
  ASSUME SerialInv, NEW r \in Requests
  PROVE  /\ req[r] \in Request /\ HandlerOK(req[r], items, nextId) /\ AsRead(req[r], items)
         /\ IInv /\ Forest
  BY ReqTyped DEF SerialInv

LEMMA NotBelow ==
  ASSUME IInv, Forest, NEW t \in live
  PROVE  NULL \notin Below(items, t)
  BY BelowFacts, RowTyped, NullFacts

LEMMA ArriveReads ==
  ASSUME SerialInv, NEW r \in Requests, Arrive(r)
  PROVE  ReadsOn(r)
  <1>1. \A t \in TaskIds : Idle.found[t] = 0
    BY DEF Idle
  <1>2. Seen(Idle) = {}
    BY <1>1 DEF Seen
  <1>3. ASSUME NEW pr \in Projects, NEW p \in OrNull(TaskIds), NEW s \in OrNull(Sprints),
               StartCreate(r, pr, p, s)
        PROVE  ReadsOn(r)
    <2>1. PICK q : q = [Idle EXCEPT !.pc = "parent", !.op = "create", !.project = pr,
                                    !.parent = p, !.sprint = s]
      OBVIOUS
    <2>2. q.pc = "parent" /\ q.op = "create" /\ q.found = Idle.found /\ q.differing = {}
      BY <2>1 DEF Idle
    <2>3. Seen(q) = {}
      BY <1>2, <2>2 DEF Seen
    <2>4. AsRead(q, items)
      BY <2>2, <2>3 DEF AsRead, Editing, Checked
    <2> QED BY <1>3, <2>1, <2>4 DEF StartCreate, ReadsOn
  <1>4. ASSUME NEW t \in TaskIds, NEW p \in OrNull(TaskIds), NEW s \in OrNull(Sprints),
               StartUpdate(r, t, p, s)
        PROVE  ReadsOn(r)
    <2>1. PICK q : q = [Idle EXCEPT !.pc = "parent", !.op = "update", !.task = t,
                                    !.project = items[t].project, !.row = items[t],
                                    !.parent = p, !.sprint = s]
      OBVIOUS
    <2>2. /\ q.pc = "parent" /\ q.op = "update" /\ q.found = Idle.found /\ q.differing = {}
          /\ q.task = t /\ q.row = items[t]
      BY <2>1 DEF Idle
    <2>3. Seen(q) = {} /\ t \in DOMAIN items
      BY <1>2, <1>4, <2>2 DEF Seen, StartUpdate, live
    <2>4. AsRead(q, items)
      BY <2>2, <2>3 DEF AsRead, Editing, Checked
    <2> QED BY <1>4, <2>1, <2>4 DEF StartUpdate, ReadsOn
  <1>5. ASSUME NEW t \in TaskIds, StartDelete(r, t)
        PROVE  ReadsOn(r)
    <2>1. PICK q : q = [Idle EXCEPT !.pc = "descend", !.op = "delete", !.task = t,
                                    !.frontier = {t}]
      OBVIOUS
    <2>2. q.pc = "descend" /\ q.found = Idle.found /\ q.task = t /\ q.frontier = {t}
      BY <2>1 DEF Idle
    <2>3. Seen(q) = {} /\ Doomed(q) = {t} /\ t \in live
      BY <1>2, <1>5, <2>2 DEF Seen, Doomed, StartDelete
    <2>4. Descent(q, items)
      BY <2>2, <2>3, BelowFacts, SerialFacts DEF Descent, live
    <2>5. AsRead(q, items)
      BY <2>2, <2>4 DEF AsRead, Editing, Checked
    <2> QED BY <1>5, <2>1, <2>5 DEF StartDelete, ReadsOn
  <1> QED BY <1>3, <1>4, <1>5 DEF Arrive

LEMMA FinishReads ==
  ASSUME NEW r, Finish(r)
  PROVE  ReadsOn(r)
  BY IdleAsRead DEF Finish, ReadsOn

(* The walk up from the requested parent: it ends outside the subtree.     *)
LEMMA ParentReads ==
  ASSUME SerialInv, NEW r \in Requests,
         NoParent(r) \/ ReadParent(r) \/ WalkUp(r) \/ WalkDone(r)
  PROVE  ReadsOn(r)
  <1>1. PICK o : o = req[r]
    OBVIOUS
  <1>2. /\ o \in Request /\ HandlerOK(o, items, nextId) /\ AsRead(o, items) /\ IInv /\ Forest
    BY <1>1, SerialFacts
  <1>3. o.pc \in Editing /\ o.op = "update" => o.task \in live
    BY <1>2 DEF AsRead, live
  <1>4. CASE NoParent(r)
    <2>1. o.pc = "parent" /\ o.parent = NULL /\ Local(r, AfterValidation(o))
      BY <1>1, <1>4 DEF NoParent
    <2>2. o.op = "update" => o.parent \notin Below(items, o.task)
      BY <1>2, <1>3, <2>1, NotBelow DEF Editing
    <2>3. AsRead(AfterValidation(o), items)
      BY <1>2, <2>1, <2>2, AfterValidationAsRead
    <2> QED BY <2>1, <2>3 DEF ReadsOn
  <1>5. CASE ReadParent(r)
    <2>1. PICK p, q : p = items[o.parent] /\ q = [o EXCEPT !.pc = "walk", !.above = p, !.at = p.parent]
      OBVIOUS
    <2>2. /\ o.pc = "parent" /\ o.parent # NULL /\ o.parent \in live /\ o.parent # o.task
          /\ Local(r, q)
      BY <1>1, <1>5, <2>1 DEF ReadParent, AcceptsParent
    <2>3. /\ q.pc = "walk" /\ q.above = p /\ q.at = p.parent /\ q.parent = o.parent
          /\ q.op = o.op /\ q.task = o.task /\ q.row = o.row /\ q.found = o.found
          /\ q.differing = o.differing
      BY <1>2, <2>1 DEF Request
    <2>4. Seen(q) = Seen(o)
      BY <2>3 DEF Seen
    <2>5. q.op = "update" /\ q.parent \in Below(items, q.task) => q.at \in Below(items, q.task)
      BY <1>2, <1>3, <2>1, <2>2, <2>3, BelowFacts DEF Editing
    <2>6. AsRead(q, items)
      BY <1>2, <2>1, <2>2, <2>3, <2>4, <2>5 DEF AsRead, Editing, Checked, live
    <2> QED BY <2>2, <2>6 DEF ReadsOn
  <1>6. CASE WalkUp(r)
    <2>1. PICK a, q : a = (IF o.at = o.parent THEN o.above.parent ELSE items[o.at].parent)
                      /\ q = [o EXCEPT !.at = a]
      OBVIOUS
    <2>2. o.pc = "walk" /\ o.at \in live /\ o.at # o.task /\ Local(r, q)
      BY <1>1, <1>6, <2>1 DEF WalkUp, ClosesCycle
    <2>3. a = items[o.at].parent
      BY <1>2, <2>1, <2>2 DEF AsRead
    <2>4. /\ q.pc = "walk" /\ q.above = o.above /\ q.at = a /\ q.parent = o.parent
          /\ q.op = o.op /\ q.task = o.task /\ q.row = o.row /\ q.found = o.found
          /\ q.differing = o.differing
      BY <1>2, <2>1, <2>2 DEF Request
    <2>5. Seen(q) = Seen(o)
      BY <2>4 DEF Seen
    <2>6. q.op = "update" /\ q.parent \in Below(items, q.task) => q.at \in Below(items, q.task)
      BY <1>2, <1>3, <2>2, <2>3, <2>4, BelowFacts DEF AsRead, Editing, Checked
    <2>7. AsRead(q, items)
      BY <1>2, <2>2, <2>4, <2>5, <2>6 DEF AsRead, Editing, Checked
    <2> QED BY <2>2, <2>7 DEF ReadsOn
  <1>7. CASE WalkDone(r)
    <2>1. PICK q : q = [o EXCEPT !.at = NULL]
      OBVIOUS
    <2>2. o.pc = "walk" /\ o.at \notin live /\ Local(r, AfterValidation(q))
      BY <1>1, <1>7, <2>1 DEF WalkDone
    <2>3. o.op = "update" => o.parent \notin Below(items, o.task)
      BY <1>2, <1>3, <2>2, BelowFacts DEF AsRead, Editing, Checked
    <2>4. /\ q.pc = "walk" /\ q.above = o.above /\ q.at = NULL /\ q.parent = o.parent
          /\ q.op = o.op /\ q.task = o.task /\ q.row = o.row /\ q.found = o.found
          /\ q.differing = o.differing
      BY <1>2, <2>1, <2>2 DEF Request
    <2>5. q \in Request
      BY <1>2, <2>1 DEF Request, OrNull
    <2>6. HandlerOK(q, items, nextId)
      BY <1>2, <2>1 DEF HandlerOK, Request, Editing, Checked
    <2>7. Seen(q) = Seen(o)
      BY <2>4 DEF Seen
    <2>8. AsRead(q, items)
      BY <1>2, <2>2, <2>3, <2>4, <2>7 DEF AsRead, Editing, Checked
    <2>9. AsRead(AfterValidation(q), items)
      BY <1>2, <2>3, <2>4, <2>5, <2>6, <2>8, AfterValidationAsRead
    <2> QED BY <2>2, <2>9 DEF ReadsOn
  <1> QED BY <1>4, <1>5, <1>6, <1>7

(* One level of the descent: still descendants only, and the children of   *)
(* what has been asked about.                                              *)
LEMMA DescendedReads ==
  ASSUME IInv, Forest, NEW o \in Request, Descent(o, items)
  PROVE  /\ Seen(Descended(o)) = Seen(o) \cup Children(o.frontier)
         /\ Descent(Descended(o), items)
         /\ \A f \in {"pc", "op", "task", "parent", "sprint", "row", "differing"} :
               Descended(o)[f] = o[f]
  <1> DEFINE next  == Children(o.frontier)
             depth == IF o.level < MaxId THEN o.level + 1 ELSE MaxId
             found == [t \in TaskIds |-> IF t \in next THEN depth ELSE o.found[t]]
  <1>1. PICK d : d = Descended(o)
    OBVIOUS
  <1>2. d = [o EXCEPT !.frontier = next, !.level = depth, !.found = found]
    BY <1>1 DEF Descended
  <1>3. o.task \in live /\ o.task \in TaskIds
    BY RowTyped DEF Descent, live
  <1>4. depth > 0
    BY <1>3, MaxIdAssumption DEF Request, TaskIds
  <1>5. next \subseteq TaskIds
    BY ChildrenTyped
  <1>6. \A t \in TaskIds : found[t] > 0 <=> t \in next \/ o.found[t] > 0
    BY <1>4
  <1> HIDE DEF depth, found
  <1>7. d.found = found /\ d.frontier = next /\ d.task = o.task
    BY <1>2 DEF Request
  <1>8. Seen(d) = Seen(o) \cup next
    BY <1>5, <1>6, <1>7 DEF Seen
  <1>9. Doomed(d) = Doomed(o) \cup next
    BY <1>7, <1>8 DEF Doomed
  <1>10. next \subseteq Below(items, o.task)
    BY <1>3, BelowFacts DEF Descent, Children
  <1>11. ASSUME NEW c \in DOMAIN items, items[c].parent \in Doomed(d) \ d.frontier
         PROVE  c \in Seen(d)
    <2>1. items[c].parent \in Doomed(o)
      BY <1>7, <1>9, <1>11
    <2>2. CASE items[c].parent \in o.frontier
      BY <2>2, <1>8 DEF Children, live
    <2>3. CASE items[c].parent \notin o.frontier
      BY <2>1, <2>3, <1>8 DEF Descent
    <2> QED BY <2>2, <2>3
  <1>12. Descent(d, items)
    BY <1>7, <1>9, <1>10, <1>11 DEF Descent
  <1>13. \A f \in {"pc", "op", "task", "parent", "sprint", "row", "differing"} : d[f] = o[f]
    BY <1>2 DEF Request
  <1> QED BY <1>1, <1>8, <1>12, <1>13

(* The descent that finds no more children has found the subtree. *)
LEMMA DescentOver ==
  ASSUME IInv, Forest, NEW o, Descent(o, items), Children(o.frontier) = {}
  PROVE  Doomed(o) = Below(items, o.task)
  <1>1. o.task \in live /\ o.task \in Doomed(o) /\ Doomed(o) \in SUBSET DOMAIN items
    BY BelowFacts DEF Descent, Doomed, live
  <1>2. \A c \in DOMAIN items : items[c].parent \in Doomed(o) => c \in Doomed(o)
    BY DEF Descent, Children, Doomed, live
  <1>3. Below(items, o.task) \subseteq Doomed(o)
    BY <1>1, <1>2 DEF Below
  <1> QED BY <1>3 DEF Descent

LEMMA CascadeReads ==
  ASSUME SerialInv, NEW r \in Requests, CascadeLevel(r) \/ CascadeDone(r)
  PROVE  ReadsOn(r)
  <1>1. PICK o : o = req[r]
    OBVIOUS
  <1>2. /\ o \in Request /\ HandlerOK(o, items, nextId) /\ AsRead(o, items) /\ IInv /\ Forest
    BY <1>1, SerialFacts
  <1>3. o.pc = "cascade"
    BY <1>1 DEF CascadeLevel, CascadeDone
  <1>4. /\ o.op = "update" /\ o.task \in live /\ o.row = items[o.task]
        /\ o.parent # NULL => o.parent \in DOMAIN items /\ items[o.parent].sprint = o.sprint
        /\ o.parent \notin Below(items, o.task)
        /\ Descent(o, items)
        /\ o.differing = {c \in Seen(o) \ {o.task, o.parent} : items[c].sprint # o.sprint}
    BY <1>2, <1>3 DEF AsRead, HandlerOK, Editing, Checked, live
  <1>5. CASE CascadeLevel(r)
    <2>1. PICK D, d, q : /\ D = o.differing \cup NewlyDiffering(o)
                         /\ d = Descended(o)
                         /\ q = [d EXCEPT !.differing = D]
      OBVIOUS
    <2>2. Local(r, q)
      BY <1>1, <1>5, <2>1 DEF CascadeLevel
    <2>3. d \in Request
      BY <1>1, <1>2, <1>3, <2>1, DescendedSound
    <2>4. /\ Seen(d) = Seen(o) \cup Children(o.frontier)
          /\ Descent(d, items)
          /\ d.pc = "cascade" /\ d.op = "update" /\ d.task = o.task /\ d.parent = o.parent
          /\ d.sprint = o.sprint /\ d.row = o.row
      BY <1>2, <1>3, <1>4, <2>1, DescendedReads
    <2>5. /\ q.pc = "cascade" /\ q.op = "update" /\ q.task = o.task /\ q.parent = o.parent
          /\ q.sprint = o.sprint /\ q.row = o.row /\ q.differing = D
          /\ q.found = d.found /\ q.frontier = d.frontier
      BY <2>1, <2>3, <2>4 DEF Request
    <2>6. Seen(q) = Seen(d)
      BY <2>5 DEF Seen
    <2>7. Doomed(q) = Doomed(d)
      BY <2>4, <2>5, <2>6 DEF Doomed
    <2>8. Descent(q, items)
      BY <2>4, <2>5, <2>6, <2>7 DEF Descent
    <2>9. D = {c \in Seen(q) \ {q.task, q.parent} : items[c].sprint # q.sprint}
      BY <1>4, <2>1, <2>4, <2>5, <2>6 DEF NewlyDiffering
    <2>10. AsRead(q, items)
      BY <1>4, <2>5, <2>8, <2>9 DEF AsRead, Editing, Checked, live
    <2> QED BY <2>2, <2>10 DEF ReadsOn
  <1>6. CASE CascadeDone(r)
    <2>1. PICK q : q = [o EXCEPT !.pc = "update", !.frontier = {}]
      OBVIOUS
    <2>2. Local(r, q) /\ Children(o.frontier) = {}
      BY <1>1, <1>6, <2>1 DEF CascadeDone
    <2>3. /\ q.pc = "update" /\ q.op = "update" /\ q.task = o.task /\ q.parent = o.parent
          /\ q.sprint = o.sprint /\ q.row = o.row /\ q.differing = o.differing
      BY <1>2, <1>4, <2>1 DEF Request
    <2>4. Doomed(o) = Below(items, o.task)
      BY <1>2, <1>4, <2>2, DescentOver
    <2>5. \A c \in Below(items, o.task) : c # o.parent
      BY <1>4
    <2>6. q.differing = {c \in Below(items, q.task) \ {q.task} : items[c].sprint # q.sprint}
      BY <1>4, <2>3, <2>4, <2>5 DEF Doomed
    <2>7. AsRead(q, items)
      BY <1>4, <2>3, <2>6 DEF AsRead, Editing, Checked, live
    <2> QED BY <2>2, <2>7 DEF ReadsOn
  <1> QED BY <1>5, <1>6

LEMMA DescendReads ==
  ASSUME SerialInv, NEW r \in Requests, DescendLevel(r) \/ DescendDone(r)
  PROVE  ReadsOn(r)
  <1>1. PICK o : o = req[r]
    OBVIOUS
  <1>2. /\ o \in Request /\ AsRead(o, items) /\ IInv /\ Forest
    BY <1>1, SerialFacts
  <1>3. o.pc = "descend" /\ Descent(o, items)
    BY <1>1, <1>2 DEF DescendLevel, DescendDone, AsRead
  <1>4. CASE DescendLevel(r)
    <2>1. PICK q : q = Descended(o)
      OBVIOUS
    <2>2. Local(r, q) /\ q.pc = "descend" /\ Descent(q, items)
      BY <1>1, <1>2, <1>3, <1>4, <2>1, DescendedReads DEF DescendLevel
    <2>3. AsRead(q, items)
      BY <2>2 DEF AsRead, Editing, Checked
    <2> QED BY <2>2, <2>3 DEF ReadsOn
  <1>5. CASE DescendDone(r)
    <2>1. PICK q : q = [o EXCEPT !.pc = "delete", !.frontier = {}]
      OBVIOUS
    <2>2. Local(r, q) /\ Children(o.frontier) = {}
      BY <1>1, <1>5, <2>1 DEF DescendDone
    <2>3. q.pc = "delete" /\ q.task = o.task /\ q.found = o.found
      BY <1>2, <2>1 DEF Request
    <2>4. Doomed(q) = Doomed(o)
      BY <2>3 DEF Doomed, Seen
    <2>5. Doomed(q) = Below(items, q.task) /\ q.task \in DOMAIN items
      BY <1>2, <1>3, <2>2, <2>3, <2>4, DescentOver DEF Descent
    <2>6. AsRead(q, items)
      BY <2>3, <2>5 DEF AsRead, Editing, Checked
    <2> QED BY <2>2, <2>6 DEF ReadsOn
  <1> QED BY <1>4, <1>5

LEMMA RefreshReads ==
  ASSUME SerialInv, NEW r \in Requests, Refresh(r)
  PROVE  ReadsOn(r)
  <1>1. PICK q : q = [req[r] EXCEPT !.pc = "audit"]
    OBVIOUS
  <1>2. q.pc = "audit"
    BY <1>1, SerialFacts DEF Request
  <1>3. AsRead(q, items)
    BY <1>2 DEF AsRead, Editing, Checked
  <1> QED BY <1>1, <1>3, FinishReads DEF Refresh, ReadsOn, Finish

(* The commits are the operations of Backlog. *)
Commits(r) ==
    /\ [B!Next]_items
    /\ \E q : req' = [req EXCEPT ![r] = q] /\ AsRead(q, items')

LEMMA InsertRefined ==
  ASSUME SerialInv, NEW r \in Requests, Insert(r)
  PROVE  Commits(r)
  <1>1. PICK o : o = req[r]
    OBVIOUS
  <1>2. /\ o \in Request /\ HandlerOK(o, items, nextId) /\ AsRead(o, items) /\ IInv /\ Forest
    BY <1>1, SerialFacts
  <1>3. o.pc = "insert" /\ nextId <= MaxId
    BY <1>1 DEF Insert
  <1>4. o.project \in Projects /\ o.parent \in OrNull(TaskIds) /\ o.sprint \in OrNull(Sprints)
    BY <1>2, <1>3 DEF HandlerOK, Editing, Request
  <1>5. nextId \in TaskIds /\ nextId \in Nat /\ nextId \notin live
    BY <1>2, <1>3, RowTyped, MaxIdAssumption DEF IInv, TypeOK, TaskIds
  <1>6. CASE ParentStands(o.parent)
    <2>1. PICK z : z = [Idle EXCEPT !.pc = "refresh", !.op = "create", !.task = nextId,
                                 !.owed = {[action |-> "CREATE_TASK", task |-> nextId]}]
      OBVIOUS
    <2>2. /\ items' = [t \in live \cup {nextId} |->
                          IF t = nextId THEN [project |-> o.project, parent |-> o.parent,
                                              sprint |-> o.sprint]
                                        ELSE items[t]]
          /\ req' = [req EXCEPT ![r] = z]
      BY <1>1, <1>6, <2>1 DEF Insert
    <2>3. B!MayBeParent(o.parent, o.project, o.sprint, {})
      BY <1>2, <1>3, <1>6 DEF ParentStands, AsRead, HandlerOK, Checked, B!MayBeParent, live, B!live
    <2>4. B!Add(nextId, o.project, o.parent, o.sprint)
      BY <1>5, <2>2, <2>3 DEF B!Add, live, B!live
    <2>5. B!Next
      BY <1>4, <1>5, <2>4 DEF B!Next, OrNull
    <2>6. z.pc = "refresh" /\ z.task = nextId /\ nextId \in DOMAIN items'
      BY <2>1, <2>2 DEF Idle
    <2>7. AsRead(z, items')
      BY <2>6 DEF AsRead, Editing, Checked
    <2> QED BY <2>2, <2>5, <2>7 DEF Commits
  <1>7. CASE ~ParentStands(o.parent)
    <2>1. items' = items /\ req' = [req EXCEPT ![r] = Idle]
      BY <1>1, <1>7 DEF Insert
    <2>2. AsRead(Idle, items')
      BY IdleAsRead
    <2> QED BY <2>1, <2>2 DEF Commits
  <1> QED BY <1>6, <1>7

LEMMA UpdateRefined ==
  ASSUME SerialInv, NEW r \in Requests, Update(r)
  PROVE  Commits(r)
  <1>1. PICK o : o = req[r]
    OBVIOUS
  <1>2. /\ o \in Request /\ HandlerOK(o, items, nextId) /\ AsRead(o, items) /\ IInv /\ Forest
    BY <1>1, SerialFacts
  <1>3. PICK z : z = [Idle EXCEPT !.pc = "refresh", !.op = "update", !.task = o.task,
                               !.owed = {[action |-> "UPDATE_FIELD", task |-> t] :
                                            t \in {o.task} \cup o.differing}]
    OBVIOUS
  <1>4. /\ o.pc = "update" /\ UpdateCommits(o)
        /\ items' = [i \in live |-> Written(o, i)]
        /\ req' = [req EXCEPT ![r] = z]
    BY <1>1, <1>3 DEF Update
  <1>5. /\ o.task \in live /\ o.task \in TaskIds /\ o.row = items[o.task]
        /\ items[o.task].project = o.project
        /\ o.parent \in OrNull(TaskIds) /\ o.sprint \in OrNull(Sprints)
        /\ o.parent # NULL => o.parent \in live /\ items[o.parent].sprint = o.sprint
                              /\ items[o.parent].project = o.project
        /\ o.parent \notin Below(items, o.task)
        /\ o.differing = {c \in Below(items, o.task) \ {o.task} : items[c].sprint # o.sprint}
    BY <1>2, <1>4 DEF AsRead, HandlerOK, Editing, Checked, live, Request
  <1>6. Below(items, o.task) = B!Subtree(o.task)
    BY BelowIsSubtree
  <1>7. ASSUME NEW i \in live
        PROVE  Written(o, i) = B!EditedRow(i, o.task, o.parent, o.sprint)
    <2>1. items[i] \in Row
      BY <1>2, RowTyped
    <2>2. CASE i = o.task
      BY <1>5, <2>1, <2>2 DEF Written, B!EditedRow, Row
    <2>3. CASE i # o.task /\ i \in o.differing
      BY <1>5, <1>6, <2>3 DEF Written, B!EditedRow
    <2>4. CASE i # o.task /\ i \notin o.differing /\ i \in B!Subtree(o.task)
      <3>1. items[i].sprint = o.sprint
        BY <1>5, <1>6, <2>4
      <3>2. [items[i] EXCEPT !.sprint = o.sprint] = items[i]
        BY <2>1, <3>1 DEF Row
      <3> QED BY <2>4, <3>2 DEF Written, B!EditedRow
    <2>5. CASE i # o.task /\ i \notin o.differing /\ i \notin B!Subtree(o.task)
      BY <2>5 DEF Written, B!EditedRow
    <2> QED BY <2>2, <2>3, <2>4, <2>5
  <1>8. items' = [i \in B!live |-> B!EditedRow(i, o.task, o.parent, o.sprint)]
    BY <1>4, <1>7 DEF live, B!live
  <1>9. B!MayBeParent(o.parent, items[o.task].project, o.sprint, B!Subtree(o.task))
    BY <1>5, <1>6 DEF B!MayBeParent, live, B!live
  <1>10. B!Edit(o.task, o.parent, o.sprint)
    BY <1>5, <1>8, <1>9 DEF B!Edit, live, B!live
  <1>11. B!Next
    BY <1>5, <1>10 DEF B!Next, OrNull
  <1>12. z.pc = "refresh" /\ z.task = o.task /\ o.task \in DOMAIN items'
    BY <1>3, <1>4, <1>5 DEF Idle
  <1>13. AsRead(z, items')
    BY <1>12 DEF AsRead, Editing, Checked
  <1> QED BY <1>4, <1>11, <1>13 DEF Commits

LEMMA DeleteRefined ==
  ASSUME SerialInv, NEW r \in Requests, Delete(r)
  PROVE  Commits(r)
  <1>1. PICK o : o = req[r]
    OBVIOUS
  <1>2. /\ HandlerOK(o, items, nextId) /\ AsRead(o, items)
    BY <1>1, SerialFacts
  <1>3. PICK z : z = [Idle EXCEPT !.pc = "audit", !.op = "delete", !.task = o.task,
                               !.owed = DeletedEntries(o)]
    OBVIOUS
  <1>4. /\ o.pc = "delete"
        /\ items' = [i \in live \ Doomed(o) |-> items[i]]
        /\ req' = [req EXCEPT ![r] = z]
    BY <1>1, <1>3 DEF Delete
  <1>5. o.task \in live /\ o.task \in TaskIds /\ Doomed(o) = B!Subtree(o.task)
    BY <1>2, <1>4, BelowIsSubtree DEF AsRead, HandlerOK, live
  <1>6. B!Remove(o.task)
    BY <1>4, <1>5 DEF B!Remove, live, B!live
  <1>7. B!Next
    BY <1>5, <1>6 DEF B!Next
  <1>8. z.pc = "audit"
    BY <1>3 DEF Idle
  <1>9. AsRead(z, items')
    BY <1>8 DEF AsRead, Editing, Checked
  <1> QED BY <1>4, <1>7, <1>9 DEF Commits

LEMMA LogActivityCommits ==
  ASSUME SerialInv, NEW r \in Requests, NEW e \in req[r].owed, LogActivity(r, e)
  PROVE  Commits(r)
  <1>1. PICK q : q = IF req[r].owed \ {e} = {} THEN Idle
                     ELSE [req[r] EXCEPT !.owed = req[r].owed \ {e}]
    OBVIOUS
  <1>2. req' = [req EXCEPT ![r] = q] /\ items' = items
    BY <1>1 DEF LogActivity
  <1>3. q.pc = "idle" \/ q.pc = "audit"
    BY <1>1, SerialFacts DEF LogActivity, Idle, Request
  <1>4. AsRead(q, items')
    BY <1>3 DEF AsRead, Editing, Checked
  <1> QED BY <1>2, <1>4 DEF Commits

LEMMA ReadsCommit ==
  ASSUME NEW r, ReadsOn(r)
  PROVE  Commits(r)
  BY DEF ReadsOn, Local, Commits

LEMMA StepCommits ==
  ASSUME SerialInv, NEW r \in Requests, Arrive(r) \/ Proceed(r) \/ Abort(r)
  PROVE  Commits(r)
  <1>1. CASE Arrive(r)
    BY <1>1, ArriveReads, ReadsCommit
  <1>2. CASE Abort(r)
    BY <1>2, FinishReads, ReadsCommit DEF Abort
  <1>3. CASE NoParent(r) \/ ReadParent(r) \/ WalkUp(r) \/ WalkDone(r)
    BY <1>3, ParentReads, ReadsCommit
  <1>4. CASE RefuseParent(r) \/ RefuseCycle(r) \/ NoMoreIds(r) \/ FailUpdate(r) \/ FailDelete(r)
    BY <1>4, FinishReads, ReadsCommit
       DEF RefuseParent, RefuseCycle, NoMoreIds, FailUpdate, FailDelete
  <1>5. CASE CascadeLevel(r) \/ CascadeDone(r) \/ DescendLevel(r) \/ DescendDone(r) \/ Refresh(r)
    BY <1>5, CascadeReads, DescendReads, RefreshReads, ReadsCommit
  <1>6. CASE Insert(r) \/ Update(r) \/ Delete(r)
    BY <1>6, InsertRefined, UpdateRefined, DeleteRefined
  <1>7. CASE \E e \in req[r].owed : LogActivity(r, e)
    BY <1>7, LogActivityCommits
  <1> QED BY <1>1, <1>2, <1>3, <1>4, <1>5, <1>6, <1>7 DEF Proceed

LEMMA SerialNext ==
  ASSUME NEW r0, Serial(r0), SerialInv, [Next]_vars
  PROVE  [B!Next]_items /\ SerialInv'
  <1>1. CASE Next
    <2>1. r0 \in Requests /\ Commits(r0)
      BY <1>1, StepCommits DEF Next, Serial
    <2>2. [B!Next]_items
      BY <2>1 DEF Commits
    <2>3. PICK q : req' = [req EXCEPT ![r0] = q] /\ AsRead(q, items')
      BY <2>1 DEF Commits
    <2>4. req'[r0] = q
      BY <2>1, <2>3 DEF SerialInv, IInv, TypeOK
    <2>5. \A r \in Requests : AsRead(req'[r], items')
      BY <2>3, <2>4 DEF Serial
    <2>6. IInv' /\ Forest'
      BY <1>1, <2>2, NextIInv, ForestStep, NullFacts DEF SerialInv
    <2> QED BY <2>2, <2>5, <2>6 DEF SerialInv
  <1>2. CASE UNCHANGED vars
    <2>1. items' = items /\ req' = req
      BY <1>2 DEF vars
    <2>2. IInv' /\ Forest'
      BY <1>2, <2>1, NextIInv, ForestStep, NullFacts DEF SerialInv
    <2> QED BY <2>1, <2>2 DEF SerialInv
  <1> QED BY <1>1, <1>2

LEMMA InitSerial == Init => B!Init /\ SerialInv
  <1> SUFFICES ASSUME Init PROVE B!Init /\ SerialInv
    OBVIOUS
  <1>1. items = [t \in {} |-> NULL]
    BY DEF Init
  <1>2. items = [t \in {} |-> [project |-> NULL, parent |-> NULL, sprint |-> NULL]]
    BY <1>1
  <1>3. B!Init
    BY <1>2 DEF B!Init
  <1>4. \A r \in Requests : AsRead(req[r], items)
    BY IdleAsRead DEF Init
  <1> QED BY <1>3, <1>4, InitIInv, ForestInit DEF SerialInv

LEMMA SerialHolds ==
  ASSUME NEW CONSTANT r0, Serial(r0)
  PROVE  Spec => []SerialInv
  <1>1. SerialInv /\ [Next]_vars => SerialInv'
    BY SerialNext
  <1> QED BY <1>1, InitSerial, PTL DEF Spec

(* One request at a time, the statements of a request add up to one        *)
(* operation of Backlog, taken at its commit: the walk up the tree is the  *)
(* check that the parent is not below the task, and the levels of the      *)
(* descent are the subtree.  For any number of ids, projects and sprints,  *)
(* with requests that die anywhere.                                        *)
THEOREM SerialIsABacklog ==
  ASSUME NEW CONSTANT r0, Serial(r0)
  PROVE  Spec => ImplementsBacklog
  <1>1. Init => B!Init
    BY InitSerial
  <1>2. SerialInv /\ [Next]_vars => [B!Next]_items
    BY SerialNext
  <1> QED BY <1>1, <1>2, SerialHolds, PTL DEF Spec, ImplementsBacklog, B!Spec

(* "Hierarchia zadan nie moze zawierac cykli" (service.py:76) is true of   *)
(* requests served one at a time.                                          *)
THEOREM SerialAcyclic ==
  ASSUME NEW CONSTANT r0, Serial(r0)
  PROVE  Spec => []Acyclic
  <1>1. SerialInv => Acyclic
    BY DEF SerialInv, Forest, B!Hierarchy, Acyclic
  <1> QED BY <1>1, SerialHolds, PTL

-----------------------------------------------------------------------------
(* Who moves a task: of all the statements only the commit of an edit      *)
(* writes parent_id, and only the one that asked for another parent.       *)
Moved(t) ==
    \E r \in Requests : /\ req[r].pc = "update"
                       /\ req[r].task = t
                       /\ items'[t].parent = req[r].parent
                       /\ req[r].parent # req[r].row.parent

LEMMA CommitMoves ==
  ASSUME IInv, NEW r \in Requests, Insert(r) \/ Update(r) \/ Delete(r),
         NEW t \in live \cap live', items'[t].parent # items[t].parent
  PROVE  Moved(t)
  <1>1. PICK q : q = req[r]
    OBVIOUS
  <1>2. CASE Insert(r)
    <2>1. t \in TaskIds /\ t < nextId /\ nextId \in Nat
      BY RowTyped DEF IInv, TypeOK
    <2>2. t # nextId
      BY <2>1 DEF TaskIds
    <2>3. items'[t] = items[t]
      BY <1>2, <2>2 DEF Insert
    <2> QED BY <2>3
  <1>3. CASE Update(r)
    <2>1. q.pc = "update" /\ items'[t] = Written(q, t)
      BY <1>1, <1>3 DEF Update
    <2>2. items[t] \in Row
      BY RowTyped
    <2>3. t = q.task /\ q.parent # q.row.parent /\ items'[t].parent = q.parent
      BY <2>1, <2>2 DEF Written, Row
    <2> QED BY <1>1, <2>1, <2>3 DEF Moved
  <1>4. CASE Delete(r)
    <2>1. items'[t] = items[t]
      BY <1>4 DEF Delete, live
    <2> QED BY <2>1
  <1> QED BY <1>2, <1>3, <1>4

LEMMA OthersMoveNothing ==
  ASSUME NEW r \in Requests, Arrive(r) \/ Proceed(r) \/ Abort(r),
         ~(Insert(r) \/ Update(r) \/ Delete(r))
  PROVE  items' = items
  BY DEF Arrive, Proceed, Abort, StartCreate, StartUpdate, StartDelete, NoParent, ReadParent,
         RefuseParent, RefuseCycle, WalkUp, WalkDone, CascadeLevel, CascadeDone,
         DescendLevel, DescendDone, NoMoreIds, FailUpdate, FailDelete, Refresh,
         LogActivity, Finish, Local

(* An edit that leaves parent_id alone never undoes another request's      *)
(* move, and deletions and insertions move nothing (service.py:224-229):   *)
(* whatever requests run together and wherever they die.                   *)
THEOREM MovesAreAsked == Spec => NoLostMove
  <1> DEFINE Step == \A t \in live \cap live' :
                        items'[t].parent # items[t].parent => Moved(t)
  <1>1. ASSUME IInv, [Next]_vars PROVE [Step]_items
    <2>1. CASE Next
      <3>1. PICK r \in Requests : Arrive(r) \/ Proceed(r) \/ Abort(r)
        BY <2>1 DEF Next
      <3> QED BY <1>1, <3>1, CommitMoves, OthersMoveNothing
    <2>2. CASE UNCHANGED vars
      BY <2>2 DEF vars
    <2> QED BY <1>1, <2>1, <2>2
  <1>2. NoLostMove <=> [][Step]_items
    BY DEF NoLostMove, Moved
  <1> QED BY <1>1, <1>2, IInvHolds, PTL DEF Spec

-----------------------------------------------------------------------------
(* The audit trail of one request at a time, when none dies: what is not   *)
(* yet in the log is owed by the request that wrote the row.               *)
Owes(q) == q.pc \in {"refresh", "audit"}

TrailOK(q, rows, next, log) ==
    /\ ~Owes(q) => q.owed = {}
    /\ \A t \in 1 .. next - 1 :
          /\ [action |-> "CREATE_TASK", task |-> t] \in log \cup q.owed
          /\ t \in DOMAIN rows \/ [action |-> "DELETE_TASK", task |-> t] \in log \cup q.owed

Trail == \A r \in Requests : TrailOK(req[r], items, nextId, activity)

(* A statement that only reads keeps what is owed. *)
LEMMA LocalKeepsTrail ==
  ASSUME NEW o, NEW q, NEW rows, NEW next, NEW log, TrailOK(o, rows, next, log),
         q.owed = o.owed, Owes(q) <=> Owes(o)
  PROVE  TrailOK(q, rows, next, log)
  BY DEF TrailOK

LEMMA ReadsKeepTrail ==
  ASSUME SerialInv, Trail, NEW r \in Requests,
         \/ Arrive(r) \/ Refresh(r) \/ NoParent(r) \/ ReadParent(r) \/ RefuseParent(r)
         \/ RefuseCycle(r) \/ WalkUp(r) \/ WalkDone(r) \/ CascadeLevel(r) \/ CascadeDone(r)
         \/ DescendLevel(r) \/ DescendDone(r) \/ NoMoreIds(r) \/ FailUpdate(r) \/ FailDelete(r)
  PROVE  \E q : Local(r, q) /\ q.owed = req[r].owed /\ (Owes(q) <=> Owes(req[r]))
  <1>1. PICK o : o = req[r]
    OBVIOUS
  <1>2. o \in Request /\ HandlerOK(o, items, nextId) /\ AsRead(o, items) /\ (~Owes(o) => o.owed = {})
    BY <1>1, SerialFacts DEF Trail, TrailOK
  <1>3. Idle.pc = "idle" /\ Idle.owed = {} /\ ~Owes(Idle)
    BY DEF Idle, Owes
  <1>4. ASSUME NEW q, q \in {AfterValidation(o), AfterValidation([o EXCEPT !.at = NULL])}, ~Owes(o)
        PROVE  q.owed = o.owed /\ ~Owes(q)
    BY <1>2, <1>3, <1>4 DEF AfterValidation, Request, Owes
  <1>5. CASE Arrive(r)
    <2>1. o.pc = "idle"
      BY <1>1, <1>5 DEF Arrive, StartCreate, StartUpdate, StartDelete
    <2>2. ASSUME NEW pr \in Projects, NEW p \in OrNull(TaskIds), NEW s \in OrNull(Sprints),
                 StartCreate(r, pr, p, s)
          PROVE  \E q : Local(r, q) /\ q.owed = {} /\ q.pc = "parent"
      <3>1. PICK q : q = [Idle EXCEPT !.pc = "parent", !.op = "create", !.project = pr,
                                      !.parent = p, !.sprint = s]
        OBVIOUS
      <3>2. q.owed = {} /\ q.pc = "parent"
        BY <3>1 DEF Idle
      <3>3. Local(r, q)
        BY <2>2, <3>1 DEF StartCreate
      <3> QED BY <3>2, <3>3
    <2>3. ASSUME NEW t \in TaskIds, NEW p \in OrNull(TaskIds), NEW s \in OrNull(Sprints),
                 StartUpdate(r, t, p, s)
          PROVE  \E q : Local(r, q) /\ q.owed = {} /\ q.pc = "parent"
      <3>1. PICK q : q = [Idle EXCEPT !.pc = "parent", !.op = "update", !.task = t,
                                      !.project = items[t].project, !.row = items[t],
                                      !.parent = p, !.sprint = s]
        OBVIOUS
      <3>2. q.owed = {} /\ q.pc = "parent"
        BY <3>1 DEF Idle
      <3>3. Local(r, q)
        BY <2>3, <3>1 DEF StartUpdate
      <3> QED BY <3>2, <3>3
    <2>4. ASSUME NEW t \in TaskIds, StartDelete(r, t)
          PROVE  \E q : Local(r, q) /\ q.owed = {} /\ q.pc = "descend"
      <3>1. PICK q : q = [Idle EXCEPT !.pc = "descend", !.op = "delete", !.task = t,
                                      !.frontier = {t}]
        OBVIOUS
      <3>2. q.owed = {} /\ q.pc = "descend"
        BY <3>1 DEF Idle
      <3>3. Local(r, q)
        BY <2>4, <3>1 DEF StartDelete
      <3> QED BY <3>2, <3>3
    <2>5. \E q : Local(r, q) /\ q.owed = {} /\ q.pc \in {"parent", "descend"}
      BY <1>5, <2>2, <2>3, <2>4 DEF Arrive
    <2> QED BY <1>1, <1>2, <2>1, <2>5 DEF Owes
  <1>6. CASE Refresh(r)
    <2>1. PICK q : q = [o EXCEPT !.pc = "audit"]
      OBVIOUS
    <2>2. o.pc = "refresh" /\ Local(r, q)
      BY <1>1, <1>2, <1>6, <2>1 DEF Refresh, AsRead, live
    <2>3. q.owed = o.owed /\ Owes(q) /\ Owes(o)
      BY <1>2, <2>1, <2>2 DEF Request, Owes
    <2> QED BY <1>1, <2>2, <2>3
  <1>7. CASE NoParent(r) \/ WalkDone(r)
    BY <1>1, <1>4, <1>7 DEF NoParent, WalkDone, Owes
  <1>8. CASE ReadParent(r) \/ WalkUp(r)
    <2>1. PICK p, a, q : /\ p = items[o.parent]
                         /\ a = IF o.at = o.parent THEN o.above.parent ELSE items[o.at].parent
                         /\ q = IF o.pc = "parent"
                                THEN [o EXCEPT !.pc = "walk", !.above = p, !.at = p.parent]
                                ELSE [o EXCEPT !.at = a]
      OBVIOUS
    <2>2. o.pc \in {"parent", "walk"} /\ Local(r, q)
      BY <1>1, <1>8, <2>1 DEF ReadParent, WalkUp
    <2>3. q.owed = o.owed /\ q.pc = "walk"
      BY <1>2, <2>1, <2>2 DEF Request
    <2> QED BY <1>1, <2>2, <2>3 DEF Owes
  <1>9. CASE RefuseParent(r) \/ RefuseCycle(r) \/ NoMoreIds(r) \/ FailUpdate(r) \/ FailDelete(r)
    BY <1>1, <1>2, <1>3, <1>9
       DEF RefuseParent, RefuseCycle, NoMoreIds, FailUpdate, FailDelete, Finish, Owes
  <1>10. CASE CascadeLevel(r) \/ DescendLevel(r)
    <2>1. PICK D, d, q : /\ D = o.differing \cup NewlyDiffering(o)
                         /\ d = Descended(o)
                         /\ q = IF o.pc = "cascade" THEN [d EXCEPT !.differing = D] ELSE d
      OBVIOUS
    <2>2. o.pc \in {"cascade", "descend"} /\ Local(r, q)
      BY <1>1, <1>10, <2>1 DEF CascadeLevel, DescendLevel
    <2>3. d \in Request
      BY <1>1, <2>1, <2>2, SerialFacts, DescendedSound
    <2>4. d.owed = o.owed /\ d.pc = o.pc
      BY <1>2, <2>1 DEF Descended, Request
    <2>5. q.owed = o.owed /\ q.pc = o.pc
      BY <2>1, <2>3, <2>4 DEF Request
    <2> QED BY <1>1, <2>2, <2>5 DEF Owes
  <1>11. CASE CascadeDone(r) \/ DescendDone(r)
    <2>1. PICK q : q = [o EXCEPT !.pc = IF o.pc = "cascade" THEN "update" ELSE "delete",
                                 !.frontier = {}]
      OBVIOUS
    <2>2. o.pc \in {"cascade", "descend"} /\ Local(r, q)
      BY <1>1, <1>11, <2>1 DEF CascadeDone, DescendDone
    <2>3. q.owed = o.owed /\ q.pc \in {"update", "delete"}
      BY <1>2, <2>1 DEF Request
    <2> QED BY <1>1, <2>2, <2>3 DEF Owes
  <1> QED BY <1>5, <1>6, <1>7, <1>8, <1>9, <1>10, <1>11

(* The sequence hands out the id of a row that is inserted. *)
LEMMA TrailSteps ==
  ASSUME SerialInv, Trail, NEW r \in Requests,
         \/ Insert(r) \/ Update(r) \/ Delete(r)
         \/ \E e \in req[r].owed : LogActivity(r, e)
  PROVE  \E q : req' = [req EXCEPT ![r] = q] /\ TrailOK(q, items', nextId', activity')
  <1>1. PICK o : o = req[r]
    OBVIOUS
  <1>2. /\ o \in Request /\ HandlerOK(o, items, nextId) /\ AsRead(o, items)
        /\ IInv /\ TrailOK(o, items, nextId, activity)
    BY <1>1, SerialFacts DEF Trail
  <1>3. nextId \in Nat
    BY <1>2 DEF IInv, TypeOK
  <1>4. Idle.pc = "idle" /\ Idle.owed = {}
    BY DEF Idle
  <1>5. CASE Insert(r)
    <2>1. PICK z : z = [Idle EXCEPT !.pc = "refresh", !.op = "create", !.task = nextId,
                                 !.owed = {[action |-> "CREATE_TASK", task |-> nextId]}]
      OBVIOUS
    <2>2. o.pc = "insert" /\ nextId' = nextId + 1 /\ activity' = activity /\ o.owed = {}
      BY <1>1, <1>2, <1>5 DEF Insert, TrailOK, Owes
    <2>3. ParentStands(o.parent)
      BY <1>2, <2>2 DEF ParentStands, AsRead, Checked, live
    <2>4. req' = [req EXCEPT ![r] = z] /\ DOMAIN items' = live \cup {nextId}
      BY <1>1, <1>5, <2>1, <2>3 DEF Insert
    <2>5. z.pc = "refresh" /\ z.owed = {[action |-> "CREATE_TASK", task |-> nextId]}
      BY <2>1 DEF Idle
    <2>6. \A t \in 1 .. nextId' - 1 : t \in 1 .. nextId - 1 \/ t = nextId
      BY <1>3, <2>2
    <2>7. TrailOK(z, items', nextId', activity')
      BY <1>2, <2>2, <2>4, <2>5, <2>6 DEF TrailOK, Owes, live
    <2> QED BY <2>4, <2>7
  <1>6. CASE Update(r)
    <2>1. PICK z : z = [Idle EXCEPT !.pc = "refresh", !.op = "update", !.task = o.task,
                                 !.owed = {[action |-> "UPDATE_FIELD", task |-> t] :
                                              t \in {o.task} \cup o.differing}]
      OBVIOUS
    <2>2. /\ o.pc = "update" /\ nextId' = nextId /\ activity' = activity /\ o.owed = {}
          /\ req' = [req EXCEPT ![r] = z] /\ DOMAIN items' = DOMAIN items
      BY <1>1, <1>2, <1>6, <2>1 DEF Update, TrailOK, Owes, live
    <2>3. z.pc = "refresh"
      BY <2>1 DEF Idle
    <2>4. TrailOK(z, items', nextId', activity')
      BY <1>2, <2>2, <2>3 DEF TrailOK, Owes
    <2> QED BY <2>2, <2>4
  <1>7. CASE Delete(r)
    <2>1. PICK z : z = [Idle EXCEPT !.pc = "audit", !.op = "delete", !.task = o.task,
                                 !.owed = DeletedEntries(o)]
      OBVIOUS
    <2>2. /\ o.pc = "delete" /\ nextId' = nextId /\ activity' = activity /\ o.owed = {}
          /\ req' = [req EXCEPT ![r] = z] /\ DOMAIN items' = live \ Doomed(o)
      BY <1>1, <1>2, <1>7, <2>1 DEF Delete, TrailOK, Owes
    <2>3. z.pc = "audit" /\ z.owed = DeletedEntries(o)
      BY <2>1 DEF Idle
    <2>4. \A t \in Doomed(o) : [action |-> "DELETE_TASK", task |-> t] \in z.owed
      BY <2>3 DEF DeletedEntries
    <2>5. TrailOK(z, items', nextId', activity')
      BY <1>2, <2>2, <2>3, <2>4 DEF TrailOK, Owes, live
    <2> QED BY <2>2, <2>5
  <1>8. ASSUME NEW e \in o.owed, LogActivity(r, e)
        PROVE  \E q : req' = [req EXCEPT ![r] = q] /\ TrailOK(q, items', nextId', activity')
    <2>1. PICK z : z = IF o.owed \ {e} = {} THEN Idle ELSE [o EXCEPT !.owed = o.owed \ {e}]
      OBVIOUS
    <2>2. /\ o.pc = "audit" /\ items' = items /\ nextId' = nextId
          /\ activity' = activity \cup {e} /\ req' = [req EXCEPT ![r] = z]
      BY <1>1, <1>8, <2>1 DEF LogActivity
    <2>3. z.owed = o.owed \ {e} /\ (z.pc = "audit" \/ z.owed = {})
      BY <1>2, <1>4, <2>1, <2>2 DEF Request
    <2>4. TrailOK(z, items', nextId', activity')
      BY <1>2, <2>2, <2>3 DEF TrailOK, Owes
    <2> QED BY <2>2, <2>4
  <1> QED BY <1>1, <1>5, <1>6, <1>7, <1>8

LEMMA TrailNext ==
  ASSUME NEW r0, Serial(r0), ~CanAbort, SerialInv, Trail, [Next]_vars
  PROVE  Trail'
  <1>1. CASE UNCHANGED vars
    BY <1>1 DEF vars, Trail
  <1>2. CASE Next
    <2>1. r0 \in Requests /\ (Arrive(r0) \/ Proceed(r0))
      BY <1>2 DEF Next, Serial, Abort
    <2>2. \E q : req' = [req EXCEPT ![r0] = q] /\ TrailOK(q, items', nextId', activity')
      <3>1. CASE \/ Insert(r0) \/ Update(r0) \/ Delete(r0)
                 \/ \E e \in req[r0].owed : LogActivity(r0, e)
        BY <2>1, <3>1, TrailSteps
      <3>2. CASE ~(\/ Insert(r0) \/ Update(r0) \/ Delete(r0)
                   \/ \E e \in req[r0].owed : LogActivity(r0, e))
        <4>1. PICK q : Local(r0, q) /\ q.owed = req[r0].owed /\ (Owes(q) <=> Owes(req[r0]))
          BY <2>1, <3>2, ReadsKeepTrail DEF Proceed
        <4>2. TrailOK(q, items, nextId, activity)
          BY <2>1, <4>1, LocalKeepsTrail DEF Trail
        <4> QED BY <4>1, <4>2 DEF Local
      <3> QED BY <3>1, <3>2
    <2>3. PICK q : req' = [req EXCEPT ![r0] = q] /\ TrailOK(q, items', nextId', activity')
      BY <2>2
    <2>4. req'[r0] = q
      BY <2>1, <2>3 DEF SerialInv, IInv, TypeOK
    <2>5. \A r \in Requests : TrailOK(req'[r], items', nextId', activity')
      BY <2>3, <2>4 DEF Serial
    <2> QED BY <2>5 DEF Trail
  <1> QED BY <1>1, <1>2

(* Requests served one at a time, none of which dies, leave a complete     *)
(* audit log: every task that was ever created has its CREATE_TASK entry,  *)
(* every task that is gone its DELETE_TASK entry (service.py:134-160).     *)
THEOREM SerialAudit ==
  ASSUME NEW CONSTANT r0, Serial(r0), ~CanAbort
  PROVE  Spec => []AuditComplete
  <1>1. SerialInv /\ Trail /\ [Next]_vars => Trail'
    BY TrailNext
  <1>2. Init => Trail
    <2> SUFFICES ASSUME Init PROVE Trail
      OBVIOUS
    <2>1. nextId = 1 /\ \A r \in Requests : req[r].owed = {}
      BY DEF Init, Idle
    <2> QED BY <2>1 DEF Trail, TrailOK
  <1>3. Trail => AuditComplete
    <2> SUFFICES ASSUME Trail, \A r \in Requests : req[r].pc = "idle", NEW t \in 1 .. nextId - 1
                 PROVE  /\ [action |-> "CREATE_TASK", task |-> t] \in activity
                        /\ t \in live \/ [action |-> "DELETE_TASK", task |-> t] \in activity
      BY DEF AuditComplete
    <2>1. r0 \in Requests
      BY DEF Serial
    <2>2. req[r0].owed = {}
      BY <2>1 DEF Trail, TrailOK, Owes
    <2> QED BY <2>1, <2>2 DEF Trail, TrailOK, live
  <1> QED BY <1>1, <1>2, <1>3, SerialHolds, PTL DEF Spec
=============================================================================
