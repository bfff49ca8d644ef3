--------------------------- MODULE SprintsProofs ---------------------------
(***************************************************************************)
(* Proofs about Sprints for every set of dates and tasks, every width of   *)
(* the name column and every number of request slots.                      *)
(***************************************************************************)
EXTENDS Sprints, FiniteSetTheorems, TLAPS

(* A name as bodies have it, before a suffix is put to it. *)
Bare(n) == n \in Name /\ n.copy = 0 /\ n.letters \in Lengths

(* What the handlers hold between two statements. *)
HandlerTyped(q) ==
    /\ q.op = "update" => q.id \in Ids /\ q.row \in Row
    /\ q.op = "create" => /\ q.pc \in {"name", "insert"} /\ q.id = NULL
                          /\ q.body \in Row /\ q.body.status = "planned"
                          /\ DatesFit(q.body.start, q.body.end)
    /\ q.pc \in {"active", "update"} => q.op = "update"
    /\ q.pc = "insert" => q.op = "create"
    /\ q.pc = "active" /\ q.body.name # NULL => Bare(q.body.name)
    /\ q.pc = "name" => q.op \in {"create", "update"} /\ Bare(q.body.name)

IInv == TypeOK /\ \A r \in Requests : HandlerTyped(req[r])

-----------------------------------------------------------------------------
(* The choice of a name. *)

LEMMA NullApart == /\ NULL \notin Ids /\ NULL \notin Days /\ NULL \notin Name /\ NULL \notin Statuses
                   /\ Ids \subseteq Nat /\ Days \subseteq Nat
  <1>1. Ids \subseteq Nat
    BY MaxIdAssumption DEF Ids
  <1>2. Days \subseteq Nat
    BY DaysAssumption
  <1> QED BY <1>1, <1>2, NullAssumption

LEMMA SuffixedType ==
  ASSUME NEW n \in Name, NEW k \in 1 .. MaxId
  PROVE  Suffixed(n, k) \in Name /\ Suffixed(n, k).copy = k
  BY WidthAssumption, MaxIdAssumption DEF Suffixed, Name, SuffixWidth

(* A set of counters has a smallest one; there are at most nine. *)
LEMMA Smallest ==
  ASSUME NEW S, S \subseteq 1 .. MaxId, S # {}
  PROVE  \E k \in S : \A l \in S : k <= l
  <1>1. S \subseteq 1 .. 9
    BY MaxIdAssumption
  <1>2. CASE S \cap 1 .. 3 # {}
    <2>1. CASE 1 \in S
      BY <2>1, <1>1
    <2>2. CASE 1 \notin S /\ 2 \in S
      BY <2>2, <1>1
    <2>3. CASE 1 \notin S /\ 2 \notin S
      <3>1. 3 \in S
        BY <1>2, <2>3
      <3> QED BY <1>1, <2>3, <3>1
    <2> QED BY <2>1, <2>2, <2>3
  <1>3. CASE S \cap 1 .. 3 = {} /\ S \cap 4 .. 6 # {}
    <2>0. \A l \in S : l \in 4 .. 9
      BY <1>1, <1>3
    <2>1. CASE 4 \in S
      BY <2>0, <2>1
    <2>2. CASE 4 \notin S /\ 5 \in S
      BY <2>0, <2>2
    <2>3. CASE 4 \notin S /\ 5 \notin S
      <3>1. 6 \in S
        BY <1>3, <2>3
      <3> QED BY <2>0, <2>3, <3>1
    <2> QED BY <2>1, <2>2, <2>3
  <1>4. CASE S \cap 1 .. 3 = {} /\ S \cap 4 .. 6 = {}
    <2>0. \A l \in S : l \in 7 .. 9
      BY <1>1, <1>4
    <2>1. CASE 7 \in S
      BY <2>0, <2>1
    <2>2. CASE 7 \notin S /\ 8 \in S
      BY <2>0, <2>2
    <2>3. CASE 7 \notin S /\ 8 \notin S
      <3>1. \A l \in S : l = 9
        BY <2>0, <2>3
      <3>2. PICK k \in S : k = 9
        BY <3>1
      <3> QED BY <3>1, <3>2
    <2> QED BY <2>1, <2>2, <2>3
  <1> QED BY <1>2, <1>3, <1>4

(* One of the suffixes is free: a bare name that is taken belongs to a     *)
(* sprint, so that too few are left to take every suffix.                  *)
LEMMA SuffixFree ==
  ASSUME TypeOK, NEW i, NEW n, Bare(n), n \in NamesBut(i, n)
  PROVE  \E k \in 1 .. MaxId : Suffixed(n, k) \notin NamesBut(i, n)
  <1>1. PICK h \in live : sprints[h].name = n
    BY DEF NamesBut
  <1> DEFINE Others == live \ {h}
             Owner == [k \in 1 .. MaxId |-> CHOOSE j \in Others : sprints[j].name = Suffixed(n, k)]
  <1>2. SUFFICES ASSUME \A k \in 1 .. MaxId : Suffixed(n, k) \in NamesBut(i, n)
                 PROVE  FALSE
    OBVIOUS
  <1>3. \A k \in 1 .. MaxId : Suffixed(n, k) # n /\ Suffixed(n, k).copy = k
    BY SuffixedType DEF Bare
  <1>4. ASSUME NEW k \in 1 .. MaxId
        PROVE  \E j \in Others : sprints[j].name = Suffixed(n, k)
    <2>1. PICK j \in live : sprints[j].name = Suffixed(n, k)
      BY <1>2 DEF NamesBut
    <2>2. j # h
      BY <1>1, <1>3, <2>1
    <2> QED BY <2>1, <2>2
  <1>5. \A k \in 1 .. MaxId : Owner[k] \in Others /\ sprints[Owner[k]].name = Suffixed(n, k)
    BY <1>4
  <1>6. Owner \in [1 .. MaxId -> Others]
    BY <1>5
  <1>7. /\ IsFiniteSet(1 .. MaxId) /\ Cardinality(1 .. MaxId) = MaxId
        /\ IsFiniteSet(Others) /\ Cardinality(Others) < MaxId
    <2>1. IsFiniteSet(1 .. MaxId) /\ Cardinality(1 .. MaxId) = MaxId
      <3>1. MaxId \in Int /\ MaxId >= 1
        BY MaxIdAssumption
      <3> QED BY <3>1, FS_Interval
    <2>2. /\ IsFiniteSet((1 .. MaxId) \ {h})
          /\ Cardinality((1 .. MaxId) \ {h}) = MaxId - 1
      BY <2>1, FS_RemoveElement DEF TypeOK, Ids
    <2>3. Others \in SUBSET ((1 .. MaxId) \ {h})
      BY DEF TypeOK, Ids
    <2>4. IsFiniteSet(Others) /\ Cardinality(Others) <= MaxId - 1
      BY <2>2, <2>3, FS_Subset
    <2>5. Cardinality(Others) \in Nat
      BY <2>4, FS_CardinalityType
    <2> QED BY <2>1, <2>4, <2>5, MaxIdAssumption
  <1> HIDE DEF Owner, Others
  <1>8. PICK k, l \in 1 .. MaxId : k # l /\ Owner[k] = Owner[l]
    BY <1>6, <1>7, FS_PigeonHole
  <1> QED BY <1>3, <1>5, <1>8

(* The name chosen is free, and either the one asked for or a suffixed one.*)
LEMMA FinalNameFree ==
  ASSUME TypeOK, NEW i, NEW n, Bare(n)
  PROVE  LET m == FinalName(n, NamesBut(i, n))
         IN  m \notin NamesBut(i, n) /\ (m = n \/ \E k \in 1 .. MaxId : m = Suffixed(n, k))
  <1> DEFINE taken == NamesBut(i, n)
             free == {k \in 1 .. MaxId : Suffixed(n, k) \notin taken}
             k0 == CHOOSE k \in free : \A l \in free : k <= l
  <1>1. CASE n \notin taken
    BY <1>1 DEF FinalName
  <1>2. CASE n \in taken
    <2>1. free # {} /\ free \subseteq 1 .. MaxId
      BY <1>2, SuffixFree
    <2>2. \E k \in free : \A l \in free : k <= l
      <3> HIDE DEF free
      <3> QED BY <2>1, Smallest
    <2>3. k0 \in free
      <3> HIDE DEF free
      <3> QED BY <2>2
    <2>4. FinalName(n, taken) = Suffixed(n, k0)
      BY <1>2 DEF FinalName
    <2> HIDE DEF k0
    <2> QED BY <2>3, <2>4
  <1> QED BY <1>1, <1>2

LEMMA FinalNameType ==
  ASSUME TypeOK, NEW i, NEW n, Bare(n)
  PROVE  FinalName(n, NamesBut(i, n)) \in Name
  BY FinalNameFree, SuffixedType DEF Bare

-----------------------------------------------------------------------------
(* Types, whatever overlaps. *)

LEMMA IdleTyped == Idle \in Request /\ HandlerTyped(Idle)
  BY NullApart DEF Idle, Nothing, Request, Body, OrNull, HandlerTyped

LEMMA ReqTyped ==
  ASSUME IInv, NEW r \in Requests
  PROVE  req[r] \in Request /\ HandlerTyped(req[r])
  BY DEF IInv, TypeOK

(* A step of one request that leaves the tables alone. *)
LEMMA LocalStep ==
  ASSUME IInv, NEW r \in Requests, NEW q \in Request, HandlerTyped(q),
         req' = [req EXCEPT ![r] = q], overlapped' \in BOOLEAN,
         UNCHANGED <<sprints, nextId, tasks>>
  PROVE  IInv'
  <1>1. TypeOK'
    BY DEF IInv, TypeOK, live
  <1>2. \A s \in Requests : HandlerTyped(req'[s])
    BY DEF IInv, TypeOK
  <1> QED BY <1>1, <1>2 DEF IInv

LEMMA FinishStep ==
  ASSUME IInv, NEW r \in Requests, Finish(r)
  PROVE  IInv'
  BY IdleTyped, LocalStep DEF Finish, Local, IInv, TypeOK

LEMMA BeginStep ==
  ASSUME IInv, NEW r \in Requests, NEW q \in Request, HandlerTyped(q), Begin(r, q)
  PROVE  IInv'
  <1>1. overlapped' \in BOOLEAN
    BY DEF Begin, IInv, TypeOK
  <1> QED BY <1>1, LocalStep DEF Begin

LEMMA BodyNamesBare == \A n \in BodyNames : Bare(n)
  <1>1. 0 \in 0 .. MaxId
    BY MaxIdAssumption
  <1>2. Lengths \subseteq 1 .. Width
    BY WidthAssumption
  <1> QED BY <1>1, <1>2 DEF BodyNames, Bare, Name

(* What comes after the check for an active sprint. *)
LEMMA AfterActiveTyped ==
  ASSUME NEW q \in Request, HandlerTyped(q), q.op = "update", q.body.name # NULL => Bare(q.body.name)
  PROVE  AfterActive(q) \in Request /\ HandlerTyped(AfterActive(q))
  <1>1. CASE Renames(q)
    BY <1>1, NullApart DEF AfterActive, Renames, Request, HandlerTyped
  <1>2. CASE ~Renames(q)
    BY <1>2, NullApart DEF AfterActive, Request, HandlerTyped
  <1> QED BY <1>1, <1>2

LEMMA ArriveStep ==
  ASSUME IInv, NEW r \in Requests, Arrive(r)
  PROVE  IInv'
  <1>1. ASSUME NEW n \in BodyNames, NEW s \in Days, NEW e \in Days, StartCreate(r, n, s, e)
        PROVE  IInv'
    <2> PICK b : b = [name |-> n, start |-> s, end |-> e, status |-> "planned"]
      OBVIOUS
    <2> PICK q : q = [Idle EXCEPT !.pc = "name", !.op = "create", !.body = b]
      OBVIOUS
    <2>1. b \in Row /\ b \in Body /\ Bare(b.name)
      BY BodyNamesBare DEF Row, Body, OrNull, Statuses, Bare
    <2>2. q \in Request
      BY <2>1, IdleTyped DEF Request, Idle
    <2>3. HandlerTyped(q)
      BY <1>1, <2>1, NullApart DEF HandlerTyped, Idle, StartCreate
    <2> QED BY <1>1, <2>2, <2>3, BeginStep DEF StartCreate
  <1>2. ASSUME NEW i \in Ids, StartDelete(r, i) PROVE IInv'
    <2> PICK q : q = [Idle EXCEPT !.pc = "delete", !.op = "delete", !.id = i]
      OBVIOUS
    <2>1. q \in Request
      BY IdleTyped DEF Request, Idle, OrNull
    <2>2. HandlerTyped(q)
      BY DEF HandlerTyped, Idle
    <2> QED BY <1>2, <2>1, <2>2, BeginStep DEF StartDelete
  <1>3. ASSUME NEW i \in Ids, NEW b \in Bodies, StartUpdate(r, i, b) PROVE IInv'
    <2> PICK q : q = [Idle EXCEPT !.op = "update", !.id = i, !.row = sprints[i], !.body = b]
      OBVIOUS
    <2>1. b \in Body /\ (b.name # NULL => Bare(b.name))
      BY BodyNamesBare DEF Bodies, Body, OrNull, Bare
    <2>2. sprints[i] \in Row
      BY <1>3 DEF StartUpdate, IInv, TypeOK
    <2>3. q \in Request
      BY <2>1, <2>2, IdleTyped DEF Request, Idle, OrNull
    <2>4. HandlerTyped(q) /\ q.op = "update" /\ q.body = b
      BY <2>2 DEF HandlerTyped, Idle
    <2>5. [q EXCEPT !.pc = "active"] \in Request /\ HandlerTyped([q EXCEPT !.pc = "active"])
      BY <2>1, <2>3, <2>4 DEF HandlerTyped, Request
    <2>6. AfterActive(q) \in Request /\ HandlerTyped(AfterActive(q))
      BY <2>1, <2>3, <2>4, AfterActiveTyped
    <2> QED BY <1>3, <2>5, <2>6, BeginStep DEF StartUpdate
  <1> QED BY <1>1, <1>2, <1>3 DEF Arrive

LEMMA CheckActiveStep ==
  ASSUME IInv, NEW r \in Requests, CheckActive(r)
  PROVE  IInv'
  <1> PICK q : q = req[r]
    OBVIOUS
  <1>1. q \in Request /\ HandlerTyped(q) /\ q.pc = "active"
    BY ReqTyped DEF CheckActive
  <1>2. AfterActive(q) \in Request /\ HandlerTyped(AfterActive(q))
    BY <1>1, AfterActiveTyped DEF HandlerTyped
  <1> QED BY <1>2, IdleTyped, LocalStep DEF CheckActive, Local, IInv, TypeOK

(* A handler that has chosen its name. *)
Chosen(q) ==
    [q EXCEPT !.pc = IF q.op = "create" THEN "insert" ELSE "update",
              !.body.name = FinalName(q.body.name, NamesBut(q.id, q.body.name))]

LEMMA ChosenTyped ==
  ASSUME TypeOK, NEW q \in Request, HandlerTyped(q), q.pc = "name"
  PROVE  Chosen(q) \in Request /\ HandlerTyped(Chosen(q))
  <1> PICK m : m = FinalName(q.body.name, NamesBut(q.id, q.body.name))
    OBVIOUS
  <1>1. m \in Name
    BY FinalNameType DEF HandlerTyped
  <1> PICK b : b = [q.body EXCEPT !.name = m]
    OBVIOUS
  <1>2. b \in Body /\ (q.body \in Row => b \in Row)
    BY <1>1 DEF Request, Body, OrNull, Row
  <1>3. b.start = q.body.start /\ b.end = q.body.end /\ b.status = q.body.status
    BY DEF Request, Body
  <1>4. Chosen(q) = [q EXCEPT !.pc = IF q.op = "create" THEN "insert" ELSE "update", !.body = b]
    BY DEF Chosen, Request
  <1>5. Chosen(q) \in Request
    BY <1>2, <1>4 DEF Request
  <1>6. HandlerTyped(Chosen(q))
    BY <1>2, <1>3, <1>4 DEF HandlerTyped, Request
  <1> QED BY <1>5, <1>6

LEMMA ChooseNameStep ==
  ASSUME IInv, NEW r \in Requests, ChooseName(r)
  PROVE  IInv'
  <1> PICK q : q = req[r]
    OBVIOUS
  <1>1. q \in Request /\ HandlerTyped(q) /\ q.pc = "name"
    BY ReqTyped DEF ChooseName
  <1>2. Chosen(q) \in Request /\ HandlerTyped(Chosen(q))
    BY <1>1, ChosenTyped DEF IInv
  <1>3. Local(r, Chosen(q))
    BY DEF ChooseName, Chosen
  <1> QED BY <1>2, <1>3, LocalStep DEF Local, IInv, TypeOK

LEMMA InsertStep ==
  ASSUME IInv, NEW r \in Requests, Insert(r)
  PROVE  IInv'
  <1> DEFINE b == req[r].body
  <1>1. b \in Row
    BY ReqTyped DEF HandlerTyped, Insert
  <1>2. nextId \in Ids /\ nextId + 1 \in 1 .. MaxId + 1
    BY MaxIdAssumption DEF Insert, NewId, LastId, IInv, TypeOK, Ids
  <1>3. live' = live \cup {nextId} /\ sprints' \in [live' -> Row]
    BY <1>1 DEF Insert, NewId, IInv, TypeOK, live
  <1>4. TypeOK'
    BY <1>2, <1>3, IdleTyped DEF Insert, NewId, IInv, TypeOK
  <1>5. \A s \in Requests : HandlerTyped(req'[s])
    BY IdleTyped DEF Insert, IInv, TypeOK
  <1> QED BY <1>4, <1>5 DEF IInv

(* The row an edit leaves. *)
Result(q, now) ==
    [name   |-> Written(q.body.name, q.row.name, now.name),
     start  |-> Written(q.body.start, q.row.start, now.start),
     end    |-> Written(q.body.end, q.row.end, now.end),
     status |-> Written(q.body.status, q.row.status, now.status)]

LEMMA ResultType ==
  ASSUME NEW q \in Request, NEW now \in Row
  PROVE  Result(q, now) \in Row
  BY DEF Result, Written, Edited, Request, Body, Row, OrNull

LEMMA UpdateStep ==
  ASSUME IInv, NEW r \in Requests, Update(r)
  PROVE  IInv'
  <1> PICK q : q = req[r]
    OBVIOUS
  <1>1. q \in Request /\ q.id \in live
    BY ReqTyped DEF Update, UpdateCommits
  <1>2. sprints[q.id] \in Row
    BY <1>1 DEF IInv, TypeOK
  <1>3. /\ sprints' = [sprints EXCEPT ![q.id] = Result(q, sprints[q.id])]
        /\ req' = [req EXCEPT ![r] = Idle]
        /\ UNCHANGED <<nextId, tasks, overlapped>>
    BY DEF Update, Result
  <1>4. live' = live /\ sprints' \in [live -> Row]
    BY <1>1, <1>2, <1>3, ResultType DEF IInv, TypeOK, live
  <1>5. TypeOK'
    BY <1>3, <1>4, IdleTyped DEF IInv, TypeOK
  <1>6. \A s \in Requests : HandlerTyped(req'[s])
    BY <1>3, IdleTyped DEF IInv, TypeOK
  <1> QED BY <1>5, <1>6 DEF IInv

LEMMA DeleteStep ==
  ASSUME IInv, NEW r \in Requests, Delete(r)
  PROVE  IInv'
  <1>1. live' = live \ {req[r].id} /\ sprints' \in [live' -> Row]
    BY DEF Delete, IInv, TypeOK, live
  <1>2. TypeOK'
    BY <1>1, IdleTyped DEF Delete, IInv, TypeOK
  <1>3. \A s \in Requests : HandlerTyped(req'[s])
    BY IdleTyped DEF Delete, IInv, TypeOK
  <1> QED BY <1>2, <1>3 DEF IInv

LEMMA AssignStep ==
  ASSUME IInv, NEW t \in Tasks, NEW i \in Ids, Assign(t, i)
  PROVE  IInv'
  <1>1. TypeOK'
    BY DEF Assign, IInv, TypeOK, live, OrNull
  <1>2. \A s \in Requests : HandlerTyped(req'[s])
    BY DEF Assign, IInv
  <1> QED BY <1>1, <1>2 DEF IInv

LEMMA InitIInv == Init => IInv
  <1> SUFFICES ASSUME Init PROVE IInv
    OBVIOUS
  <1>1. TypeOK
    <2>1. live = {} /\ sprints \in [live -> Row]
      BY DEF Init, live
    <2>2. 1 \in 1 .. MaxId + 1
      BY MaxIdAssumption
    <2>3. req \in [Requests -> Request] /\ tasks \in [Tasks -> OrNull(Ids)]
      BY IdleTyped DEF Init, OrNull
    <2> QED BY <2>1, <2>2, <2>3 DEF Init, TypeOK
  <1>2. \A r \in Requests : HandlerTyped(req[r])
    BY IdleTyped DEF Init
  <1> QED BY <1>1, <1>2 DEF IInv

LEMMA NextIInv == IInv /\ [Next]_vars => IInv'
  <1> SUFFICES ASSUME IInv, [Next]_vars PROVE IInv'
    OBVIOUS
  <1>1. CASE UNCHANGED vars
    BY <1>1 DEF vars, IInv, TypeOK, live
  <1>2. ASSUME NEW r \in Requests, Arrive(r) PROVE IInv'
    BY <1>2, ArriveStep
  <1>3. ASSUME NEW r \in Requests, Proceed(r) PROVE IInv'
    <2>1. CASE CheckActive(r)
      BY <2>1, CheckActiveStep
    <2>2. CASE ChooseName(r)
      BY <2>2, ChooseNameStep
    <2>3. CASE Insert(r)
      BY <2>3, InsertStep
    <2>4. CASE NoMoreIds(r) \/ FailUpdate(r)
      BY <2>4, FinishStep DEF NoMoreIds, FailUpdate
    <2>5. CASE Update(r)
      BY <2>5, UpdateStep
    <2>6. CASE Delete(r)
      BY <2>6, DeleteStep
    <2> QED BY <1>3, <2>1, <2>2, <2>3, <2>4, <2>5, <2>6 DEF Proceed
  <1>4. ASSUME NEW t \in Tasks, NEW i \in Ids, Assign(t, i) PROVE IInv'
    BY <1>4, AssignStep
  <1> QED BY <1>1, <1>2, <1>3, <1>4 DEF Next

THEOREM IInvHolds == Spec => []IInv
  BY InitIInv, NextIInv, PTL DEF Spec

(* The table, the sequence and the handlers keep their types; what rests   *)
(* on a count is that a suffix is always found (services.py:614-619).      *)
THEOREM TypeCorrect == Spec => []TypeOK
  <1>1. IInv => TypeOK
    BY DEF IInv
  <1> QED BY <1>1, IInvHolds, PTL

-----------------------------------------------------------------------------
(* As long as requests have not overlapped, what the one request under way *)
(* has read is still so.  Only a name that was cut to make room for its    *)
(* suffix may be taken: it no longer starts with the name it was made of,  *)
(* and the query for names does not find another that was cut like it.     *)
Others(sp, i) == DOMAIN sp \ {i}

StillSo(q, sp) ==
    /\ q.op = "update" => q.id \in DOMAIN sp /\ sp[q.id] = q.row
    /\ q.op = "update" /\ q.pc \in {"name", "update"} /\ q.body.status = "active" =>
          \A j \in Others(sp, q.id) : sp[j].status # "active"
    /\ q.pc = "insert" \/ (q.pc = "update" /\ q.body.name \notin {NULL, q.row.name}) =>
          WasCut(q.body.name) \/ \A j \in Others(sp, q.id) : sp[j].name # q.body.name

OneIsActive(sp) ==
    \A i, j \in DOMAIN sp : sp[i].status = "active" /\ sp[j].status = "active" => i = j

DatesFitAll(sp) == \A i \in DOMAIN sp : DatesFit(sp[i].start, sp[i].end)

NamesDiffer(sp) ==
    \A i, j \in DOMAIN sp : sp[i].name = sp[j].name => i = j \/ WasCut(sp[i].name)

TableSound(sp) == OneIsActive(sp) /\ DatesFitAll(sp) /\ NamesDiffer(sp)

AtMostOneBusy == \A r, s \in Requests : req[r].pc # "idle" /\ req[s].pc # "idle" => r = s

(* A handler at rest is the initial one. *)
RestIsIdle == \A r \in Requests : req[r].pc = "idle" => req[r] = Idle

Solo ==
    /\ AtMostOneBusy
    /\ RestIsIdle
    /\ TableSound(sprints)
    /\ \A r \in Requests : StillSo(req[r], sprints)

SoloInv == IInv /\ (~overlapped => Solo)

LEMMA IdleStillSo ==
  ASSUME NEW sp
  PROVE  StillSo(Idle, sp)
  BY DEF StillSo, Idle

(* A step of the one request that is under way. *)
LEMMA SoloStep ==
  ASSUME IInv, Solo, NEW r \in Requests, NEW q, req[r].pc # "idle",
         req' = [req EXCEPT ![r] = q], q.pc = "idle" => q = Idle,
         TableSound(sprints'), StillSo(q, sprints')
  PROVE  Solo'
  <1>1. \A s \in Requests : s # r => req'[s] = req[s] /\ req[s] = Idle
    BY DEF Solo, AtMostOneBusy, RestIsIdle, IInv, TypeOK
  <1>2. req'[r] = q
    BY DEF IInv, TypeOK
  <1>3. AtMostOneBusy' /\ RestIsIdle'
    BY <1>1, <1>2 DEF AtMostOneBusy, RestIsIdle, Idle
  <1>4. \A s \in Requests : StillSo(req'[s], sprints')
    BY <1>1, <1>2, IdleStillSo
  <1> QED BY <1>3, <1>4 DEF Solo

LEMMA SoloLocal ==
  ASSUME IInv, Solo, NEW r \in Requests, NEW q, req[r].pc # "idle", Local(r, q),
         q.pc = "idle" => q = Idle, StillSo(q, sprints)
  PROVE  Solo'
  <1>1. req' = [req EXCEPT ![r] = q] /\ sprints' = sprints
    BY DEF Local
  <1>2. TableSound(sprints') /\ StillSo(q, sprints')
    BY <1>1 DEF Solo
  <1> QED BY <1>1, <1>2, SoloStep

LEMMA SoloFinish ==
  ASSUME IInv, Solo, NEW r \in Requests, req[r].pc # "idle", Finish(r)
  PROVE  Solo'
  BY IdleStillSo, SoloLocal DEF Finish

(* A request that arrives alone. *)
LEMMA SoloBegin ==
  ASSUME IInv, Solo, NEW r \in Requests, NEW q, Begin(r, q), ~overlapped',
         q.pc # "idle", StillSo(q, sprints)
  PROVE  Solo'
  <1>1. /\ req' = [req EXCEPT ![r] = q]
        /\ \A s \in Requests : req[s] = Idle
        /\ sprints' = sprints
    BY DEF Begin, Alone, Solo, RestIsIdle
  <1>2. \A s \in Requests : req'[s] = IF s = r THEN q ELSE Idle
    BY <1>1 DEF IInv, TypeOK
  <1>3. AtMostOneBusy' /\ RestIsIdle'
    BY <1>2 DEF AtMostOneBusy, RestIsIdle, Idle
  <1>4. \A s \in Requests : StillSo(req'[s], sprints')
    BY <1>1, <1>2, IdleStillSo
  <1>5. TableSound(sprints')
    BY <1>1 DEF Solo
  <1> QED BY <1>3, <1>4, <1>5 DEF Solo

(* What comes after the check for an active sprint. *)
LEMMA SoloAfterActive ==
  ASSUME NEW q \in Request, q.op = "update", q.id \in live, sprints[q.id] = q.row,
         q.body.status = "active" => \A j \in Others(sprints, q.id) : sprints[j].status # "active"
  PROVE  StillSo(AfterActive(q), sprints) /\ AfterActive(q).pc # "idle"
  <1>1. CASE Renames(q)
    BY <1>1 DEF AfterActive, StillSo, Request, live
  <1>2. CASE ~Renames(q)
    <2>1. q.body.name \in {NULL, q.row.name}
      BY <1>2 DEF Renames
    <2> QED BY <1>2, <2>1 DEF AfterActive, StillSo, Request, live
  <1> QED BY <1>1, <1>2

LEMMA SoloArrive ==
  ASSUME IInv, Solo, NEW r \in Requests, Arrive(r), ~overlapped'
  PROVE  Solo'
  <1>1. ASSUME NEW n \in BodyNames, NEW s \in Days, NEW e \in Days, StartCreate(r, n, s, e)
        PROVE  Solo'
    <2> PICK b : b = [name |-> n, start |-> s, end |-> e, status |-> "planned"]
      OBVIOUS
    <2> PICK q : q = [Idle EXCEPT !.pc = "name", !.op = "create", !.body = b]
      OBVIOUS
    <2>1. StillSo(q, sprints) /\ q.pc # "idle"
      BY DEF StillSo, Idle
    <2> QED BY <1>1, <2>1, SoloBegin DEF StartCreate
  <1>2. ASSUME NEW i \in Ids, StartDelete(r, i) PROVE Solo'
    <2> PICK q : q = [Idle EXCEPT !.pc = "delete", !.op = "delete", !.id = i]
      OBVIOUS
    <2>1. StillSo(q, sprints) /\ q.pc # "idle"
      BY DEF StillSo, Idle
    <2> QED BY <1>2, <2>1, SoloBegin DEF StartDelete
  <1>3. ASSUME NEW i \in Ids, NEW b \in Bodies, StartUpdate(r, i, b) PROVE Solo'
    <2> PICK q : q = [Idle EXCEPT !.op = "update", !.id = i, !.row = sprints[i], !.body = b]
      OBVIOUS
    <2>1. i \in live /\ sprints[i] \in Row
      BY <1>3 DEF StartUpdate, IInv, TypeOK
    <2>2. b \in Body
      BY BodyNamesBare DEF Bodies, Body, OrNull, Bare
    <2>3. q \in Request /\ q.op = "update" /\ q.id = i /\ q.row = sprints[i] /\ q.pc = "idle"
      BY <2>1, <2>2, IdleTyped DEF Request, Idle, OrNull
    <2>4. CASE NeedsCheck(q)
      <3>1. StillSo([q EXCEPT !.pc = "active"], sprints)
        BY <2>1, <2>3 DEF StillSo, Request, live
      <3> QED BY <1>3, <2>3, <2>4, <3>1, SoloBegin DEF StartUpdate, Request
    <2>5. CASE ~NeedsCheck(q)
      <3>1. StillSo(AfterActive(q), sprints) /\ AfterActive(q).pc # "idle"
        BY <2>1, <2>3, <2>5, SoloAfterActive DEF NeedsCheck
      <3> QED BY <1>3, <2>5, <3>1, SoloBegin DEF StartUpdate
    <2> QED BY <2>4, <2>5
  <1> QED BY <1>1, <1>2, <1>3 DEF Arrive

LEMMA SoloCheckActive ==
  ASSUME IInv, Solo, NEW r \in Requests, CheckActive(r)
  PROVE  Solo'
  <1> PICK q : q = req[r]
    OBVIOUS
  <1>1. q \in Request /\ HandlerTyped(q) /\ q.pc = "active" /\ q.op = "update"
    BY ReqTyped DEF CheckActive, HandlerTyped
  <1>2. q.id \in live /\ sprints[q.id] = q.row
    BY <1>1 DEF Solo, StillSo, live
  <1>3. CASE \E i \in live \ {q.id} : sprints[i].status = "active"
    BY <1>1, <1>3, SoloFinish DEF CheckActive, Finish
  <1>4. CASE ~\E i \in live \ {q.id} : sprints[i].status = "active"
    <2>1. StillSo(AfterActive(q), sprints) /\ AfterActive(q).pc # "idle"
      BY <1>1, <1>2, <1>4, SoloAfterActive DEF Others, live
    <2> QED BY <1>1, <1>4, <2>1, SoloLocal DEF CheckActive
  <1> QED BY <1>3, <1>4

(* A free name differs from all others unless it was cut.                  *)
LEMMA FinalNameDiffers ==
  ASSUME TypeOK, NEW i, NEW n, Bare(n), NEW j \in live \ {i}
  PROVE  LET m == FinalName(n, NamesBut(i, n)) IN WasCut(m) \/ sprints[j].name # m
  <1> PICK m : m = FinalName(n, NamesBut(i, n))
    OBVIOUS
  <1> SUFFICES ASSUME ~WasCut(m), sprints[j].name = m PROVE FALSE
    OBVIOUS
  <1>1. m \notin NamesBut(i, n) /\ (m = n \/ \E k \in 1 .. MaxId : m = Suffixed(n, k))
    BY FinalNameFree
  <1>2. n.letters \in Int /\ n.letters \in Lengths /\ Width \in Int
    BY WidthAssumption DEF Bare, Name
  <1>3. m.letters = n.letters
    <2>1. ASSUME NEW k \in 1 .. MaxId, m = Suffixed(n, k), n.letters > Width - SuffixWidth
          PROVE  FALSE
      <3>1. m.copy # 0 /\ m.letters = Width - SuffixWidth
        BY <1>2, <2>1, MaxIdAssumption DEF Suffixed, SuffixWidth
      <3>2. ~NothingCut
        BY <1>2, <2>1, WidthAssumption DEF NothingCut, SuffixWidth
      <3> QED BY <3>1, <3>2 DEF WasCut
    <2> QED BY <1>1, <1>2, <2>1 DEF Suffixed, SuffixWidth
  <1>4. sprints[j].name.letters >= n.letters
    BY <1>2, <1>3
  <1> QED BY <1>1, <1>4 DEF NamesBut

LEMMA SoloChooseName ==
  ASSUME IInv, Solo, NEW r \in Requests, ChooseName(r)
  PROVE  Solo'
  <1> PICK q : q = req[r]
    OBVIOUS
  <1> PICK m : m = FinalName(q.body.name, NamesBut(q.id, q.body.name))
    OBVIOUS
  <1>1. q \in Request /\ q.pc = "name" /\ q.op \in {"create", "update"} /\ Bare(q.body.name)
    BY ReqTyped DEF ChooseName, HandlerTyped
  <1>2. StillSo(q, sprints)
    BY DEF Solo
  <1>3. WasCut(m) \/ \A j \in Others(sprints, q.id) : sprints[j].name # m
    BY <1>1, FinalNameDiffers DEF IInv, Others, live
  <1>4. /\ Chosen(q).op = q.op /\ Chosen(q).id = q.id /\ Chosen(q).row = q.row
        /\ Chosen(q).pc = IF q.op = "create" THEN "insert" ELSE "update"
        /\ Chosen(q).body.name = m /\ Chosen(q).body.status = q.body.status
    <2> PICK b : b = [q.body EXCEPT !.name = m]
      OBVIOUS
    <2>1. b.name = m /\ b.status = q.body.status
      BY <1>1 DEF Request, Body
    <2>2. Chosen(q) = [q EXCEPT !.pc = IF q.op = "create" THEN "insert" ELSE "update", !.body = b]
      BY <1>1 DEF Chosen, Request
    <2> QED BY <1>1, <2>1, <2>2 DEF Request
  <1>5. StillSo(Chosen(q), sprints) /\ Chosen(q).pc # "idle"
    BY <1>1, <1>2, <1>3, <1>4 DEF StillSo
  <1>6. Local(r, Chosen(q))
    BY DEF ChooseName, Chosen
  <1> QED BY <1>1, <1>5, <1>6, SoloLocal

LEMMA SoloInsert ==
  ASSUME IInv, Solo, NEW r \in Requests, Insert(r)
  PROVE  Solo'
  <1> PICK q : q = req[r]
    OBVIOUS
  <1>1. /\ q.pc = "insert" /\ q.op = "create" /\ q.id = NULL /\ q.body \in Row
        /\ q.body.status = "planned" /\ DatesFit(q.body.start, q.body.end)
    BY ReqTyped DEF Insert, HandlerTyped
  <1>2. /\ DOMAIN sprints' = live \cup {nextId}
        /\ \A i \in DOMAIN sprints' : sprints'[i] = IF i = nextId THEN q.body ELSE sprints[i]
        /\ req' = [req EXCEPT ![r] = Idle]
    BY DEF Insert, NewId
  <1>3. OneIsActive(sprints')
    BY <1>1, <1>2 DEF OneIsActive, Solo, TableSound, live
  <1>4. DatesFitAll(sprints')
    BY <1>1, <1>2 DEF DatesFitAll, Solo, TableSound, live
  <1>5. ASSUME ~WasCut(q.body.name) PROVE \A j \in live : sprints[j].name # q.body.name
    <2>1. NULL \notin live
      BY NullApart DEF IInv, TypeOK
    <2> QED BY <1>1, <1>5, <2>1 DEF Solo, StillSo, Others, live
  <1>6. NamesDiffer(sprints')
    BY <1>2, <1>5 DEF NamesDiffer, Solo, TableSound, live
  <1> QED BY <1>1, <1>2, <1>3, <1>4, <1>6, IdleStillSo, SoloStep DEF TableSound

(* Alone, an edit leaves the loaded row with the changes of the body. *)
LEMMA ResultAlone ==
  ASSUME NEW q \in Request, q.row \in Row
  PROVE  /\ Result(q, q.row).name = Edited(q.body.name, q.row.name)
         /\ Result(q, q.row).start = Edited(q.body.start, q.row.start)
         /\ Result(q, q.row).end = Edited(q.body.end, q.row.end)
         /\ Result(q, q.row).status = Edited(q.body.status, q.row.status)
  BY DEF Result, Written, Edited

LEMMA SoloUpdate ==
  ASSUME IInv, Solo, NEW r \in Requests, Update(r)
  PROVE  Solo'
  <1> PICK q : q = req[r]
    OBVIOUS
  <1>1. q \in Request /\ q.pc = "update" /\ q.op = "update" /\ q.row \in Row
    BY ReqTyped DEF Update, HandlerTyped
  <1>2. StillSo(q, sprints) /\ q.id \in live /\ sprints[q.id] = q.row
    BY <1>1 DEF Solo, StillSo, live
  <1> PICK new : new = Result(q, q.row)
    OBVIOUS
  <1>3. /\ new.name = Edited(q.body.name, q.row.name)
        /\ new.start = Edited(q.body.start, q.row.start)
        /\ new.end = Edited(q.body.end, q.row.end)
        /\ new.status = Edited(q.body.status, q.row.status)
    BY <1>1, ResultAlone
  <1>4. DatesFit(new.start, new.end)
    BY <1>3 DEF Update, UpdateCommits
  <1>5. /\ DOMAIN sprints' = live
        /\ \A i \in live : sprints'[i] = IF i = q.id THEN new ELSE sprints[i]
        /\ req' = [req EXCEPT ![r] = Idle]
    BY <1>2 DEF Update, Result, IInv, TypeOK, live
  <1>6. TableSound(sprints)
    BY DEF Solo
  <1>7. OneIsActive(sprints')
    <2>1. ASSUME new.status = "active", NEW j \in live \ {q.id} PROVE sprints[j].status # "active"
      <3>1. CASE q.body.status = NULL
        BY <1>2, <1>3, <1>6, <2>1, <3>1 DEF Edited, TableSound, OneIsActive, live
      <3>2. CASE q.body.status # NULL
        BY <1>1, <1>2, <1>3, <2>1, <3>2 DEF Edited, StillSo, Others, live
      <3> QED BY <3>1, <3>2
    <2> QED BY <1>2, <1>5, <1>6, <2>1 DEF TableSound, OneIsActive, live
  <1>8. DatesFitAll(sprints')
    BY <1>4, <1>5, <1>6 DEF TableSound, DatesFitAll, live
  <1>9. ASSUME ~WasCut(new.name), NEW j \in live \ {q.id} PROVE sprints[j].name # new.name
    <2>1. CASE q.body.name \in {NULL, q.row.name}
      BY <1>2, <1>3, <1>6, <1>9, <2>1 DEF Edited, TableSound, NamesDiffer, live
    <2>2. CASE q.body.name \notin {NULL, q.row.name}
      BY <1>1, <1>2, <1>3, <1>9, <2>2 DEF Edited, StillSo, Others, live
    <2> QED BY <2>1, <2>2
  <1>10. NamesDiffer(sprints')
    BY <1>2, <1>5, <1>6, <1>9 DEF TableSound, NamesDiffer, live
  <1> QED BY <1>1, <1>5, <1>7, <1>8, <1>10, IdleStillSo, SoloStep DEF TableSound

LEMMA SoloDelete ==
  ASSUME IInv, Solo, NEW r \in Requests, Delete(r)
  PROVE  Solo'
  <1>1. /\ DOMAIN sprints' \subseteq live
        /\ \A i \in DOMAIN sprints' : sprints'[i] = sprints[i]
        /\ req' = [req EXCEPT ![r] = Idle] /\ req[r].pc # "idle"
    BY DEF Delete
  <1>2. TableSound(sprints')
    BY <1>1 DEF Solo, TableSound, OneIsActive, DatesFitAll, NamesDiffer, live
  <1> QED BY <1>1, <1>2, IdleStillSo, SoloStep

LEMMA SoloUntouched ==
  ASSUME Solo, UNCHANGED <<sprints, req>>
  PROVE  Solo'
  BY DEF Solo, AtMostOneBusy, RestIsIdle

LEMMA NextSolo == SoloInv /\ [Next]_vars => SoloInv'
  <1> SUFFICES ASSUME SoloInv, [Next]_vars, ~overlapped' PROVE Solo'
    BY NextIInv DEF SoloInv
  <1>1. ~overlapped
    BY DEF SoloInv, IInv, TypeOK, Next, vars, Arrive, StartCreate, StartUpdate, StartDelete, Begin, Proceed,
           CheckActive, ChooseName, Local, Insert, NoMoreIds, Finish, Update, FailUpdate, Delete, Assign
  <1>2. IInv /\ Solo
    BY <1>1 DEF SoloInv
  <1>3. CASE UNCHANGED vars
    BY <1>2, <1>3, SoloUntouched DEF vars
  <1>4. ASSUME NEW r \in Requests, Arrive(r) PROVE Solo'
    BY <1>2, <1>4, SoloArrive
  <1>5. ASSUME NEW r \in Requests, Proceed(r) PROVE Solo'
    <2>1. CASE CheckActive(r)
      BY <1>2, <2>1, SoloCheckActive
    <2>2. CASE ChooseName(r)
      BY <1>2, <2>2, SoloChooseName
    <2>3. CASE Insert(r)
      BY <1>2, <2>3, SoloInsert
    <2>4. CASE NoMoreIds(r) \/ FailUpdate(r)
      BY <1>2, <2>4, SoloFinish DEF NoMoreIds, FailUpdate
    <2>5. CASE Update(r)
      BY <1>2, <2>5, SoloUpdate
    <2>6. CASE Delete(r)
      BY <1>2, <2>6, SoloDelete
    <2> QED BY <1>5, <2>1, <2>2, <2>3, <2>4, <2>5, <2>6 DEF Proceed
  <1>6. ASSUME NEW t \in Tasks, NEW i \in Ids, Assign(t, i) PROVE Solo'
    BY <1>2, <1>6, SoloUntouched DEF Assign
  <1> QED BY <1>3, <1>4, <1>5, <1>6 DEF Next

LEMMA InitSolo == Init => SoloInv
  <1> SUFFICES ASSUME Init PROVE Solo
    BY InitIInv DEF SoloInv
  <1>1. DOMAIN sprints = {} /\ \A r \in Requests : req[r] = Idle
    BY DEF Init
  <1>2. TableSound(sprints)
    BY <1>1 DEF TableSound, OneIsActive, DatesFitAll, NamesDiffer
  <1> QED BY <1>1, <1>2, IdleStillSo DEF Solo, AtMostOneBusy, RestIsIdle, Idle

THEOREM SoloInvHolds == Spec => []SoloInv
  BY InitSolo, NextSolo, PTL DEF Spec

(* Served one by one, requests never make two sprints active               *)
(* (services.py:664-679).                                                  *)
THEOREM AlwaysOneActive == Spec => []OneActive
  <1>1. SoloInv => OneActive
    BY DEF SoloInv, Solo, TableSound, OneIsActive, OneActive, live
  <1> QED BY <1>1, SoloInvHolds, PTL

(* Served one by one, requests keep the dates of every sprint in order,    *)
(* whatever they change and in whatever sequence (services.py:707-713).    *)
THEOREM DatesStayInOrder == Spec => []DatesInOrder
  <1>1. ASSUME SoloInv, ~overlapped, NEW i \in live PROVE sprints[i].end - sprints[i].start \in 1 .. MaxLength
    <2>1. DatesFit(sprints[i].start, sprints[i].end)
      BY <1>1 DEF SoloInv, Solo, TableSound, DatesFitAll, live
    <2>2. sprints[i].start \in Nat /\ sprints[i].end \in Nat
      BY <1>1, NullApart DEF SoloInv, IInv, TypeOK, Row
    <2> QED BY <2>1, <2>2, DaysAssumption DEF DatesFit
  <1>2. SoloInv => DatesInOrder
    BY <1>1 DEF DatesInOrder
  <1> QED BY <1>2, SoloInvHolds, PTL

(* Served one by one, requests give two sprints the same name only if a    *)
(* name too long for its suffix was cut (services.py:611-619).             *)
THEOREM OnlyCutNamesMeet == Spec => []NamesApart
  <1>1. SoloInv => NamesApart
    BY DEF SoloInv, Solo, TableSound, NamesDiffer, NamesApart, live
  <1> QED BY <1>1, SoloInvHolds, PTL

(* So names stay apart, without exception, as long as none is too long.    *)
THEOREM NamesStayApart ==
  ASSUME NothingCut
  PROVE  Spec => [](~overlapped => \A i, j \in live : sprints[i].name = sprints[j].name => i = j)
  <1>1. SoloInv => (~overlapped => \A i, j \in live : sprints[i].name = sprints[j].name => i = j)
    BY NothingCut DEF SoloInv, Solo, TableSound, NamesDiffer, WasCut, live
  <1> QED BY <1>1, SoloInvHolds, PTL

-----------------------------------------------------------------------------
(* Sprints and tasks only name ids that were handed out before.            *)
IdsHandedOut ==
    /\ \A i \in live : i < nextId
    /\ \A t \in Tasks : tasks[t] # NULL => tasks[t] < nextId

LEMMA IdsTyped ==
  ASSUME IInv
  PROVE  nextId \in Int /\ live \subseteq Int /\ \A t \in Tasks : tasks[t] = NULL \/ tasks[t] \in Int
  BY NullApart, MaxIdAssumption DEF IInv, TypeOK, OrNull, Ids

LEMMA NextIds == IInv /\ IdsHandedOut /\ [Next]_vars => IdsHandedOut'
  <1> SUFFICES ASSUME IInv, IdsHandedOut, [Next]_vars PROVE IdsHandedOut'
    OBVIOUS
  <1> USE IdsTyped
  <1>1. CASE UNCHANGED <<sprints, nextId, tasks>>
    BY <1>1 DEF IdsHandedOut, live
  <1>2. ASSUME NEW r \in Requests, Insert(r) PROVE IdsHandedOut'
    <2>1. live' = live \cup {nextId} /\ nextId' = nextId + 1 /\ tasks' = tasks
      BY <1>2 DEF Insert, NewId, live
    <2> QED BY <2>1 DEF IdsHandedOut
  <1>3. ASSUME NEW r \in Requests, Update(r) \/ Delete(r) PROVE IdsHandedOut'
    <2>1. live' \subseteq live /\ nextId' = nextId /\ tasks' = tasks
      BY <1>3 DEF Update, Delete, live, IInv, TypeOK
    <2> QED BY <2>1 DEF IdsHandedOut
  <1>4. ASSUME NEW t \in Tasks, NEW i \in Ids, Assign(t, i) PROVE IdsHandedOut'
    BY <1>4 DEF Assign, IdsHandedOut, live, IInv, TypeOK
  <1>5. ASSUME NEW r \in Requests, Arrive(r) PROVE UNCHANGED <<sprints, nextId, tasks>>
    BY <1>5 DEF Arrive, StartCreate, StartDelete, StartUpdate, Begin
  <1>6. ASSUME NEW r \in Requests, CheckActive(r) \/ ChooseName(r) \/ NoMoreIds(r) \/ FailUpdate(r)
        PROVE  UNCHANGED <<sprints, nextId, tasks>>
    BY <1>6 DEF CheckActive, ChooseName, NoMoreIds, FailUpdate, Finish, Local
  <1> QED BY <1>1, <1>2, <1>3, <1>4, <1>5, <1>6 DEF Next, Proceed, vars

LEMMA StepLeavesNewEmpty ==
  ASSUME IInv, IdsHandedOut, [Next]_vars
  PROVE  [\A i \in live' \ live, t \in Tasks : tasks'[t] # i]_vars
  <1> SUFFICES ASSUME Next, NEW i \in live' \ live, NEW t \in Tasks PROVE tasks'[t] # i
    BY DEF vars
  <1>1. ASSUME NEW r \in Requests, Insert(r) PROVE tasks'[t] # i
    <2>1. i = nextId /\ tasks' = tasks
      BY <1>1 DEF Insert, NewId, live
    <2>2. nextId # NULL /\ nextId \in Int
      BY NullAssumption, MaxIdAssumption DEF IInv, TypeOK
    <2> QED BY <2>1, <2>2, IdsTyped DEF IdsHandedOut
  <1>2. ASSUME NEW r \in Requests, Arrive(r) \/ CheckActive(r) \/ ChooseName(r) \/ NoMoreIds(r) \/ FailUpdate(r) PROVE FALSE
    BY <1>2 DEF Arrive, StartCreate, StartDelete, StartUpdate, Begin, CheckActive, ChooseName, NoMoreIds, FailUpdate, Finish, Local, live
  <1>3. ASSUME NEW r \in Requests, Update(r) \/ Delete(r) PROVE FALSE
    BY <1>3 DEF Update, Delete, live, IInv, TypeOK
  <1>4. ASSUME NEW u \in Tasks, NEW j \in Ids, Assign(u, j) PROVE FALSE
    BY <1>4 DEF Assign, live
  <1> QED BY <1>1, <1>2, <1>3, <1>4 DEF Next, Proceed

LEMMA InitIds == Init => IdsHandedOut
  BY DEF Init, IdsHandedOut, live

(* No task is in a sprint that is just created, although deleted sprints   *)
(* stay in the tasks (services.py:731).                                    *)
THEOREM NewSprintsStayEmpty == Spec => NewSprintsEmpty
  BY InitIInv, InitIds, NextIInv, NextIds, StepLeavesNewEmpty, PTL DEF Spec, NewSprintsEmpty
=============================================================================
