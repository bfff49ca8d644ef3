---------------------------- MODULE AdminProofs ----------------------------
(***************************************************************************)
(* Proofs about Admin for every set of names, every bound and every number *)
(* of request slots.                                                       *)
(***************************************************************************)
EXTENDS Admin, FiniteSetTheorems, TLAPS

(* What the handlers hold between two statements. *)
HandlerTyped(q) ==
    /\ q.pc = "insert" => q.name \in Names
    /\ q.pc \in {"name", "record", "run", "save"} => q.stamp \in Seconds
    /\ q.pc \in {"run", "save"} => q.id \in Nat

(* A completed backup has a file. *)
FilesKnown(bs) == \A k \in DOMAIN bs : bs[k].status = "completed" => bs[k].file # NULL

(* The inductive invariant whatever overlaps. *)
IInv ==
    /\ TypeOK
    /\ NamesApart
    /\ FilesKnown(backups)
    /\ \A r \in Requests : HandlerTyped(req[r])

-----------------------------------------------------------------------------
LEMMA IdleTyped == Idle \in Request /\ HandlerTyped(Idle)
  BY DEF Idle, Request, OrNull, HandlerTyped

LEMMA ReqTyped ==
  ASSUME IInv, NEW r \in Requests
  PROVE  req[r] \in Request /\ HandlerTyped(req[r])
  BY DEF IInv, TypeOK

(* A step of one request that leaves the tables alone. *)
LEMMA LocalStep ==
  ASSUME IInv, NEW r \in Requests, NEW q \in Request, HandlerTyped(q), Local(r, q)
  PROVE  IInv'
  <1>1. /\ req' = [req EXCEPT ![r] = q]
        /\ UNCHANGED <<types, nextId, backups, now, overlapped>>
    BY DEF Local
  <1>2. TypeOK'
    BY <1>1 DEF IInv, TypeOK, live
  <1>3. NamesApart' /\ FilesKnown(backups')
    BY <1>1 DEF IInv, NamesApart, live
  <1>4. \A s \in Requests : HandlerTyped(req'[s])
    BY <1>1 DEF IInv, TypeOK
  <1> QED BY <1>2, <1>3, <1>4 DEF IInv

LEMMA FinishStep ==
  ASSUME IInv, NEW r \in Requests, Finish(r)
  PROVE  IInv'
  BY IdleTyped, LocalStep DEF Finish

LEMMA GoesStep ==
  ASSUME IInv, NEW r \in Requests, NEW pc, Goes(r, pc),
         \/ pc = "delete"
         \/ pc = "record" /\ req[r].pc = "name"
  PROVE  IInv'
  <1> PICK q : q = req[r]
    OBVIOUS
  <1>1. q \in Request /\ HandlerTyped(q)
    BY ReqTyped
  <1>2. [q EXCEPT !.pc = pc] \in Request /\ HandlerTyped([q EXCEPT !.pc = pc])
    BY <1>1 DEF Request, HandlerTyped
  <1> QED BY <1>2, LocalStep DEF Goes

(* A request that begins. *)
LEMMA BeginStep ==
  ASSUME IInv, NEW r \in Requests, NEW q \in Request, HandlerTyped(q), Begin(r, q)
  PROVE  IInv'
  <1>1. /\ req' = [req EXCEPT ![r] = q]
        /\ overlapped' \in BOOLEAN
        /\ UNCHANGED <<types, nextId, backups, now>>
    BY DEF Begin, IInv, TypeOK
  <1>2. TypeOK'
    BY <1>1 DEF IInv, TypeOK, live
  <1>3. NamesApart' /\ FilesKnown(backups')
    BY <1>1 DEF IInv, NamesApart, live
  <1>4. \A s \in Requests : HandlerTyped(req'[s])
    BY <1>1 DEF IInv, TypeOK
  <1> QED BY <1>2, <1>3, <1>4 DEF IInv

LEMMA ArriveStep ==
  ASSUME IInv, NEW r \in Requests, Arrive(r)
  PROVE  IInv'
  <1>1. ASSUME NEW n \in Names, StartCreate(r, n) PROVE IInv'
    <2>1. PICK q : q = [Idle EXCEPT !.pc = "insert", !.name = n]
      OBVIOUS
    <2>2. q \in Request /\ HandlerTyped(q)
      BY <2>1 DEF Idle, Request, OrNull, HandlerTyped
    <2> QED BY <1>1, <2>1, <2>2, BeginStep DEF StartCreate
  <1>2. ASSUME NEW i \in Ids, StartDelete(r, i) PROVE IInv'
    <2>1. PICK q : q = [Idle EXCEPT !.pc = "count", !.id = i]
      OBVIOUS
    <2>2. i \in Nat
      BY BoundsAssumption DEF Ids
    <2>3. q \in Request /\ HandlerTyped(q)
      BY <2>1, <2>2 DEF Idle, Request, OrNull, HandlerTyped
    <2> QED BY <1>2, <2>1, <2>3, BeginStep DEF StartDelete
  <1>3. CASE StartBackup(r)
    <2>1. PICK q : q = [Idle EXCEPT !.pc = "name", !.stamp = now]
      OBVIOUS
    <2>2. q \in Request /\ HandlerTyped(q)
      BY <2>1 DEF Idle, Request, OrNull, HandlerTyped, IInv, TypeOK
    <2> QED BY <1>3, <2>1, <2>2, BeginStep DEF StartBackup
  <1> QED BY <1>1, <1>2, <1>3 DEF Arrive

-----------------------------------------------------------------------------
LEMMA InsertStep ==
  ASSUME IInv, NEW r \in Requests, Insert(r)
  PROVE  IInv'
  <1> DEFINE n == req[r].name
  <1>1. /\ nextId <= MaxId
        /\ NameFree(n)
        /\ types' = [i \in live \cup {nextId} |-> IF i = nextId THEN n ELSE types[i]]
        /\ nextId' = nextId + 1
        /\ req' = [req EXCEPT ![r] = Idle]
        /\ UNCHANGED <<backups, now, overlapped>>
    BY DEF Insert
  <1>2. n \in Names
    BY ReqTyped DEF Insert, HandlerTyped
  <1> HIDE DEF n
  <1>3. nextId \in Ids /\ nextId' \in 1 .. MaxId + 1
    BY <1>1, BoundsAssumption DEF IInv, TypeOK, Ids
  <1>4. live' = live \cup {nextId}
    BY <1>1 DEF live
  <1>5. types' \in [live' -> Names]
    BY <1>1, <1>2, <1>4 DEF IInv, TypeOK
  <1>6. TypeOK'
    BY <1>1, <1>3, <1>4, <1>5, IdleTyped DEF IInv, TypeOK
  <1>7. NamesApart'
    BY <1>1, <1>4 DEF IInv, NamesApart, NameFree
  <1>8. FilesKnown(backups') /\ \A s \in Requests : HandlerTyped(req'[s])
    BY <1>1, IdleTyped DEF IInv, TypeOK
  <1> QED BY <1>6, <1>7, <1>8 DEF IInv

LEMMA DeleteStep ==
  ASSUME IInv, NEW r \in Requests, Delete(r)
  PROVE  IInv'
  <1>1. /\ types' = [i \in live \ {req[r].id} |-> types[i]]
        /\ req' = [req EXCEPT ![r] = Idle]
        /\ UNCHANGED <<nextId, backups, now, overlapped>>
    BY DEF Delete
  <1>2. live' = live \ {req[r].id}
    BY <1>1 DEF live
  <1>3. TypeOK'
    BY <1>1, <1>2, IdleTyped DEF IInv, TypeOK
  <1>4. NamesApart'
    BY <1>1, <1>2 DEF IInv, NamesApart
  <1>5. FilesKnown(backups') /\ \A s \in Requests : HandlerTyped(req'[s])
    BY <1>1, IdleTyped DEF IInv, TypeOK
  <1> QED BY <1>3, <1>4, <1>5 DEF IInv

-----------------------------------------------------------------------------
(* The row a backup starts with. *)
Fresh == [file |-> NULL, status |-> "in_progress"]

LEMMA RecordStep ==
  ASSUME IInv, NEW r \in Requests, Record(r)
  PROVE  IInv'
  <1>1. /\ backups' = Append(backups, Fresh)
        /\ req' = [req EXCEPT ![r].pc = "run", ![r].id = Len(backups) + 1]
        /\ UNCHANGED <<types, nextId, now, overlapped>>
    BY DEF Record, Fresh
  <1>2. PICK q, k : q = req[r] /\ k = Len(backups) + 1
    OBVIOUS
  <1>3. /\ q \in Request /\ q.stamp \in Seconds
        /\ k \in Nat
    BY <1>2, ReqTyped DEF Record, HandlerTyped, IInv, TypeOK
  <1>4. PICK p : p = [q EXCEPT !.pc = "run", !.id = k]
    OBVIOUS
  <1>5. p \in Request /\ HandlerTyped(p)
    BY <1>3, <1>4 DEF Request, OrNull, HandlerTyped
  <1>6. req' = [req EXCEPT ![r] = p]
    BY <1>1, <1>2, <1>4
  <1>7. Fresh \in Backup
    BY DEF Fresh, Backup, OrNull
  <1>8. backups' \in Seq(Backup) /\ FilesKnown(backups')
    BY <1>1, <1>7 DEF IInv, TypeOK, FilesKnown, Fresh
  <1>9. TypeOK'
    BY <1>1, <1>5, <1>6, <1>8 DEF IInv, TypeOK, live
  <1>10. NamesApart' /\ \A s \in Requests : HandlerTyped(req'[s])
    BY <1>1, <1>5, <1>6 DEF IInv, TypeOK, NamesApart, live
  <1> QED BY <1>8, <1>9, <1>10 DEF IInv

LEMMA RunStep ==
  ASSUME IInv, NEW r \in Requests, RunBackup(r)
  PROVE  IInv'
  <1> PICK q : q = req[r]
    OBVIOUS
  <1>1. PICK ok \in BOOLEAN : Local(r, [q EXCEPT !.pc = "save", !.file = Destination(q, ok)])
    BY DEF RunBackup
  <1>2. q \in Request /\ q.stamp \in Seconds /\ q.id \in Nat
    BY <1>1, ReqTyped DEF RunBackup, HandlerTyped
  <1>3. PICK f : f = Destination(q, ok)
    OBVIOUS
  <1>4. f \in OrNull(Seconds)
    BY <1>2, <1>3 DEF Destination, OrNull
  <1>5. PICK p : p = [q EXCEPT !.pc = "save", !.file = f]
    OBVIOUS
  <1>6. p \in Request /\ HandlerTyped(p)
    BY <1>2, <1>4, <1>5 DEF Request, OrNull, HandlerTyped
  <1> QED BY <1>1, <1>3, <1>5, <1>6, LocalStep

LEMMA SaveStep ==
  ASSUME IInv, NEW r \in Requests, Save(r)
  PROVE  IInv'
  <1>1. PICK q, b : /\ q = req[r]
                    /\ b = [file |-> q.file, status |-> Outcome(q.file)]
    OBVIOUS
  <1>2. /\ backups' = [backups EXCEPT ![q.id] = b]
        /\ req' = [req EXCEPT ![r] = Idle]
        /\ UNCHANGED <<types, nextId, now, overlapped>>
    BY <1>1 DEF Save
  <1>3. q \in Request
    BY <1>1, ReqTyped
  <1>4. b \in Backup /\ (b.status = "completed" => b.file # NULL)
    BY <1>1, <1>3 DEF Outcome, Backup, Request, OrNull
  <1>5. backups' \in Seq(Backup)
    <2>1. backups \in [1 .. Len(backups) -> Backup] /\ Len(backups) \in Nat
      BY DEF IInv, TypeOK
    <2>2. backups' \in [1 .. Len(backups) -> Backup]
      BY <1>2, <1>4, <2>1
    <2> QED BY <2>1, <2>2
  <1>6. FilesKnown(backups')
    BY <1>2, <1>4 DEF IInv, TypeOK, FilesKnown
  <1>7. TypeOK'
    BY <1>2, <1>5, IdleTyped DEF IInv, TypeOK, live
  <1>8. NamesApart' /\ \A s \in Requests : HandlerTyped(req'[s])
    BY <1>2, IdleTyped DEF IInv, TypeOK, NamesApart, live
  <1> QED BY <1>6, <1>7, <1>8 DEF IInv

-----------------------------------------------------------------------------
LEMMA InitIInv == Init => IInv
  <1> SUFFICES ASSUME Init PROVE IInv
    OBVIOUS
  <1>1. live = {1} /\ types[1] = Initial
    BY DEF Init, live
  <1>2. types \in [live -> Names] /\ live \subseteq Ids
    BY <1>1, InitialAssumption, BoundsAssumption DEF Init, Ids
  <1>3. backups \in Seq(Backup) /\ nextId \in 1 .. MaxId + 1 /\ now \in Seconds /\ overlapped \in BOOLEAN
    <2>1. backups \in Seq(Backup)
      BY DEF Init
    <2>2. nextId \in 1 .. MaxId + 1
      BY BoundsAssumption DEF Init
    <2>3. now \in Seconds
      BY BoundsAssumption DEF Init, Seconds
    <2>4. overlapped \in BOOLEAN
      BY DEF Init
    <2> QED BY <2>1, <2>2, <2>3, <2>4
  <1>4. req \in [Requests -> Request]
    BY IdleTyped DEF Init
  <1>5. TypeOK
    BY <1>2, <1>3, <1>4 DEF TypeOK
  <1>6. NamesApart /\ FilesKnown(backups) /\ \A r \in Requests : HandlerTyped(req[r])
    BY <1>1, IdleTyped DEF Init, NamesApart, FilesKnown
  <1> QED BY <1>5, <1>6 DEF IInv

LEMMA NextIInv == IInv /\ [Next]_vars => IInv'
  <1> SUFFICES ASSUME IInv, [Next]_vars PROVE IInv'
    OBVIOUS
  <1>1. ASSUME NEW r \in Requests, Arrive(r) PROVE IInv'
    BY <1>1, ArriveStep
  <1>2. ASSUME NEW r \in Requests, Proceed(r) PROVE IInv'
    <2>1. CASE Insert(r) BY <2>1, InsertStep
    <2>2. CASE FailInsert(r) BY <2>2, FinishStep DEF FailInsert
    <2>3. CASE Count(r) BY <2>3, FinishStep, GoesStep DEF Count
    <2>4. CASE Delete(r) BY <2>4, DeleteStep
    <2>5. CASE CheckName(r) BY <2>5, FinishStep, GoesStep DEF CheckName
    <2>6. CASE Record(r) BY <2>6, RecordStep
    <2>7. CASE NoMoreBackups(r) BY <2>7, FinishStep DEF NoMoreBackups
    <2>8. CASE RunBackup(r) BY <2>8, RunStep
    <2>9. CASE Save(r) BY <2>9, SaveStep
    <2> QED BY <1>2, <2>1, <2>2, <2>3, <2>4, <2>5, <2>6, <2>7, <2>8, <2>9 DEF Proceed
  <1>3. ASSUME NEW r \in Requests, Abort(r) PROVE IInv'
    BY <1>3, FinishStep DEF Abort
  <1>4. CASE Tick
    BY <1>4, BoundsAssumption DEF Tick, IInv, TypeOK, NamesApart, live, Seconds
  <1>5. CASE UNCHANGED vars
    BY <1>5 DEF vars, IInv, TypeOK, NamesApart, live
  <1> QED BY <1>1, <1>2, <1>3, <1>4, <1>5 DEF Next

THEOREM IInvHolds == Spec => []IInv
  BY InitIInv, NextIInv, PTL DEF Spec

(* The tables and the handlers keep their types (admin/models.py). *)
THEOREM TypeCorrect == Spec => []TypeOK
  <1>1. IInv => TypeOK
    BY DEF IInv
  <1> QED BY <1>1, IInvHolds, PTL

(* No two task types have one name, whatever requests overlap              *)
(* (service.py:54-57).                                                     *)
THEOREM NamesStayApart == Spec => []NamesApart
  <1>1. IInv => NamesApart
    BY DEF IInv
  <1> QED BY <1>1, IInvHolds, PTL

-----------------------------------------------------------------------------
(* As long as requests have not overlapped, what the one request under way *)
(* has read is still so.                                                   *)
Running(bs, k) == bs[k].status = "in_progress"

StillSo(q, T, bs) ==
    /\ q.pc = "delete" => \E i \in T : i # q.id
    /\ q.pc \in {"name", "record"} => \A k \in DOMAIN bs : ~Running(bs, k)
    /\ q.pc \in {"record", "run", "save"} => \A k \in DOMAIN bs : bs[k].file # q.stamp
    /\ q.pc \in {"run", "save"} => \A k \in DOMAIN bs : Running(bs, k) => k = q.id
    /\ q.pc = "save" => q.file \in {NULL, q.stamp}

OneRunning(bs) == \A j, k \in DOMAIN bs : Running(bs, j) /\ Running(bs, k) => j = k

FilesApart(bs) ==
    \A j, k \in DOMAIN bs : bs[j].file # NULL /\ bs[j].file = bs[k].file => j = k

AtMostOneBusy == \A r, s \in Requests : req[r].pc # "idle" /\ req[s].pc # "idle" => r = s

Solo ==
    /\ AtMostOneBusy
    /\ live # {}
    /\ OneRunning(backups)
    /\ FilesApart(backups)
    /\ \A r \in Requests : StillSo(req[r], live, backups)

SoloInv == IInv /\ (~overlapped => Solo)

LEMMA IdleStillSo ==
  ASSUME NEW T, NEW bs
  PROVE  StillSo(Idle, T, bs)
  BY DEF StillSo, Idle

(* A step of the one request that is under way. *)
LEMMA SoloStep ==
  ASSUME IInv, Solo, NEW r \in Requests, NEW q, req[r].pc # "idle",
         req' = [req EXCEPT ![r] = q],
         live' # {}, OneRunning(backups'), FilesApart(backups'),
         StillSo(q, live', backups')
  PROVE  Solo'
  <1>1. \A s \in Requests : s # r => req'[s] = req[s] /\ req[s].pc = "idle"
    BY DEF Solo, AtMostOneBusy, IInv, TypeOK
  <1>2. req'[r] = q
    BY DEF IInv, TypeOK
  <1>3. AtMostOneBusy'
    BY <1>1 DEF AtMostOneBusy
  <1>4. \A s \in Requests : StillSo(req'[s], live', backups')
    BY <1>1, <1>2 DEF StillSo
  <1> QED BY <1>3, <1>4 DEF Solo

LEMMA SoloLocal ==
  ASSUME IInv, Solo, NEW r \in Requests, NEW q, req[r].pc # "idle", Local(r, q),
         StillSo(q, live, backups)
  PROVE  Solo'
  <1>1. req' = [req EXCEPT ![r] = q] /\ UNCHANGED <<live, backups>>
    BY DEF Local, live
  <1>2. live' # {} /\ OneRunning(backups') /\ FilesApart(backups') /\ StillSo(q, live', backups')
    BY <1>1 DEF Solo
  <1> QED BY <1>1, <1>2, SoloStep

LEMMA SoloFinish ==
  ASSUME IInv, Solo, NEW r \in Requests, req[r].pc # "idle", Finish(r)
  PROVE  Solo'
  BY IdleStillSo, SoloLocal DEF Finish

(* A request that arrives alone. *)
LEMMA SoloBegin ==
  ASSUME IInv, Solo, NEW r \in Requests, NEW q, Begin(r, q), ~overlapped',
         StillSo(q, live, backups)
  PROVE  Solo'
  <1>1. /\ req' = [req EXCEPT ![r] = q]
        /\ \A s \in Requests : req[s].pc = "idle"
        /\ UNCHANGED <<live, backups>>
    BY DEF Begin, live
  <1>2. AtMostOneBusy'
    BY <1>1 DEF AtMostOneBusy, IInv, TypeOK
  <1>3. \A s \in Requests : StillSo(req'[s], live', backups')
    BY <1>1 DEF Solo, IInv, TypeOK
  <1> QED BY <1>1, <1>2, <1>3 DEF Solo

LEMMA SoloArrive ==
  ASSUME IInv, Solo, NEW r \in Requests, Arrive(r), ~overlapped'
  PROVE  Solo'
  <1>1. ASSUME NEW n \in Names, StartCreate(r, n) PROVE Solo'
    <2>1. StillSo([Idle EXCEPT !.pc = "insert", !.name = n], live, backups)
      BY DEF StillSo, Idle
    <2> QED BY <1>1, <2>1, SoloBegin DEF StartCreate
  <1>2. ASSUME NEW i \in Ids, StartDelete(r, i) PROVE Solo'
    <2>1. StillSo([Idle EXCEPT !.pc = "count", !.id = i], live, backups)
      BY DEF StillSo, Idle
    <2> QED BY <1>2, <2>1, SoloBegin DEF StartDelete
  <1>3. CASE StartBackup(r)
    <2>1. StillSo([Idle EXCEPT !.pc = "name", !.stamp = now], live, backups)
      BY <1>3 DEF StillSo, Idle, StartBackup, InProgress, Running
    <2> QED BY <1>3, <2>1, SoloBegin DEF StartBackup
  <1> QED BY <1>1, <1>2, <1>3 DEF Arrive

(* With two types or more, there is another one. *)
LEMMA AnotherType ==
  ASSUME IInv, NEW i, Enough(Cardinality(live))
  PROVE  \E j \in live : j # i
  <1>1. IsFiniteSet(live)
    <2>1. IsFiniteSet(Ids)
      BY FS_Interval, BoundsAssumption DEF Ids
    <2>2. live \subseteq Ids
      BY DEF IInv, TypeOK
    <2> QED BY <2>1, <2>2, FS_Subset
  <1>2. SUFFICES ASSUME live \subseteq {i} PROVE FALSE
    OBVIOUS
  <1>3. /\ Cardinality(live) \in Nat
        /\ Cardinality(live) <= Cardinality({i})
        /\ Cardinality({i}) = 1
    BY <1>1, <1>2, FS_Singleton, FS_Subset, FS_CardinalityType
  <1> QED BY <1>3 DEF Enough

LEMMA SoloCount ==
  ASSUME IInv, Solo, NEW r \in Requests, Count(r)
  PROVE  Solo'
  <1>1. CASE Finish(r)
    BY <1>1, SoloFinish DEF Count
  <1>2. CASE Enough(Cardinality(live)) /\ Goes(r, "delete")
    <2>1. PICK q : q = req[r]
      OBVIOUS
    <2>2. StillSo([q EXCEPT !.pc = "delete"], live, backups)
      BY <1>2, <2>1, AnotherType, ReqTyped DEF StillSo, Request
    <2> QED BY <1>2, <2>1, <2>2, SoloLocal DEF Count, Goes
  <1> QED BY <1>1, <1>2 DEF Count

LEMMA SoloCheckName ==
  ASSUME IInv, Solo, NEW r \in Requests, CheckName(r)
  PROVE  Solo'
  <1>1. CASE Finish(r)
    BY <1>1, SoloFinish DEF CheckName
  <1>2. CASE ~NameTaken(req[r].stamp) /\ Goes(r, "record")
    <2>1. PICK q : q = req[r]
      OBVIOUS
    <2>2. q.pc = "name" /\ StillSo(q, live, backups) /\ q \in Request
      BY <2>1, ReqTyped DEF CheckName, Solo
    <2>3. StillSo([q EXCEPT !.pc = "record"], live, backups)
      BY <1>2, <2>1, <2>2 DEF StillSo, Request, NameTaken
    <2> QED BY <1>2, <2>1, <2>3, SoloLocal DEF CheckName, Goes
  <1> QED BY <1>1, <1>2 DEF CheckName

LEMMA SoloTables ==
  ASSUME IInv, Solo, NEW r \in Requests, Insert(r) \/ Delete(r)
  PROVE  Solo'
  <1>1. /\ req' = [req EXCEPT ![r] = Idle]
        /\ backups' = backups
        /\ req[r].pc # "idle"
    BY DEF Insert, Delete
  <1>2. live' # {}
    <2>1. CASE Insert(r)
      BY <2>1 DEF Insert, live
    <2>2. CASE Delete(r)
      BY <2>2 DEF Delete, live, Solo, StillSo
    <2> QED BY <2>1, <2>2
  <1>3. OneRunning(backups') /\ FilesApart(backups')
    BY <1>1 DEF Solo
  <1> QED BY <1>1, <1>2, <1>3, IdleStillSo, SoloStep

LEMMA SoloRecord ==
  ASSUME IInv, Solo, NEW r \in Requests, Record(r)
  PROVE  Solo'
  <1>1. PICK q, k : q = req[r] /\ k = Len(backups) + 1
    OBVIOUS
  <1>2. /\ q.pc = "record" /\ q \in Request /\ StillSo(q, live, backups)
        /\ q.stamp \in Seconds
    BY <1>1, ReqTyped DEF Record, HandlerTyped, Solo
  <1>3. PICK p : p = [q EXCEPT !.pc = "run", !.id = k]
    OBVIOUS
  <1>4. req' = [req EXCEPT ![r] = p] /\ backups' = Append(backups, Fresh) /\ live' = live
    BY <1>1, <1>3 DEF Record, Fresh, live
  <1>5. /\ DOMAIN backups = 1 .. Len(backups) /\ Len(backups) \in Nat
        /\ DOMAIN backups' = 1 .. k
        /\ \A j \in DOMAIN backups : backups'[j] = backups[j]
        /\ backups'[k] = Fresh
    BY <1>1, <1>4 DEF IInv, TypeOK
  <1>6. \A j \in DOMAIN backups' : j = k \/ j \in DOMAIN backups
    BY <1>1, <1>5
  <1>7. \A j \in DOMAIN backups' : Running(backups', j) => j = k
    BY <1>2, <1>5, <1>6 DEF StillSo, Running
  <1>8. Fresh.file = NULL /\ NULL \notin Seconds
    BY NullAssumption, BoundsAssumption DEF Fresh, Seconds
  <1>9. OneRunning(backups')
    BY <1>7 DEF OneRunning
  <1>10. FilesApart(backups')
    BY <1>5, <1>6, <1>8 DEF FilesApart, Solo
  <1>11. p.pc = "run" /\ p.id = k /\ p.stamp = q.stamp
    BY <1>2, <1>3 DEF Request
  <1>12. \A j \in DOMAIN backups' : backups'[j].file # q.stamp
    BY <1>2, <1>5, <1>6, <1>8 DEF StillSo
  <1>13. StillSo(p, live', backups')
    BY <1>7, <1>11, <1>12 DEF StillSo
  <1> QED BY <1>1, <1>2, <1>4, <1>9, <1>10, <1>13, SoloStep DEF Solo

LEMMA SoloRun ==
  ASSUME IInv, Solo, NEW r \in Requests, RunBackup(r)
  PROVE  Solo'
  <1> PICK q : q = req[r]
    OBVIOUS
  <1>1. PICK ok \in BOOLEAN : Local(r, [q EXCEPT !.pc = "save", !.file = Destination(q, ok)])
    BY DEF RunBackup
  <1>2. q.pc = "run" /\ q \in Request /\ StillSo(q, live, backups)
    BY <1>1, ReqTyped DEF RunBackup, Solo
  <1>3. PICK f : f = Destination(q, ok)
    OBVIOUS
  <1>4. f \in {NULL, q.stamp}
    BY <1>3 DEF Destination
  <1>5. StillSo([q EXCEPT !.pc = "save", !.file = f], live, backups)
    BY <1>2, <1>4 DEF StillSo, Request
  <1> QED BY <1>1, <1>2, <1>3, <1>5, SoloLocal

LEMMA SoloSave ==
  ASSUME IInv, Solo, NEW r \in Requests, Save(r)
  PROVE  Solo'
  <1>1. PICK q, b : /\ q = req[r]
                    /\ b = [file |-> q.file, status |-> Outcome(q.file)]
    OBVIOUS
  <1>2. /\ backups' = [backups EXCEPT ![q.id] = b]
        /\ req' = [req EXCEPT ![r] = Idle]
        /\ live' = live
        /\ q.pc = "save" /\ StillSo(q, live, backups)
    BY <1>1 DEF Save, Solo, live
  <1>3. b.file = q.file /\ b.status # "in_progress" /\ b.file \in {NULL, q.stamp}
    BY <1>1, <1>2 DEF Outcome, StillSo
  <1>4. /\ DOMAIN backups' = DOMAIN backups
        /\ \A k \in DOMAIN backups : backups'[k] = IF k = q.id THEN b ELSE backups[k]
    BY <1>2 DEF IInv, TypeOK
  <1>5. \A k \in DOMAIN backups' : ~Running(backups', k)
    BY <1>2, <1>3, <1>4 DEF Running, StillSo
  <1>6. OneRunning(backups')
    BY <1>5 DEF OneRunning
  <1>7. \A k \in DOMAIN backups : backups[k].file # q.stamp
    BY <1>2 DEF StillSo
  <1>8. FilesApart(backups')
    BY <1>3, <1>4, <1>7 DEF FilesApart, Solo
  <1> QED BY <1>1, <1>2, <1>6, <1>8, IdleStillSo, SoloStep DEF Solo

LEMMA SoloNext == SoloInv /\ [Next]_vars => SoloInv'
  <1> SUFFICES ASSUME SoloInv, [Next]_vars PROVE SoloInv'
    OBVIOUS
  <1>1. IInv /\ IInv'
    BY NextIInv DEF SoloInv
  <1>2. SUFFICES ASSUME ~overlapped' PROVE Solo'
    BY <1>1 DEF SoloInv
  <1>3. ~overlapped
    BY <1>2 DEF Next, Arrive, StartCreate, StartDelete, StartBackup, Begin, Proceed, Abort, Tick, vars,
               Insert, FailInsert, Count, Delete, CheckName, Record, NoMoreBackups, RunBackup, Save,
               Goes, Finish, Local
  <1>4. Solo
    BY <1>3 DEF SoloInv
  <1>5. ASSUME NEW r \in Requests, Arrive(r) PROVE Solo'
    BY <1>1, <1>2, <1>4, <1>5, SoloArrive
  <1>6. ASSUME NEW r \in Requests, Proceed(r) PROVE Solo'
    <2>1. CASE Insert(r) \/ Delete(r) BY <1>1, <1>4, <2>1, SoloTables
    <2>2. CASE FailInsert(r) BY <1>1, <1>4, <2>2, SoloFinish DEF FailInsert
    <2>3. CASE Count(r) BY <1>1, <1>4, <2>3, SoloCount
    <2>4. CASE CheckName(r) BY <1>1, <1>4, <2>4, SoloCheckName
    <2>5. CASE Record(r) BY <1>1, <1>4, <2>5, SoloRecord
    <2>6. CASE NoMoreBackups(r) BY <1>1, <1>4, <2>6, SoloFinish DEF NoMoreBackups
    <2>7. CASE RunBackup(r) BY <1>1, <1>4, <2>7, SoloRun
    <2>8. CASE Save(r) BY <1>1, <1>4, <2>8, SoloSave
    <2> QED BY <1>6, <2>1, <2>2, <2>3, <2>4, <2>5, <2>6, <2>7, <2>8 DEF Proceed
  <1>7. ASSUME NEW r \in Requests, Abort(r) PROVE Solo'
    BY <1>1, <1>4, <1>7, SoloFinish DEF Abort
  <1>8. CASE Tick \/ UNCHANGED vars
    <2>1. UNCHANGED <<live, backups, req>>
      BY <1>8 DEF Tick, vars, live
    <2> QED BY <1>4, <2>1 DEF Solo, AtMostOneBusy
  <1> QED BY <1>5, <1>6, <1>7, <1>8 DEF Next

LEMMA SoloInit == Init => SoloInv
  <1> SUFFICES ASSUME Init PROVE Solo
    BY InitIInv DEF SoloInv
  <1>1. live = {1} /\ backups = <<>> /\ \A r \in Requests : req[r] = Idle
    BY DEF Init, live
  <1>2. AtMostOneBusy
    BY <1>1 DEF AtMostOneBusy, Idle
  <1>3. OneRunning(backups) /\ FilesApart(backups)
    BY <1>1 DEF OneRunning, FilesApart
  <1> QED BY <1>1, <1>2, <1>3, IdleStillSo DEF Solo

LEMMA SoloInvHolds == Spec => []SoloInv
  BY SoloInit, SoloNext, PTL DEF Spec

(* Served one by one, a task type is always left (service.py:74-78),       *)
(* whatever the number of types and of requests.                           *)
THEOREM TypeAlwaysLeft == Spec => []TypeLeft
  <1>1. SoloInv => TypeLeft
    BY DEF SoloInv, Solo, TypeLeft
  <1> QED BY <1>1, SoloInvHolds, PTL

(* Served one by one, requests never have two backups in progress nor two  *)
(* completed ones in a file (service.py:195-206), wherever they die.       *)
THEOREM BackupsStayApart == Spec => []BackupsApart
  <1>1. ASSUME SoloInv, ~overlapped PROVE Cardinality(InProgress) <= 1
    <2>1. \A j, k \in InProgress : j = k
      BY <1>1 DEF SoloInv, Solo, OneRunning, Running, InProgress
    <2>2. CASE InProgress = {}
      BY <2>2, FS_EmptySet
    <2>3. CASE InProgress # {}
      <3>1. PICK k \in InProgress : TRUE
        BY <2>3
      <3>2. InProgress = {k}
        BY <2>1, <3>1
      <3> QED BY <3>2, FS_Singleton
    <2> QED BY <2>2, <2>3
  <1>2. SoloInv => BackupsApart
    BY <1>1 DEF SoloInv, Solo, IInv, FilesKnown, FilesApart, BackupsApart
  <1> QED BY <1>2, SoloInvHolds, PTL
=============================================================================
