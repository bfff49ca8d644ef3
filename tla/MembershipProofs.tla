-------------------------- MODULE MembershipProofs --------------------------
(***************************************************************************)
(* Proofs about Membership for every set of users and administrators,      *)
(* every bound on ids and, where nothing else is said, every number of     *)
(* request slots.                                                          *)
(***************************************************************************)
EXTENDS Membership, FiniteSetTheorems, TLAPS

(* What the handlers hold between two statements. *)
HandlerTyped(q) ==
    /\ q.pc # "idle" => q.caller \in Users /\ q.user \in Users
    /\ q.pc = "idle" => q.caller = NULL
    /\ q.pc = "gate" => q.op \in {"add", "remove", "update"}
    /\ q.pc \in {"lookup", "existing", "insert"} => q.op = "add"
    /\ q.pc \in {"caller", "delete"} => q.op = "remove"
    /\ q.pc = "target" => q.op \in {"remove", "update"}
    /\ q.pc \in {"count", "update"} => q.op = "update"
    /\ q.pc # "idle" /\ q.op \in {"add", "update"} => q.roles \in RoleSets

IdsBelowSequence == \A i \in rows : i < nextId

(* The inductive invariant, for any number of slots. *)
IInv ==
    /\ TypeOK
    /\ IdsBelowSequence
    /\ MembersHaveAccounts
    /\ \A r \in Requests : HandlerTyped(req[r])

-----------------------------------------------------------------------------
LEMMA IdleTyped == Idle \in Request /\ HandlerTyped(Idle)
  BY DEF Idle, Unread, Request, Copy, HandlerTyped

LEMMA ReqTyped ==
  ASSUME IInv, NEW r \in Requests
  PROVE  req[r] \in Request /\ HandlerTyped(req[r])
  BY DEF IInv, TypeOK

LEMMA RowTyped ==
  ASSUME IInv, NEW i \in rows
  PROVE  /\ i \in Ids
         /\ i < nextId
         /\ members[i] \in [user : Users, roles : RoleSets]
         /\ members[i].user \in Users
         /\ members[i].roles \in RoleSets
         /\ members[i].roles \in SUBSET Roles
         /\ members[i].user \in accounts
  BY DEF IInv, TypeOK, IdsBelowSequence, MembersHaveAccounts, RoleSets

LEMMA MembershipsTyped ==
  ASSUME IInv, NEW c, NEW m \in Memberships(c)
  PROVE  m \in Copy
  <1>1. CASE RowsOf(c) # {}
    <2>1. PICK i \in RowsOf(c) : m = [id |-> i, roles |-> members[i].roles]
      BY <1>1 DEF Memberships
    <2> QED BY <2>1, RowTyped DEF RowsOf, Copy
  <1>2. CASE RowsOf(c) = {}
    <2>1. m = [id |-> NULL, roles |-> {Owner}]
      BY <1>2 DEF Memberships
    <2> QED BY <2>1 DEF Copy, Roles
  <1> QED BY <1>1, <1>2

(* A step that touches the local state of one handler only. *)
LEMMA LocalStep ==
  ASSUME IInv, NEW r \in Requests, NEW q \in Request, HandlerTyped(q), Local(r, q)
  PROVE  IInv'
  <1>1. /\ req' = [req EXCEPT ![r] = q]
        /\ accounts' = accounts /\ members' = members /\ nextId' = nextId
    BY DEF Local
  <1>2. TypeOK' /\ IdsBelowSequence' /\ MembersHaveAccounts'
    BY <1>1 DEF IInv, TypeOK, IdsBelowSequence, MembersHaveAccounts, rows
  <1>3. \A s \in Requests : HandlerTyped(req'[s])
    BY <1>1 DEF IInv, TypeOK
  <1> QED BY <1>2, <1>3 DEF IInv

LEMMA FinishStep ==
  ASSUME IInv, NEW r \in Requests, Finish(r)
  PROVE  IInv'
  BY LocalStep, IdleTyped DEF Finish

(* A commit that ends the request of r. *)
LEMMA CommitStep ==
  ASSUME IInv, NEW r \in Requests, req' = [req EXCEPT ![r] = Idle], accounts' = accounts,
         rows' \subseteq Ids, members' \in [rows' -> [user : Users, roles : RoleSets]],
         nextId' \in 1 .. MaxId + 1,
         \A i \in rows' : i < nextId' /\ members'[i].user \in accounts
  PROVE  IInv'
  <1>1. TypeOK'
    BY IdleTyped DEF IInv, TypeOK
  <1>2. \A s \in Requests : HandlerTyped(req'[s])
    BY IdleTyped DEF IInv, TypeOK
  <1> QED BY <1>1, <1>2 DEF IInv, IdsBelowSequence, MembersHaveAccounts

-----------------------------------------------------------------------------
LEMMA ArriveStep ==
  ASSUME IInv, NEW r \in Requests, Arrive(r)
  PROVE  IInv'
  <1>1. PICK c \in Users, u \in Users, op \in {"add", "remove", "update"}, R \in SUBSET Roles :
           Start(r, op, c, u, R) /\ (op = "remove" \/ R \in RoleSets)
    BY DEF Arrive, RoleSets
  <1> DEFINE q == [Idle EXCEPT !.pc = "gate", !.op = op, !.caller = c, !.user = u, !.roles = R]
  <1>2. q \in Request
    BY DEF Idle, Unread, Request, Copy
  <1>3. HandlerTyped(q)
    BY <1>1 DEF HandlerTyped, Idle
  <1> QED BY <1>1, <1>2, <1>3, LocalStep DEF Start

LEMMA AfterTargetTyped ==
  ASSUME NEW q \in Request, HandlerTyped(q), q.pc = "target"
  PROVE  AfterTarget(q) \in Request /\ HandlerTyped(AfterTarget(q))
  <1>1. CASE AfterTarget(q) = Idle
    BY <1>1, IdleTyped
  <1>2. CASE q.op = "remove" /\ AfterTarget(q) = [q EXCEPT !.pc = "delete"]
    BY <1>2 DEF Request, HandlerTyped
  <1>3. CASE q.op = "update" /\ \E p \in {"count", "update"} : AfterTarget(q) = [q EXCEPT !.pc = p]
    BY <1>3 DEF Request, HandlerTyped
  <1>4. q.op \in {"remove", "update"}
    BY DEF HandlerTyped
  <1> QED BY <1>1, <1>2, <1>3, <1>4 DEF AfterTarget

LEMMA ReadStep ==
  ASSUME IInv, NEW r \in Requests,
         \/ PassGate(r) \/ RefuseGate(r) \/ LookUp(r) \/ CheckExisting(r) \/ NoMoreIds(r)
         \/ ReadCaller(r) \/ ReadTarget(r) \/ NoTarget(r) \/ CountOwners(r) \/ NoUpdate(r)
  PROVE  IInv'
  <1> PICK q : q = req[r]
    OBVIOUS
  <1>q. q \in Request /\ HandlerTyped(q)
    BY ReqTyped
  <1>1. CASE PassGate(r)
    <2>1. PICK m \in Memberships(q.caller) :
             Local(r, CASE q.op = "add"    -> [q EXCEPT !.pc = "lookup"]
                        [] q.op = "remove" -> [q EXCEPT !.pc = "caller"]
                        [] q.op = "update" -> [q EXCEPT !.pc = "target", !.mine = m])
      BY <1>1 DEF PassGate
    <2>2. m \in Copy /\ q.pc = "gate" /\ q.op \in {"add", "remove", "update"}
      BY <1>1, <1>q, MembershipsTyped DEF PassGate, HandlerTyped
    <2>3. CASE q.op = "add"
      <3> DEFINE n == [q EXCEPT !.pc = "lookup"]
      <3>1. n \in Request /\ HandlerTyped(n)
        BY <1>q, <2>2, <2>3 DEF Request, HandlerTyped
      <3>2. Local(r, n)
        BY <2>1, <2>3
      <3> QED BY <3>1, <3>2, LocalStep
    <2>4. CASE q.op = "remove"
      <3> DEFINE n == [q EXCEPT !.pc = "caller"]
      <3>1. n \in Request /\ HandlerTyped(n)
        BY <1>q, <2>2, <2>4 DEF Request, HandlerTyped
      <3>2. Local(r, n)
        BY <2>1, <2>4
      <3> QED BY <3>1, <3>2, LocalStep
    <2>5. CASE q.op = "update"
      <3> DEFINE n == [q EXCEPT !.pc = "target", !.mine = m]
      <3>1. n \in Request /\ HandlerTyped(n)
        BY <1>q, <2>2, <2>5 DEF Request, HandlerTyped
      <3>2. Local(r, n)
        BY <2>1, <2>5
      <3> QED BY <3>1, <3>2, LocalStep
    <2> QED BY <2>2, <2>3, <2>4, <2>5
  <1>2. CASE RefuseGate(r) \/ NoMoreIds(r) \/ NoTarget(r) \/ NoUpdate(r)
    BY <1>2, FinishStep DEF RefuseGate, NoMoreIds, NoTarget, NoUpdate
  <1>3. ASSUME NEW p \in {"existing", "insert", "update"},
               Local(r, [q EXCEPT !.pc = p]),
               p = "existing" => q.pc = "lookup",
               p = "insert" => q.pc = "existing",
               p = "update" => q.pc = "count"
        PROVE  IInv'
    <2> DEFINE n == [q EXCEPT !.pc = p]
    <2>1. n \in Request /\ HandlerTyped(n)
      BY <1>q, <1>3 DEF Request, HandlerTyped
    <2> QED BY <1>3, <2>1, LocalStep
  <1>4. CASE LookUp(r) \/ CheckExisting(r) \/ CountOwners(r)
    BY <1>3, <1>4, FinishStep DEF LookUp, CheckExisting, CountOwners, Finish
  <1>5. CASE ReadCaller(r)
    <2>1. CASE Finish(r)
      BY <2>1, FinishStep
    <2>2. ASSUME NEW m \in Memberships(q.caller), Local(r, [q EXCEPT !.pc = "target", !.mine = m])
          PROVE  IInv'
      <3> DEFINE n == [q EXCEPT !.pc = "target", !.mine = m]
      <3>1. m \in Copy /\ q.pc = "caller"
        BY <1>5, MembershipsTyped DEF ReadCaller
      <3>2. n \in Request /\ HandlerTyped(n)
        BY <1>q, <3>1 DEF Request, HandlerTyped
      <3> QED BY <2>2, <3>2, LocalStep
    <2> QED BY <1>5, <2>1, <2>2 DEF ReadCaller
  <1>6. CASE ReadTarget(r)
    <2>1. PICK i \in RowsOf(q.user) :
             LET copy == IF i = q.mine.id THEN q.mine ELSE [id |-> i, roles |-> members[i].roles]
             IN  Local(r, AfterTarget([q EXCEPT !.theirs = copy]))
      BY <1>6 DEF ReadTarget
    <2> DEFINE copy == IF i = q.mine.id THEN q.mine ELSE [id |-> i, roles |-> members[i].roles]
               n == [q EXCEPT !.theirs = copy]
    <2>2. copy \in Copy
      BY <1>q, RowTyped DEF RowsOf, Request, Copy
    <2>3. q.pc = "target"
      BY <1>6 DEF ReadTarget
    <2>4. n \in Request /\ n.pc = "target" /\ HandlerTyped(n)
      BY <1>q, <2>2, <2>3 DEF Request, HandlerTyped
    <2>5. AfterTarget(n) \in Request /\ HandlerTyped(AfterTarget(n))
      BY <2>4, AfterTargetTyped
    <2>6. Local(r, AfterTarget(n))
      BY <2>1
    <2> QED BY <2>5, <2>6, LocalStep
  <1> QED BY <1>1, <1>2, <1>4, <1>5, <1>6

-----------------------------------------------------------------------------
(* The commits. *)
LEMMA InsertStep ==
  ASSUME IInv, NEW r \in Requests, Insert(r)
  PROVE  IInv'
  <1> PICK q : q = req[r]
    OBVIOUS
  <1>1. q.user \in Users /\ q.roles \in RoleSets
    BY ReqTyped DEF Insert, HandlerTyped
  <1>2. nextId \in Ids /\ nextId \in Nat /\ nextId' = nextId + 1 /\ nextId' \in 1 .. MaxId + 1
    BY MaxIdAssumption DEF Insert, IInv, TypeOK, Ids
  <1>3. \A i \in rows : i \in Nat /\ i < nextId
    BY RowTyped DEF Ids
  <1>4. CASE UserStands(q.user)
    <2>1. members' = [i \in rows \cup {nextId} |->
                         IF i = nextId THEN [user |-> q.user, roles |-> q.roles] ELSE members[i]]
      BY <1>4 DEF Insert
    <2>2. rows' = rows \cup {nextId}
      BY <2>1 DEF rows
    <2>3. \A i \in rows' : /\ members'[i] \in [user : Users, roles : RoleSets]
                           /\ members'[i].user \in accounts
                           /\ i \in Ids
                           /\ i < nextId'
      BY <1>1, <1>2, <1>3, <1>4, <2>1, <2>2, RowTyped DEF UserStands
    <2>4. members' \in [rows' -> [user : Users, roles : RoleSets]]
      BY <2>1, <2>2, <2>3
    <2> QED BY <1>2, <2>3, <2>4, CommitStep DEF Insert
  <1>5. CASE ~UserStands(q.user)
    <2>1. members' = members /\ rows' = rows
      BY <1>5 DEF Insert, rows
    <2>2. \A i \in rows' : i < nextId' /\ members'[i].user \in accounts
      BY <1>2, <1>3, <2>1, RowTyped
    <2>3. rows' \subseteq Ids /\ members' \in [rows' -> [user : Users, roles : RoleSets]]
      BY <2>1 DEF IInv, TypeOK
    <2> QED BY <1>2, <2>2, <2>3, CommitStep DEF Insert
  <1> QED BY <1>4, <1>5

LEMMA DeleteStep ==
  ASSUME IInv, NEW r \in Requests, Delete(r)
  PROVE  IInv'
  <1>1. members' = [i \in rows \ {req[r].theirs.id} |-> members[i]] /\ rows' = rows \ {req[r].theirs.id}
    BY DEF Delete, rows
  <1> QED BY <1>1, RowTyped, CommitStep DEF Delete, IInv, TypeOK

LEMMA UpdateStep ==
  ASSUME IInv, NEW r \in Requests, Update(r)
  PROVE  IInv'
  <1> PICK q : q = req[r]
    OBVIOUS
  <1>1. q.roles \in RoleSets
    BY ReqTyped DEF Update, HandlerTyped
  <1>2. rows' = rows
    BY DEF Update, rows, IInv, TypeOK
  <1>3. \A i \in rows : /\ members'[i] \in [user : Users, roles : RoleSets]
                        /\ members'[i].user = members[i].user
    BY <1>1, RowTyped DEF Update, NewRoles, IInv, TypeOK
  <1>4. members' \in [rows -> [user : Users, roles : RoleSets]]
    BY <1>3 DEF Update, IInv, TypeOK
  <1> QED BY <1>2, <1>3, <1>4, RowTyped, CommitStep DEF Update, IInv, TypeOK

LEMMA DeleteAccountStep ==
  ASSUME IInv, NEW u \in Users, DeleteAccount(u)
  PROVE  IInv'
  <1>1. members' = [i \in rows \ RowsOf(u) |-> members[i]] /\ rows' = rows \ RowsOf(u)
    BY DEF DeleteAccount, KeptRows, rows
  <1>2. TypeOK'
    BY <1>1, RowTyped DEF IInv, TypeOK, DeleteAccount
  <1>3. IdsBelowSequence'
    BY <1>1 DEF IInv, IdsBelowSequence, DeleteAccount
  <1>4. MembersHaveAccounts'
    BY <1>1 DEF IInv, MembersHaveAccounts, DeleteAccount, RowsOf
  <1> QED BY <1>2, <1>3, <1>4 DEF IInv, DeleteAccount

LEMMA InitInv == Init => IInv
  <1> SUFFICES ASSUME Init PROVE IInv
    OBVIOUS
  <1>1. PICK u \in Users : members = [i \in {1} |-> [user |-> u, roles |-> {Owner}]]
    BY DEF Init
  <1>2. rows = {1} /\ members[1] = [user |-> u, roles |-> {Owner}]
    BY <1>1 DEF rows
  <1>3. 1 \in Ids /\ 2 \in 1 .. MaxId + 1
    BY MaxIdAssumption DEF Ids
  <1>4. {Owner} \in RoleSets
    BY DEF RoleSets, Roles
  <1> QED BY <1>1, <1>2, <1>3, <1>4, IdleTyped DEF Init, IInv, TypeOK, IdsBelowSequence, MembersHaveAccounts

LEMMA NextInv == IInv /\ [Next]_vars => IInv'
  <1> SUFFICES ASSUME IInv, [Next]_vars PROVE IInv'
    OBVIOUS
  <1>1. ASSUME NEW r \in Requests, Arrive(r) PROVE IInv'
    BY <1>1, ArriveStep
  <1>2. ASSUME NEW r \in Requests, Proceed(r) PROVE IInv'
    BY <1>2, ReadStep, InsertStep, DeleteStep, UpdateStep DEF Proceed
  <1>3. ASSUME NEW u \in Users, DeleteAccount(u) PROVE IInv'
    BY <1>3, DeleteAccountStep
  <1>4. CASE UNCHANGED vars
    BY <1>4 DEF vars, IInv, TypeOK, IdsBelowSequence, MembersHaveAccounts, rows
  <1> QED BY <1>1, <1>2, <1>3, <1>4 DEF Next

LEMMA IInvHolds == Spec => []IInv
  BY InitInv, NextInv, PTL DEF Spec

(* The tables and the handlers keep their types, for any number of         *)
(* requests served at the same time.                                       *)
THEOREM TypeCorrect == Spec => []TypeOK
  BY IInvHolds, PTL DEF IInv

(* A membership belongs to an account that exists, though add_member looks *)
(* the account up two statements before the INSERT: the foreign key of     *)
(* project_members.user_id closes the gap.                                 *)
THEOREM MembershipsHaveAccounts == Spec => []MembersHaveAccounts
  BY IInvHolds, PTL DEF IInv

-----------------------------------------------------------------------------
(* The roles somebody acts with, in terms of rows. *)
StandingIn(mem, c) ==
    LET own == {i \in DOMAIN mem : mem[i].user = c}
    IN  IF own # {} THEN UNION {mem[i].roles : i \in own}
        ELSE IF c \in Admins THEN {Owner} ELSE {}

(* One slot: until an account goes, what the handler has read is still so  *)
(* when it writes, for nobody else writes.                                 *)
StillSo(q, mem) ==
    /\ q.pc = "insert" => \A i \in DOMAIN mem : mem[i].user # q.user
    /\ q.pc \notin {"idle", "gate"} => StandingIn(mem, q.caller) \cap {Owner, ScrumMaster} # {}
    /\ q.pc \in {"target", "delete", "count", "update"} => q.mine.roles = StandingIn(mem, q.caller)
    /\ q.pc = "target" /\ q.mine.id # NULL =>
          q.mine.id \in DOMAIN mem /\ q.mine.roles = mem[q.mine.id].roles
    /\ q.pc \in {"delete", "count", "update"} =>
          /\ q.theirs.id \in DOMAIN mem /\ q.theirs.roles = mem[q.theirs.id].roles
          /\ mem[q.theirs.id].user = q.user
    /\ q.pc = "delete" => MayRemove(q)
    /\ q.pc \in {"count", "update"} => MayChange(q)
    /\ q.pc = "update" /\ Demotes(q) =>
          \E j \in DOMAIN mem \ {q.theirs.id} : Owner \in mem[j].roles

Serial(r0) == Requests = {r0}

AnOwner == OwnerRows # {}

SerialSafe ==
    /\ AnOwner
    /\ OneRowPerUser
    /\ \A r \in Requests : StillSo(req[r], members)

SerialInv == IInv /\ SerialSafe

LEMMA IdleStillSo ==
  ASSUME NEW mem
  PROVE  StillSo(Idle, mem)
  BY DEF StillSo, Idle

LEMMA SerialLocal ==
  ASSUME SerialInv, NEW r0, Serial(r0), NEW r \in Requests, NEW q, Local(r, q), StillSo(q, members)
  PROVE  SerialSafe'
  <1>1. members' = members /\ req' = [req EXCEPT ![r] = q]
    BY DEF Local
  <1>2. AnOwner' /\ OneRowPerUser'
    BY <1>1 DEF SerialInv, SerialSafe, AnOwner, OneRowPerUser, OwnerRows, rows
  <1>3. \A s \in Requests : StillSo(req'[s], members')
    BY <1>1 DEF SerialInv, SerialSafe, IInv, TypeOK
  <1> QED BY <1>2, <1>3 DEF SerialSafe

(* What the gate reads is what the caller acts with. *)
LEMMA MembershipStands ==
  ASSUME SerialInv, NEW c, NEW m \in Memberships(c)
  PROVE  m.roles = StandingIn(members, c)
  <1>1. CASE RowsOf(c) # {}
    <2>1. PICK i \in RowsOf(c) : m = [id |-> i, roles |-> members[i].roles]
      BY <1>1 DEF Memberships
    <2>2. RowsOf(c) = {i}
      BY <2>1 DEF SerialInv, SerialSafe, OneRowPerUser, RowsOf
    <2>3. StandingIn(members, c) = UNION {members[j].roles : j \in {i}}
      BY <2>2 DEF StandingIn, RowsOf, rows
    <2>4. UNION {members[j].roles : j \in {i}} = members[i].roles
      OBVIOUS
    <2> QED BY <2>1, <2>3, <2>4
  <1>2. CASE RowsOf(c) = {}
    <2>1. {i \in DOMAIN members : members[i].user = c} = {}
      BY <1>2 DEF RowsOf, rows
    <2>2. StandingIn(members, c) = IF c \in Admins THEN {Owner} ELSE {}
      BY <2>1 DEF StandingIn
    <2>3. c \in Admins /\ m = [id |-> NULL, roles |-> {Owner}]
      BY <1>2 DEF Memberships
    <2> QED BY <2>2, <2>3
  <1> QED BY <1>1, <1>2

(* The count of rows with the owner role, in terms of rows. *)
LEMMA AnotherOwner ==
  ASSUME IInv, NEW i, OwnersRemain(Cardinality(OwnerRows))
  PROVE  \E j \in rows \ {i} : Owner \in members[j].roles
  <1>1. IsFiniteSet(OwnerRows)
    <2>1. IsFiniteSet(Ids)
      BY FS_Interval, MaxIdAssumption DEF Ids
    <2>2. OwnerRows \subseteq Ids
      BY DEF OwnerRows, IInv, TypeOK
    <2> QED BY <2>1, <2>2, FS_Subset
  <1>2. SUFFICES ASSUME OwnerRows \subseteq {i} PROVE FALSE
    BY DEF OwnerRows
  <1>3. Cardinality(OwnerRows) \in Nat /\ Cardinality(OwnerRows) <= Cardinality({i})
    BY <1>1, <1>2, FS_Singleton, FS_Subset, FS_CardinalityType
  <1>4. Cardinality({i}) = 1
    BY FS_Singleton
  <1> QED BY <1>3, <1>4 DEF OwnersRemain

LEMMA SerialRead ==
  ASSUME SerialInv, NEW r0, Serial(r0), NEW r \in Requests,
         \/ Arrive(r)
         \/ PassGate(r) \/ RefuseGate(r) \/ LookUp(r) \/ CheckExisting(r) \/ NoMoreIds(r)
         \/ ReadCaller(r) \/ ReadTarget(r) \/ NoTarget(r) \/ CountOwners(r) \/ NoUpdate(r)
  PROVE  SerialSafe'
  <1> PICK q : q = req[r]
    OBVIOUS
  <1>q. q \in Request /\ HandlerTyped(q) /\ StillSo(q, members)
    BY ReqTyped DEF SerialInv, SerialSafe
  <1>r. \A n : Local(r, n) /\ StillSo(n, members) => SerialSafe'
    BY SerialLocal
  <1>m. \A c : \A m \in Memberships(c) :
           /\ m.id # NULL => m.id \in rows /\ m.roles = members[m.id].roles
           /\ m.roles = StandingIn(members, c)
    BY MembershipStands DEF Memberships, RowsOf
  <1>1. CASE Arrive(r)
    <2>1. PICK c \in Users, u \in Users, op \in {"add", "remove", "update"}, R \in SUBSET Roles :
             Start(r, op, c, u, R)
      BY <1>1 DEF Arrive, RoleSets
    <2> DEFINE n == [Idle EXCEPT !.pc = "gate", !.op = op, !.caller = c, !.user = u, !.roles = R]
    <2>2. StillSo(n, members)
      BY DEF StillSo, Idle
    <2> QED BY <1>r, <2>1, <2>2 DEF Start
  <1>2. CASE RefuseGate(r) \/ NoMoreIds(r) \/ NoTarget(r) \/ NoUpdate(r)
    BY <1>2, <1>r, IdleStillSo DEF RefuseGate, NoMoreIds, NoTarget, NoUpdate, Finish
  <1>3. CASE PassGate(r)
    <2>1. PICK m \in Memberships(q.caller) :
             /\ MayManage(m)
             /\ Local(r, CASE q.op = "add"    -> [q EXCEPT !.pc = "lookup"]
                           [] q.op = "remove" -> [q EXCEPT !.pc = "caller"]
                           [] q.op = "update" -> [q EXCEPT !.pc = "target", !.mine = m])
      BY <1>3 DEF PassGate
    <2>2. q.op \in {"add", "remove", "update"}
      BY <1>3, <1>q DEF PassGate, HandlerTyped
    <2>3. ASSUME NEW p \in {"lookup", "caller"} PROVE StillSo([q EXCEPT !.pc = p], members)
      BY <1>q, <1>m, <2>1 DEF StillSo, Request, MayManage
    <2>4. StillSo([q EXCEPT !.pc = "target", !.mine = m], members)
      BY <1>q, <1>m, <2>1 DEF StillSo, Request, rows, MayManage
    <2> QED BY <1>r, <2>1, <2>2, <2>3, <2>4
  <1>4. CASE LookUp(r)
    <2>1. StillSo([q EXCEPT !.pc = "existing"], members)
      BY <1>4, <1>q DEF StillSo, Request, LookUp
    <2> QED BY <1>4, <1>r, <2>1, IdleStillSo DEF LookUp
  <1>5. CASE CheckExisting(r)
    <2>1. MayJoin(q.user) => StillSo([q EXCEPT !.pc = "insert"], members)
      BY <1>5, <1>q DEF StillSo, Request, MayJoin, RowsOf, rows, CheckExisting
    <2> QED BY <1>5, <1>r, <2>1, IdleStillSo DEF CheckExisting
  <1>6. CASE ReadCaller(r)
    <2>1. StandingIn(members, q.caller) \cap {Owner, ScrumMaster} # {}
      BY <1>6, <1>q DEF StillSo, ReadCaller
    <2>2. ASSUME NEW m \in Memberships(q.caller)
          PROVE  StillSo([q EXCEPT !.pc = "target", !.mine = m], members)
      <3> DEFINE n == [q EXCEPT !.pc = "target", !.mine = m]
      <3>1. n.pc = "target" /\ n.mine = m /\ n.caller = q.caller
        BY <1>q DEF Request
      <3> HIDE DEF n
      <3>2. StillSo(n, members)
        BY <1>m, <2>1, <3>1 DEF StillSo, rows
      <3> QED BY <3>2 DEF n
    <2> QED BY <1>6, <1>r, <2>2, IdleStillSo DEF ReadCaller, Finish
  <1>7. CASE ReadTarget(r)
    <2>1. PICK i \in RowsOf(q.user) :
             LET copy == IF i = q.mine.id THEN q.mine ELSE [id |-> i, roles |-> members[i].roles]
             IN  Local(r, AfterTarget([q EXCEPT !.theirs = copy]))
      BY <1>7 DEF ReadTarget
    <2> DEFINE copy == IF i = q.mine.id THEN q.mine ELSE [id |-> i, roles |-> members[i].roles]
               n == [q EXCEPT !.theirs = copy]
    <2>2. i \in rows /\ i # NULL
      BY ReqTyped, RowTyped, NullAssumption DEF RowsOf, SerialInv, Ids
    <2>3. q.pc = "target" /\ q.op \in {"remove", "update"}
      BY <1>7, <1>q DEF ReadTarget, HandlerTyped
    <2>4. copy.id = i /\ copy.roles = members[i].roles /\ copy \in Copy
      BY <1>q, <2>2, <2>3, RowTyped DEF StillSo, Request, Copy, rows, SerialInv
    <2>5. /\ n \in Request /\ n.pc = "target" /\ n.op = q.op /\ n.theirs = copy
          /\ n.caller = q.caller /\ n.user = q.user /\ n.mine = q.mine /\ n.roles = q.roles
          /\ StandingIn(members, n.caller) \cap {Owner, ScrumMaster} # {}
          /\ n.mine.roles = StandingIn(members, n.caller)
          /\ members[i].user = n.user
      BY <1>q, <2>1, <2>3, <2>4 DEF Request, StillSo, RowsOf
    <2> HIDE DEF n, copy
    <2>6. MayRemove(n) => StillSo([n EXCEPT !.pc = "delete"], members)
      BY <2>2, <2>4, <2>5 DEF StillSo, Request, MayRemove, rows
    <2>7. MayChange(n) /\ Demotes(n) => StillSo([n EXCEPT !.pc = "count"], members)
      BY <2>2, <2>4, <2>5 DEF StillSo, Request, MayChange, rows
    <2>8. MayChange(n) /\ ~Demotes(n) => StillSo([n EXCEPT !.pc = "update"], members)
      BY <2>2, <2>4, <2>5 DEF StillSo, Request, Demotes, MayChange, rows
    <2>9. StillSo(AfterTarget(n), members)
      BY <2>3, <2>5, <2>6, <2>7, <2>8, IdleStillSo DEF AfterTarget
    <2>10. Local(r, AfterTarget(n))
      BY <2>1 DEF n, copy
    <2> QED BY <1>r, <2>9, <2>10
  <1>8. CASE CountOwners(r)
    <2>1. q.pc = "count"
      BY <1>8 DEF CountOwners
    <2>2. OwnersRemain(Cardinality(OwnerRows)) => StillSo([q EXCEPT !.pc = "update"], members)
      BY <1>q, <2>1, AnotherOwner DEF StillSo, Request, SerialInv, MayChange, Demotes, rows
    <2> QED BY <1>8, <1>r, <2>2, IdleStillSo DEF CountOwners
  <1> QED BY <1>1, <1>2, <1>3, <1>4, <1>5, <1>6, <1>7, <1>8

(* After a commit the only slot is idle again. *)
LEMMA SerialIdle ==
  ASSUME SerialInv, NEW r0, Serial(r0), NEW r \in Requests, req' = [req EXCEPT ![r] = Idle]
  PROVE  \A s \in Requests : StillSo(req[s], members)'
  BY IdleStillSo DEF Serial, SerialInv, IInv, TypeOK

LEMMA SerialInsert ==
  ASSUME SerialInv, NEW r0, Serial(r0), NEW r \in Requests, Insert(r)
  PROVE  SerialSafe'
  <1> PICK q : q = req[r]
    OBVIOUS
  <1>1. \A i \in rows : members[i].user # q.user
    BY DEF Insert, SerialInv, SerialSafe, StillSo, rows
  <1>2. nextId \notin rows
    BY RowTyped DEF SerialInv, Ids
  <1>3. \A s \in Requests : StillSo(req[s], members)'
    BY SerialIdle DEF Insert
  <1>4. CASE UserStands(q.user)
    <2>1. /\ rows' = rows \cup {nextId}
          /\ \A i \in rows : members'[i] = members[i]
          /\ members'[nextId] = [user |-> q.user, roles |-> q.roles]
      BY <1>2, <1>4 DEF Insert, rows
    <2>2. AnOwner'
      BY <2>1 DEF SerialInv, SerialSafe, AnOwner, OwnerRows
    <2>3. OneRowPerUser'
      BY <1>1, <2>1 DEF SerialInv, SerialSafe, OneRowPerUser
    <2> QED BY <1>3, <2>2, <2>3 DEF SerialSafe
  <1>5. CASE ~UserStands(q.user)
    <2>1. members' = members
      BY <1>5 DEF Insert
    <2> QED BY <1>3, <2>1 DEF SerialInv, SerialSafe, AnOwner, OneRowPerUser, OwnerRows, rows
  <1> QED BY <1>4, <1>5

LEMMA SerialDelete ==
  ASSUME SerialInv, NEW r0, Serial(r0), NEW r \in Requests, Delete(r)
  PROVE  SerialSafe'
  <1>1. /\ rows' = rows \ {req[r].theirs.id}
        /\ \A i \in rows' : members'[i] = members[i]
    BY DEF Delete, rows
  <1>2. Owner \notin members[req[r].theirs.id].roles
    BY DEF Delete, SerialInv, SerialSafe, StillSo, MayRemove
  <1>3. AnOwner' /\ OneRowPerUser'
    BY <1>1, <1>2 DEF SerialInv, SerialSafe, AnOwner, OwnerRows, OneRowPerUser
  <1> QED BY <1>3, SerialIdle DEF Delete, SerialSafe

LEMMA SerialUpdate ==
  ASSUME SerialInv, NEW r0, Serial(r0), NEW r \in Requests, Update(r)
  PROVE  SerialSafe'
  <1> PICK q : q = req[r]
    OBVIOUS
  <1>1. /\ q.pc = "update"
        /\ q.theirs.id \in rows
        /\ q.theirs.roles = members[q.theirs.id].roles
        /\ Demotes(q) => \E j \in rows \ {q.theirs.id} : Owner \in members[j].roles
    BY DEF Update, SerialInv, SerialSafe, StillSo, rows
  <1>2. members' = [members EXCEPT ![q.theirs.id].roles = q.roles]
    BY <1>1 DEF Update, NewRoles
  <1>3. /\ rows' = rows
        /\ \A i \in rows : members'[i].user = members[i].user
        /\ \A i \in rows \ {q.theirs.id} : members'[i] = members[i]
        /\ members'[q.theirs.id].roles = q.roles
    BY <1>1, <1>2, RowTyped DEF rows, SerialInv, IInv, TypeOK
  <1>4. AnOwner'
    <2>1. PICK w \in rows : Owner \in members[w].roles
      BY DEF SerialInv, SerialSafe, AnOwner, OwnerRows
    <2>2. CASE w # q.theirs.id
      BY <1>3, <2>1, <2>2 DEF AnOwner, OwnerRows
    <2>3. CASE w = q.theirs.id /\ Owner \in q.roles
      BY <1>3, <2>1, <2>3 DEF AnOwner, OwnerRows
    <2>4. CASE w = q.theirs.id /\ Owner \notin q.roles
      BY <1>1, <1>3, <2>1, <2>4 DEF AnOwner, OwnerRows, Demotes
    <2> QED BY <2>2, <2>3, <2>4
  <1>5. OneRowPerUser'
    BY <1>3 DEF SerialInv, SerialSafe, OneRowPerUser
  <1> QED BY <1>4, <1>5, SerialIdle DEF Update, SerialSafe

LEMMA SerialInit == Init => SerialSafe
  <1> SUFFICES ASSUME Init PROVE SerialSafe
    OBVIOUS
  <1>1. PICK u \in Users : members = [i \in {1} |-> [user |-> u, roles |-> {Owner}]]
    BY DEF Init
  <1>2. rows = {1} /\ members[1].roles = {Owner}
    BY <1>1 DEF rows
  <1>3. \A r \in Requests : req[r] = Idle
    BY DEF Init
  <1> QED BY <1>2, <1>3, IdleStillSo DEF SerialSafe, AnOwner, OwnerRows, OneRowPerUser

LEMMA SerialNext ==
  ASSUME NEW r0, Serial(r0), IInv, accounts = Users => SerialSafe, [Next]_vars
  PROVE  accounts' = Users => SerialSafe'
  <1> SUFFICES ASSUME accounts' = Users PROVE SerialSafe'
    OBVIOUS
  <1>1. ASSUME NEW r \in Requests, Arrive(r) \/ Proceed(r) PROVE SerialSafe'
    <2>1. accounts' = accounts
      BY <1>1 DEF Arrive, Start, Proceed, PassGate, RefuseGate, LookUp, CheckExisting, Insert,
                  NoMoreIds, ReadCaller, ReadTarget, NoTarget, Delete, CountOwners, Update, NoUpdate,
                  Local, Finish
    <2>2. SerialInv
      BY <2>1 DEF SerialInv
    <2> QED BY <1>1, <2>2, SerialRead, SerialInsert, SerialDelete, SerialUpdate DEF Proceed
  <1>2. ASSUME NEW u \in Users, DeleteAccount(u) PROVE FALSE
    BY <1>2 DEF DeleteAccount
  <1>3. CASE UNCHANGED vars
    BY <1>3 DEF vars, SerialInv, SerialSafe, AnOwner, OneRowPerUser, OwnerRows, rows
  <1> QED BY <1>1, <1>2, <1>3 DEF Next

SafeUntilGone == accounts = Users => SerialSafe

LEMMA SerialHolds ==
  ASSUME NEW CONSTANT r0, Serial(r0)
  PROVE  Spec => [](IInv /\ SafeUntilGone)
  <1>1. IInv /\ SafeUntilGone /\ [Next]_vars => SafeUntilGone'
    BY SerialNext DEF SafeUntilGone
  <1>2. Init => SafeUntilGone
    BY SerialInit DEF SafeUntilGone
  <1> QED BY <1>1, <1>2, InitInv, NextInv, PTL DEF Spec

(* Served one at a time, the requests always leave an owner, until an      *)
(* account goes and takes its memberships along ("a project must have at   *)
(* least one Owner", services.py:553).                                     *)
THEOREM SerialKeepsOwner ==
  ASSUME NEW CONSTANT r0, Serial(r0)
  PROVE  Spec => []HasOwner
  <1>1. SafeUntilGone => HasOwner
    BY DEF SafeUntilGone, SerialSafe, AnOwner, HasOwner
  <1> QED BY <1>1, SerialHolds, PTL

-----------------------------------------------------------------------------
(* One slot, whether accounts go or not: nobody gets a second membership.  *)
NotYet(q, mem) == q.pc = "insert" => \A i \in DOMAIN mem : mem[i].user # q.user

Single ==
    /\ OneRowPerUser
    /\ \A r \in Requests : NotYet(req[r], members)

LEMMA SingleStep ==
  ASSUME NEW r0, Serial(r0), IInv, Single, [Next]_vars
  PROVE  Single'
  <1>1. ASSUME NEW r \in Requests, NEW q, Local(r, q), NotYet(q, members)
        PROVE  Single'
    <2>1. members' = members /\ req' = [req EXCEPT ![r] = q]
      BY <1>1 DEF Local
    <2> QED BY <1>1, <2>1 DEF Single, OneRowPerUser, rows, IInv, TypeOK
  <1>2. NotYet(Idle, members)
    BY DEF NotYet, Idle
  <1>3. ASSUME NEW r \in Requests, Finish(r) PROVE Single'
    BY <1>1, <1>2, <1>3 DEF Finish
  (* The rows that stay keep their users, and no handler is about to insert. *)
  <1>4. ASSUME rows' \subseteq rows, \A i \in rows' : members'[i].user = members[i].user,
               \A r \in Requests : req'[r].pc = "insert" => req'[r] = req[r]
        PROVE  Single'
    <2>1. OneRowPerUser'
      BY <1>4 DEF Single, OneRowPerUser
    <2>2. \A r \in Requests : NotYet(req'[r], members')
      BY <1>4 DEF Single, NotYet, rows
    <2> QED BY <2>1, <2>2 DEF Single
  <1>5. ASSUME NEW r \in Requests, req' = [req EXCEPT ![r] = Idle]
        PROVE  \A s \in Requests : req'[s].pc = "idle"
    <2>1. Idle.pc = "idle"
      BY DEF Idle
    <2>2. req' = [s \in Requests |-> Idle]
      BY <1>5 DEF Serial, IInv, TypeOK
    <2> QED BY <2>1, <2>2
  <1>6. ASSUME NEW r \in Requests, Arrive(r) PROVE Single'
    <2>1. PICK c \in Users, u \in Users, op \in {"add", "remove", "update"}, R \in SUBSET Roles :
             Start(r, op, c, u, R)
      BY <1>6 DEF Arrive, RoleSets
    <2> DEFINE n == [Idle EXCEPT !.pc = "gate", !.op = op, !.caller = c, !.user = u, !.roles = R]
    <2>2. NotYet(n, members)
      BY DEF NotYet, Idle
    <2> QED BY <1>1, <2>1, <2>2 DEF Start
  <1>7. ASSUME NEW r \in Requests, Proceed(r) PROVE Single'
    <2> PICK q : q = req[r]
      OBVIOUS
    <2>q. q \in Request /\ HandlerTyped(q)
      BY ReqTyped
    <2>n. \A m, p : p # "insert" =>
             NotYet([q EXCEPT !.pc = p], members) /\ NotYet([q EXCEPT !.pc = p, !.mine = m], members)
      BY <2>q DEF NotYet, Request
    <2>1. CASE RefuseGate(r) \/ NoMoreIds(r) \/ NoTarget(r) \/ NoUpdate(r)
      BY <2>1, <1>3 DEF RefuseGate, NoMoreIds, NoTarget, NoUpdate
    <2>2. CASE PassGate(r)
      <3>1. q.op \in {"add", "remove", "update"}
        BY <2>2, <2>q DEF PassGate, HandlerTyped
      <3> QED BY <2>2, <2>n, <3>1, <1>1 DEF PassGate
    <2>3. CASE LookUp(r) \/ CountOwners(r) \/ ReadCaller(r)
      BY <2>3, <2>n, <1>1, <1>2, <1>3 DEF LookUp, CountOwners, ReadCaller
    <2>4. CASE CheckExisting(r)
      <3>1. MayJoin(q.user) => NotYet([q EXCEPT !.pc = "insert"], members)
        BY <2>q DEF NotYet, MayJoin, RowsOf, rows, Request
      <3> QED BY <2>4, <3>1, <1>1, <1>2 DEF CheckExisting
    <2>5. CASE ReadTarget(r)
      <3>1. PICK i \in RowsOf(q.user) :
               LET copy == IF i = q.mine.id THEN q.mine ELSE [id |-> i, roles |-> members[i].roles]
               IN  Local(r, AfterTarget([q EXCEPT !.theirs = copy]))
        BY <2>5 DEF ReadTarget
      <3> DEFINE copy == IF i = q.mine.id THEN q.mine ELSE [id |-> i, roles |-> members[i].roles]
                 n == [q EXCEPT !.theirs = copy]
      <3>2. PICK o : o = n
        OBVIOUS
      <3>3. o.pc = "target" /\ DOMAIN o = DOMAIN q
        BY <2>5, <2>q, <3>2 DEF ReadTarget, Request
      <3>4. \A p \in {"delete", "count", "update"} : NotYet([o EXCEPT !.pc = p], members)
        BY <2>q, <3>3 DEF NotYet, Request
      <3>5. NotYet(AfterTarget(o), members)
        <4>1. q.op \in {"remove", "update"} /\ o.op = q.op
          BY <2>5, <2>q, <3>2 DEF ReadTarget, HandlerTyped, Request
        <4> QED BY <3>4, <4>1, <1>2 DEF AfterTarget
      <3> QED BY <3>1, <3>2, <3>5, <1>1
    <2>6. CASE Insert(r)
      <3>1. \A i \in rows : members[i].user # q.user
        BY <2>6 DEF Insert, Single, NotYet, rows
      <3>2. nextId \notin rows
        BY RowTyped DEF Ids
      <3>3. \A s \in Requests : NotYet(req'[s], members')
        BY <2>6, <1>5 DEF Insert, NotYet
      <3>4. CASE UserStands(q.user)
        <4>1. /\ rows' = rows \cup {nextId}
              /\ \A i \in rows : members'[i] = members[i]
              /\ members'[nextId] = [user |-> q.user, roles |-> q.roles]
          BY <3>2, <3>4, <2>6 DEF Insert, rows
        <4>2. OneRowPerUser'
          BY <3>1, <4>1 DEF Single, OneRowPerUser
        <4> QED BY <3>3, <4>2 DEF Single
      <3>5. CASE ~UserStands(q.user)
        BY <3>3, <3>5, <2>6 DEF Insert, Single, OneRowPerUser, rows
      <3> QED BY <3>4, <3>5
    <2>7. CASE Delete(r)
      <3>1. rows' \subseteq rows /\ \A i \in rows' : members'[i].user = members[i].user
        BY <2>7 DEF Delete, rows
      <3>2. \A s \in Requests : req'[s].pc = "idle"
        BY <2>7, <1>5 DEF Delete
      <3> QED BY <3>1, <3>2, <1>4
    <2>8. CASE Update(r)
      <3>1. rows' = rows /\ \A i \in rows' : members'[i].user = members[i].user
        BY <2>8 DEF Update, rows, IInv, TypeOK
      <3>2. \A s \in Requests : req'[s].pc = "idle"
        BY <2>8, <1>5 DEF Update
      <3> QED BY <3>1, <3>2, <1>4
    <2> QED BY <1>7, <2>1, <2>2, <2>3, <2>4, <2>5, <2>6, <2>7, <2>8 DEF Proceed
  <1>8. ASSUME NEW u \in Users, DeleteAccount(u) PROVE Single'
    <2>1. rows' \subseteq rows /\ \A i \in rows' : members'[i].user = members[i].user
      BY <1>8 DEF DeleteAccount, KeptRows, rows
    <2>2. req' = req
      BY <1>8 DEF DeleteAccount
    <2> QED BY <2>1, <2>2, <1>4
  <1>9. CASE UNCHANGED vars
    BY <1>9 DEF vars, Single, OneRowPerUser, rows
  <1> QED BY <1>6, <1>7, <1>8, <1>9 DEF Next

(* Requests served one at a time never give anybody a second membership    *)
(* ("409 if the user is already a member", router.py:162), whichever       *)
(* accounts go meanwhile.                                                  *)
THEOREM SerialOneRow ==
  ASSUME NEW CONSTANT r0, Serial(r0)
  PROVE  Spec => []OneRowPerUser
  <1>1. Init => Single
    <2> SUFFICES ASSUME Init PROVE Single
      OBVIOUS
    <2>1. rows = {1}
      BY DEF Init, rows
    <2>2. \A r \in Requests : req[r].pc = "idle"
      BY DEF Init, Idle
    <2> QED BY <2>1, <2>2 DEF Single, OneRowPerUser, NotYet
  <1>2. IInv /\ Single /\ [Next]_vars => Single'
    BY SingleStep
  <1>3. Single => OneRowPerUser
    BY DEF Single
  <1> QED BY <1>1, <1>2, <1>3, InitInv, NextInv, PTL DEF Spec

-----------------------------------------------------------------------------
(* The abstract team keeps an owner, whoever asks and however many ask at  *)
(* the same time: each of its operations is atomic.                        *)
TeamOf == [u \in {members[i].user : i \in rows} |-> RolesOf(u)]

Asking == {req[r].caller : r \in Requests} \ {NULL}

LEMMA TeamIs ==
  /\ T!vars = <<TeamOf, Asking>>
  /\ T!HasOwner <=> \E u \in DOMAIN TeamOf : Owner \in TeamOf[u]
  /\ T!Owner = Owner /\ T!ScrumMaster = ScrumMaster
  /\ T!Managers = {Owner, ScrumMaster} /\ T!Roles = Roles /\ T!RoleSets = RoleSets
  BY DEF T!vars, T!HasOwner, T!Owner, T!ScrumMaster, T!Managers, T!Roles, T!RoleSets,
         TeamOf, Asking, Owner, ScrumMaster, Roles, RoleSets

LEMMA TeamChangeKeepsOwner ==
  ASSUME T!HasOwner, NEW c, NEW u, NEW R, T!TakesRoles(c, u, R)
  PROVE  T!HasOwner'
  <1>1. TeamOf' = [TeamOf EXCEPT ![u] = R] /\ u \in DOMAIN TeamOf
    BY DEF T!TakesRoles, TeamOf
  <1>2. Owner \in R \/ Owner \notin TeamOf[u] \/ \E x \in DOMAIN TeamOf \ {u} : Owner \in TeamOf[x]
    BY TeamIs DEF T!TakesRoles, TeamOf
  <1>3. PICK w \in DOMAIN TeamOf : Owner \in TeamOf[w]
    BY TeamIs
  <1>4. \E x \in DOMAIN TeamOf' : Owner \in TeamOf'[x]
    BY <1>1, <1>2, <1>3
  <1> QED BY <1>4 DEF T!HasOwner, T!Owner, Owner, TeamOf

LEMMA TeamStep ==
  ASSUME T!HasOwner, [T!Next \/ T!Departs]_(T!vars)
  PROVE  T!HasOwner'
  <1>0. T!HasOwner' <=> \E u \in DOMAIN TeamOf' : Owner \in TeamOf'[u]
    BY DEF T!HasOwner, T!Owner, Owner, TeamOf
  <1>1. PICK w \in DOMAIN TeamOf : Owner \in TeamOf[w]
    BY TeamIs
  <1>2. ASSUME NEW c, NEW u, NEW R, T!Joins(c, u, R) PROVE T!HasOwner'
    BY <1>0, <1>1, <1>2 DEF T!Joins, TeamOf
  <1>3. ASSUME NEW c, NEW u, T!Remove(c, u) PROVE T!HasOwner'
    BY <1>0, <1>1, <1>3, TeamIs DEF T!Remove, TeamOf
  <1>4. CASE TeamOf' = TeamOf
    BY <1>0, <1>1, <1>4
  <1>5. T!Next => TeamOf' = TeamOf
                  \/ \E c, u : T!Remove(c, u) \/ \E R : T!Joins(c, u, R) \/ T!TakesRoles(c, u, R)
    BY DEF T!Next, T!Ask, T!Refuse, T!Add, T!Change, TeamOf
  <1>7. T!Departs => \E c, u, R : T!Joins(c, u, R) \/ T!TakesRoles(c, u, R)
    BY DEF T!Departs, T!OwnerByScrumMaster, T!LastScrumMasterLeaves
  <1>6. T!vars' = T!vars => TeamOf' = TeamOf
    BY DEF T!vars, TeamOf
  <1> QED BY <1>2, <1>3, <1>4, <1>5, <1>6, <1>7, TeamChangeKeepsOwner

(* Any steps of the abstract operations keep an owner (services.py:534-554),*)
(* the two departures from the user guide included.                        *)
THEOREM TeamHasOwner ==
  T!Spec => []T!HasOwner
  <1>1. T!Init => T!HasOwner
    <2> SUFFICES ASSUME T!Init PROVE T!HasOwner
      OBVIOUS
    <2>1. PICK u \in Users : TeamOf = [x \in {u} |-> {Owner}]
      BY TeamIs DEF T!Init, TeamOf
    <2>2. u \in DOMAIN TeamOf /\ Owner \in TeamOf[u]
      BY <2>1
    <2> QED BY <2>2, TeamIs
  <1>2. T!HasOwner /\ [T!Next \/ T!Departs]_(T!vars) => T!HasOwner'
    BY TeamStep
  <1> QED BY <1>1, <1>2, PTL DEF T!Spec

-----------------------------------------------------------------------------
(* One slot implements the team, until an account goes. *)
LEMMA StandingIs ==
  ASSUME NEW c
  PROVE  T!Standing(c) = StandingIn(members, c)
  <1>1. RowsOf(c) = {i \in DOMAIN members : members[i].user = c}
    BY DEF RowsOf, rows
  <1>2. c \in {members[i].user : i \in rows} <=> RowsOf(c) # {}
    BY DEF RowsOf
  <1>3. CASE RowsOf(c) # {}
    <2>1. StandingIn(members, c) = UNION {members[i].roles : i \in RowsOf(c)}
      BY <1>1, <1>3 DEF StandingIn
    <2>2. T!Standing(c) = RolesOf(c)
      BY <1>2, <1>3 DEF T!Standing
    <2> QED BY <2>1, <2>2 DEF RolesOf
  <1>4. CASE RowsOf(c) = {}
    <2>1. StandingIn(members, c) = IF c \in Admins THEN {Owner} ELSE {}
      BY <1>1, <1>4 DEF StandingIn
    <2>2. T!Standing(c) = IF c \in Admins THEN {Owner} ELSE {}
      BY <1>2, <1>4, TeamIs DEF T!Standing
    <2> QED BY <2>1, <2>2
  <1> QED BY <1>3, <1>4

(* With one row per user, a member's roles are those of the row. *)
LEMMA RolesAre ==
  ASSUME OneRowPerUser, NEW i \in rows
  PROVE  /\ members[i].user \in DOMAIN TeamOf
         /\ RowsOf(members[i].user) = {i}
         /\ TeamOf[members[i].user] = members[i].roles
  <1>1. members[i].user \in {members[j].user : j \in rows}
    OBVIOUS
  <1>2. RowsOf(members[i].user) = {i}
    BY DEF RowsOf, OneRowPerUser
  <1>3. RolesOf(members[i].user) = UNION {members[j].roles : j \in {i}}
    BY <1>2 DEF RolesOf
  <1>4. UNION {members[j].roles : j \in {i}} = members[i].roles
    OBVIOUS
  <1> QED BY <1>1, <1>2, <1>3, <1>4 DEF TeamOf

LEMMA AskingIs ==
  ASSUME NEW r, Serial(r), IInv
  PROVE  /\ req[r].pc = "idle" => Asking = {}
         /\ req[r].pc # "idle" => Asking = {req[r].caller}
  <1>1. HandlerTyped(req[r]) /\ Requests = {r}
    BY ReqTyped DEF Serial
  <1> QED BY <1>1, NullAssumption DEF Asking, HandlerTyped

LEMMA InitRefined ==
  ASSUME NEW r, Serial(r), Init
  PROVE  T!Init
  <1>1. PICK u \in Users : members = [i \in {1} |-> [user |-> u, roles |-> {Owner}]]
    BY DEF Init
  <1>2. rows = {1} /\ members[1].user = u /\ members[1].roles = {Owner}
    BY <1>1 DEF rows
  <1>3. OneRowPerUser
    BY <1>2 DEF OneRowPerUser
  <1>4. TeamOf[u] = {Owner}
    BY <1>2, <1>3, RolesAre
  <1>5. DOMAIN TeamOf = {u}
    BY <1>2 DEF TeamOf
  <1>6. TeamOf = [x \in {u} |-> {Owner}]
    BY <1>4, <1>5 DEF TeamOf
  <1>7. Asking = {}
    <2>1. Idle.pc = "idle" /\ req[r] = Idle
      BY DEF Idle, Init, Serial
    <2> QED BY <2>1, AskingIs, InitInv
  <1> QED BY <1>6, <1>7, TeamIs DEF T!Init, TeamOf, Asking

LEMMA AskingNext ==
  ASSUME NEW r, Serial(r), IInv, NEW q, req' = [req EXCEPT ![r] = q]
  PROVE  Asking' = {q.caller} \ {NULL}
  <1>1. req'[r] = q /\ Requests = {r}
    BY DEF Serial, IInv, TypeOK
  <1> QED BY <1>1 DEF Asking

(* The handler answers its caller. *)
LEMMA AnswerRefined ==
  ASSUME NEW r, Serial(r), IInv, req[r].pc # "idle", req' = [req EXCEPT ![r] = Idle]
  PROVE  \E c \in Users : c = req[r].caller /\ T!Answer(c)
  <1>1. PICK c \in Users : c = req[r].caller /\ Asking = {c}
    BY AskingIs, ReqTyped DEF Serial, HandlerTyped
  <1>2. Idle.caller = NULL
    BY DEF Idle
  <1>3. Asking' = {}
    BY <1>2, AskingNext
  <1>4. T!Answer(c)
    BY <1>1, <1>3 DEF T!Answer, Asking
  <1> QED BY <1>1, <1>4

LEMMA FinishRefined ==
  ASSUME NEW r, Serial(r), IInv, req[r].pc # "idle", Finish(r)
  PROVE  T!Next
  <1>1. TeamOf' = TeamOf
    BY DEF Finish, Local, TeamOf, RolesOf, RowsOf, rows
  <1>2. PICK c \in Users : T!Answer(c)
    BY AnswerRefined DEF Finish, Local
  <1>3. T!Refuse(c)
    BY <1>1, <1>2 DEF T!Refuse, TeamOf
  <1> QED BY <1>3 DEF T!Next

LEMMA GoesOnRefined ==
  ASSUME NEW r, Serial(r), IInv, req[r].pc # "idle", NEW q, Local(r, q), q.caller = req[r].caller
  PROVE  UNCHANGED T!vars
  <1>1. TeamOf' = TeamOf
    BY DEF Local, TeamOf, RolesOf, RowsOf, rows
  <1>2. Asking = {req[r].caller} /\ req[r].caller \in Users
    BY AskingIs, ReqTyped DEF Serial, HandlerTyped
  <1>3. Asking' = Asking
    BY <1>2, AskingNext, NullAssumption DEF Local
  <1> QED BY <1>1, <1>3 DEF T!vars, TeamOf, Asking

LEMMA ArriveRefined ==
  ASSUME NEW r, Serial(r), IInv, Arrive(r)
  PROVE  T!Next
  <1>1. PICK c \in Users, u \in Users, op \in {"add", "remove", "update"}, R \in SUBSET Roles :
           Start(r, op, c, u, R)
    BY DEF Arrive, RoleSets
  <1>2. PICK q : q = [Idle EXCEPT !.pc = "gate", !.op = op, !.caller = c, !.user = u, !.roles = R]
    OBVIOUS
  <1>3. q.caller = c
    BY <1>2 DEF Idle
  <1>4. Local(r, q) /\ req[r].pc = "idle"
    BY <1>1, <1>2 DEF Start
  <1>5. TeamOf' = TeamOf
    BY <1>4 DEF Local, TeamOf, RolesOf, RowsOf, rows
  <1>6. Asking = {} /\ Asking' = {c}
    BY <1>3, <1>4, AskingIs, AskingNext, NullAssumption DEF Local
  <1>7. T!Ask(c)
    BY <1>5, <1>6 DEF T!Ask, TeamOf, Asking
  <1> QED BY <1>7 DEF T!Next

LEMMA ReadRefined ==
  ASSUME NEW r, Serial(r), IInv,
         \/ PassGate(r) \/ RefuseGate(r) \/ LookUp(r) \/ CheckExisting(r) \/ NoMoreIds(r)
         \/ ReadCaller(r) \/ ReadTarget(r) \/ NoTarget(r) \/ CountOwners(r) \/ NoUpdate(r)
  PROVE  T!Next \/ UNCHANGED T!vars
  <1> PICK q : q = req[r]
    OBVIOUS
  <1>1. q \in Request /\ HandlerTyped(q) /\ q.pc # "idle"
    BY ReqTyped DEF Serial, PassGate, RefuseGate, LookUp, CheckExisting, NoMoreIds, ReadCaller,
                    ReadTarget, NoTarget, CountOwners, NoUpdate
  <1>2. ASSUME Finish(r) PROVE T!Next
    BY <1>1, <1>2, FinishRefined
  <1>3. ASSUME NEW n, Local(r, n), n.caller = q.caller PROVE UNCHANGED T!vars
    BY <1>1, <1>3, GoesOnRefined
  <1>4. CASE RefuseGate(r) \/ NoMoreIds(r) \/ NoTarget(r) \/ NoUpdate(r)
    BY <1>2, <1>4 DEF RefuseGate, NoMoreIds, NoTarget, NoUpdate
  <1>5. ASSUME NEW p, Local(r, [q EXCEPT !.pc = p]) PROVE UNCHANGED T!vars
    <2>1. [q EXCEPT !.pc = p].caller = q.caller
      BY <1>1 DEF Request
    <2> QED BY <2>1, <1>3, <1>5
  <1>6. ASSUME NEW p, NEW m, Local(r, [q EXCEPT !.pc = p, !.mine = m]) PROVE UNCHANGED T!vars
    <2>1. [q EXCEPT !.pc = p, !.mine = m].caller = q.caller
      BY <1>1 DEF Request
    <2> QED BY <2>1, <1>3, <1>6
  <1>7. CASE PassGate(r)
    <2>1. q.op \in {"add", "remove", "update"}
      BY <1>1, <1>7 DEF PassGate, HandlerTyped
    <2> QED BY <2>1, <1>5, <1>6, <1>7 DEF PassGate
  <1>8. CASE LookUp(r) \/ CheckExisting(r) \/ CountOwners(r) \/ ReadCaller(r)
    BY <1>2, <1>5, <1>6, <1>8 DEF LookUp, CheckExisting, CountOwners, ReadCaller, Finish
  <1>9. CASE ReadTarget(r)
    <2>1. PICK copy : Local(r, AfterTarget([q EXCEPT !.theirs = copy]))
      BY <1>9 DEF ReadTarget
    <2>2. PICK n : n = [q EXCEPT !.theirs = copy]
      OBVIOUS
    <2>3. n.caller = q.caller /\ DOMAIN n = DOMAIN q /\ n.op = q.op /\ q.op \in {"remove", "update"}
      BY <1>1, <1>9, <2>2 DEF ReadTarget, HandlerTyped, Request
    <2>4. \A p : [n EXCEPT !.pc = p].caller = q.caller
      BY <1>1, <2>3 DEF Request
    <2>5. AfterTarget(n) = Idle \/ AfterTarget(n).caller = q.caller
      BY <2>3, <2>4 DEF AfterTarget
    <2> QED BY <2>1, <2>2, <2>5, <1>2, <1>3 DEF Finish
  <1> QED BY <1>4, <1>7, <1>8, <1>9

(* The commits: a member is added, removed or changed, and the caller has  *)
(* the right to it at that moment.                                         *)
LEMMA InsertRefined ==
  ASSUME NEW r, Serial(r), SerialInv, Insert(r)
  PROVE  T!Next \/ T!Departs
  <1> PICK q : q = req[r]
    OBVIOUS
  <1>1. /\ q \in Request /\ HandlerTyped(q) /\ StillSo(q, members) /\ q.pc = "insert"
        /\ OneRowPerUser /\ IInv
    BY ReqTyped DEF Serial, SerialInv, SerialSafe, Insert
  <1>2. PICK c \in Users : c = q.caller /\ T!Answer(c)
    <2>1. req' = [req EXCEPT ![r] = Idle] /\ req[r].pc # "idle"
      BY DEF Insert
    <2> QED BY <1>1, <2>1, AnswerRefined
  <1>3. q.user \in Users /\ q.roles \in RoleSets /\ \A i \in rows : members[i].user # q.user
    BY <1>1 DEF HandlerTyped, StillSo, rows
  <1>4. CASE ~UserStands(q.user)
    <2>1. TeamOf' = TeamOf
      BY <1>4 DEF Insert, TeamOf, RolesOf, RowsOf, rows
    <2>2. T!Refuse(c)
      BY <2>1, <1>2 DEF T!Refuse, TeamOf
    <2> QED BY <2>2, <1>2 DEF T!Next
  <1>5. CASE UserStands(q.user)
    <2>1. nextId \notin rows
      BY <1>1, RowTyped DEF Ids
    <2>2. /\ rows' = rows \cup {nextId}
          /\ \A i \in rows : members'[i] = members[i]
          /\ members'[nextId].user = q.user /\ members'[nextId].roles = q.roles
      BY <1>5, <2>1 DEF Insert, rows
    <2>3. DOMAIN TeamOf' = DOMAIN TeamOf \cup {q.user} /\ q.user \notin DOMAIN TeamOf
      BY <1>3, <2>1, <2>2 DEF TeamOf
    <2>4. \A x \in DOMAIN TeamOf : TeamOf'[x] = TeamOf[x]
      <3> SUFFICES ASSUME NEW x \in DOMAIN TeamOf PROVE TeamOf'[x] = TeamOf[x]
        OBVIOUS
      <3>1. {i \in rows' : members'[i].user = x} = {i \in rows : members[i].user = x}
        BY <2>1, <2>2, <2>3
      <3>2. {members'[i].roles : i \in {i \in rows' : members'[i].user = x}}
             = {members[i].roles : i \in {i \in rows : members[i].user = x}}
        BY <2>2, <3>1
      <3> QED BY <2>3, <3>2 DEF TeamOf, RolesOf, RowsOf
    <2>5. TeamOf'[q.user] = q.roles
      <3>1. {i \in rows' : members'[i].user = q.user} = {nextId}
        BY <1>3, <2>1, <2>2
      <3>2. UNION {members'[i].roles : i \in {nextId}} = q.roles
        BY <2>2
      <3> QED BY <2>3, <3>1, <3>2 DEF TeamOf, RolesOf, RowsOf
    <2>6. TeamOf' = [x \in DOMAIN TeamOf \cup {q.user} |-> IF x = q.user THEN q.roles ELSE TeamOf[x]]
      <3>1. TeamOf' = [x \in DOMAIN TeamOf' |-> TeamOf'[x]]
        BY DEF TeamOf
      <3> QED BY <3>1, <2>3, <2>4, <2>5
    <2>7. T!MayManage(c)
      <3>1. StandingIn(members, c) \cap {Owner, ScrumMaster} # {}
        BY <1>1, <1>2 DEF StillSo
      <3> QED BY <3>1, StandingIs, TeamIs DEF T!MayManage
    <2>8. T!Joins(c, q.user, q.roles)
      BY <1>2, <2>3, <2>6, <2>7 DEF T!Joins, TeamOf
    <2>9. T!Add(c, q.user, q.roles) \/ T!OwnerByScrumMaster(c, q.user, q.roles)
      BY <2>8 DEF T!Add, T!OwnerByScrumMaster
    <2> QED BY <1>3, <2>9, TeamIs DEF T!Next, T!Departs
  <1> QED BY <1>4, <1>5

LEMMA DeleteRefined ==
  ASSUME NEW r, Serial(r), SerialInv, Delete(r)
  PROVE  T!Next
  <1> PICK q : q = req[r]
    OBVIOUS
  <1>1. /\ q \in Request /\ HandlerTyped(q) /\ StillSo(q, members) /\ q.pc = "delete"
        /\ OneRowPerUser /\ IInv
    BY ReqTyped DEF Serial, SerialInv, SerialSafe, Delete
  <1>2. PICK c \in Users : c = q.caller /\ T!Answer(c)
    <2>1. req' = [req EXCEPT ![r] = Idle] /\ req[r].pc # "idle"
      BY DEF Delete
    <2> QED BY <1>1, <2>1, AnswerRefined
  <1>3. PICK d : d = q.theirs.id
    OBVIOUS
  <1>4. PICK u \in Users : u = q.user
    BY <1>1 DEF HandlerTyped
  <1>5. /\ d \in rows /\ members[d].user = u /\ q.theirs.roles = members[d].roles
        /\ q.mine.roles = StandingIn(members, c) /\ StandingIn(members, c) \cap {Owner, ScrumMaster} # {}
        /\ MayRemove(q)
    BY <1>1, <1>2, <1>3, <1>4 DEF StillSo, rows
  <1>6. u \in DOMAIN TeamOf /\ RowsOf(u) = {d} /\ TeamOf[u] = members[d].roles
    BY <1>1, <1>5, RolesAre
  <1>7. rows' = rows \ {d} /\ \A i \in rows' : members'[i] = members[i]
    BY <1>3 DEF Delete, rows
  <1>8. DOMAIN TeamOf' = DOMAIN TeamOf \ {u}
    <2>1. {members'[i].user : i \in rows'} = {members[i].user : i \in rows} \ {u}
      BY <1>5, <1>6, <1>7 DEF RowsOf
    <2> QED BY <2>1 DEF TeamOf
  <1>9. \A x \in DOMAIN TeamOf' : TeamOf'[x] = TeamOf[x]
    <2> SUFFICES ASSUME NEW x \in DOMAIN TeamOf' PROVE TeamOf'[x] = TeamOf[x]
      OBVIOUS
    <2>1. {i \in rows' : members'[i].user = x} = {i \in rows : members[i].user = x}
      BY <1>5, <1>7, <1>8
    <2>2. {members'[i].roles : i \in {i \in rows' : members'[i].user = x}}
           = {members[i].roles : i \in {i \in rows : members[i].user = x}}
      BY <1>7, <2>1
    <2> QED BY <1>8, <2>2 DEF TeamOf, RolesOf, RowsOf
  <1>10. TeamOf' = [x \in DOMAIN TeamOf \ {u} |-> TeamOf[x]]
    <2>1. TeamOf' = [x \in DOMAIN TeamOf' |-> TeamOf'[x]]
      BY DEF TeamOf
    <2> QED BY <2>1, <1>8, <1>9
  <1>11. /\ T!MayManage(c) /\ Owner \notin TeamOf[u]
         /\ Owner \in T!Standing(c) \/ ScrumMaster \notin TeamOf[u]
    BY <1>5, <1>6, StandingIs, TeamIs DEF T!MayManage, MayRemove
  <1>12. T!Remove(c, u)
    BY <1>2, <1>6, <1>10, <1>11, TeamIs DEF T!Remove, TeamOf
  <1> QED BY <1>12 DEF T!Next

LEMMA UpdateRefined ==
  ASSUME NEW r, Serial(r), SerialInv, Update(r)
  PROVE  T!Next \/ T!Departs
  <1> PICK q : q = req[r]
    OBVIOUS
  <1>1. /\ q \in Request /\ HandlerTyped(q) /\ StillSo(q, members) /\ q.pc = "update"
        /\ OneRowPerUser /\ IInv
    BY ReqTyped DEF Serial, SerialInv, SerialSafe, Update
  <1>2. PICK c \in Users : c = q.caller /\ T!Answer(c)
    <2>1. req' = [req EXCEPT ![r] = Idle] /\ req[r].pc # "idle"
      BY DEF Update
    <2> QED BY <1>1, <2>1, AnswerRefined
  <1>3. PICK d : d = q.theirs.id
    OBVIOUS
  <1>4. PICK u \in Users, R \in RoleSets : u = q.user /\ R = q.roles
    BY <1>1 DEF HandlerTyped
  <1>5. /\ d \in rows /\ members[d].user = u /\ q.theirs.roles = members[d].roles
        /\ q.mine.roles = StandingIn(members, c) /\ StandingIn(members, c) \cap {Owner, ScrumMaster} # {}
        /\ MayChange(q)
        /\ Demotes(q) => \E j \in rows \ {d} : Owner \in members[j].roles
    BY <1>1, <1>2, <1>3, <1>4 DEF StillSo, rows
  <1>6. u \in DOMAIN TeamOf /\ RowsOf(u) = {d} /\ TeamOf[u] = members[d].roles
    BY <1>1, <1>5, RolesAre
  <1>7. members' = [members EXCEPT ![d].roles = R]
    BY <1>3, <1>4, <1>5 DEF Update, NewRoles
  <1>8. /\ rows' = rows
        /\ \A i \in rows : members'[i].user = members[i].user
        /\ \A i \in rows \ {d} : members'[i] = members[i]
        /\ members'[d].roles = R
    BY <1>1, <1>5, <1>7, RowTyped DEF rows, IInv, TypeOK
  <1>9. DOMAIN TeamOf' = DOMAIN TeamOf
    <2>1. {members'[i].user : i \in rows'} = {members[i].user : i \in rows}
      BY <1>8
    <2> QED BY <2>1 DEF TeamOf
  <1>10. \A x : {i \in rows' : members'[i].user = x} = {i \in rows : members[i].user = x}
    BY <1>8
  <1>11. \A x \in DOMAIN TeamOf \ {u} : TeamOf'[x] = TeamOf[x]
    <2> SUFFICES ASSUME NEW x \in DOMAIN TeamOf \ {u} PROVE TeamOf'[x] = TeamOf[x]
      OBVIOUS
    <2>1. {members'[i].roles : i \in {i \in rows' : members'[i].user = x}}
           = {members[i].roles : i \in {i \in rows : members[i].user = x}}
      BY <1>5, <1>8, <1>10
    <2> QED BY <1>9, <2>1 DEF TeamOf, RolesOf, RowsOf
  <1>12. TeamOf'[u] = R
    <2>1. {i \in rows' : members'[i].user = u} = {d}
      BY <1>6, <1>10 DEF RowsOf
    <2>2. UNION {members'[i].roles : i \in {d}} = R
      BY <1>8
    <2> QED BY <1>6, <1>9, <2>1, <2>2 DEF TeamOf, RolesOf, RowsOf
  <1>13. TeamOf' = [TeamOf EXCEPT ![u] = R]
    <2>1. TeamOf' = [x \in DOMAIN TeamOf' |-> TeamOf'[x]] /\ TeamOf = [x \in DOMAIN TeamOf |-> TeamOf[x]]
      BY DEF TeamOf
    <2> QED BY <2>1, <1>6, <1>9, <1>11, <1>12
  <1>14. Owner \in R \/ Owner \notin TeamOf[u] \/ \E x \in DOMAIN TeamOf \ {u} : Owner \in TeamOf[x]
    <2>1. CASE ~Demotes(q)
      BY <2>1, <1>4, <1>5, <1>6 DEF Demotes
    <2>2. CASE Demotes(q)
      <3>1. PICK j \in rows \ {d} : Owner \in members[j].roles
        BY <2>2, <1>5
      <3>2. members[j].user \in DOMAIN TeamOf /\ TeamOf[members[j].user] = members[j].roles
        BY <1>1, RolesAre
      <3>3. members[j].user # u
        BY <1>1, <1>5 DEF OneRowPerUser
      <3> QED BY <3>1, <3>2, <3>3
    <2> QED BY <2>1, <2>2
  <1>15. /\ T!MayManage(c)
         /\ Owner \in TeamOf[u] \cup R => Owner \in T!Standing(c)
    BY <1>4, <1>5, <1>6, StandingIs, TeamIs DEF T!MayManage, MayChange
  <1>16. T!TakesRoles(c, u, R)
    BY <1>2, <1>6, <1>13, <1>14, <1>15, TeamIs DEF T!TakesRoles, TeamOf
  <1>17. T!Change(c, u, R) \/ T!LastScrumMasterLeaves(c, u, R)
    BY <1>16 DEF T!Change, T!LastScrumMasterLeaves
  <1> QED BY <1>17, TeamIs DEF T!Next, T!Departs

LEMMA NextRefined ==
  ASSUME NEW r, Serial(r), IInv, SafeUntilGone, [Next]_vars
  PROVE  [accounts' = Users => T!Next \/ T!Departs]_(T!vars)
  <1> SUFFICES ASSUME accounts' = Users PROVE T!Next \/ T!Departs \/ UNCHANGED T!vars
    OBVIOUS
  <1>1. CASE Arrive(r) \/ Proceed(r)
    <2>1. accounts' = accounts
      BY <1>1 DEF Arrive, Start, Proceed, PassGate, RefuseGate, LookUp, CheckExisting, Insert,
                  NoMoreIds, ReadCaller, ReadTarget, NoTarget, Delete, CountOwners, Update, NoUpdate,
                  Local, Finish
    <2>2. SerialInv
      BY <2>1 DEF SafeUntilGone, SerialInv
    <2> QED BY <1>1, <2>2, ArriveRefined, ReadRefined, InsertRefined, DeleteRefined, UpdateRefined
            DEF Proceed
  <1>2. ASSUME NEW u \in Users, DeleteAccount(u) PROVE FALSE
    BY <1>2 DEF DeleteAccount
  <1>3. CASE UNCHANGED vars
    BY <1>3 DEF vars, T!vars, RolesOf, RowsOf, rows
  <1> QED BY <1>1, <1>2, <1>3 DEF Next, Serial

(* One request at a time, and until an account goes, the statements of a   *)
(* request add up to one atomic operation of Team, answered with the       *)
(* rights the caller has at that moment: what it read on the way is what   *)
(* is there when it writes.  For any sets of accounts and administrators.  *)
(* An operation is one of the user guide, or one of the two departures     *)
(* that Team names: nothing else the service does is beyond the guide.     *)
THEOREM SerialIsATeam ==
  ASSUME NEW CONSTANT r0, Serial(r0)
  PROVE  Spec => ImplementsTeam
  <1>1. Init => T!Init
    BY InitRefined
  <1>2. IInv /\ SafeUntilGone /\ [Next]_vars => [accounts' = Users => T!Next \/ T!Departs]_(T!vars)
    BY NextRefined
  <1> QED BY <1>1, <1>2, SerialHolds, PTL DEF Spec, ImplementsTeam
=============================================================================
