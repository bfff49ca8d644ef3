--------------------------- MODULE AccountsProofs ---------------------------
(***************************************************************************)
(* Proofs about Accounts for every set of addresses, every bound on ids    *)
(* and every number of request slots.                                      *)
(***************************************************************************)
EXTENDS Accounts, FiniteSetTheorems, TLAPS

(* What the handlers hold between two statements. *)
HandlerTyped(q) ==
    /\ q.pc \in {"email", "lock", "admins", "insert"} => q.email \in Emails
    /\ q.pc \in {"email", "lock", "admins", "insert"} => q.op \in {"register", "oauth", "email"}
    /\ q.pc \in {"lock", "admins", "insert"} => q.op \in {"register", "oauth"}
    /\ q.pc = "insert" => q.role \in UserRoles
    /\ q.pc = "target" => q.op \in {"role", "status"}
    /\ q.pc = "write" => q.op \in {"role", "status", "email"} /\ q.row \in User
    /\ q.op = "email" => q.email \in Emails /\ q.row \in User
    /\ q.op = "role" => q.role \in UserRoles

(* Who is about to look for administrators is in the queue of the lock,    *)
(* who has looked is at its head.                                          *)
Queued(q, r, l) ==
    /\ q.pc = "admins" => \E k \in 1 .. Len(l) : l[k] = r
    /\ q.pc = "insert" => l # <<>> /\ Head(l) = r

IInv ==
    /\ TypeOK
    /\ \A r \in Requests : HandlerTyped(req[r])
    /\ \A r \in Requests : Queued(req[r], r, lock)

-----------------------------------------------------------------------------
LEMMA IdleTyped == Idle \in Request /\ HandlerTyped(Idle) /\ \A r, l : Queued(Idle, r, l)
  BY DEF Idle, Request, OrNull, HandlerTyped, Queued

LEMMA ReqTyped ==
  ASSUME IInv, NEW r \in Requests
  PROVE  req[r] \in Request /\ HandlerTyped(req[r]) /\ Queued(req[r], r, lock)
  BY DEF IInv, TypeOK

(* A step of one request that leaves the table and the lock alone. *)
LEMMA LocalStep ==
  ASSUME IInv, NEW r \in Requests, NEW q \in Request, HandlerTyped(q), Queued(q, r, lock),
         req' = [req EXCEPT ![r] = q], overlapped' \in BOOLEAN,
         UNCHANGED <<users, nextId, lock, granted>>
  PROVE  IInv'
  <1>1. TypeOK'
    BY DEF IInv, TypeOK, live
  <1>2. \A s \in Requests : HandlerTyped(req'[s]) /\ Queued(req'[s], s, lock')
    BY DEF IInv, TypeOK
  <1> QED BY <1>1, <1>2 DEF IInv

LEMMA FinishStep ==
  ASSUME IInv, NEW r \in Requests, Finish(r)
  PROVE  IInv'
  BY IdleTyped, LocalStep DEF Finish, Local, IInv, TypeOK

LEMMA ArrivesStep ==
  ASSUME IInv, NEW r \in Requests, NEW q \in Request, HandlerTyped(q), q.pc \notin {"admins", "insert"},
         Arrives(r, q)
  PROVE  IInv'
  <1>1. overlapped' \in BOOLEAN
    BY DEF Arrives, IInv, TypeOK
  <1>2. Queued(q, r, lock)
    BY DEF Queued
  <1> QED BY <1>1, <1>2, LocalStep DEF Arrives

LEMMA ArriveStep ==
  ASSUME IInv, NEW r \in Requests, Arrive(r)
  PROVE  IInv'
  <1>1. ASSUME NEW op \in {"register", "oauth"}, NEW e \in Emails, StartRegister(r, op, e)
        PROVE  IInv'
    <2> PICK q : q = [Idle EXCEPT !.pc = "email", !.op = op, !.email = e]
      OBVIOUS
    <2>1. q \in Request /\ HandlerTyped(q) /\ q.pc = "email"
      BY IdleTyped DEF Idle, Request, OrNull, HandlerTyped
    <2> QED BY <1>1, <2>1, ArrivesStep DEF StartRegister
  <1>2. ASSUME NEW caller \in Ids, NEW i \in Ids, NEW role \in UserRoles,
               StartAdminChange(r, "role", caller, i, role, TRUE)
        PROVE  IInv'
    <2> PICK q : q = [Idle EXCEPT !.pc = "target", !.op = "role", !.id = i, !.role = role, !.active = TRUE]
      OBVIOUS
    <2>1. q \in Request /\ HandlerTyped(q) /\ q.pc = "target"
      BY IdleTyped DEF Idle, Request, OrNull, HandlerTyped
    <2> QED BY <1>2, <2>1, ArrivesStep DEF StartAdminChange
  <1>3. ASSUME NEW caller \in Ids, NEW i \in Ids, NEW active \in BOOLEAN,
               StartAdminChange(r, "status", caller, i, NULL, active)
        PROVE  IInv'
    <2> PICK q : q = [Idle EXCEPT !.pc = "target", !.op = "status", !.id = i, !.role = NULL, !.active = active]
      OBVIOUS
    <2>1. q \in Request /\ HandlerTyped(q) /\ q.pc = "target"
      BY IdleTyped DEF Idle, Request, OrNull, HandlerTyped
    <2> QED BY <1>3, <2>1, ArrivesStep DEF StartAdminChange
  <1>4. ASSUME NEW caller \in Ids, StartDelete(r, caller) PROVE IInv'
    <2> PICK q : q = [Idle EXCEPT !.pc = "delete", !.op = "delete", !.id = caller]
      OBVIOUS
    <2>1. q \in Request /\ HandlerTyped(q) /\ q.pc = "delete"
      BY IdleTyped DEF Idle, Request, OrNull, HandlerTyped
    <2> QED BY <1>4, <2>1, ArrivesStep DEF StartDelete
  <1>5. ASSUME NEW caller \in Ids, NEW e \in Emails, StartChangeEmail(r, caller, e) PROVE IInv'
    <2> PICK q : q = [Idle EXCEPT !.pc = "email", !.op = "email", !.id = caller, !.email = e, !.row = users[caller]]
      OBVIOUS
    <2>1. users[caller] \in User
      BY <1>5 DEF StartChangeEmail, IInv, TypeOK
    <2>2. q \in Request /\ HandlerTyped(q) /\ q.pc = "email"
      BY <2>1, IdleTyped DEF Idle, Request, OrNull, HandlerTyped
    <2> QED BY <1>5, <2>2, ArrivesStep DEF StartChangeEmail
  <1> QED BY <1>1, <1>2, <1>3, <1>4, <1>5 DEF Arrive

LEMMA CheckEmailStep ==
  ASSUME IInv, NEW r \in Requests, CheckEmail(r)
  PROVE  IInv'
  <1> PICK q : q = req[r]
    OBVIOUS
  <1> PICK n : n = [q EXCEPT !.pc = IF q.op = "email" THEN "write" ELSE "lock"]
    OBVIOUS
  <1>1. q \in Request /\ HandlerTyped(q) /\ q.pc = "email"
    BY ReqTyped DEF CheckEmail
  <1>2. n \in Request /\ HandlerTyped(n) /\ Queued(n, r, lock)
    BY <1>1 DEF Request, HandlerTyped, Queued
  <1>3. Local(r, Idle) \/ Local(r, n)
    BY DEF CheckEmail
  <1> QED BY <1>2, <1>3, IdleTyped, LocalStep DEF Local, IInv, TypeOK

LEMMA PickRoleStep ==
  ASSUME IInv, NEW r \in Requests, PickRole(r)
  PROVE  IInv'
  <1> PICK q : q = req[r]
    OBVIOUS
  <1> PICK role \in UserRoles : role = IF \E i \in live : users[i].role = Admin THEN "TeamMember" ELSE Admin
    BY DEF UserRoles
  <1> PICK n : n = [q EXCEPT !.pc = "insert", !.role = role]
    OBVIOUS
  <1>1. q \in Request /\ HandlerTyped(q) /\ q.pc = "admins" /\ Queued(q, r, lock)
    BY ReqTyped DEF PickRole
  <1>2. n \in Request /\ HandlerTyped(n)
    BY <1>1 DEF Request, HandlerTyped, OrNull
  <1>3. lock # <<>> /\ Head(lock) = r
    BY <1>1 DEF Queued, PickRole, HoldsLock
  <1>4. Local(r, n) /\ Queued(n, r, lock)
    BY <1>1, <1>3 DEF PickRole, Queued, Request
  <1> QED BY <1>2, <1>4, LocalStep DEF Local, IInv, TypeOK

LEMMA ReadTargetStep ==
  ASSUME IInv, NEW r \in Requests, ReadTarget(r)
  PROVE  IInv'
  <1> PICK q : q = req[r]
    OBVIOUS
  <1> PICK n : n = [q EXCEPT !.pc = "write", !.row = users[q.id]]
    OBVIOUS
  <1>1. q \in Request /\ HandlerTyped(q) /\ q.pc = "target" /\ users[q.id] \in User
    BY ReqTyped DEF ReadTarget, IInv, TypeOK
  <1>2. n \in Request /\ HandlerTyped(n) /\ Queued(n, r, lock)
    BY <1>1 DEF Request, HandlerTyped, OrNull, Queued
  <1> QED BY <1>2, LocalStep DEF ReadTarget, Local, IInv, TypeOK

LEMMA AskLockStep ==
  ASSUME IInv, NEW r \in Requests, AskLock(r)
  PROVE  IInv'
  <1> PICK q : q = req[r]
    OBVIOUS
  <1> PICK n : n = [q EXCEPT !.pc = "admins"]
    OBVIOUS
  <1>1. q \in Request /\ HandlerTyped(q) /\ q.pc = "lock" /\ lock \in Seq(Requests)
    BY ReqTyped DEF AskLock, IInv, TypeOK
  <1>2. n \in Request /\ HandlerTyped(n) /\ n.pc = "admins"
    BY <1>1 DEF Request, HandlerTyped
  <1>3. req' = [req EXCEPT ![r] = n] /\ lock' = Append(lock, r) /\ UNCHANGED <<users, nextId, overlapped, granted>>
    BY DEF AskLock
  <1>4. lock' \in Seq(Requests) /\ Len(lock') = Len(lock) + 1 /\ lock'[Len(lock')] = r
        /\ \A k \in 1 .. Len(lock) : lock'[k] = lock[k]
    BY <1>1, <1>3
  <1>5. TypeOK'
    BY <1>2, <1>3, <1>4 DEF IInv, TypeOK, live
  <1>6. Queued(n, r, lock')
    BY <1>1, <1>2, <1>4 DEF Queued
  <1>7. ASSUME NEW s \in Requests PROVE Queued(req[s], s, lock')
    <2>1. Queued(req[s], s, lock)
      BY ReqTyped
    <2>2. lock # <<>> => lock' # <<>> /\ Head(lock') = Head(lock)
      BY <1>1, <1>3
    <2>3. \A k \in 1 .. Len(lock) : k \in 1 .. Len(lock')
      BY <1>1, <1>4
    <2> QED BY <1>4, <2>1, <2>2, <2>3 DEF Queued
  <1>8. \A s \in Requests : HandlerTyped(req'[s]) /\ Queued(req'[s], s, lock')
    BY <1>2, <1>3, <1>6, <1>7 DEF IInv, TypeOK
  <1> QED BY <1>5, <1>8 DEF IInv

(* The holder gives up the lock: all others are still in the queue. *)
LEMMA UnlockQueue ==
  ASSUME IInv, NEW r \in Requests, req[r].pc = "insert", lock' = Unlocked,
         req' = [req EXCEPT ![r] = Idle]
  PROVE  /\ lock' \in Seq(Requests)
         /\ \A s \in Requests : HandlerTyped(req'[s]) /\ Queued(req'[s], s, lock')
  <1>1. lock \in Seq(Requests) /\ lock # <<>> /\ Head(lock) = r
    BY ReqTyped DEF Queued, IInv, TypeOK
  <1>2. /\ lock' \in Seq(Requests) /\ Len(lock') = Len(lock) - 1 /\ lock[1] = r
        /\ \A k \in 1 .. Len(lock') : lock'[k] = lock[k + 1]
    BY <1>1 DEF Unlocked
  <1>3. \A s \in Requests : HandlerTyped(req'[s])
    BY IdleTyped DEF IInv, TypeOK
  <1>4. ASSUME NEW s \in Requests, s # r PROVE Queued(req[s], s, lock')
    <2>1. Queued(req[s], s, lock)
      BY ReqTyped
    <2>2. req[s].pc # "insert"
      BY <1>1, <1>4, <2>1 DEF Queued
    <2>3. ASSUME NEW k \in 1 .. Len(lock), lock[k] = s PROVE \E j \in 1 .. Len(lock') : lock'[j] = s
      <3>1. k - 1 \in 1 .. Len(lock') /\ (k - 1) + 1 = k
        BY <1>1, <1>2, <1>4, <2>3
      <3>2. lock'[k - 1] = s
        BY <1>2, <2>3, <3>1
      <3> QED BY <3>1, <3>2
    <2> QED BY <2>1, <2>2, <2>3 DEF Queued
  <1>5. \A s \in Requests : Queued(req'[s], s, lock')
    BY <1>4, IdleTyped DEF IInv, TypeOK
  <1> QED BY <1>2, <1>3, <1>5

LEMMA InsertStep ==
  ASSUME IInv, NEW r \in Requests, Insert(r) \/ NoMoreIds(r)
  PROVE  IInv'
  <1> PICK q : q = req[r]
    OBVIOUS
  <1>1. q \in Request /\ q.pc = "insert" /\ q.email \in Emails /\ q.role \in UserRoles
    BY ReqTyped DEF HandlerTyped, Insert, NoMoreIds
  <1>2. /\ req' = [req EXCEPT ![r] = Idle] /\ lock' = Unlocked /\ UNCHANGED <<overlapped, granted>>
    BY DEF Insert, NoMoreIds
  <1>3. live' \subseteq Ids /\ users' \in [live' -> User] /\ nextId' \in 1 .. MaxId + 1
    <2>1. CASE NoMoreIds(r)
      BY <2>1 DEF NoMoreIds, IInv, TypeOK, live
    <2>2. CASE Insert(r)
      <3>1. nextId \in Ids /\ nextId' \in 1 .. MaxId + 1
        BY <2>2, MaxIdAssumption DEF Insert, IInv, TypeOK, Ids
      <3>2. CASE EmailFree(q.email, NULL)
        <4>1. [email |-> q.email, role |-> q.role, active |-> TRUE] \in User
          BY <1>1 DEF User
        <4>2. users' = [i \in live \cup {nextId} |->
                  IF i = nextId THEN [email |-> q.email, role |-> q.role, active |-> TRUE] ELSE users[i]]
          BY <2>2, <3>2 DEF Insert
        <4> QED BY <3>1, <4>1, <4>2 DEF IInv, TypeOK, live
      <3>3. CASE ~EmailFree(q.email, NULL)
        BY <2>2, <3>1, <3>3 DEF Insert, IInv, TypeOK, live
      <3> QED BY <3>2, <3>3
    <2> QED BY <2>1, <2>2
  <1>4. /\ lock' \in Seq(Requests)
        /\ \A s \in Requests : HandlerTyped(req'[s]) /\ Queued(req'[s], s, lock')
    BY <1>1, <1>2, UnlockQueue
  <1>5. TypeOK'
    BY <1>2, <1>3, <1>4, IdleTyped DEF IInv, TypeOK
  <1> QED BY <1>4, <1>5 DEF IInv

LEMMA ChangedType ==
  ASSUME NEW q, q.op \in {"role", "status", "email"}, q.active \in BOOLEAN,
         q.op = "role" => q.role \in UserRoles, q.op = "email" => q.email \in Emails, NEW row \in User
  PROVE  /\ Changed(q, row) \in User
         /\ q.op = "role" => Changed(q, row).role = q.role
         /\ q.op # "role" => Changed(q, row).role = row.role
         /\ q.op # "status" => Changed(q, row).active = row.active
  <1>1. CASE q.op = "role"
    BY <1>1 DEF Changed, User
  <1>2. CASE q.op = "email"
    BY <1>2 DEF Changed, User
  <1>3. CASE q.op = "status"
    BY <1>3 DEF Changed, User
  <1> QED BY <1>1, <1>2, <1>3

(* What a write does to the table. *)
LEMMA WriteTable ==
  ASSUME IInv, NEW r \in Requests, Write(r)
  PROVE  LET q == req[r]
             new == Written(q)
         IN  /\ q.id \in live /\ live' = live
             /\ \A i \in live : users'[i] = IF i = q.id THEN new ELSE users[i]
             /\ new \in User
             /\ q.op = "role" => new.role = q.role
             /\ q.op # "role" => new.role = users[q.id].role
             /\ q.op # "status" => new.active = users[q.id].active
  <1> PICK q : q = req[r]
    OBVIOUS
  <1>1. /\ q \in Request /\ HandlerTyped(q) /\ q.pc = "write" /\ q.id \in live
        /\ users' = [users EXCEPT ![q.id] = Written(q)]
    BY ReqTyped DEF Write, WriteCommits
  <1>2. users[q.id] \in User /\ q.active \in BOOLEAN
    BY <1>1 DEF IInv, TypeOK, Request
  <1>3. q.op \in {"role", "status", "email"} /\ (q.op = "role" => q.role \in UserRoles)
        /\ (q.op = "email" => q.email \in Emails)
    BY <1>1 DEF HandlerTyped
  <1>4. /\ Written(q) \in User
        /\ q.op = "role" => Written(q).role = q.role
        /\ q.op # "role" => Written(q).role = users[q.id].role
        /\ q.op # "status" => Written(q).active = users[q.id].active
    BY <1>2, <1>3, ChangedType DEF Written
  <1>5. live' = live /\ \A i \in live : users'[i] = IF i = q.id THEN Written(q) ELSE users[i]
    BY <1>1 DEF IInv, TypeOK, live
  <1> QED BY <1>1, <1>4, <1>5

(* A step that ends a request and leaves the lock alone. *)
LEMMA EndStep ==
  ASSUME IInv, NEW r \in Requests, req' = [req EXCEPT ![r] = Idle],
         live' \subseteq Ids, users' \in [live' -> User], granted' \in BOOLEAN,
         UNCHANGED <<nextId, lock, overlapped>>
  PROVE  IInv'
  <1>1. TypeOK'
    BY IdleTyped DEF IInv, TypeOK
  <1>2. \A s \in Requests : HandlerTyped(req'[s]) /\ Queued(req'[s], s, lock')
    BY IdleTyped DEF IInv, TypeOK
  <1> QED BY <1>1, <1>2 DEF IInv

LEMMA WriteStep ==
  ASSUME IInv, NEW r \in Requests, Write(r)
  PROVE  IInv'
  <1>1. live' = live /\ \A i \in live : users'[i] \in User
    BY WriteTable DEF IInv, TypeOK
  <1>2. users' \in [live' -> User]
    BY <1>1 DEF Write, IInv, TypeOK, live
  <1>3. req' = [req EXCEPT ![r] = Idle] /\ UNCHANGED <<nextId, lock, overlapped>>
    BY DEF Write
  <1>4. granted' \in BOOLEAN
    BY Zenon DEF Write, IInv, TypeOK
  <1> QED BY <1>1, <1>2, <1>3, <1>4, EndStep DEF IInv, TypeOK

LEMMA DeleteStep ==
  ASSUME IInv, NEW r \in Requests, Delete(r)
  PROVE  IInv'
  <1>1. live' \subseteq Ids /\ users' \in [live' -> User]
    BY DEF Delete, IInv, TypeOK, live
  <1> QED BY <1>1, EndStep DEF Delete, IInv, TypeOK

LEMMA InitIInv == Init => IInv
  <1> SUFFICES ASSUME Init PROVE IInv
    OBVIOUS
  <1>1. live = {} /\ users \in [live -> User]
    BY DEF Init, live
  <1>2. 1 \in 1 .. MaxId + 1
    BY MaxIdAssumption
  <1>3. TypeOK
    <2>1. lock \in Seq(Requests) /\ req \in [Requests -> Request]
      BY IdleTyped DEF Init
    <2>2. nextId \in 1 .. MaxId + 1 /\ live \subseteq Ids
      BY <1>1, <1>2 DEF Init
    <2> QED BY <1>1, <2>1, <2>2 DEF Init, TypeOK
  <1>4. \A r \in Requests : HandlerTyped(req[r]) /\ Queued(req[r], r, lock)
    BY IdleTyped DEF Init
  <1> QED BY <1>3, <1>4 DEF IInv

LEMMA NextIInv == IInv /\ [Next]_vars => IInv'
  <1> SUFFICES ASSUME IInv, [Next]_vars PROVE IInv'
    OBVIOUS
  <1>1. CASE UNCHANGED vars
    BY <1>1 DEF vars, IInv, TypeOK, live
  <1>2. ASSUME NEW r \in Requests, Arrive(r) PROVE IInv'
    BY <1>2, ArriveStep
  <1>3. ASSUME NEW r \in Requests, Proceed(r) PROVE IInv'
    <2>1. CASE CheckEmail(r)
      BY <2>1, CheckEmailStep
    <2>2. CASE AskLock(r)
      BY <2>2, AskLockStep
    <2>3. CASE PickRole(r)
      BY <2>3, PickRoleStep
    <2>4. CASE Insert(r) \/ NoMoreIds(r)
      BY <2>4, InsertStep
    <2>5. CASE ReadTarget(r)
      BY <2>5, ReadTargetStep
    <2>6. CASE NoTarget(r) \/ NoWrite(r)
      BY <2>6, FinishStep DEF NoTarget, NoWrite
    <2>7. CASE Write(r)
      BY <2>7, WriteStep
    <2>8. CASE Delete(r)
      BY <2>8, DeleteStep
    <2> QED BY <1>3, <2>1, <2>2, <2>3, <2>4, <2>5, <2>6, <2>7, <2>8 DEF Proceed
  <1> QED BY <1>1, <1>2, <1>3 DEF Next

THEOREM IInvHolds == Spec => []IInv
  BY InitIInv, NextIInv, PTL DEF Spec

(* The table, the queue of the lock and the handlers keep their types,     *)
(* whatever overlaps.                                                      *)
THEOREM TypeCorrect == Spec => []TypeOK
  <1>1. IInv => TypeOK
    BY DEF IInv
  <1> QED BY <1>1, IInvHolds, PTL

-----------------------------------------------------------------------------
(* Who holds the lock and has found no administrator will still find none, *)
(* unless one gave somebody that role meanwhile.                           *)
FoundNone(q, given, adms) == q.pc = "insert" /\ q.role = Admin => given \/ adms = {}

FirstInv ==
    /\ IInv
    /\ \A r \in Requests : FoundNone(req[r], granted, admins)
    /\ OneAdministrator

LEMMA AdminsFinite ==
  ASSUME TypeOK
  PROVE  IsFiniteSet(admins)
  <1>1. IsFiniteSet(Ids)
    BY FS_Interval, MaxIdAssumption DEF Ids
  <1>2. admins \in SUBSET Ids
    BY DEF TypeOK, admins
  <1> QED BY <1>1, <1>2, FS_Subset

LEMMA FewerAdmins ==
  ASSUME TypeOK, OneAdministrator, admins' \subseteq admins, granted => granted'
  PROVE  OneAdministrator'
  <1>1. IsFiniteSet(admins)
    BY AdminsFinite
  <1>2. Cardinality(admins') <= Cardinality(admins) /\ Cardinality(admins') \in Nat /\ Cardinality(admins) \in Nat
    BY <1>1, FS_Subset, FS_CardinalityType
  <1> QED BY <1>2 DEF OneAdministrator

(* A step of one request that makes nobody an administrator. *)
LEMMA FirstStep ==
  ASSUME FirstInv, IInv', NEW r \in Requests, NEW q, req' = [req EXCEPT ![r] = q],
         admins' \subseteq admins, granted => granted', FoundNone(q, granted', admins')
  PROVE  FirstInv'
  <1>1. OneAdministrator'
    BY FewerAdmins DEF FirstInv, IInv
  <1>2. \A s \in Requests : FoundNone(req'[s], granted', admins')
    BY DEF FirstInv, FoundNone, IInv, TypeOK
  <1> QED BY <1>1, <1>2 DEF FirstInv

LEMMA IdleFoundNone == \A given, adms : FoundNone(Idle, given, adms)
  BY DEF FoundNone, Idle

LEMMA FirstInsert ==
  ASSUME FirstInv, IInv', NEW r \in Requests, Insert(r), EmailFree(req[r].email, NULL)
  PROVE  FirstInv'
  <1> PICK q : q = req[r]
    OBVIOUS
  <1>1. /\ q.pc = "insert" /\ q.role \in UserRoles
        /\ lock # <<>> /\ Head(lock) = r
    BY ReqTyped DEF FirstInv, Insert, HandlerTyped, Queued
  <1>2. /\ users' = [i \in live \cup {nextId} |->
                IF i = nextId THEN [email |-> q.email, role |-> q.role, active |-> TRUE] ELSE users[i]]
        /\ req' = [req EXCEPT ![r] = Idle] /\ granted' = granted
    BY DEF Insert
  <1>3. CASE q.role # Admin
    <2>1. admins' \subseteq admins
      BY <1>2, <1>3 DEF admins, live
    <2> QED BY <1>2, <2>1, IdleFoundNone, FirstStep
  <1>4. CASE q.role = Admin
    <2>1. granted \/ admins = {}
      BY <1>1, <1>4 DEF FirstInv, FoundNone
    <2>2. admins' \subseteq admins \cup {nextId}
      BY <1>2 DEF admins, live
    <2>3. OneAdministrator'
      <3>1. CASE granted
        BY <1>2, <3>1 DEF OneAdministrator
      <3>2. CASE admins = {}
        <4>1. admins' \in SUBSET {nextId}
          BY <2>2, <3>2
        <4>2. IsFiniteSet({nextId}) /\ Cardinality({nextId}) = 1
          BY FS_Singleton
        <4>3. Cardinality(admins') <= 1
          BY <4>1, <4>2, FS_Subset
        <4> QED BY <4>3 DEF OneAdministrator
      <3> QED BY <2>1, <3>1, <3>2
    <2>4. ASSUME NEW s \in Requests, s # r PROVE req[s].pc # "insert"
      BY <1>1, <2>4, ReqTyped DEF FirstInv, Queued
    <2>5. \A s \in Requests : FoundNone(req'[s], granted', admins')
      BY <1>2, <2>4, IdleFoundNone DEF FoundNone, FirstInv, IInv, TypeOK
    <2> QED BY <2>3, <2>5 DEF FirstInv
  <1> QED BY <1>3, <1>4

LEMMA FirstWrite ==
  ASSUME FirstInv, IInv', NEW r \in Requests, Write(r)
  PROVE  FirstInv'
  <1> PICK q : q = req[r]
    OBVIOUS
  <1>1. /\ q.id \in live /\ live' = live
        /\ \A i \in live : users'[i] = IF i = q.id THEN Written(q) ELSE users[i]
        /\ q.op = "role" => Written(q).role = q.role
        /\ q.op # "role" => Written(q).role = users[q.id].role
    BY WriteTable DEF FirstInv
  <1>2. req' = [req EXCEPT ![r] = Idle] /\ granted' = (granted \/ (q.op = "role" /\ q.role = Admin))
    BY DEF Write
  <1>3. CASE q.op = "role" /\ q.role = Admin
    <2>1. granted'
      BY <1>2, <1>3
    <2> QED BY <2>1 DEF FirstInv, FoundNone, OneAdministrator
  <1>4. CASE ~(q.op = "role" /\ q.role = Admin)
    <2>1. admins' \subseteq admins
      BY <1>1, <1>4 DEF admins
    <2>2. granted => granted'
      BY <1>2
    <2> QED BY <1>2, <2>1, <2>2, IdleFoundNone, FirstStep
  <1> QED BY <1>3, <1>4

LEMMA FirstPickRole ==
  ASSUME FirstInv, IInv', NEW r \in Requests, PickRole(r)
  PROVE  FirstInv'
  <1> PICK q : q = [req[r] EXCEPT !.pc = "insert",
                                  !.role = IF \E i \in live : users[i].role = Admin THEN "TeamMember" ELSE Admin]
    OBVIOUS
  <1>1. req' = [req EXCEPT ![r] = q] /\ UNCHANGED <<users, granted>>
    BY DEF PickRole, Local
  <1>2. q.role = IF \E i \in live : users[i].role = Admin THEN "TeamMember" ELSE Admin
    BY ReqTyped DEF FirstInv, Request
  <1>3. q.role = Admin => admins = {}
    BY <1>2 DEF admins, Admin
  <1>4. admins' = admins
    BY <1>1 DEF admins, live
  <1>5. FoundNone(q, granted', admins')
    BY <1>3, <1>4 DEF FoundNone
  <1> QED BY <1>1, <1>4, <1>5, FirstStep

LEMMA NextFirst == FirstInv /\ [Next]_vars => FirstInv'
  <1> SUFFICES ASSUME FirstInv, [Next]_vars PROVE FirstInv'
    OBVIOUS
  <1>0. IInv'
    BY NextIInv DEF FirstInv
  <1>1. CASE UNCHANGED vars
    BY <1>0, <1>1 DEF vars, FirstInv, FoundNone, OneAdministrator, admins, live
  <1>2. ASSUME NEW r \in Requests, NEW q, req' = [req EXCEPT ![r] = q], q.pc # "insert", UNCHANGED <<users, granted>>
        PROVE  FirstInv'
    <2>1. admins' = admins /\ FoundNone(q, granted', admins')
      BY <1>2 DEF admins, live, FoundNone
    <2> QED BY <1>0, <1>2, <2>1, FirstStep
  <1>3. ASSUME NEW r \in Requests, Arrive(r) PROVE FirstInv'
    <2>1. PICK q : Arrives(r, q) /\ q.pc # "insert"
      <3>1. ASSUME NEW op, NEW e, StartRegister(r, op, e) PROVE \E q : Arrives(r, q) /\ q.pc # "insert"
        <4> PICK q : q = [Idle EXCEPT !.pc = "email", !.op = op, !.email = e]
          OBVIOUS
        <4>1. q.pc # "insert"
          BY DEF Idle
        <4> QED BY <3>1, <4>1 DEF StartRegister
      <3>2. ASSUME NEW op, NEW c, NEW i, NEW role, NEW active, StartAdminChange(r, op, c, i, role, active) PROVE \E q : Arrives(r, q) /\ q.pc # "insert"
        <4> PICK q : q = [Idle EXCEPT !.pc = "target", !.op = op, !.id = i, !.role = role,
                                  !.active = active]
          OBVIOUS
        <4>1. q.pc # "insert"
          BY DEF Idle
        <4> QED BY <3>2, <4>1 DEF StartAdminChange
      <3>3. ASSUME NEW c, StartDelete(r, c) PROVE \E q : Arrives(r, q) /\ q.pc # "insert"
        <4> PICK q : q = [Idle EXCEPT !.pc = "delete", !.op = "delete", !.id = c]
          OBVIOUS
        <4>1. q.pc # "insert"
          BY DEF Idle
        <4> QED BY <3>3, <4>1 DEF StartDelete
      <3>4. ASSUME NEW c, NEW e, StartChangeEmail(r, c, e) PROVE \E q : Arrives(r, q) /\ q.pc # "insert"
        <4> PICK q : q = [Idle EXCEPT !.pc = "email", !.op = "email", !.id = c, !.email = e,
                                  !.row = users[c]]
          OBVIOUS
        <4>1. q.pc # "insert"
          BY DEF Idle
        <4> QED BY <3>4, <4>1 DEF StartChangeEmail
      <3> QED BY <1>3, <3>1, <3>2, <3>3, <3>4 DEF Arrive
    <2>2. req' = [req EXCEPT ![r] = q] /\ UNCHANGED <<users, granted>>
      BY <2>1 DEF Arrives
    <2> QED BY <1>2, <2>1, <2>2
  <1>4. ASSUME NEW r \in Requests, Proceed(r) PROVE FirstInv'
    <2> PICK q : q = req[r]
      OBVIOUS
    <2>0. q \in Request /\ Idle.pc # "insert"
      BY ReqTyped DEF FirstInv, Idle
    <2>1. CASE CheckEmail(r)
      <3>1. [q EXCEPT !.pc = IF q.op = "email" THEN "write" ELSE "lock"].pc # "insert"
        BY <2>0 DEF Request
      <3> QED BY <1>2, <2>0, <2>1, <3>1 DEF CheckEmail, Local
    <2>2. CASE AskLock(r)
      <3>1. [q EXCEPT !.pc = "admins"].pc # "insert"
        BY <2>0 DEF Request
      <3>2. req' = [req EXCEPT ![r] = [q EXCEPT !.pc = "admins"]]
        BY <2>2 DEF AskLock
      <3> QED BY <1>2, <2>2, <3>1, <3>2 DEF AskLock
    <2>3. CASE PickRole(r)
      BY <1>0, <2>3, FirstPickRole
    <2>4. CASE Insert(r)
      <3>1. CASE EmailFree(q.email, NULL)
        BY <1>0, <2>4, <3>1, FirstInsert
      <3>2. CASE ~EmailFree(q.email, NULL)
        BY <1>2, <2>0, <2>4, <3>2 DEF Insert
      <3> QED BY <3>1, <3>2
    <2>5. CASE NoMoreIds(r)
      BY <1>2, <2>0, <2>5 DEF NoMoreIds
    <2>6. CASE ReadTarget(r)
      <3>1. [q EXCEPT !.pc = "write", !.row = users[q.id]].pc # "insert"
        BY <2>0 DEF Request
      <3> QED BY <1>2, <2>6, <3>1 DEF ReadTarget, Local
    <2>7. CASE NoTarget(r) \/ NoWrite(r)
      BY <1>2, <2>0, <2>7 DEF NoTarget, NoWrite, Finish, Local
    <2>8. CASE Write(r)
      BY <1>0, <2>8, FirstWrite
    <2>9. CASE Delete(r)
      <3>1. admins' \subseteq admins
        BY <2>9 DEF Delete, admins, live
      <3> QED BY <1>0, <2>9, <3>1, IdleFoundNone, FirstStep DEF Delete
    <2> QED BY <1>4, <2>1, <2>2, <2>3, <2>4, <2>5, <2>6, <2>7, <2>8, <2>9 DEF Proceed
  <1> QED BY <1>1, <1>3, <1>4 DEF Next

LEMMA InitFirst == Init => FirstInv
  <1> SUFFICES ASSUME Init PROVE FirstInv
    OBVIOUS
  <1>1. admins = {} /\ Cardinality({}) = 0
    BY FS_EmptySet DEF Init, admins, live
  <1>2. OneAdministrator
    BY <1>1 DEF OneAdministrator
  <1> QED BY <1>1, <1>2, InitIInv DEF Init, FirstInv, FoundNone, Idle

(* However registrations, logins through OAuth and all other requests      *)
(* overlap, the advisory lock lets at most one newcomer become             *)
(* administrator (service.py:83-98).                                       *)
THEOREM OneFirstAdministrator == Spec => []OneAdministrator
  <1>1. FirstInv => OneAdministrator
    BY DEF FirstInv
  <1> QED BY <1>1, InitFirst, NextFirst, PTL DEF Spec

-----------------------------------------------------------------------------
(* As long as requests have not overlapped, the administrator who asks for *)
(* a change is there until it is made, and is not the one changed.         *)
Backed(q, acting) ==
    q.pc \in {"target", "write"} /\ q.op \in {"role", "status"} => \E c \in acting : c # q.id

AtMostOneBusy == \A r, s \in Requests : req[r].pc # "idle" /\ req[s].pc # "idle" => r = s

Solo == AtMostOneBusy /\ \A r \in Requests : Backed(req[r], Acting)

SoloInv == IInv /\ (~overlapped => Solo)

LEMMA ActingIs == Acting = {i \in live : users[i].role = Admin /\ users[i].active}
  BY DEF Acting, admins

(* A step of the one request that is under way. *)
LEMMA SoloStep ==
  ASSUME IInv, Solo, NEW r \in Requests, NEW q, req[r].pc # "idle",
         req' = [req EXCEPT ![r] = q], Backed(q, Acting')
  PROVE  Solo'
  <1>1. \A s \in Requests : req'[s] = IF s = r THEN q ELSE req[s]
    BY DEF IInv, TypeOK
  <1>2. \A s \in Requests : s # r => req[s].pc = "idle"
    BY DEF Solo, AtMostOneBusy
  <1>3. AtMostOneBusy'
    BY <1>1, <1>2 DEF AtMostOneBusy
  <1>4. \A s \in Requests : Backed(req'[s], Acting')
    BY <1>1, <1>2 DEF Backed
  <1> QED BY <1>3, <1>4 DEF Solo

LEMMA SoloArrives ==
  ASSUME IInv, Solo, NEW r \in Requests, NEW q, Arrives(r, q), ~overlapped', Backed(q, Acting)
  PROVE  Solo'
  <1>1. /\ req' = [req EXCEPT ![r] = q] /\ users' = users
        /\ \A s \in Requests : req[s].pc = "idle"
    BY DEF Arrives
  <1>2. \A s \in Requests : req'[s] = IF s = r THEN q ELSE req[s]
    BY <1>1 DEF IInv, TypeOK
  <1>3. Acting' = Acting
    BY <1>1 DEF Acting, admins, live
  <1>4. AtMostOneBusy' /\ \A s \in Requests : Backed(req'[s], Acting')
    BY <1>1, <1>2, <1>3 DEF AtMostOneBusy, Backed
  <1> QED BY <1>4 DEF Solo

LEMMA SoloArrive ==
  ASSUME IInv, Solo, NEW r \in Requests, Arrive(r), ~overlapped'
  PROVE  Solo'
  <1>1. ASSUME NEW op \in {"register", "oauth"}, NEW e \in Emails, StartRegister(r, op, e)
        PROVE  Solo'
    <2> PICK q : q = [Idle EXCEPT !.pc = "email", !.op = op, !.email = e]
      OBVIOUS
    <2>1. q.pc = "email"
      BY DEF Idle
    <2> QED BY <1>1, <2>1, SoloArrives DEF StartRegister, Backed
  <1>2. ASSUME NEW op, NEW caller \in Ids, NEW i \in Ids, NEW role, NEW active,
               StartAdminChange(r, op, caller, i, role, active)
        PROVE  Solo'
    <2> PICK q : q = [Idle EXCEPT !.pc = "target", !.op = op, !.id = i, !.role = role, !.active = active]
      OBVIOUS
    <2>1. q.id = i
      BY DEF Idle
    <2>2. caller \in Acting /\ caller # i
      BY <1>2, ActingIs DEF StartAdminChange, NotSelf
    <2> QED BY <1>2, <2>1, <2>2, SoloArrives DEF StartAdminChange, Backed
  <1>3. ASSUME NEW caller \in Ids, StartDelete(r, caller) PROVE Solo'
    <2> PICK q : q = [Idle EXCEPT !.pc = "delete", !.op = "delete", !.id = caller]
      OBVIOUS
    <2>1. q.pc = "delete"
      BY DEF Idle
    <2> QED BY <1>3, <2>1, SoloArrives DEF StartDelete, Backed
  <1>4. ASSUME NEW caller \in Ids, NEW e \in Emails, StartChangeEmail(r, caller, e) PROVE Solo'
    <2> PICK q : q = [Idle EXCEPT !.pc = "email", !.op = "email", !.id = caller, !.email = e,
                                  !.row = users[caller]]
      OBVIOUS
    <2>1. q.pc = "email"
      BY DEF Idle
    <2> QED BY <1>4, <2>1, SoloArrives DEF StartChangeEmail, Backed
  <1> QED BY <1>1, <1>2, <1>3, <1>4 DEF Arrive

LEMMA SoloProceed ==
  ASSUME IInv, Solo, NEW r \in Requests, Proceed(r)
  PROVE  Solo'
  <1> PICK q : q = req[r]
    OBVIOUS
  <1>0. q \in Request /\ HandlerTyped(q) /\ Backed(q, Acting)
    BY ReqTyped DEF Solo
  <1>1. \A acting : Backed(Idle, acting)
    BY DEF Backed, Idle
  <1>2. ASSUME NEW n, q.pc # "idle", Local(r, n), Backed(n, Acting) PROVE Solo'
    <2>1. Acting' = Acting
      BY <1>2 DEF Local, Acting, admins, live
    <2> QED BY <1>2, <2>1, SoloStep DEF Local
  <1>3. CASE CheckEmail(r)
    <2> PICK n : n = [q EXCEPT !.pc = IF q.op = "email" THEN "write" ELSE "lock"]
      OBVIOUS
    <2>1. Backed(n, Acting)
      BY <1>0 DEF Backed, Request
    <2> QED BY <1>1, <1>2, <1>3, <2>1 DEF CheckEmail
  <1>4. CASE AskLock(r)
    <2> PICK n : n = [q EXCEPT !.pc = "admins"]
      OBVIOUS
    <2>1. Backed(n, Acting')
      BY <1>0 DEF Backed, Request
    <2> QED BY <1>4, <2>1, SoloStep DEF AskLock
  <1>5. CASE PickRole(r)
    <2> PICK n : n = [q EXCEPT !.pc = "insert", !.role = IF \E i \in live : users[i].role = Admin
                                                         THEN "TeamMember" ELSE Admin]
      OBVIOUS
    <2>1. Backed(n, Acting)
      BY <1>0 DEF Backed, Request
    <2> QED BY <1>2, <1>5, <2>1 DEF PickRole
  <1>6. CASE ReadTarget(r)
    <2> PICK n : n = [q EXCEPT !.pc = "write", !.row = users[q.id]]
      OBVIOUS
    <2>1. Backed(n, Acting)
      BY <1>0, <1>6 DEF Backed, Request, ReadTarget
    <2> QED BY <1>2, <1>6, <2>1 DEF ReadTarget
  <1>7. CASE NoTarget(r) \/ NoWrite(r)
    BY <1>1, <1>2, <1>7 DEF NoTarget, NoWrite, Finish
  <1>8. CASE Insert(r) \/ NoMoreIds(r) \/ Write(r) \/ Delete(r)
    <2>1. req' = [req EXCEPT ![r] = Idle] /\ req[r].pc # "idle"
      BY <1>8 DEF Insert, NoMoreIds, Write, Delete
    <2> QED BY <1>1, <2>1, SoloStep
  <1> QED BY <1>3, <1>4, <1>5, <1>6, <1>7, <1>8 DEF Proceed

LEMMA OverlapStays == TypeOK /\ [Next]_vars /\ ~overlapped' => ~overlapped
  BY DEF TypeOK, Next, vars, Arrive, StartRegister, StartAdminChange, StartChangeEmail, StartDelete, Arrives,
         Proceed, CheckEmail, AskLock, PickRole, Insert, NoMoreIds, ReadTarget, NoTarget, Write, NoWrite,
         Delete, Finish, Local

LEMMA NextSolo == SoloInv /\ [Next]_vars => SoloInv'
  <1> SUFFICES ASSUME SoloInv, [Next]_vars, ~overlapped' PROVE Solo'
    BY NextIInv DEF SoloInv
  <1>1. IInv /\ Solo
    BY OverlapStays DEF SoloInv, IInv
  <1>2. CASE UNCHANGED vars
    <2>1. Acting' = Acting /\ req' = req
      BY <1>2 DEF vars, Acting, admins, live
    <2> QED BY <1>1, <2>1 DEF Solo, AtMostOneBusy
  <1> QED BY <1>1, <1>2, SoloArrive, SoloProceed DEF Next

(* The sequence is ahead of the table. *)
Fresh == \A i \in live : i < nextId

LEMMA IdsTyped ==
  ASSUME IInv
  PROVE  nextId \in Int /\ live \subseteq Int
  BY MaxIdAssumption DEF IInv, TypeOK, Ids

LEMMA NextFresh == IInv /\ Fresh /\ [Next]_vars => Fresh'
  <1> SUFFICES ASSUME IInv, Fresh, [Next]_vars PROVE Fresh'
    OBVIOUS
  <1>1. CASE UNCHANGED <<users, nextId>>
    BY <1>1 DEF Fresh, live
  <1>2. ASSUME NEW r \in Requests, Insert(r) PROVE Fresh'
    <2>1. live' \subseteq live \cup {nextId} /\ nextId' = nextId + 1
      BY <1>2 DEF Insert, live
    <2> QED BY <2>1, IdsTyped DEF Fresh
  <1>3. ASSUME NEW r \in Requests, Write(r) \/ Delete(r) PROVE Fresh'
    <2>1. live' \subseteq live /\ nextId' = nextId
      BY <1>3 DEF Write, Delete, live, IInv, TypeOK
    <2> QED BY <2>1 DEF Fresh
  <1>4. ASSUME NEW r \in Requests, Arrive(r) PROVE UNCHANGED <<users, nextId>>
    BY <1>4 DEF Arrive, StartRegister, StartAdminChange, StartChangeEmail, StartDelete, Arrives
  <1>5. ASSUME NEW r \in Requests, Proceed(r), ~Insert(r), ~Write(r), ~Delete(r)
        PROVE  UNCHANGED <<users, nextId>>
    BY <1>5 DEF Proceed, CheckEmail, AskLock, PickRole, NoMoreIds, ReadTarget, NoTarget, NoWrite, Finish, Local
  <1> QED BY <1>1, <1>2, <1>3, <1>4, <1>5 DEF Next, vars

LEMMA InitFresh == Init => Fresh
  BY DEF Init, Fresh, live

(* No step but a deletion leaves nobody. *)
LEMMA StepLeavesOne ==
  ASSUME SoloInv, Fresh, [Next]_vars
  PROVE  [~overlapped /\ live \subseteq live' /\ Acting # {} => Acting' # {}]_vars
  <1> SUFFICES ASSUME Next, ~overlapped, live \subseteq live', NEW c \in Acting PROVE Acting' # {}
    BY DEF vars
  <1>0. IInv /\ Solo /\ c \in live /\ users[c].role = Admin /\ users[c].active
    BY ActingIs DEF SoloInv
  <1>1. ASSUME NEW d \in live, d \in live', users[d].role = Admin, users[d].active, users'[d] = users[d]
        PROVE  Acting' # {}
    <2>1. d \in Acting'
      BY <1>1 DEF Acting, admins
    <2> QED BY <2>1
  <1>2. CASE UNCHANGED users
    BY <1>0, <1>1, <1>2 DEF live
  <1>3. ASSUME NEW r \in Requests, Insert(r) PROVE Acting' # {}
    <2>1. CASE UNCHANGED users
      BY <1>2, <2>1
    <2>2. CASE ~UNCHANGED users
      <3>1. c # nextId
        BY <1>0, IdsTyped DEF Fresh
      <3>2. /\ users' = [i \in live \cup {nextId} |-> IF i = nextId
                           THEN [email |-> req[r].email, role |-> req[r].role, active |-> TRUE] ELSE users[i]]
        BY <1>3, <2>2 DEF Insert
      <3> QED BY <1>0, <1>1, <3>1, <3>2
    <2> QED BY <2>1, <2>2
  <1>4. ASSUME NEW r \in Requests, Write(r) PROVE Acting' # {}
    <2> PICK q : q = req[r]
      OBVIOUS
    <2>1. /\ q.id \in live /\ live' = live
          /\ \A i \in live : users'[i] = IF i = q.id THEN Written(q) ELSE users[i]
          /\ q.op # "role" => Written(q).role = users[q.id].role
          /\ q.op # "status" => Written(q).active = users[q.id].active
      BY <1>0, <1>4, WriteTable
    <2>2. q.pc = "write" /\ q.op \in {"role", "status", "email"} /\ Backed(q, Acting)
      BY <1>0, <1>4, ReqTyped DEF Write, HandlerTyped, Solo
    <2>3. CASE q.op = "email"
      <3>1. users'[c].role = Admin /\ users'[c].active /\ c \in live'
        BY <1>0, <2>1, <2>3
      <3>2. c \in Acting'
        BY <3>1 DEF Acting, admins
      <3> QED BY <3>2
    <2>4. CASE q.op \in {"role", "status"}
      <3>1. PICK d \in Acting : d # q.id
        BY <2>2, <2>4 DEF Backed
      <3>2. d \in live /\ users[d].role = Admin /\ users[d].active
        BY ActingIs
      <3> QED BY <1>1, <2>1, <3>1, <3>2
    <2> QED BY <2>2, <2>3, <2>4
  <1>5. ASSUME NEW r \in Requests, Delete(r) PROVE Acting' # {}
    BY <1>0, <1>1, <1>5 DEF Delete, live
  <1>6. ASSUME NEW r \in Requests, Arrive(r) PROVE UNCHANGED users
    BY <1>6 DEF Arrive, StartRegister, StartAdminChange, StartChangeEmail, StartDelete, Arrives
  <1>7. ASSUME NEW r \in Requests, Proceed(r), ~Insert(r), ~Write(r), ~Delete(r) PROVE UNCHANGED users
    BY <1>7 DEF Proceed, CheckEmail, AskLock, PickRole, NoMoreIds, ReadTarget, NoTarget, NoWrite, Finish, Local
  <1> QED BY <1>2, <1>3, <1>4, <1>5, <1>6, <1>7 DEF Next

LEMMA InitSolo == Init => SoloInv
  <1> SUFFICES ASSUME Init PROVE Solo
    BY InitIInv DEF SoloInv
  <1> QED BY DEF Init, Solo, AtMostOneBusy, Backed, Idle

(* Served one by one, no request but a deletion takes away the last        *)
(* administrator who can act (service.py:172, 196).                        *)
THEOREM ActingAdminStays == Spec => AdminStays
  <1>1. SoloInv => IInv
    BY DEF SoloInv
  <1> QED BY <1>1, InitSolo, NextSolo, InitFresh, NextFresh, StepLeavesOne, PTL DEF Spec, AdminStays

-----------------------------------------------------------------------------
(* The lock does not jam.  Whoever is in its queue is there once, waits or *)
(* has been served, and has not ended.                                     *)
InLine(q, l) ==
    \A k \in 1 .. Len(l) :
       /\ q[l[k]].pc \in {"admins", "insert"}
       /\ \A j \in 1 .. Len(l) : l[j] = l[k] => j = k

(* Nothing keeps r from its next statement. *)
GoesOn(r) == req[r].pc \notin {"idle", "admins"} \/ (req[r].pc = "admins" /\ HoldsLock(r))

NobodyStuck ==
    \A r \in Requests : req[r].pc = "admins" =>
       lock # <<>> /\ Head(lock) \in Requests /\ GoesOn(Head(lock))

LEMMA LineKept ==
  ASSUME IInv, InLine(req, lock), NEW r \in Requests, NEW q, req' = [req EXCEPT ![r] = q],
         lock' = lock, req[r].pc \in {"admins", "insert"} => q.pc \in {"admins", "insert"}
  PROVE  InLine(req', lock')
  <1>1. \A k \in 1 .. Len(lock) : lock[k] \in Requests
    BY DEF IInv, TypeOK
  <1>2. \A s \in Requests : req'[s] = IF s = r THEN q ELSE req[s]
    BY DEF IInv, TypeOK
  <1> QED BY <1>1, <1>2 DEF InLine

LEMMA LineGrows ==
  ASSUME IInv, InLine(req, lock), NEW r \in Requests, AskLock(r)
  PROVE  InLine(req', lock')
  <1>1. lock \in Seq(Requests) /\ lock' = Append(lock, r) /\ req[r].pc = "lock"
    BY DEF AskLock, IInv, TypeOK
  <1>2. /\ Len(lock') = Len(lock) + 1 /\ lock'[Len(lock')] = r /\ Len(lock) \in Nat
        /\ \A k \in 1 .. Len(lock) : lock'[k] = lock[k] /\ lock[k] \in Requests /\ lock[k] # r
    BY <1>1 DEF InLine
  <1>3. req'[r].pc = "admins" /\ \A s \in Requests : s # r => req'[s] = req[s]
    BY DEF AskLock, IInv, TypeOK, Request
  <1>4. \A k \in 1 .. Len(lock') : k \in 1 .. Len(lock) \/ k = Len(lock')
    BY <1>2
  <1> QED BY <1>2, <1>3, <1>4 DEF InLine

LEMMA LineShrinks ==
  ASSUME IInv, InLine(req, lock), NEW r \in Requests, Insert(r) \/ NoMoreIds(r)
  PROVE  InLine(req', lock')
  <1>1. req[r].pc = "insert" /\ lock' = Tail(lock) /\ req' = [req EXCEPT ![r] = Idle]
    BY DEF Insert, NoMoreIds, Unlocked
  <1>2. lock \in Seq(Requests) /\ lock # <<>> /\ Head(lock) = r
    BY <1>1, ReqTyped DEF Queued, IInv, TypeOK
  <1>3. /\ Len(lock') = Len(lock) - 1 /\ lock[1] = r /\ Len(lock) \in Nat \ {0}
        /\ \A k \in 1 .. Len(lock') : lock'[k] = lock[k + 1] /\ k + 1 \in 2 .. Len(lock)
    BY <1>1, <1>2
  <1>4. \A k \in 2 .. Len(lock) : lock[k] \in Requests \ {r}
    BY <1>2, <1>3 DEF InLine
  <1>5. \A s \in Requests : s # r => req'[s] = req[s]
    BY <1>1 DEF IInv, TypeOK
  <1>6. ASSUME NEW k \in 1 .. Len(lock')
        PROVE  /\ req'[lock'[k]].pc \in {"admins", "insert"}
               /\ \A j \in 1 .. Len(lock') : lock'[j] = lock'[k] => j = k
    <2>1. k + 1 \in 1 .. Len(lock) /\ lock'[k] = lock[k + 1] /\ lock'[k] # r /\ lock'[k] \in Requests
      BY <1>3, <1>4
    <2>2. req'[lock'[k]].pc \in {"admins", "insert"}
      BY <1>5, <2>1 DEF InLine
    <2>3. ASSUME NEW j \in 1 .. Len(lock'), lock'[j] = lock'[k]
          PROVE  j = k
      <3>1. j + 1 \in 1 .. Len(lock) /\ lock[j + 1] = lock[k + 1]
        BY <1>3, <2>1, <2>3
      <3>2. j + 1 = k + 1
        BY <2>1, <3>1 DEF InLine
      <3> QED BY <3>2
    <2> QED BY <2>2, <2>3
  <1> QED BY <1>6 DEF InLine

LEMMA NextInLine == IInv /\ InLine(req, lock) /\ [Next]_vars => InLine(req, lock)'
  <1> SUFFICES ASSUME IInv, InLine(req, lock), [Next]_vars
               PROVE  InLine(req', lock')
    BY DEF InLine
  <1>1. CASE UNCHANGED vars
    BY <1>1 DEF vars
  <1>2. ASSUME NEW r \in Requests, Arrive(r) PROVE InLine(req', lock')
    <2>1. ASSUME NEW q, Arrives(r, q) PROVE InLine(req', lock')
      BY <2>1, LineKept DEF Arrives
    <2> QED
      BY <1>2, <2>1 DEF Arrive, StartRegister, StartAdminChange, StartChangeEmail, StartDelete
  <1>3. ASSUME NEW r \in Requests, Proceed(r) PROVE InLine(req', lock')
    <2>1. ASSUME NEW q, Local(r, q), req[r].pc = "admins" => q.pc = "insert", req[r].pc # "insert"
          PROVE  InLine(req', lock')
      BY <2>1, LineKept DEF Local
    <2>2. CASE CheckEmail(r) \/ ReadTarget(r) \/ NoTarget(r) \/ NoWrite(r)
      BY <2>1, <2>2 DEF CheckEmail, ReadTarget, NoTarget, NoWrite, Finish
    <2>3. CASE PickRole(r)
      <3>1. req[r] \in Request
        BY ReqTyped
      <3>2. PICK role : Local(r, [req[r] EXCEPT !.pc = "insert", !.role = role])
        BY <2>3 DEF PickRole
      <3> QED BY <2>1, <2>3, <3>1, <3>2 DEF PickRole, Request
    <2>4. CASE AskLock(r)
      BY <2>4, LineGrows
    <2>5. CASE Insert(r) \/ NoMoreIds(r)
      BY <2>5, LineShrinks
    <2>6. CASE Write(r) \/ Delete(r)
      <3>1. req' = [req EXCEPT ![r] = Idle] /\ lock' = lock /\ req[r].pc \in {"write", "delete"}
        BY <2>6 DEF Write, Delete
      <3> QED BY <3>1, LineKept
    <2> QED BY <1>3, <2>2, <2>3, <2>4, <2>5, <2>6 DEF Proceed
  <1> QED BY <1>1, <1>2, <1>3 DEF Next

(* Whoever waits for the advisory lock of a registration, in a thread or,  *)
(* through OAuth, on the event loop, waits for one that is first in its    *)
(* queue and that nothing keeps from ending: however many register.        *)
THEOREM LockNeverJams == Spec => []NobodyStuck
  <1>1. Init => InLine(req, lock)
    BY DEF Init, InLine
  <1>2. IInv /\ InLine(req, lock) => NobodyStuck
    <2> SUFFICES ASSUME IInv, InLine(req, lock), NEW r \in Requests, req[r].pc = "admins"
                 PROVE  lock # <<>> /\ Head(lock) \in Requests /\ GoesOn(Head(lock))
      BY DEF NobodyStuck
    <2>1. lock \in Seq(Requests) /\ \E k \in 1 .. Len(lock) : lock[k] = r
      BY ReqTyped DEF Queued, IInv, TypeOK
    <2>2. lock # <<>> /\ Head(lock) = lock[1] /\ 1 \in 1 .. Len(lock) /\ lock[1] \in Requests
      BY <2>1
    <2>3. req[Head(lock)].pc \in {"admins", "insert"}
      BY <2>2 DEF InLine
    <2> QED BY <2>2, <2>3 DEF GoesOn, HoldsLock
  <1> QED BY <1>1, <1>2, NextInLine, IInvHolds, PTL DEF Spec
=============================================================================
