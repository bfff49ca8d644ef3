------------------------- MODULE RequestPoolsProofs -------------------------
(* Theorems about RequestPools: what a session holds at which point, and   *)
(* with it that waiting requests wait for one that goes on, whatever the   *)
(* numbers of requests, threads and connections.                           *)
EXTENDS RequestPools, FiniteSetTheorems, TLAPS

(* What TypeOK says of a request. *)
RequestOK(q) ==
    /\ q \in Request
    /\ q.holds => q.pc \notin {"idle", "waits", "awaits"} /\ q.job # "open"
    /\ q.pc = "waits" => q.job # "open"

LEMMA RequestsOK == TypeOK <=> req \in [Requests -> Request] /\ \A r \in Requests : RequestOK(req[r])
  BY DEF TypeOK, RequestOK

(* A step that leaves one request in order keeps the type invariant. *)
LEMMA StepKeepsType ==
    ASSUME TypeOK, NEW r \in Requests, NEW q, RequestOK(q), Goes(r, q)
    PROVE  TypeOK'
<1>1. req \in [Requests -> Request] /\ \A s \in Requests : RequestOK(req[s])
  BY RequestsOK
<1>2. q \in Request
  BY DEF RequestOK
<1>3. req' \in [Requests -> Request] /\ \A s \in Requests : req'[s] = IF s = r THEN q ELSE req[s]
  BY <1>1, <1>2 DEF Goes
<1>4. \A s \in Requests : RequestOK(req'[s])
  BY <1>1, <1>3
<1> QED
  BY <1>3, <1>4 DEF TypeOK, RequestOK

LEMMA NextKeepsType == TypeOK /\ [Next]_req => TypeOK'
<1> SUFFICES ASSUME TypeOK, [Next]_req PROVE TypeOK'
  OBVIOUS
<1>1. CASE UNCHANGED req
  BY <1>1 DEF TypeOK
<1>2. ASSUME NEW r \in Requests, Serve(r) \/ Query(r) \/ Grant(r) \/ TimedOut(r) \/ Commit(r) \/ \E k \in Kinds : Arrive(r, k)
      PROVE  TypeOK'
  <2> PICK p : p = req[r]
    OBVIOUS
  <2>0. p \in Request /\ RequestOK(p)
    BY RequestsOK
  <2> USE <2>0 DEF RequestOK, Request
  <2>1. CASE Start(r)
    BY <2>1, StepKeepsType DEF Start
  <2>2. CASE Finish(r)
    BY <2>2, StepKeepsType DEF Finish, Ended, OnLoop, Jobs
  <2>3. CASE Continue(r)
    <3>1. RequestOK(After(p))
      BY <2>3 DEF Continue, After, Jobs, Kinds
    <3> QED
      BY <2>3, <3>1, StepKeepsType DEF Continue
  <2>4. CASE Provided(r)
    BY <2>4, StepKeepsType DEF Provided
  <2>5. CASE Close(r)
    BY <2>5, StepKeepsType DEF Close, Closed, Idle, Jobs, Kinds
  <2>6. CASE Query(r)
    BY <2>6, StepKeepsType DEF Query
  <2>7. CASE Grant(r)
    BY <2>7, StepKeepsType DEF Grant
  <2>8. CASE TimedOut(r)
    BY <2>8, StepKeepsType DEF TimedOut, Ended, OnLoop, Jobs
  <2>9. CASE Commit(r)
    BY <2>9, StepKeepsType DEF Commit
  <2>10. CASE \E k \in Kinds : Arrive(r, k)
    BY <2>10, StepKeepsType DEF Arrive, Idle, Jobs
  <2> QED
    BY <1>2, <2>1, <2>2, <2>3, <2>4, <2>5, <2>6, <2>7, <2>8, <2>9, <2>10 DEF Serve
<1> QED
  BY <1>1, <1>2 DEF Next

(* A session that is not open yet, or closed, or that waits, has no        *)
(* connection; for any numbers of requests, threads and connections.       *)
THEOREM TypeCorrect == Spec => []TypeOK
<1>1. Init => TypeOK
  BY DEF Init, Idle, TypeOK, Request, Kinds, Jobs
<1> QED
  BY <1>1, NextKeepsType, PTL DEF Spec

(* A pool without a free connection has a holder, and a holder is busy,    *)
(* or waits for a thread or the event loop.                                *)
LEMMA SomebodyGoesOn == TypeOK => WaitsForSomebody
<1> SUFFICES ASSUME TypeOK, ThreadFree, LoopFree, NEW r \in Requests, req[r].pc = "waits"
             PROVE  \E s \in Requests : GoesOn(s)
  BY DEF WaitsForSomebody
<1>1. CASE ConnectionFree
  BY <1>1 DEF GoesOn
<1>2. CASE ~ConnectionFree
  <2>1. Holders # {}
    <3> SUFFICES ASSUME Holders = {} PROVE FALSE
      OBVIOUS
    <3>1. Cardinality({}) = 0
      BY FS_EmptySet
    <3> QED
      BY <1>2, <3>1, PoolsAssumption DEF ConnectionFree
  <2>2. PICK s \in Requests : req[s].holds
    BY <2>1 DEF Holders
  <2>3. req[s].pc \in {"queued", "runs", "done", "closing"}
    BY <2>2 DEF TypeOK, Request
  <2> QED
    BY <2>3 DEF GoesOn
<1> QED
  BY <1>1, <1>2

(* While a thread is free and no coroutine waits on the event loop, a      *)
(* request that waits for a connection waits for one that goes on.         *)
THEOREM NobodyWaitsInVain == Spec => []WaitsForSomebody
  BY TypeCorrect, SomebodyGoesOn, PTL
=============================================================================
