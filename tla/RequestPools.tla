---------------------------- MODULE RequestPools ----------------------------
(***************************************************************************)
(* What the requests of the backend share, whatever they do: the threads   *)
(* of the pool in which FastAPI runs synchronous code, the connections of  *)
(* the engine of db.py, and the event loop.                                *)
(*                                                                         *)
(* A request is a sequence of jobs: to open its session, to look its user  *)
(* up, and to run its handler.  Each waits for a thread of its own, but    *)
(* the session keeps its connection from one job to the next, until a      *)
(* commit or the end of the request.  The handler of a login through OAuth *)
(* is a coroutine and runs on the event loop.                              *)
(***************************************************************************)
EXTENDS Naturals, FiniteSets

CONSTANTS
    Requests,       \* slots for requests under way
    Threads,        \* how many threads the pool has
    Connections     \* how many connections the engine opens

ASSUME RequestsAssumption == IsFiniteSet(Requests)
ASSUME PoolsAssumption == {Threads, Connections} \subseteq Nat \ {0}

VARIABLE req    \* per slot, the request

Kinds == {"user", "public", "oauth"}

Jobs == {"open", "user", "handler"}

(*   queued   its next job waits for a thread                              *)
(*   runs     the job runs                                                 *)
(*   waits    the job waits for a connection                               *)
(*   done     the job has ended; the event loop has not noticed yet        *)
(*   awaits   the coroutine awaits the answer of the OAuth provider        *)
(*   closing  the session is still open                                    *)
Request ==
    [kind  : Kinds,
     job   : Jobs,
     pc    : {"idle", "queued", "runs", "waits", "done", "awaits", "closing"},
     holds : BOOLEAN]       \* its session has a connection

Idle == [kind |-> "user", job |-> "open", pc |-> "idle", holds |-> FALSE]

Init == req = [r \in Requests |-> Idle]

-----------------------------------------------------------------------------
(* A coroutine that runs, or waits for a connection, keeps the event loop  *)
(* from everything else.                                                   *)
OnLoop(q) == q.kind = "oauth" /\ q.job = "handler" /\ q.pc \in {"runs", "waits"}

LoopFree == \A r \in Requests : ~OnLoop(req[r])

(* A thread is given back by the event loop, once it notices. *)
HasThread(q) == q.pc \in {"runs", "waits", "done"} /\ ~OnLoop(q)

Busy == {r \in Requests : HasThread(req[r])}

ThreadFree == Cardinality(Busy) < Threads

Holders == {r \in Requests : req[r].holds}

ConnectionFree == Cardinality(Holders) < Connections

Goes(r, q) == req' = [req EXCEPT ![r] = q]

-----------------------------------------------------------------------------
Arrive(r, k) ==
    /\ req[r].pc = "idle" /\ LoopFree
    /\ Goes(r, [Idle EXCEPT !.kind = k, !.pc = "queued"])

Start(r) ==
    /\ req[r].pc = "queued" /\ LoopFree /\ ThreadFree
    /\ Goes(r, [req[r] EXCEPT !.pc = "runs"])

(* The first statement of a transaction takes a connection from the pool.  *)
Query(r) ==
    /\ req[r].pc = "runs" /\ req[r].job # "open" /\ ~req[r].holds
    /\ Goes(r, IF ConnectionFree THEN [req[r] EXCEPT !.holds = TRUE]
                                 ELSE [req[r] EXCEPT !.pc = "waits"])

Grant(r) ==
    /\ req[r].pc = "waits" /\ ConnectionFree
    /\ Goes(r, [req[r] EXCEPT !.pc = "runs", !.holds = TRUE])

(* The coroutine is on the event loop when it ends. *)
Ended(q) == [q EXCEPT !.pc = IF OnLoop(q) THEN "closing" ELSE "done"]

(* The pool gives up after 30 seconds, the default of create_engine; the   *)
(* request fails.                                                          *)
TimedOut(r) ==
    /\ req[r].pc = "waits"
    /\ Goes(r, Ended([req[r] EXCEPT !.job = "handler"]))

Commit(r) ==
    /\ req[r].pc = "runs" /\ req[r].job = "handler" /\ req[r].holds
    /\ Goes(r, [req[r] EXCEPT !.holds = FALSE])

(* A job that raises, as get_current_user does for an invalid token, is    *)
(* the last one.                                                           *)
Finish(r) ==
    /\ req[r].pc = "runs"
    /\ \/ Goes(r, Ended(req[r]))
       \/ req[r].job # "open" /\ Goes(r, Ended([req[r] EXCEPT !.job = "handler"]))

(* The other dependencies of a handler, the gates on roles, are one job     *)
(* with the first.                                                         *)
AfterAgain(q) ==  \* mutant: a request without a connection is tried again
    [q EXCEPT !.pc  = IF q.job = "handler" /\ q.holds THEN "closing" ELSE "queued",
              !.job = IF q.job = "open" /\ q.kind = "user" THEN "user" ELSE "handler"]

After(q) ==
    CASE q.job = "handler" -> [q EXCEPT !.pc = "closing"]
      [] q.job = "user"    -> [q EXCEPT !.pc = "queued", !.job = "handler"]
      [] q.job = "open"    -> CASE q.kind = "user"   -> [q EXCEPT !.pc = "queued", !.job = "user"]
                                [] q.kind = "public" -> [q EXCEPT !.pc = "queued", !.job = "handler"]
                                [] q.kind = "oauth"  -> [q EXCEPT !.pc = "awaits", !.job = "handler"]

Continue(r) ==
    /\ req[r].pc = "done" /\ LoopFree
    /\ Goes(r, After(req[r]))

(* The provider has answered, refused or not been reached. *)
Provided(r) ==
    /\ req[r].pc = "awaits" /\ LoopFree
    /\ \E pc \in {"runs", "closing"} : Goes(r, [req[r] EXCEPT !.pc = pc])

(* session.close() has a thread reserved for it, but is started by the     *)
(* event loop.                                                             *)
ClosedNever(q) == [q EXCEPT !.pc = "idle"]  \* mutant: no finally in get_db
Closed(q) == Idle

Close(r) ==
    /\ req[r].pc = "closing" /\ LoopFree
    /\ Goes(r, Closed(req[r]))

-----------------------------------------------------------------------------
(* A step that brings the request nearer to its end. *)
Serve(r) == Start(r) \/ Finish(r) \/ Continue(r) \/ Provided(r) \/ Close(r)

Next ==
    \E r \in Requests :
        \/ Serve(r) \/ Query(r) \/ Grant(r) \/ TimedOut(r) \/ Commit(r)
        \/ \E k \in Kinds : Arrive(r, k)

Spec == Init /\ [][Next]_req

(* Jobs end, and threads and turns of the event loop are given in the      *)
(* order in which they were asked for; a connection is given to anybody,   *)
(* but nobody waits for one for ever.                                      *)
FairSpec ==
    /\ Spec
    /\ \A r \in Requests : SF_req(Serve(r)) /\ WF_req(Grant(r) \/ TimedOut(r))

-----------------------------------------------------------------------------
(* Type invariant, with what a session holds at which point. *)
TypeOK ==
    /\ req \in [Requests -> Request]
    /\ \A r \in Requests :
          /\ req[r].holds => req[r].pc \notin {"idle", "waits", "awaits"} /\ req[r].job # "open"
          /\ req[r].pc = "waits" => req[r].job # "open"
          /\ req[r].pc \in {"awaits", "idle"} => ~req[r].holds

(* Whom nothing keeps from going on. *)
GoesOn(r) ==
    \/ req[r].pc = "runs"
    \/ req[r].pc = "waits" /\ ConnectionFree
    \/ req[r].pc \in {"done", "awaits", "closing"} /\ LoopFree
    \/ req[r].pc = "queued" /\ LoopFree /\ ThreadFree

(* While somebody waits for a connection, somebody goes on, so that nobody *)
(* has to sit out the 30 seconds: as long as a thread is free, of which a  *)
(* holder of a connection may need one for its next job (deps.py:34 and    *)
(* db.py:15), and no coroutine waits on the event loop, of which every     *)
(* holder needs a turn to close its session (service.py:360).              *)
WaitsForSomebody ==
    ThreadFree /\ LoopFree /\ (\E r \in Requests : req[r].pc = "waits") =>
        \E r \in Requests : GoesOn(r)

(* Every request ends, although all threads may wait for connections held  *)
(* by requests that wait for a thread, or the event loop may wait for one  *)
(* held by a request that waits for the event loop.                        *)
RequestsFinish == \A r \in Requests : req[r].pc # "idle" ~> req[r].pc = "idle"
=============================================================================
