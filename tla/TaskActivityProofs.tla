------------------------- MODULE TaskActivityProofs -------------------------
(***************************************************************************)
(* Proofs about TaskActivity, for any sets of accounts, states and         *)
(* requests, and any number of rows.                                       *)
(***************************************************************************)
EXTENDS TaskActivity, TLAPS

-----------------------------------------------------------------------------
(* The inductive invariant.  b holds the rows as they were inserted, also  *)
(* those that are gone: what handlers and audit entries say of a row is    *)
(* compared with it.                                                       *)
Known == 1 .. nextId - 1

(* The handler knows the id of its row. *)
Has(q) ==
    /\ q.op \in {"add", "delete"}
    /\ q.pc \in {"refresh", "remove", "delete", "log", "entry", "task", "recipients", "send"}

Adding(q) == q.op = "add" /\ Has(q)

HandlerOK(q, b, n, nf) ==
    /\ q.pc # "idle" => q.by \in Users
    /\ q.pc = "idle" => q.op = "none"
    /\ q.pc \in {"file", "insert", "refresh", "task", "recipients", "send"} => q.op = "add"
    /\ q.pc \in {"remove", "delete"} => q.op = "delete"
    /\ q.pc \in {"write", "reread"} => q.op = "status"
    /\ q.pc \in {"log", "entry"} => q.op # "none"
    /\ q.op \in {"add", "delete"} => q.kind \in Kinds
    /\ q.op = "delete" => q.kind # "worklog"
    /\ q.op = "status" => q.old \in Statuses /\ q.new \in Statuses
    /\ q.pc \in {"file", "remove"} => q.kind = "attachment"
    /\ q.pc \in {"task", "recipients", "send"} => q.kind = "comment"
    /\ q.pc = "insert" => q.file \in (IF q.kind = "attachment" THEN 1 .. nf - 1 ELSE {NULL})
    /\ Has(q) => q.id \in 1 .. n - 1 /\ b[q.id].by = q.by /\ b[q.id].kind = q.kind
    /\ q.pc = "remove" => q.file = b[q.id].file

RowsOK(b) ==
    /\ live \subseteq Known
    /\ \A i \in live : items[i] = b[i] /\ (b[i].kind # "worklog" => b[i].by \in accounts)

NamesOK(b) ==
    /\ \A i \in Known : b[i].kind = "attachment" => b[i].file \in 1 .. nextFile - 1
    /\ \A i, j \in Known :
          b[i].kind = "attachment" /\ b[j].kind = "attachment" /\ b[i].file = b[j].file => i = j

EntriesOK(b) ==
    \A e \in entries :
       e.id \in Known /\ e.by = b[e.id].by /\ e.kind = b[e.id].kind /\ e.by \in accounts

(* One request at most is still adding a row. *)
AnswersOK(b) ==
    /\ \A i \in past.answered : i \in Known /\ b[i].kind = "comment"
    /\ \A r \in Requests : Adding(req[r]) => req[r].id \notin past.answered
    /\ \A r, s \in Requests : Adding(req[r]) /\ Adding(req[s]) /\ req[r].id = req[s].id => r = s

Core(b) ==
    /\ \A r \in Requests : HandlerOK(req[r], b, nextId, nextFile)
    /\ RowsOK(b) /\ NamesOK(b) /\ EntriesOK(b) /\ AnswersOK(b)

-----------------------------------------------------------------------------
(* A comment is served once the recipients of its mails are fixed. *)
Served(i) == i \in past.answered \/ \E r \in Requests : req[r].pc = "send" /\ req[r].id = i

Tells(i, u) ==
    <<u, i>> \in mails \/ \E r \in Requests : req[r].pc = "send" /\ req[r].id = i /\ u \in req[r].to

Telling ==
    \A i, j \in live :
       Served(i) /\ Served(j) /\ items[i].by # items[j].by =>
          Tells(i, items[j].by) \/ Tells(j, items[i].by)

-----------------------------------------------------------------------------
(* A file on its way into a row is there, and is of no other row. *)
Storing(q) == q.pc = "insert" /\ q.kind = "attachment"

FilesOK(b) ==
    /\ \A r \in Requests : Storing(req[r]) =>
          /\ req[r].file \in files
          /\ \A i \in Known : b[i].kind = "attachment" => b[i].file # req[r].file
          /\ \A s \in Requests \ {r} : Storing(req[s]) => req[s].file # req[r].file
    /\ FilesBehindRows

-----------------------------------------------------------------------------
(* Every comment and attachment that was ever saved is accounted for, as   *)
(* long as its author is.                                                  *)
AddOwed(q, i) == q.op = "add" /\ q.pc \in {"refresh", "log"} /\ q.id = i

DeletionOwed(q, i) == q.op = "delete" /\ q.pc = "log" /\ q.id = i

Recorded(b) ==
    /\ \A r \in Requests, i \in live : ~DeletionOwed(req[r], i)
    /\ ~past.died =>
          \A i \in Known : b[i].kind # "worklog" =>
             IF i \in live
             THEN \/ \E r \in Requests : AddOwed(req[r], i)
                  \/ \E e \in entries : e.action = "ADD" /\ e.id = i
             ELSE b[i].by \in accounts =>
                     \/ \E r \in Requests : DeletionOwed(req[r], i)
                     \/ \E e \in entries : e.action = "DELETE" /\ e.id = i

Inv(b) ==
    /\ TypeOK /\ b \in [Known -> Item]
    /\ Core(b) /\ Telling /\ FilesOK(b) /\ Recorded(b)

IInv == \E b \in [Known -> Item] : Inv(b)

-----------------------------------------------------------------------------
(* What a step of one handler leaves as it was. *)
LEMMA OthersStay ==
  ASSUME TypeOK, NEW r \in Requests, NEW q, req' = [req EXCEPT ![r] = q]
  PROVE  /\ req'[r] = q
         /\ \A s \in Requests : s # r => req'[s] = req[s]
         /\ \A s \in Requests : req[s] \in Request
         /\ q \in Request => req' \in [Requests -> Request]
  BY DEF TypeOK

(* A step of one handler that adds no row, and no entry that is wrong. *)
LEMMA CoreStep ==
  ASSUME NEW b, Inv(b), NEW r \in Requests, NEW q, req' = [req EXCEPT ![r] = q],
         HandlerOK(q, b, nextId, nextFile'), Adding(q) => Adding(req[r]) /\ q.id = req[r].id,
         live' \subseteq live, \A i \in live' : items'[i] = items[i],
         \A e \in entries' \ entries :
            e.id \in Known /\ e.by = b[e.id].by /\ e.kind = b[e.id].kind /\ e.by \in accounts,
         UNCHANGED <<accounts, nextId>>, nextFile' \in {nextFile, nextFile + 1},
         past'.answered = past.answered
  PROVE  Core(b)'
  <1>1. /\ req'[r] = q
        /\ \A s \in Requests : s # r => req'[s] = req[s]
    BY OthersStay DEF Inv
  <1>2. nextFile \in Nat
    BY DEF Inv, TypeOK
  <1>3. \A s \in Requests : HandlerOK(req'[s], b, nextId', nextFile')
    <2>1. ASSUME NEW s \in Requests, s # r
          PROVE  HandlerOK(req'[s], b, nextId', nextFile')
      <3>1. HandlerOK(req[s], b, nextId, nextFile)
        BY DEF Inv, Core
      <3> QED BY <3>1, <2>1, <1>1, <1>2 DEF HandlerOK
    <2> QED BY <2>1, <1>1
  <1>4. RowsOK(b)'
    BY DEF Inv, Core, RowsOK, Known
  <1>5. NamesOK(b)'
    BY <1>2 DEF Inv, Core, NamesOK, Known
  <1>6. EntriesOK(b)'
    BY DEF Inv, Core, EntriesOK, Known
  <1>7. \A s \in Requests : Adding(req'[s]) => Adding(req[s]) /\ req'[s].id = req[s].id
    BY <1>1
  <1>8. AnswersOK(b)'
    <2>1. \A i \in past'.answered : i \in Known' /\ b[i].kind = "comment"
      BY DEF Inv, Core, AnswersOK, Known
    <2>2. \A s \in Requests : Adding(req'[s]) => req'[s].id \notin past'.answered
      BY <1>7 DEF Inv, Core, AnswersOK
    <2>3. \A s, t \in Requests : Adding(req'[s]) /\ Adding(req'[t]) /\ req'[s].id = req'[t].id => s = t
      BY <1>7 DEF Inv, Core, AnswersOK
    <2> QED BY <2>1, <2>2, <2>3 DEF AnswersOK, Adding, Has
  <1> QED BY <1>3, <1>4, <1>5, <1>6, <1>8 DEF Core

(* Nobody starts to serve a comment; whoever still does goes on as before. *)
LEMMA TellingStep ==
  ASSUME NEW b, Inv(b), mails \subseteq mails', past'.answered = past.answered,
         \A i \in live' : i \in Known => i \in live /\ items'[i] = items[i],
         \A s \in Requests : req'[s].pc = "send" => req'[s] = req[s]
  PROVE  Telling'
  <1>1. ASSUME NEW i, Served(i)'
        PROVE  i \in Known /\ Served(i)
    <2>1. CASE i \in past.answered
      BY <2>1 DEF Served, Inv, Core, AnswersOK
    <2>2. CASE i \notin past.answered
      <3>1. PICK r \in Requests : req'[r].pc = "send" /\ req'[r].id = i
        BY <1>1, <2>2 DEF Served
      <3>2. req[r].pc = "send" /\ req[r].id = i
        BY <3>1
      <3>3. HandlerOK(req[r], b, nextId, nextFile)
        BY DEF Inv, Core
      <3>4. i \in Known
        BY <3>2, <3>3 DEF HandlerOK, Has, Known
      <3> QED BY <3>2, <3>4 DEF Served
    <2> QED BY <2>1, <2>2
  <1>2. ASSUME NEW i, NEW u, Served(i)', Tells(i, u)
        PROVE  Tells(i, u)'
    <2>1. CASE <<u, i>> \in mails
      BY <2>1 DEF Tells
    <2>2. CASE <<u, i>> \notin mails
      <3>1. PICK r \in Requests : req[r].pc = "send" /\ req[r].id = i /\ u \in req[r].to
        BY <1>2, <2>2 DEF Tells
      <3>2. Adding(req[r])
        BY <3>1 DEF Inv, Core, HandlerOK, Adding, Has
      <3>3. i \notin past.answered
        BY <3>1, <3>2 DEF Inv, Core, AnswersOK
      <3>4. PICK s \in Requests : req'[s].pc = "send" /\ req'[s].id = i
        BY <1>2, <3>3 DEF Served
      <3>5. req'[s] = req[s]
        BY <3>4
      <3>6. Adding(req[s])
        BY <3>4, <3>5 DEF Inv, Core, HandlerOK, Adding, Has
      <3>7. s = r
        BY <3>1, <3>2, <3>4, <3>5, <3>6 DEF Inv, Core, AnswersOK
      <3> QED BY <3>1, <3>5, <3>7 DEF Tells
    <2> QED BY <2>1, <2>2
  <1>3. ASSUME NEW i \in live', NEW j \in live', Served(i)', Served(j)', items'[i].by # items'[j].by
        PROVE  Tells(i, items[j].by)' \/ Tells(j, items[i].by)'
    <2>1. i \in live /\ j \in live /\ items'[i] = items[i] /\ items'[j] = items[j]
      BY <1>1, <1>3
    <2>2. Served(i) /\ Served(j)
      BY <1>1, <1>3
    <2>3. Tells(i, items[j].by) \/ Tells(j, items[i].by)
      BY <2>1, <2>2, <1>3 DEF Inv, Telling
    <2>4. Tells(i, items[j].by) => Tells(i, items[j].by)'
      <3> DEFINE u == items[j].by
      <3>1. u' = u
        BY <2>1
      <3>2. PICK v : v = u
        OBVIOUS
      <3>3. Tells(i, v) => Tells(i, v)'
        BY <1>2, <1>3
      <3> QED BY <3>1, <3>2, <3>3 DEF Tells
    <2>5. Tells(j, items[i].by) => Tells(j, items[i].by)'
      <3> DEFINE u == items[i].by
      <3>1. u' = u
        BY <2>1
      <3>2. PICK v : v = u
        OBVIOUS
      <3>3. Tells(j, v) => Tells(j, v)'
        BY <1>2, <1>3
      <3> QED BY <3>1, <3>2, <3>3 DEF Tells
    <2> QED BY <2>3, <2>4, <2>5
  <1> QED BY <1>3 DEF Telling

LEMMA FilesStep ==
  ASSUME NEW b, TypeOK, FilesOK(b), NEW r \in Requests, NEW q, req' = [req EXCEPT ![r] = q],
         Storing(q) => q = req[r],
         req[r].pc = "delete" => q = req[r] \/ past'.died,
         UNCHANGED <<items, nextId, files>>, past.died => past'.died
  PROVE  FilesOK(b)'
  <1>1. /\ req'[r] = q
        /\ \A s \in Requests : s # r => req'[s] = req[s]
    BY OthersStay
  <1>2. \A s \in Requests : Storing(req'[s]) => req'[s] = req[s]
    BY <1>1
  <1>3. ASSUME NEW s \in Requests, Storing(req'[s])
        PROVE  /\ req'[s].file \in files'
               /\ \A i \in Known' : b[i].kind = "attachment" => b[i].file # req'[s].file
               /\ \A t \in Requests \ {s} : Storing(req'[t]) => req'[t].file # req'[s].file
    BY <1>2, <1>3 DEF FilesOK, Known
  <1>4. FilesBehindRows'
    <2> SUFFICES ASSUME ~past'.died, NEW i \in live', items'[i].kind = "attachment",
                        items'[i].file \notin files'
                 PROVE  \E s \in Requests : req'[s].pc = "delete" /\ req'[s].id = i
      BY DEF FilesBehindRows
    <2>1. PICK s \in Requests : req[s].pc = "delete" /\ req[s].id = i
      BY DEF FilesOK, FilesBehindRows, live
    <2> QED BY <2>1, <1>1
  <1> QED BY <1>3, <1>4 DEF FilesOK, Storing

LEMMA RecordedStep ==
  ASSUME NEW b, TypeOK, Recorded(b), NEW r \in Requests, NEW q, req' = [req EXCEPT ![r] = q],
         \A i \in live : AddOwed(req[r], i) /\ b[i].kind # "worklog" => AddOwed(q, i) \/ past'.died,
         \A i \in Known : DeletionOwed(req[r], i) /\ b[i].by \in accounts =>
            DeletionOwed(q, i) \/ past'.died,
         \A i \in live : DeletionOwed(q, i) => DeletionOwed(req[r], i),
         live \subseteq Known,
         UNCHANGED <<items, nextId, accounts, entries>>, past.died => past'.died
  PROVE  Recorded(b)'
  <1>1. /\ req'[r] = q
        /\ \A s \in Requests : s # r => req'[s] = req[s]
    BY OthersStay
  <1>2. \A s \in Requests, i \in live' : ~DeletionOwed(req'[s], i)
    BY <1>1 DEF Recorded, live
  <1>3. ASSUME ~past'.died, NEW i \in Known', b[i].kind # "worklog"
        PROVE  IF i \in live'
               THEN \/ \E s \in Requests : AddOwed(req'[s], i)
                    \/ \E e \in entries' : e.action = "ADD" /\ e.id = i
               ELSE b[i].by \in accounts' =>
                    \/ \E s \in Requests : DeletionOwed(req'[s], i)
                    \/ \E e \in entries' : e.action = "DELETE" /\ e.id = i
    <2>1. i \in Known /\ ~past.died /\ live' = live
      BY <1>3 DEF Known, live
    <2>2. \A s \in Requests : i \in live /\ AddOwed(req[s], i) => AddOwed(req'[s], i)
      BY <2>1, <1>1, <1>3
    <2>3. \A s \in Requests : b[i].by \in accounts /\ DeletionOwed(req[s], i) => DeletionOwed(req'[s], i)
      BY <2>1, <1>1, <1>3
    <2>4. CASE i \in live
      BY <2>1, <2>2, <2>4, <1>3 DEF Recorded
    <2>5. CASE i \notin live
      BY <2>1, <2>3, <2>5, <1>3 DEF Recorded
    <2> QED BY <2>1, <2>4, <2>5
  <1> QED BY <1>2, <1>3 DEF Recorded, AddOwed, DeletionOwed

HistoryOK ==
    nextChange \in Nat \ {0} /\ kept \subseteq 1 .. nextChange - 1 /\ history \in [kept -> Change]

(* All of them together: a step that only concerns its handler, which is   *)
(* not about to do what others rely on, or dies.                           *)
LEMMA LocalStep ==
  ASSUME NEW b, Inv(b), NEW r \in Requests, NEW q \in Request, req' = [req EXCEPT ![r] = q],
         HandlerOK(q, b, nextId, nextFile), Adding(q) => Adding(req[r]) /\ q.id = req[r].id,
         q.pc # "send", ~Storing(q),
         req[r].pc = "delete" => past'.died,
         \A i \in live : AddOwed(req[r], i) /\ b[i].kind # "worklog" => AddOwed(q, i) \/ past'.died,
         \A i \in Known : DeletionOwed(req[r], i) /\ b[i].by \in accounts => past'.died,
         \A i \in Known : ~DeletionOwed(q, i),
         status' \in OrNull(Statuses), HistoryOK',
         UNCHANGED <<accounts, items, nextId, entries, files, nextFile, mails>>,
         past' \in Past, past'.answered = past.answered, past.died => past'.died
  PROVE  IInv'
  <1>1. TypeOK'
    BY OthersStay DEF Inv, TypeOK, HistoryOK, live
  <1>2. Core(b)'
    BY CoreStep DEF live
  <1>3. Telling'
    <2>1. \A s \in Requests : req'[s].pc = "send" => req'[s] = req[s]
      BY OthersStay DEF Inv
    <2> QED BY <2>1, TellingStep DEF live
  <1>4. FilesOK(b)'
    BY FilesStep DEF Inv
  <1>5. Recorded(b)'
    BY RecordedStep DEF Inv, Core, RowsOK
  <1>6. b \in [Known' -> Item]
    BY DEF Inv, Known
  <1> QED BY <1>1, <1>2, <1>3, <1>4, <1>5, <1>6 DEF IInv, Inv

-----------------------------------------------------------------------------
(* The steps that only concern their handler. *)
LEMMA IdleFacts ==
  /\ Idle \in Request
  /\ Idle.pc = "idle" /\ Idle.op = "none"
  /\ \A b, n, nf : HandlerOK(Idle, b, n, nf)
  /\ ~Has(Idle) /\ ~Adding(Idle) /\ ~Storing(Idle)
  /\ \A i : ~AddOwed(Idle, i) /\ ~DeletionOwed(Idle, i)
  BY DEF Idle, Request, OrNull, HandlerOK, Has, Adding, Storing, AddOwed, DeletionOwed

LEMMA HistoryStays ==
  ASSUME NEW b, Inv(b), UNCHANGED <<history, nextChange>>
  PROVE  HistoryOK'
  BY DEF Inv, TypeOK, HistoryOK, kept

(* The handler of r goes on with q, or ends, and owes no entry. *)
LEMMA GoesStep ==
  ASSUME IInv, NEW r \in Requests, NEW q \in Request, req' = [req EXCEPT ![r] = q],
         UNCHANGED <<tables, files, nextFile, mails, past>>,
         req[r].pc # "delete", q.pc # "send", ~Storing(q),
         Adding(q) => Adding(req[r]) /\ q.id = req[r].id,
         \A b : Inv(b) =>
            /\ HandlerOK(q, b, nextId, nextFile)
            /\ \A i \in live : AddOwed(req[r], i) /\ b[i].kind # "worklog" => AddOwed(q, i)
            /\ \A i \in Known : DeletionOwed(req[r], i) => b[i].by \notin accounts,
         \A i \in Known : ~DeletionOwed(q, i)
  PROVE  IInv'
  <1>1. PICK b \in [Known -> Item] : Inv(b)
    BY DEF IInv
  <1>2. status' \in OrNull(Statuses) /\ past' \in Past /\ HistoryOK'
    BY <1>1, HistoryStays DEF tables, log, Inv, TypeOK
  <1>3. /\ HandlerOK(q, b, nextId, nextFile)
        /\ \A i \in live : AddOwed(req[r], i) /\ b[i].kind # "worklog" => AddOwed(q, i)
        /\ \A i \in Known : DeletionOwed(req[r], i) => b[i].by \notin accounts
    BY <1>1
  <1> QED BY <1>1, <1>2, <1>3, LocalStep DEF tables, log

LEMMA BeginStep ==
  ASSUME IInv, NEW r \in Requests, NEW q \in Request, Begin(r, q),
         \A b : Inv(b) => HandlerOK(q, b, nextId, nextFile),
         ~Adding(q), q.pc # "send", ~Storing(q), \A i \in Known : ~DeletionOwed(q, i)
  PROVE  IInv'
  <1>1. PICK b \in [Known -> Item] : Inv(b)
    BY DEF IInv
  <1>2. past' \in Past /\ past'.answered = past.answered /\ past'.died = past.died
    BY <1>1 DEF Begin, Inv, TypeOK, Past
  <1>3. HandlerOK(req[r], b, nextId, nextFile) /\ req[r].pc = "idle"
    BY <1>1 DEF Inv, Core, Begin
  <1>4. \A i : ~AddOwed(req[r], i) /\ ~DeletionOwed(req[r], i)
    BY <1>3 DEF AddOwed, DeletionOwed
  <1>5. HandlerOK(q, b, nextId, nextFile)
    BY <1>1
  <1>6. status' \in OrNull(Statuses)
    BY <1>1 DEF Begin, tables, Inv, TypeOK
  <1>7. HistoryOK'
    BY <1>1, HistoryStays DEF Begin, tables, log
  <1> QED BY <1>1, <1>2, <1>3, <1>4, <1>5, <1>6, <1>7, LocalStep DEF Begin, tables, log

LEMMA StartAddStep ==
  ASSUME IInv, NEW r \in Requests, NEW u \in Users, NEW kind \in Kinds, StartAdd(r, u, kind)
  PROVE  IInv'
  <1>1. PICK q : q = [Idle EXCEPT !.pc = IF kind = "attachment" THEN "file" ELSE "insert",
                                  !.op = "add", !.by = u, !.kind = kind]
    OBVIOUS
  <1>2. /\ q.pc = IF kind = "attachment" THEN "file" ELSE "insert"
        /\ q.op = "add" /\ q.by = u /\ q.kind = kind /\ q.file = NULL
        /\ q \in Request
    BY <1>1 DEF Idle, Request, OrNull, Kinds
  <1>3. \A b : HandlerOK(q, b, nextId, nextFile)
    BY <1>2 DEF HandlerOK, Has, Kinds
  <1>4. ~Adding(q) /\ q.pc # "send" /\ ~Storing(q) /\ \A i \in Known : ~DeletionOwed(q, i)
    BY <1>2 DEF Adding, Has, Storing, DeletionOwed
  <1> QED BY <1>1, <1>2, <1>3, <1>4, BeginStep DEF StartAdd

LEMMA StartDeleteStep ==
  ASSUME IInv, NEW r \in Requests, NEW u \in Users, NEW i \in Ids, StartDelete(r, u, i)
  PROVE  IInv'
  <1>1. PICK q : q = [Idle EXCEPT !.pc = IF items[i].kind = "attachment" THEN "remove" ELSE "delete",
                                  !.op = "delete", !.by = u, !.id = i,
                                  !.kind = items[i].kind, !.file = items[i].file]
    OBVIOUS
  <1>2. /\ q.pc = IF items[i].kind = "attachment" THEN "remove" ELSE "delete"
        /\ q.op = "delete" /\ q.by = u /\ q.kind = items[i].kind /\ q.file = items[i].file
        /\ q.id = i
    BY <1>1 DEF Idle
  <1>3. i \in live /\ items[i].kind # "worklog" /\ items[i].by = u
    BY DEF StartDelete, MayDelete
  <1>4. items[i] \in Item
    BY <1>3 DEF IInv, Inv, TypeOK
  <1>5. items[i].kind \in Kinds /\ items[i].file \in OrNull(Ids)
    BY <1>4 DEF Item
  <1>6. q \in Request
    BY <1>1, <1>2, <1>5 DEF Idle, Request, OrNull
  <1>7. ASSUME NEW b, Inv(b)
        PROVE  HandlerOK(q, b, nextId, nextFile)
    <2>1. i \in 1 .. nextId - 1 /\ items[i] = b[i]
      BY <1>3, <1>7 DEF Inv, Core, RowsOK, Known
    <2> QED BY <2>1, <1>2, <1>3, <1>5 DEF HandlerOK, Has
  <1>8. ~Adding(q) /\ q.pc # "send" /\ ~Storing(q) /\ \A j \in Known : ~DeletionOwed(q, j)
    BY <1>2 DEF Adding, Storing, DeletionOwed
  <1> QED BY <1>1, <1>6, <1>7, <1>8, BeginStep DEF StartDelete

LEMMA StartStatusStep ==
  ASSUME IInv, NEW r \in Requests, NEW u \in Users, NEW new \in Statuses, StartStatus(r, u, new)
  PROVE  IInv'
  <1>1. PICK q : q = [Idle EXCEPT !.pc = "write", !.op = "status", !.by = u, !.old = status, !.new = new]
    OBVIOUS
  <1>2. q.pc = "write" /\ q.op = "status" /\ q.by = u /\ q.old = status /\ q.new = new
    BY <1>1 DEF Idle
  <1>3. status \in Statuses
    BY DEF StartStatus, Begin, IInv, Inv, TypeOK, OrNull
  <1>4. q \in Request
    BY <1>1, <1>2, <1>3 DEF Idle, Request, OrNull
  <1>5. \A b : HandlerOK(q, b, nextId, nextFile)
    BY <1>2, <1>3 DEF HandlerOK, Has
  <1>6. ~Adding(q) /\ q.pc # "send" /\ ~Storing(q) /\ \A i \in Known : ~DeletionOwed(q, i)
    BY <1>2 DEF Adding, Has, Storing, DeletionOwed
  <1> QED BY <1>1, <1>4, <1>5, <1>6, BeginStep DEF StartStatus

LEMMA FinishStep ==
  ASSUME IInv, NEW r \in Requests, Finish(r), req[r].pc # "delete",
         \A b : Inv(b) =>
            /\ \A i \in live : AddOwed(req[r], i) => b[i].kind = "worklog"
            /\ \A i \in Known : DeletionOwed(req[r], i) => b[i].by \notin accounts
  PROVE  IInv'
  <1> QED BY IdleFacts, GoesStep DEF Finish, Local

LEMMA QuietFinishStep ==
  ASSUME IInv, NEW r \in Requests, Finish(r), req[r].pc \notin {"delete", "refresh", "log"}
  PROVE  IInv'
  BY FinishStep DEF AddOwed, DeletionOwed

(* What is known of the handler of r. *)
LEMMA HandlerKnown ==
  ASSUME NEW b, Inv(b), NEW r \in Requests
  PROVE  HandlerOK(req[r], b, nextId, nextFile) /\ req[r] \in Request
  BY DEF Inv, Core, TypeOK

LEMMA GoesRecord ==
  ASSUME TypeOK, NEW r \in Requests, NEW pc \in {"log", "task", "recipients"}, Goes(r, pc)
  PROVE  \E q \in Request :
            /\ req' = [req EXCEPT ![r] = q]
            /\ q = [req[r] EXCEPT !.pc = pc]
            /\ q.pc = pc /\ q.op = req[r].op /\ q.kind = req[r].kind /\ q.by = req[r].by
            /\ q.id = req[r].id /\ q.file = req[r].file /\ q.old = req[r].old /\ q.new = req[r].new
  <1>1. PICK q : q = [req[r] EXCEPT !.pc = pc]
    OBVIOUS
  <1>2. req[r] \in Request
    BY DEF TypeOK
  <1>3. q \in Request
    BY <1>1, <1>2 DEF Request
  <1>4. /\ q.pc = pc /\ q.op = req[r].op /\ q.kind = req[r].kind /\ q.by = req[r].by
        /\ q.id = req[r].id /\ q.file = req[r].file /\ q.old = req[r].old /\ q.new = req[r].new
    BY <1>1, <1>2 DEF Request
  <1> QED BY <1>1, <1>3, <1>4 DEF Goes, Local

LEMMA RefreshStep ==
  ASSUME IInv, NEW r \in Requests, Refresh(r)
  PROVE  IInv'
  <1> USE DEF Refresh
  <1>1. CASE req[r].id \in live
    <2>1. PICK q \in Request :
            /\ req' = [req EXCEPT ![r] = q]
            /\ q.pc = "log" /\ q.op = req[r].op /\ q.kind = req[r].kind /\ q.by = req[r].by
            /\ q.id = req[r].id /\ q.file = req[r].file /\ q.old = req[r].old /\ q.new = req[r].new
      BY <1>1, GoesRecord DEF IInv, Inv
    <2>2. req[r].op = "add"
      BY HandlerKnown DEF IInv, HandlerOK
    <2>3. ASSUME NEW b, Inv(b)
          PROVE  HandlerOK(q, b, nextId, nextFile)
      BY <2>1, <2>3, HandlerKnown DEF HandlerOK, Has
    <2>4. \A i : AddOwed(req[r], i) => AddOwed(q, i)
      BY <2>1 DEF AddOwed
    <2>5. \A i : ~DeletionOwed(req[r], i) /\ ~DeletionOwed(q, i)
      BY <2>1, <2>2 DEF DeletionOwed
    <2>6. q.pc # "send" /\ ~Storing(q) /\ Adding(req[r])
      BY <2>1, <2>2 DEF Storing, Adding, Has
    <2>7. UNCHANGED <<tables, files, nextFile, mails, past>>
      BY <1>1 DEF Goes, Local
    <2> QED BY <2>1, <2>3, <2>4, <2>5, <2>6, <2>7, GoesStep
  <1>2. CASE req[r].id \notin live
    BY <1>2, FinishStep DEF AddOwed, DeletionOwed
  <1> QED BY <1>1, <1>2

LEMMA RereadStatusStep ==
  ASSUME IInv, NEW r \in Requests, RereadStatus(r)
  PROVE  IInv'
  <1> USE DEF RereadStatus
  <1>1. PICK q \in Request :
          /\ req' = [req EXCEPT ![r] = q]
          /\ q.pc = "log" /\ q.op = req[r].op /\ q.kind = req[r].kind /\ q.by = req[r].by
          /\ q.id = req[r].id /\ q.file = req[r].file /\ q.old = req[r].old /\ q.new = req[r].new
    BY GoesRecord DEF IInv, Inv
  <1>2. req[r].op = "status"
    BY HandlerKnown DEF IInv, HandlerOK
  <1>3. ASSUME NEW b, Inv(b)
        PROVE  HandlerOK(q, b, nextId, nextFile)
    BY <1>1, <1>2, <1>3, HandlerKnown DEF HandlerOK, Has
  <1>4. \A i : ~AddOwed(req[r], i) /\ ~DeletionOwed(req[r], i) /\ ~DeletionOwed(q, i)
    BY <1>1, <1>2 DEF DeletionOwed, AddOwed
  <1>5. q.pc # "send" /\ ~Storing(q) /\ ~Adding(q)
    BY <1>1, <1>2 DEF Storing, Adding
  <1>6. UNCHANGED <<tables, files, nextFile, mails, past>>
    BY DEF Goes, Local
  <1> QED BY <1>1, <1>3, <1>4, <1>5, <1>6, GoesStep

LEMMA FailLogStep ==
  ASSUME IInv, NEW r \in Requests, FailLog(r)
  PROVE  IInv'
  <1>1. ASSUME NEW b, Inv(b)
        PROVE  /\ \A i \in live : AddOwed(req[r], i) => b[i].kind = "worklog"
               /\ \A i \in Known : DeletionOwed(req[r], i) => b[i].by \notin accounts
    <2>1. \A i : AddOwed(req[r], i) \/ DeletionOwed(req[r], i) => b[i].by = req[r].by
      BY <1>1, HandlerKnown DEF HandlerOK, Has, AddOwed, DeletionOwed
    <2> QED BY <2>1, <1>1 DEF FailLog, Inv, Core, RowsOK
  <1> QED BY <1>1, FinishStep DEF FailLog

LEMMA RereadEntryStep ==
  ASSUME IInv, NEW r \in Requests, RereadEntry(r)
  PROVE  IInv'
  <1> USE DEF RereadEntry
  <1>1. CASE Goes(r, "task") /\ req[r].op = "add" /\ req[r].kind = "comment"
    <2>1. PICK q \in Request :
            /\ req' = [req EXCEPT ![r] = q]
            /\ q.pc = "task" /\ q.op = req[r].op /\ q.kind = req[r].kind /\ q.by = req[r].by
            /\ q.id = req[r].id /\ q.file = req[r].file /\ q.old = req[r].old /\ q.new = req[r].new
      BY <1>1, GoesRecord DEF IInv, Inv
    <2>2. ASSUME NEW b, Inv(b)
          PROVE  HandlerOK(q, b, nextId, nextFile)
      BY <1>1, <2>1, <2>2, HandlerKnown DEF HandlerOK, Has
    <2>3. \A i : ~AddOwed(req[r], i) /\ ~DeletionOwed(req[r], i) /\ ~DeletionOwed(q, i)
      BY <1>1, <2>1 DEF DeletionOwed, AddOwed
    <2>4. q.pc # "send" /\ ~Storing(q) /\ Adding(req[r])
      BY <1>1, <2>1 DEF Storing, Adding, Has
    <2>5. UNCHANGED <<tables, files, nextFile, mails, past>>
      BY <1>1 DEF Goes, Local
    <2> QED BY <2>1, <2>2, <2>3, <2>4, <2>5, GoesStep
  <1>2. CASE Finish(r)
    BY <1>2, QuietFinishStep
  <1> QED BY <1>1, <1>2

LEMMA TaskAgainStep ==
  ASSUME IInv, NEW r \in Requests, TaskAgain(r)
  PROVE  IInv'
  <1> USE DEF TaskAgain
  <1>1. CASE Goes(r, "recipients")
    <2>1. PICK q \in Request :
            /\ req' = [req EXCEPT ![r] = q]
            /\ q.pc = "recipients" /\ q.op = req[r].op /\ q.kind = req[r].kind /\ q.by = req[r].by
            /\ q.id = req[r].id /\ q.file = req[r].file /\ q.old = req[r].old /\ q.new = req[r].new
      BY <1>1, GoesRecord DEF IInv, Inv
    <2>2. req[r].op = "add" /\ req[r].kind = "comment"
      BY HandlerKnown DEF IInv, HandlerOK
    <2>3. ASSUME NEW b, Inv(b)
          PROVE  HandlerOK(q, b, nextId, nextFile)
      BY <2>1, <2>2, <2>3, HandlerKnown DEF HandlerOK, Has
    <2>4. \A i : ~AddOwed(req[r], i) /\ ~DeletionOwed(req[r], i) /\ ~DeletionOwed(q, i)
      BY <2>1 DEF DeletionOwed, AddOwed
    <2>5. q.pc # "send" /\ ~Storing(q) /\ Adding(req[r])
      BY <2>1, <2>2 DEF Storing, Adding, Has
    <2>6. UNCHANGED <<tables, files, nextFile, mails, past>>
      BY <1>1 DEF Goes, Local
    <2> QED BY <2>1, <2>3, <2>4, <2>5, <2>6, GoesStep
  <1>2. CASE Finish(r)
    BY <1>2, QuietFinishStep
  <1> QED BY <1>1, <1>2

(* The requests that end early. *)
LEMMA FailStep ==
  ASSUME IInv, NEW r \in Requests, FailInsert(r) \/ NoMoreIds(r) \/ FailStatus(r)
  PROVE  IInv'
  BY QuietFinishStep DEF FailInsert, NoMoreIds, FailStatus

LEMMA WriteStatusStep ==
  ASSUME IInv, NEW r \in Requests, WriteStatus(r)
  PROVE  IInv'
  <1> USE DEF WriteStatus
  <1>1. PICK b \in [Known -> Item] : Inv(b)
    BY DEF IInv
  <1>2. PICK q : q = [req[r] EXCEPT !.pc = "reread"]
    OBVIOUS
  <1>3. req[r] \in Request /\ HandlerOK(req[r], b, nextId, nextFile)
    BY <1>1, HandlerKnown
  <1>4. req[r].pc = "write" /\ req[r].op = "status" /\ req[r].new \in Statuses
    BY <1>3 DEF HandlerOK
  <1>5. q \in Request /\ q.pc = "reread" /\ q.op = "status" /\ q.by = req[r].by
        /\ q.old = req[r].old /\ q.new = req[r].new
    BY <1>2, <1>3, <1>4 DEF Request
  <1>6. HandlerOK(q, b, nextId, nextFile)
    BY <1>3, <1>4, <1>5 DEF HandlerOK, Has
  <1>7. req' = [req EXCEPT ![r] = q]
    BY <1>1, <1>2 DEF Inv, TypeOK
  <1>8. status' \in OrNull(Statuses) /\ past' \in Past /\ HistoryOK'
    BY <1>1, <1>4, HistoryStays DEF Inv, TypeOK, log, OrNull
  <1>9. ~Adding(q) /\ ~Storing(q)
    BY <1>5 DEF Adding, Storing
  <1>10. \A i : ~AddOwed(req[r], i) /\ ~DeletionOwed(req[r], i) /\ ~DeletionOwed(q, i)
    BY <1>4, <1>5 DEF AddOwed, DeletionOwed
  <1> QED BY <1>1, <1>4, <1>5, <1>6, <1>7, <1>8, <1>9, <1>10, LocalStep DEF log

LEMMA LogStatusStep ==
  ASSUME IInv, NEW r \in Requests, Log(r), req[r].op = "status"
  PROVE  IInv'
  <1>1. PICK b \in [Known -> Item] : Inv(b)
    BY DEF IInv
  <1>2. PICK q : q = [req[r] EXCEPT !.pc = "entry"]
    OBVIOUS
  <1>3. req[r] \in Request /\ HandlerOK(req[r], b, nextId, nextFile) /\ req[r].pc = "log"
    BY <1>1, HandlerKnown DEF Log
  <1>4. q \in Request /\ q.pc = "entry" /\ q.op = "status" /\ q.by = req[r].by
        /\ q.old = req[r].old /\ q.new = req[r].new
    BY <1>2, <1>3 DEF Request
  <1>5. HandlerOK(q, b, nextId, nextFile)
    BY <1>3, <1>4 DEF HandlerOK, Has
  <1>6. req' = [req EXCEPT ![r] = q]
    BY <1>1, <1>2 DEF Inv, TypeOK, Log
  <1>7. HistoryOK'
    <2>1. HistoryOK
      BY <1>1 DEF Inv, TypeOK, HistoryOK
    <2>2. PICK row : row = [by |-> req[r].by, old |-> OldValue(req[r]), new |-> req[r].new]
      OBVIOUS
    <2>3. row \in Change
      BY <2>2, <1>3 DEF HandlerOK, OldValue, Change
    <2>4. /\ history' = [i \in kept \cup {nextChange} |-> IF i = nextChange THEN row ELSE history[i]]
          /\ nextChange' = nextChange + 1
      BY <2>2 DEF Log
    <2>5. kept' = kept \cup {nextChange}
      BY <2>4 DEF kept
    <2> QED BY <2>1, <2>3, <2>4, <2>5 DEF HistoryOK
  <1>8. status' \in OrNull(Statuses) /\ past' \in Past
    BY <1>1 DEF Inv, TypeOK, Log
  <1>9. ~Adding(q) /\ ~Storing(q)
    BY <1>4 DEF Adding, Storing
  <1>10. \A i : ~AddOwed(req[r], i) /\ ~DeletionOwed(req[r], i) /\ ~DeletionOwed(q, i)
    BY <1>4 DEF AddOwed, DeletionOwed
  <1>11. UNCHANGED <<accounts, items, nextId, entries, files, nextFile, mails, past>>
    BY DEF Log
  <1> QED BY <1>1, <1>3, <1>4, <1>5, <1>6, <1>7, <1>8, <1>9, <1>10, <1>11, LocalStep

LEMMA AbortStep ==
  ASSUME IInv, NEW r \in Requests, Abort(r)
  PROVE  IInv'
  <1>1. PICK b \in [Known -> Item] : Inv(b)
    BY DEF IInv
  <1>2. past' \in Past /\ past'.answered = past.answered /\ past'.died
    BY <1>1 DEF Abort, Inv, TypeOK, Past
  <1>3. status' \in OrNull(Statuses) /\ HistoryOK'
    BY <1>1, HistoryStays DEF Inv, TypeOK, Abort, tables, log
  <1> QED BY <1>1, <1>2, <1>3, IdleFacts, LocalStep DEF Abort, tables, log

-----------------------------------------------------------------------------
(* The steps others rely on. *)
LEMMA WriteFileStep ==
  ASSUME IInv, NEW r \in Requests, WriteFile(r)
  PROVE  IInv'
  <1> USE DEF WriteFile, NewFile
  <1>1. PICK b \in [Known -> Item] : Inv(b)
    BY DEF IInv
  <1>2. PICK q : q = [req[r] EXCEPT !.pc = "insert", !.file = nextFile]
    OBVIOUS
  <1>3. req[r] \in Request /\ HandlerOK(req[r], b, nextId, nextFile)
    BY <1>1, HandlerKnown
  <1>4. nextFile \in Ids /\ nextFile \in Nat \ {0} /\ files \subseteq Ids
    BY <1>1, MaxIdAssumption DEF Inv, TypeOK, Ids
  <1>5. req[r].op = "add" /\ req[r].kind = "attachment"
    BY <1>3 DEF HandlerOK
  <1>6. q \in Request /\ q.pc = "insert" /\ q.op = "add" /\ q.by = req[r].by
        /\ q.kind = "attachment" /\ q.file = nextFile
    BY <1>2, <1>3, <1>4, <1>5 DEF Request, OrNull
  <1>7. HandlerOK(q, b, nextId, nextFile')
    BY <1>3, <1>4, <1>6 DEF HandlerOK, Has, Kinds
  <1>8. req' = [req EXCEPT ![r] = q]
    <2>1. req' = [req EXCEPT ![r] = [req[r] EXCEPT !.pc = "insert", !.file = nextFile]]
      BY <1>1, <1>3 DEF Inv, TypeOK, Request
    <2> QED BY <2>1, <1>2
  <1>9. ~Adding(q) /\ q.pc # "send" /\ q.pc # "delete" /\ Storing(q)
    BY <1>6 DEF Adding, Has, Storing
  <1>10. \A i : ~AddOwed(req[r], i) /\ ~DeletionOwed(req[r], i) /\ ~DeletionOwed(q, i)
    BY <1>6 DEF AddOwed, DeletionOwed
  <1>11. /\ req'[r] = q
         /\ \A s \in Requests : s # r => req'[s] = req[s]
         /\ req' \in [Requests -> Request]
    BY <1>1, <1>6, <1>8, OthersStay DEF Inv
  <1>12. UNCHANGED <<status, accounts, items, nextId, entries, history, nextChange, mails, past>>
    BY DEF tables, log
  <1>13. live' = live /\ kept' = kept
    BY <1>12 DEF live, kept
  <1>14. TypeOK'
    BY <1>1, <1>4, <1>11, <1>12, <1>13, MaxIdAssumption DEF Inv, TypeOK, Ids
  <1>15. Core(b)'
    BY <1>1, <1>7, <1>8, <1>9, <1>12, <1>13, CoreStep
  <1>16. Telling'
    BY <1>1, <1>9, <1>11, <1>12, <1>13, TellingStep
  <1>17. FilesOK(b)'
    <2>1. FilesOK(b) /\ NamesOK(b)
      BY <1>1 DEF Inv, Core
    <2>2. ASSUME NEW s \in Requests, Storing(req'[s])
          PROVE  /\ req'[s].file \in files'
                 /\ \A i \in Known' : b[i].kind = "attachment" => b[i].file # req'[s].file
                 /\ \A t \in Requests \ {s} : Storing(req'[t]) => req'[t].file # req'[s].file
      <3>1. ASSUME NEW t \in Requests, t # r, Storing(req'[t])
            PROVE  req'[t] = req[t] /\ Storing(req[t]) /\ req[t].file \in 1 .. nextFile - 1
        BY <3>1, <1>11, <1>1, HandlerKnown DEF HandlerOK, Storing
      <3>2. CASE s = r
        <4>1. \A i \in Known : b[i].kind = "attachment" => b[i].file # nextFile
          BY <2>1, <1>4 DEF NamesOK
        <4> QED BY <3>1, <3>2, <4>1, <1>4, <1>6, <1>11, <1>12 DEF Known
      <3>3. CASE s # r
        <4>1. req'[s] = req[s] /\ Storing(req[s]) /\ req[s].file \in 1 .. nextFile - 1
          BY <3>1, <3>3, <2>2
        <4>2. ASSUME NEW t \in Requests \ {s}, Storing(req'[t])
              PROVE  req'[t].file # req'[s].file
          <5>1. CASE t = r
            BY <5>1, <4>1, <1>4, <1>6, <1>11
          <5>2. CASE t # r
            BY <5>2, <4>1, <4>2, <3>1, <2>1 DEF FilesOK
          <5> QED BY <5>1, <5>2
        <4>3. req'[s].file \in files'
          BY <4>1, <2>1 DEF FilesOK
        <4>4. \A i \in Known' : b[i].kind = "attachment" => b[i].file # req'[s].file
          BY <4>1, <2>1, <1>12 DEF FilesOK, Known
        <4> QED BY <4>2, <4>3, <4>4
      <3> QED BY <3>2, <3>3
    <2>3. FilesBehindRows'
      <3> SUFFICES ASSUME ~past'.died, NEW i \in live', items'[i].kind = "attachment",
                          items'[i].file \notin files'
                   PROVE  \E s \in Requests : req'[s].pc = "delete" /\ req'[s].id = i
        BY DEF FilesBehindRows
      <3>1. PICK s \in Requests : req[s].pc = "delete" /\ req[s].id = i
        BY <2>1, <1>12, <1>13 DEF FilesOK, FilesBehindRows
      <3> QED BY <3>1, <1>11
    <2> QED BY <2>2, <2>3 DEF FilesOK, Storing
  <1>18. Recorded(b)'
    BY <1>1, <1>8, <1>10, <1>12, RecordedStep DEF Inv, Core, RowsOK
  <1>19. b \in [Known' -> Item]
    BY <1>12 DEF Known
  <1> QED BY <1>14, <1>15, <1>16, <1>17, <1>18, <1>19 DEF IInv, Inv

LEMMA RemoveFileStep ==
  ASSUME IInv, NEW r \in Requests, RemoveFile(r)
  PROVE  IInv'
  <1> USE DEF RemoveFile
  <1>1. PICK b \in [Known -> Item] : Inv(b)
    BY DEF IInv
  <1>2. PICK q : q = [req[r] EXCEPT !.pc = "delete"]
    OBVIOUS
  <1>3. req[r] \in Request /\ HandlerOK(req[r], b, nextId, nextFile)
    BY <1>1, HandlerKnown
  <1>4. /\ req[r].op = "delete" /\ req[r].kind = "attachment"
        /\ req[r].id \in Known /\ b[req[r].id].kind = "attachment" /\ b[req[r].id].file = req[r].file
    BY <1>3 DEF HandlerOK, Has, Known
  <1>5. /\ q \in Request /\ q.pc = "delete" /\ q.op = "delete" /\ q.by = req[r].by
        /\ q.kind = "attachment" /\ q.file = req[r].file /\ q.id = req[r].id
    BY <1>2, <1>3, <1>4 DEF Request
  <1>6. HandlerOK(q, b, nextId, nextFile)
    BY <1>3, <1>4, <1>5 DEF HandlerOK, Has
  <1>7. req' = [req EXCEPT ![r] = q]
    BY <1>1, <1>2 DEF Inv, TypeOK
  <1>8. ~Adding(q) /\ ~Storing(q)
    BY <1>5 DEF Adding, Storing
  <1>9. \A i : ~AddOwed(req[r], i) /\ ~DeletionOwed(req[r], i) /\ ~DeletionOwed(q, i)
    BY <1>5 DEF AddOwed, DeletionOwed
  <1>10. /\ req'[r] = q
         /\ \A s \in Requests : s # r => req'[s] = req[s]
         /\ req' \in [Requests -> Request]
    BY <1>1, <1>5, <1>7, OthersStay DEF Inv
  <1>11. UNCHANGED <<status, accounts, items, nextId, nextFile, entries, history, nextChange, mails, past>>
    BY DEF tables, log
  <1>12. live' = live /\ kept' = kept /\ Known' = Known
    BY <1>11 DEF live, kept, Known
  <1>13. TypeOK'
    BY <1>1, <1>10, <1>11, <1>12 DEF Inv, TypeOK
  <1>14. Core(b)'
    BY <1>1, <1>6, <1>7, <1>8, <1>11, <1>12, CoreStep
  <1>15. Telling'
    BY <1>1, <1>5, <1>10, <1>11, <1>12, TellingStep
  <1>16. FilesOK(b)'
    <2>1. FilesOK(b) /\ NamesOK(b) /\ RowsOK(b)
      BY <1>1 DEF Inv, Core
    <2>2. ASSUME NEW s \in Requests, Storing(req'[s])
          PROVE  /\ req'[s].file \in files'
                 /\ \A i \in Known' : b[i].kind = "attachment" => b[i].file # req'[s].file
                 /\ \A t \in Requests \ {s} : Storing(req'[t]) => req'[t].file # req'[s].file
      <3>1. \A t \in Requests : Storing(req'[t]) => req'[t] = req[t]
        BY <1>8, <1>10
      <3>2. req'[s] = req[s] /\ Storing(req[s])
        BY <3>1, <2>2
      <3>3. \A i \in Known : b[i].kind = "attachment" => b[i].file # req[s].file
        BY <3>2, <2>1 DEF FilesOK
      <3>4. req[s].file \in files /\ req[s].file # req[r].file
        BY <3>2, <3>3, <2>1, <1>4 DEF FilesOK
      <3> QED BY <3>1, <3>2, <3>3, <3>4, <2>1, <1>12 DEF FilesOK
    <2>3. FilesBehindRows'
      <3> SUFFICES ASSUME ~past'.died, NEW i \in live', items'[i].kind = "attachment",
                          items'[i].file \notin files'
                   PROVE  \E s \in Requests : req'[s].pc = "delete" /\ req'[s].id = i
        BY DEF FilesBehindRows
      <3>1. i \in live /\ i \in Known /\ items[i] = b[i] /\ items'[i] = items[i]
        BY <2>1, <1>11, <1>12 DEF RowsOK
      <3>2. CASE items[i].file = req[r].file
        <4>1. i = req[r].id
          BY <3>1, <3>2, <1>4, <2>1 DEF NamesOK
        <4> QED BY <4>1, <1>5, <1>10
      <3>3. CASE items[i].file # req[r].file
        <4>1. PICK s \in Requests : req[s].pc = "delete" /\ req[s].id = i
          BY <3>1, <3>3, <2>1, <1>11 DEF FilesOK, FilesBehindRows
        <4> QED BY <4>1, <1>10
      <3> QED BY <3>2, <3>3
    <2> QED BY <2>2, <2>3 DEF FilesOK, Storing
  <1>17. Recorded(b)'
    BY <1>1, <1>7, <1>9, <1>11, RecordedStep DEF Inv, Core, RowsOK
  <1> QED BY <1>12, <1>13, <1>14, <1>15, <1>16, <1>17 DEF IInv, Inv

LEMMA DeleteStep ==
  ASSUME IInv, NEW r \in Requests, Delete(r)
  PROVE  IInv'
  <1> USE DEF Delete
  <1>1. PICK b \in [Known -> Item] : Inv(b)
    BY DEF IInv
  <1>2. PICK q : q = [req[r] EXCEPT !.pc = "log"]
    OBVIOUS
  <1>3. req[r] \in Request /\ HandlerOK(req[r], b, nextId, nextFile)
    BY <1>1, HandlerKnown
  <1>4. req[r].op = "delete" /\ req[r].id \in Known
    BY <1>3 DEF HandlerOK, Has, Known
  <1>5. /\ q \in Request /\ q.pc = "log" /\ q.op = "delete" /\ q.by = req[r].by
        /\ q.kind = req[r].kind /\ q.id = req[r].id
    BY <1>2, <1>3, <1>4 DEF Request
  <1>6. HandlerOK(q, b, nextId, nextFile)
    BY <1>3, <1>4, <1>5 DEF HandlerOK, Has
  <1>7. req' = [req EXCEPT ![r] = q]
    BY <1>1, <1>2 DEF Inv, TypeOK
  <1>8. ~Adding(q) /\ ~Storing(q)
    BY <1>5 DEF Adding, Storing
  <1>9. \A i : ~AddOwed(req[r], i) /\ (DeletionOwed(q, i) <=> i = req[r].id)
    BY <1>5 DEF AddOwed, DeletionOwed
  <1>10. /\ req'[r] = q
         /\ \A s \in Requests : s # r => req'[s] = req[s]
         /\ req' \in [Requests -> Request]
    BY <1>1, <1>5, <1>7, OthersStay DEF Inv
  <1>11. UNCHANGED <<status, accounts, nextId, files, nextFile, entries, history, nextChange, mails, past>>
    BY DEF log
  <1>12. kept' = kept /\ Known' = Known
    BY <1>11 DEF kept, Known
  <1>13. live' = live \ {req[r].id} /\ \A i \in live' : items'[i] = items[i]
    BY DEF live
  <1>14. TypeOK'
    <2>1. items' \in [live' -> Item]
      BY <1>1, <1>13 DEF Inv, TypeOK
    <2> QED BY <2>1, <1>1, <1>10, <1>11, <1>12, <1>13 DEF Inv, TypeOK
  <1>15. Core(b)'
    BY <1>1, <1>6, <1>7, <1>8, <1>11, <1>13, CoreStep
  <1>16. Telling'
    <2>1. \A s \in Requests : req'[s].pc = "send" => req'[s] = req[s]
      BY <1>5, <1>10
    <2>2. \A i \in live' : i \in live /\ items'[i] = items[i]
      BY <1>13
    <2> QED BY <2>1, <2>2, <1>1, <1>11, TellingStep
  <1>17. FilesOK(b)'
    <2>1. FilesOK(b)
      BY <1>1 DEF Inv
    <2>2. ASSUME NEW s \in Requests, Storing(req'[s])
          PROVE  /\ req'[s].file \in files'
                 /\ \A i \in Known' : b[i].kind = "attachment" => b[i].file # req'[s].file
                 /\ \A t \in Requests \ {s} : Storing(req'[t]) => req'[t].file # req'[s].file
      <3>1. \A t \in Requests : Storing(req'[t]) => req'[t] = req[t]
        BY <1>8, <1>10
      <3> QED BY <3>1, <2>1, <2>2, <1>11, <1>12 DEF FilesOK
    <2>3. FilesBehindRows'
      <3> SUFFICES ASSUME ~past'.died, NEW i \in live', items'[i].kind = "attachment",
                          items'[i].file \notin files'
                   PROVE  \E s \in Requests : req'[s].pc = "delete" /\ req'[s].id = i
        BY DEF FilesBehindRows
      <3>1. PICK s \in Requests : req[s].pc = "delete" /\ req[s].id = i
        BY <2>1, <1>11, <1>13 DEF FilesOK, FilesBehindRows
      <3>2. s # r
        BY <3>1, <1>13
      <3> QED BY <3>1, <3>2, <1>10
    <2> QED BY <2>2, <2>3 DEF FilesOK, Storing
  <1>18. Recorded(b)'
    <2>1. Recorded(b)
      BY <1>1 DEF Inv
    <2>2. \A s \in Requests, i \in live' : ~DeletionOwed(req'[s], i)
      BY <2>1, <1>9, <1>10, <1>13 DEF Recorded
    <2>3. ASSUME ~past'.died, NEW i \in Known', b[i].kind # "worklog"
          PROVE  IF i \in live'
                 THEN \/ \E s \in Requests : AddOwed(req'[s], i)
                      \/ \E e \in entries' : e.action = "ADD" /\ e.id = i
                 ELSE b[i].by \in accounts' =>
                      \/ \E s \in Requests : DeletionOwed(req'[s], i)
                      \/ \E e \in entries' : e.action = "DELETE" /\ e.id = i
      <3>1. CASE i = req[r].id
        BY <3>1, <1>9, <1>10, <1>13
      <3>2. CASE i # req[r].id
        <4>1. i \in Known /\ (i \in live' <=> i \in live)
          BY <3>2, <1>12, <1>13
        <4>2. \A s \in Requests : AddOwed(req[s], i) => AddOwed(req'[s], i)
          BY <1>9, <1>10
        <4>3. \A s \in Requests : DeletionOwed(req[s], i) => DeletionOwed(req'[s], i)
          BY <3>2, <1>10 DEF DeletionOwed
        <4>4. CASE i \in live
          BY <4>1, <4>2, <4>4, <2>1, <2>3, <1>11 DEF Recorded
        <4>5. CASE i \notin live
          BY <4>1, <4>3, <4>5, <2>1, <2>3, <1>11 DEF Recorded
        <4> QED BY <4>4, <4>5
      <3> QED BY <3>1, <3>2
    <2> QED BY <2>2, <2>3 DEF Recorded, AddOwed, DeletionOwed
  <1> QED BY <1>12, <1>14, <1>15, <1>16, <1>17, <1>18, <1>1 DEF IInv, Inv

LEMMA LogEntryStep ==
  ASSUME IInv, NEW r \in Requests, Log(r), req[r].op # "status"
  PROVE  IInv'
  <1>1. PICK b \in [Known -> Item] : Inv(b)
    BY DEF IInv
  <1>2. PICK q : q = [req[r] EXCEPT !.pc = "entry"]
    OBVIOUS
  <1>3. req[r] \in Request /\ HandlerOK(req[r], b, nextId, nextFile) /\ req[r].pc = "log"
    BY <1>1, HandlerKnown DEF Log
  <1>4. /\ req[r].op \in {"add", "delete"}
        /\ req[r].id \in Known /\ req[r].by = b[req[r].id].by /\ req[r].kind = b[req[r].id].kind
        /\ req[r].kind \in Kinds /\ req[r].by \in accounts
    BY <1>3 DEF HandlerOK, Has, Known, Request, Log
  <1>5. /\ q \in Request /\ q.pc = "entry" /\ q.op = req[r].op /\ q.by = req[r].by
        /\ q.kind = req[r].kind /\ q.id = req[r].id
    BY <1>2, <1>3 DEF Request
  <1>6. HandlerOK(q, b, nextId, nextFile)
    BY <1>3, <1>4, <1>5 DEF HandlerOK, Has
  <1>7. req' = [req EXCEPT ![r] = q]
    BY <1>1, <1>2 DEF Inv, TypeOK, Log
  <1>8. (Adding(q) => Adding(req[r])) /\ ~Storing(q)
    BY <1>3, <1>5 DEF Adding, Has, Storing
  <1>9. \A i : ~AddOwed(q, i) /\ ~DeletionOwed(q, i)
    BY <1>5 DEF AddOwed, DeletionOwed
  <1>10. /\ req'[r] = q
         /\ \A s \in Requests : s # r => req'[s] = req[s]
         /\ req' \in [Requests -> Request]
    BY <1>1, <1>5, <1>7, OthersStay DEF Inv
  <1>11. UNCHANGED <<status, accounts, items, nextId, files, nextFile, history, nextChange, mails, past>>
    BY <1>4 DEF Log
  <1>12. live' = live /\ kept' = kept /\ Known' = Known
    BY <1>11 DEF live, kept, Known
  <1>13. PICK new : new = [action |-> IF req[r].op = "add" THEN "ADD" ELSE "DELETE",
                           id |-> req[r].id, kind |-> req[r].kind, by |-> req[r].by]
    OBVIOUS
  <1>14. /\ entries' = entries \cup {new}
         /\ new.id = req[r].id /\ new.kind = req[r].kind /\ new.by = req[r].by
         /\ new.action = IF req[r].op = "add" THEN "ADD" ELSE "DELETE"
    BY <1>13 DEF Log
  <1>15. TypeOK'
    <2>1. req[r].id \in Ids
      BY <1>1, <1>4, MaxIdAssumption DEF Inv, TypeOK, Known, Ids
    <2>2. new \in Entry
      BY <1>1, <1>4, <1>13, <2>1 DEF Entry, Inv, TypeOK
    <2> QED BY <2>2, <1>1, <1>10, <1>11, <1>12, <1>14 DEF Inv, TypeOK
  <1>16. Core(b)'
    BY <1>1, <1>4, <1>5, <1>6, <1>7, <1>8, <1>11, <1>12, <1>14, CoreStep
  <1>17. Telling'
    BY <1>1, <1>5, <1>10, <1>11, <1>12, TellingStep
  <1>18. FilesOK(b)'
    BY <1>1, <1>3, <1>7, <1>8, <1>11, FilesStep DEF Inv
  <1>19. Recorded(b)'
    <2>1. Recorded(b)
      BY <1>1 DEF Inv
    <2>2. \A s \in Requests, i \in live' : ~DeletionOwed(req'[s], i)
      BY <2>1, <1>9, <1>10, <1>12 DEF Recorded
    <2>3. ASSUME ~past'.died, NEW i \in Known', b[i].kind # "worklog"
          PROVE  IF i \in live'
                 THEN \/ \E s \in Requests : AddOwed(req'[s], i)
                      \/ \E e \in entries' : e.action = "ADD" /\ e.id = i
                 ELSE b[i].by \in accounts' =>
                      \/ \E s \in Requests : DeletionOwed(req'[s], i)
                      \/ \E e \in entries' : e.action = "DELETE" /\ e.id = i
      <3>1. CASE i \in live
        <4>1. \/ \E s \in Requests : AddOwed(req[s], i)
              \/ \E e \in entries : e.action = "ADD" /\ e.id = i
          BY <3>1, <2>1, <2>3, <1>11, <1>12 DEF Recorded
        <4>2. CASE \E e \in entries : e.action = "ADD" /\ e.id = i
          BY <3>1, <4>2, <1>12, <1>14
        <4>3. CASE \E s \in Requests : AddOwed(req[s], i)
          <5>1. PICK s \in Requests : AddOwed(req[s], i)
            BY <4>3
          <5>2. CASE s = r
            <6>1. new.action = "ADD" /\ new.id = i
              BY <5>1, <5>2, <1>14 DEF AddOwed
            <6> QED BY <3>1, <6>1, <1>12, <1>14
          <5>3. CASE s # r
            BY <3>1, <5>1, <5>3, <1>10, <1>12
          <5> QED BY <5>2, <5>3
        <4> QED BY <4>1, <4>2, <4>3
      <3>2. CASE i \notin live
        <4> SUFFICES ASSUME b[i].by \in accounts
                     PROVE  \/ \E s \in Requests : DeletionOwed(req'[s], i)
                            \/ \E e \in entries' : e.action = "DELETE" /\ e.id = i
          BY <3>2, <1>11, <1>12
        <4>1. \/ \E s \in Requests : DeletionOwed(req[s], i)
              \/ \E e \in entries : e.action = "DELETE" /\ e.id = i
          BY <3>2, <2>1, <2>3, <1>11, <1>12 DEF Recorded
        <4>2. CASE \E e \in entries : e.action = "DELETE" /\ e.id = i
          BY <4>2, <1>14
        <4>3. CASE \E s \in Requests : DeletionOwed(req[s], i)
          <5>1. PICK s \in Requests : DeletionOwed(req[s], i)
            BY <4>3
          <5>2. CASE s = r
            <6>1. new.action = "DELETE" /\ new.id = i
              BY <5>1, <5>2, <1>14 DEF DeletionOwed
            <6> QED BY <6>1, <1>14
          <5>3. CASE s # r
            BY <5>1, <5>3, <1>10
          <5> QED BY <5>2, <5>3
        <4> QED BY <4>1, <4>2, <4>3
      <3> QED BY <3>1, <3>2
    <2> QED BY <2>2, <2>3 DEF Recorded, AddOwed, DeletionOwed
  <1> QED BY <1>1, <1>12, <1>15, <1>16, <1>17, <1>18, <1>19 DEF IInv, Inv

-----------------------------------------------------------------------------
(* Who is told of a comment.  The author of a served comment is among the  *)
(* commenters every later request finds.                                   *)
LEMMA ServedIsComment ==
  ASSUME NEW b, Inv(b), NEW i \in live, Served(i)
  PROVE  items[i].kind = "comment" /\ items[i].by = b[i].by /\ items[i].by \in accounts
  <1>1. CASE i \in past.answered
    BY <1>1 DEF Inv, Core, AnswersOK, RowsOK
  <1>2. CASE i \notin past.answered
    <2>1. PICK r \in Requests : req[r].pc = "send" /\ req[r].id = i
      BY <1>2 DEF Served
    <2>2. b[i].kind = "comment"
      BY <2>1, HandlerKnown DEF HandlerOK, Has
    <2> QED BY <2>2 DEF Inv, Core, RowsOK
  <1> QED BY <1>1, <1>2

LEMMA RecipientsStep ==
  ASSUME IInv, NEW r \in Requests, Recipients(r)
  PROVE  IInv'
  <1>1. PICK b \in [Known -> Item] : Inv(b)
    BY DEF IInv
  <1>2. PICK assignee \in OrNull(Users) :
          Local(r, [req[r] EXCEPT !.pc = "send",
                                  !.to = ((Commenters \cup {assignee}) \ {req[r].by}) \cap accounts])
    BY DEF Recipients
  <1>3. PICK q : q = [req[r] EXCEPT !.pc = "send",
                                    !.to = ((Commenters \cup {assignee}) \ {req[r].by}) \cap accounts]
    OBVIOUS
  <1>4. req[r] \in Request /\ HandlerOK(req[r], b, nextId, nextFile) /\ req[r].pc = "recipients"
    BY <1>1, HandlerKnown DEF Recipients
  <1>5. /\ q.pc = "send" /\ q.op = req[r].op /\ q.by = req[r].by
        /\ q.kind = req[r].kind /\ q.id = req[r].id
        /\ q.to = ((Commenters \cup {assignee}) \ {req[r].by}) \cap accounts
    BY <1>3, <1>4 DEF Request
  <1>6. q \in Request
    <2>1. accounts \subseteq Users
      BY <1>1 DEF Inv, TypeOK
    <2> QED BY <2>1, <1>3, <1>4 DEF Request
  <1>7. HandlerOK(q, b, nextId, nextFile)
    BY <1>4, <1>5 DEF HandlerOK, Has
  <1>8. req[r].op = "add" /\ req[r].id \in Known /\ b[req[r].id].by = req[r].by
    BY <1>4 DEF HandlerOK, Has, Known
  <1>9. req' = [req EXCEPT ![r] = q]
    BY <1>2, <1>3 DEF Local
  <1>10. /\ Adding(req[r]) /\ ~Storing(q)
         /\ \A i : ~AddOwed(req[r], i) /\ ~DeletionOwed(req[r], i) /\ ~AddOwed(q, i) /\ ~DeletionOwed(q, i)
    BY <1>4, <1>5, <1>8 DEF Adding, Has, Storing, AddOwed, DeletionOwed
  <1>11. /\ req'[r] = q
         /\ \A s \in Requests : s # r => req'[s] = req[s]
         /\ req' \in [Requests -> Request]
    BY <1>1, <1>6, <1>9, OthersStay DEF Inv
  <1>12. UNCHANGED <<status, accounts, items, nextId, files, nextFile, entries, history, nextChange, mails, past>>
    BY <1>2 DEF Local, tables, log
  <1>13. live' = live /\ kept' = kept /\ Known' = Known
    BY <1>12 DEF live, kept, Known
  <1>14. TypeOK'
    BY <1>1, <1>11, <1>12, <1>13 DEF Inv, TypeOK
  <1>15. Core(b)'
    BY <1>1, <1>5, <1>7, <1>9, <1>10, <1>12, <1>13, CoreStep
  <1>16. Telling'
    <2>1. ASSUME NEW i \in live, NEW u \in Users, Tells(i, u)
          PROVE  Tells(i, u)'
      <3>1. \A s \in Requests : req[s].pc = "send" => req'[s] = req[s]
        BY <1>4, <1>11
      <3> QED BY <3>1, <2>1, <1>12 DEF Tells
    <2>2. ASSUME NEW i, Served(i)', i # req[r].id
          PROVE  Served(i)
      BY <2>2, <1>5, <1>11, <1>12 DEF Served
    <2>3. \A i \in live : items[i] \in Item
      BY <1>1 DEF Inv, TypeOK
    (* The one being served now tells the author of any served comment. *)
    <2>4. ASSUME NEW i \in live, NEW j \in live, i = req[r].id, Served(j), items[i].by # items[j].by
          PROVE  \A u : u = items[j].by => Tells(i, u)'
      <3>1. items[j].kind = "comment" /\ items[j].by \in accounts
        BY <2>4, <1>1, ServedIsComment
      <3>2. items[i].by = req[r].by
        BY <2>4, <1>1, <1>8 DEF Inv, Core, RowsOK
      <3>3. items[j].by \in q.to
        BY <3>1, <3>2, <2>4, <1>5 DEF Commenters
      <3> QED BY <3>3, <2>4, <1>5, <1>11 DEF Tells
    <2>5. ASSUME NEW i \in live', NEW j \in live', Served(i)', Served(j)', items'[i].by # items'[j].by
          PROVE  Tells(i, items[j].by)' \/ Tells(j, items[i].by)'
      <3>1. i \in live /\ j \in live /\ items[i].by # items[j].by
        BY <2>5, <1>12, <1>13
      <3>2. PICK u \in Users, v \in Users : u = items[i].by /\ v = items[j].by
        BY <3>1, <2>3 DEF Item
      <3>3. Tells(i, v)' \/ Tells(j, u)'
        <4>1. CASE i = req[r].id
          <5>1. Served(j)
            BY <4>1, <3>1, <2>2, <2>5
          <5> QED BY <4>1, <5>1, <3>1, <3>2, <2>4
        <4>2. CASE j = req[r].id
          <5>1. Served(i)
            BY <4>2, <3>1, <2>2, <2>5
          <5> QED BY <4>2, <5>1, <3>1, <3>2, <2>4
        <4>3. CASE i # req[r].id /\ j # req[r].id
          <5>1. Served(i) /\ Served(j)
            BY <4>3, <2>2, <2>5
          <5>2. Tells(i, v) \/ Tells(j, u)
            BY <5>1, <3>1, <3>2, <1>1 DEF Inv, Telling
          <5> QED BY <5>2, <3>1, <2>1
        <4> QED BY <4>1, <4>2, <4>3
      <3>4. items'[i].by = u /\ items'[j].by = v
        BY <3>2, <1>12
      <3> QED BY <3>3, <3>4 DEF Tells
    <2> QED BY <2>5 DEF Telling
  <1>17. FilesOK(b)'
    BY <1>1, <1>4, <1>9, <1>10, <1>12, FilesStep DEF Inv
  <1>18. Recorded(b)'
    BY <1>1, <1>9, <1>10, <1>12, RecordedStep DEF Inv, Core, RowsOK
  <1> QED BY <1>1, <1>13, <1>14, <1>15, <1>16, <1>17, <1>18 DEF IInv, Inv

(* A step that keeps rows, who is served and who is told. *)
LEMMA TellingKept ==
  ASSUME Telling, UNCHANGED items,
         \A i : Served(i)' => Served(i),
         \A i, u : Tells(i, u) => Tells(i, u)'
  PROVE  Telling'
  <1>1. ASSUME NEW i \in live', NEW j \in live', Served(i)', Served(j)', items'[i].by # items'[j].by
        PROVE  Tells(i, items[j].by)' \/ Tells(j, items[i].by)'
    <2>1. i \in live /\ j \in live /\ items[i].by # items[j].by /\ Served(i) /\ Served(j)
      BY <1>1 DEF live
    <2>2. PICK u, v : u = items[i].by /\ v = items[j].by
      OBVIOUS
    <2>3. Tells(i, v) \/ Tells(j, u)
      BY <2>1, <2>2 DEF Telling
    <2>4. Tells(i, v)' \/ Tells(j, u)'
      BY <2>3
    <2>5. items'[i].by = u /\ items'[j].by = v
      BY <2>2
    <2> QED BY <2>4, <2>5 DEF Tells
  <1> QED BY <1>1 DEF Telling

LEMMA SendStep ==
  ASSUME IInv, NEW r \in Requests, NEW u \in Users, Send(r, u)
  PROVE  IInv'
  <1> USE DEF Send
  <1>1. PICK b \in [Known -> Item] : Inv(b)
    BY DEF IInv
  <1>2. PICK q : q = [req[r] EXCEPT !.to = @ \ {u}]
    OBVIOUS
  <1>3. req[r] \in Request /\ HandlerOK(req[r], b, nextId, nextFile) /\ req[r].pc = "send"
    BY <1>1, HandlerKnown
  <1>4. /\ q \in Request /\ q.pc = "send" /\ q.op = req[r].op /\ q.by = req[r].by
        /\ q.kind = req[r].kind /\ q.id = req[r].id /\ q.to = req[r].to \ {u}
    BY <1>2, <1>3 DEF Request
  <1>5. HandlerOK(q, b, nextId, nextFile)
    BY <1>3, <1>4 DEF HandlerOK, Has
  <1>6. req[r].op = "add" /\ req[r].id \in Known
    BY <1>3 DEF HandlerOK, Has, Known
  <1>7. req' = [req EXCEPT ![r] = q]
    BY <1>1, <1>2 DEF Inv, TypeOK
  <1>8. /\ Adding(req[r]) /\ ~Storing(q)
        /\ \A i : ~AddOwed(req[r], i) /\ ~DeletionOwed(req[r], i) /\ ~AddOwed(q, i) /\ ~DeletionOwed(q, i)
    BY <1>3, <1>4, <1>6 DEF Adding, Has, Storing, AddOwed, DeletionOwed
  <1>9. /\ req'[r] = q
        /\ \A s \in Requests : s # r => req'[s] = req[s]
        /\ req' \in [Requests -> Request]
    BY <1>1, <1>4, <1>7, OthersStay DEF Inv
  <1>10. UNCHANGED <<status, accounts, items, nextId, files, nextFile, entries, history, nextChange, past>>
    BY DEF tables, log
  <1>11. live' = live /\ kept' = kept /\ Known' = Known
    BY <1>10 DEF live, kept, Known
  <1>12. TypeOK'
    <2>1. req[r].id \in Ids
      BY <1>1, <1>6, MaxIdAssumption DEF Inv, TypeOK, Known, Ids
    <2>2. mails' \subseteq Users \X Ids
      BY <2>1, <1>1 DEF Inv, TypeOK
    <2> QED BY <2>2, <1>1, <1>9, <1>10, <1>11 DEF Inv, TypeOK
  <1>13. Core(b)'
    BY <1>1, <1>4, <1>5, <1>7, <1>8, <1>10, <1>11, CoreStep
  <1>14. Telling'
    <2>1. \A i : Served(i)' => Served(i)
      BY <1>3, <1>4, <1>9, <1>10 DEF Served
    <2>2. ASSUME NEW i, NEW v, Tells(i, v)
          PROVE  Tells(i, v)'
      <3>1. CASE <<v, i>> \in mails
        BY <3>1 DEF Tells
      <3>2. CASE <<v, i>> \notin mails
        <4>1. PICK s \in Requests : req[s].pc = "send" /\ req[s].id = i /\ v \in req[s].to
          BY <2>2, <3>2 DEF Tells
        <4>2. CASE s = r /\ v = u
          BY <4>1, <4>2 DEF Tells
        <4>3. CASE s = r /\ v # u
          BY <4>1, <4>3, <1>4, <1>9 DEF Tells
        <4>4. CASE s # r
          BY <4>1, <4>4, <1>9 DEF Tells
        <4> QED BY <4>2, <4>3, <4>4
      <3> QED BY <3>1, <3>2
    <2> QED BY <2>1, <2>2, <1>1, <1>10, TellingKept DEF Inv
  <1>15. FilesOK(b)'
    BY <1>1, <1>3, <1>7, <1>8, <1>10, FilesStep DEF Inv
  <1>16. Recorded(b)'
    BY <1>1, <1>7, <1>8, <1>10, RecordedStep DEF Inv, Core, RowsOK
  <1> QED BY <1>1, <1>11, <1>12, <1>13, <1>14, <1>15, <1>16 DEF IInv, Inv

LEMMA AnswerStep ==
  ASSUME IInv, NEW r \in Requests, Answer(r)
  PROVE  IInv'
  <1> USE DEF Answer
  <1>1. PICK b \in [Known -> Item] : Inv(b)
    BY DEF IInv
  <1>2. req[r] \in Request /\ HandlerOK(req[r], b, nextId, nextFile) /\ req[r].pc = "send"
    BY <1>1, HandlerKnown
  <1>3. req[r].op = "add" /\ req[r].id \in Known /\ b[req[r].id].kind = "comment"
    BY <1>2 DEF HandlerOK, Has, Known
  <1>4. /\ Adding(req[r])
        /\ \A i : ~AddOwed(req[r], i) /\ ~DeletionOwed(req[r], i)
    BY <1>2, <1>3 DEF Adding, Has, AddOwed, DeletionOwed
  <1>5. /\ req'[r] = Idle
        /\ \A s \in Requests : s # r => req'[s] = req[s]
        /\ req' \in [Requests -> Request]
    BY <1>1, IdleFacts, OthersStay DEF Inv
  <1>6. UNCHANGED <<status, accounts, items, nextId, files, nextFile, entries, history, nextChange, mails>>
    BY DEF tables, log
  <1>7. live' = live /\ kept' = kept /\ Known' = Known
    BY <1>6 DEF live, kept, Known
  <1>8. /\ past'.answered = past.answered \cup {req[r].id}
        /\ past'.died = past.died /\ past.answered \subseteq Ids
        /\ past' = [past EXCEPT !.answered = @ \cup {req[r].id}]
    BY <1>1 DEF Inv, TypeOK, Past
  <1>9. TypeOK'
    <2>1. req[r].id \in Ids
      BY <1>1, <1>3, MaxIdAssumption DEF Inv, TypeOK, Known, Ids
    <2>2. past' \in Past
      BY <2>1, <1>1, <1>8 DEF Inv, TypeOK, Past
    <2> QED BY <2>2, <1>1, <1>5, <1>6, <1>7 DEF Inv, TypeOK
  <1>10. Core(b)'
    <2>1. \A s \in Requests : HandlerOK(req'[s], b, nextId', nextFile')
      BY <1>1, <1>5, <1>6, IdleFacts DEF Inv, Core
    <2>2. RowsOK(b)' /\ NamesOK(b)' /\ EntriesOK(b)'
      BY <1>1, <1>6, <1>7 DEF Inv, Core, RowsOK, NamesOK, EntriesOK
    <2>3. AnswersOK(b)
      BY <1>1 DEF Inv, Core
    <2>4. \A s \in Requests : Adding(req'[s]) => s # r /\ req'[s] = req[s]
      BY <1>5, IdleFacts
    <2>5. \A i \in past'.answered : i \in Known' /\ b[i].kind = "comment"
      BY <2>3, <1>3, <1>7, <1>8 DEF AnswersOK
    <2>6. \A s \in Requests : Adding(req'[s]) => req'[s].id \notin past'.answered
      BY <2>3, <2>4, <1>4, <1>8 DEF AnswersOK
    <2>7. \A s, t \in Requests : Adding(req'[s]) /\ Adding(req'[t]) /\ req'[s].id = req'[t].id => s = t
      BY <2>3, <2>4 DEF AnswersOK
    <2>8. AnswersOK(b)'
      BY <2>5, <2>6, <2>7 DEF AnswersOK, Adding, Has
    <2> QED BY <2>1, <2>2, <2>8 DEF Core
  <1>11. Telling'
    <2>1. \A i : Served(i)' => Served(i)
      BY <1>2, <1>5, <1>8, IdleFacts DEF Served
    <2>2. \A i, v : Tells(i, v) => Tells(i, v)'
      BY <1>5, <1>6 DEF Tells
    <2> QED BY <2>1, <2>2, <1>1, <1>6, TellingKept DEF Inv
  <1>12. FilesOK(b)'
    BY <1>1, <1>2, <1>6, <1>8, IdleFacts, FilesStep DEF Inv
  <1>13. Recorded(b)'
    BY <1>1, <1>4, <1>6, <1>8, IdleFacts, RecordedStep DEF Inv, Core, RowsOK
  <1> QED BY <1>1, <1>7, <1>9, <1>10, <1>11, <1>12, <1>13 DEF IInv, Inv

-----------------------------------------------------------------------------
(* A new row: what is known of rows grows by it. *)
LEMMA InsertStep ==
  ASSUME IInv, NEW r \in Requests, Insert(r)
  PROVE  IInv'
  <1>1. PICK b \in [Known -> Item] : Inv(b)
    BY DEF IInv
  <1>2. PICK q : q = [req[r] EXCEPT !.pc = "refresh", !.id = nextId]
    OBVIOUS
  <1>3. PICK row : row = [kind |-> req[r].kind, by |-> req[r].by, file |-> req[r].file]
    OBVIOUS
  <1>4. PICK c : c = [i \in 1 .. nextId |-> IF i = nextId THEN row ELSE b[i]]
    OBVIOUS
  <1>5. req[r] \in Request /\ HandlerOK(req[r], b, nextId, nextFile) /\ req[r].pc = "insert"
    BY <1>1, HandlerKnown DEF Insert
  <1>6. nextId \in Ids /\ nextId \in Nat \ {0} /\ nextFile \in Nat
    BY <1>1, MaxIdAssumption DEF Insert, Inv, TypeOK, Ids
  <1>7. /\ row \in Item
        /\ row.kind = req[r].kind /\ row.by = req[r].by /\ row.file = req[r].file
        /\ req[r].op = "add" /\ req[r].kind \in Kinds
    BY <1>3, <1>5 DEF HandlerOK, Item, Request
  <1>8. req[r].kind # "worklog" => req[r].by \in accounts
    BY DEF Insert, Stands
  <1>9. /\ q \in Request /\ q.pc = "refresh" /\ q.op = "add" /\ q.by = req[r].by
        /\ q.kind = req[r].kind /\ q.id = nextId
    BY <1>2, <1>5, <1>6, <1>7 DEF Request, OrNull
  <1>10. req' = [req EXCEPT ![r] = q]
    <2>1. req' = [req EXCEPT ![r] = [req[r] EXCEPT !.pc = "refresh", !.id = nextId]]
      BY <1>1, <1>5 DEF Insert, Inv, TypeOK, Request
    <2> QED BY <2>1, <1>2
  <1>11. /\ req'[r] = q
         /\ \A s \in Requests : s # r => req'[s] = req[s]
         /\ req' \in [Requests -> Request]
    BY <1>1, <1>9, <1>10, OthersStay DEF Inv
  <1>12. UNCHANGED <<status, accounts, files, nextFile, entries, history, nextChange, mails, past>>
    BY DEF Insert, log
  <1>13. /\ nextId' = nextId + 1
         /\ items' = [i \in live \cup {nextId} |-> IF i = nextId THEN row ELSE items[i]]
    BY <1>3 DEF Insert
  <1>14. /\ Known' = Known \cup {nextId} /\ nextId \notin Known
         /\ live \subseteq Known /\ kept' = kept /\ nextId \notin live
    BY <1>1, <1>6, <1>12, <1>13 DEF Known, kept, Inv, Core, RowsOK
  <1>15. /\ live' = live \cup {nextId} /\ items'[nextId] = row
         /\ \A i \in live : items'[i] = items[i]
    BY <1>13, <1>14 DEF live
  <1>16. /\ c \in [Known' -> Item] /\ c[nextId] = row
         /\ \A i \in Known : c[i] = b[i]
    BY <1>1, <1>4, <1>6, <1>7, <1>13 DEF Known, Inv
  <1>17. ASSUME NEW s \in Requests, s # r
         PROVE  /\ HandlerOK(req'[s], c, nextId', nextFile')
                /\ Has(req'[s]) => req'[s].id \in Known
    <2>1. HandlerOK(req[s], b, nextId, nextFile) /\ req'[s] = req[s]
      BY <1>17, <1>1, <1>11, HandlerKnown
    <2>2. Has(req[s]) => req[s].id \in Known
      BY <2>1 DEF HandlerOK, Known
    <2>3. req[s].pc = "remove" => Has(req[s])
      BY <2>1 DEF HandlerOK, Has
    <2> QED BY <2>1, <2>2, <2>3, <1>6, <1>12, <1>13, <1>16 DEF HandlerOK, Known
  <1>18. TypeOK'
    <2>1. items' \in [live' -> Item]
      BY <1>1, <1>7, <1>13, <1>15 DEF Inv, TypeOK
    <2>2. live' \subseteq Ids /\ nextId' \in 1 .. MaxId + 1
      BY <1>1, <1>6, <1>13, <1>15, MaxIdAssumption DEF Inv, TypeOK, Ids
    <2> QED BY <2>1, <2>2, <1>1, <1>11, <1>12, <1>14 DEF Inv, TypeOK
  <1>19. Core(c)'
    <2>1. Core(b) /\ FilesOK(b)
      BY <1>1 DEF Inv
    <2>2. HandlerOK(q, c, nextId', nextFile')
      BY <1>5, <1>6, <1>7, <1>9, <1>13, <1>16 DEF HandlerOK, Has
    <2>3. RowsOK(c)'
      BY <2>1, <1>7, <1>8, <1>12, <1>14, <1>15, <1>16 DEF Core, RowsOK
    <2>4. NamesOK(c)'
      <3>1. NamesOK(b)
        BY <2>1 DEF Core
      <3>2. row.kind = "attachment" =>
              /\ row.file \in 1 .. nextFile - 1
              /\ \A i \in Known : b[i].kind = "attachment" => b[i].file # row.file
        BY <2>1, <1>5, <1>7 DEF HandlerOK, FilesOK, Storing
      <3>3. \A i \in Known' : c[i].kind = "attachment" => c[i].file \in 1 .. nextFile' - 1
        BY <3>1, <3>2, <1>12, <1>14, <1>16 DEF NamesOK
      <3>4. \A i, j \in Known' :
               c[i].kind = "attachment" /\ c[j].kind = "attachment" /\ c[i].file = c[j].file => i = j
        BY <3>1, <3>2, <1>14, <1>16 DEF NamesOK
      <3> QED BY <3>3, <3>4 DEF NamesOK
    <2>5. EntriesOK(c)'
      BY <2>1, <1>12, <1>14, <1>16 DEF Core, EntriesOK
    <2>6. AnswersOK(c)'
      <3>1. AnswersOK(b)
        BY <2>1 DEF Core
      <3>2. \A i \in past'.answered : i \in Known /\ i \in Known' /\ c[i].kind = "comment"
        BY <3>1, <1>12, <1>14, <1>16 DEF AnswersOK
      <3>3. \A s \in Requests : Adding(req'[s]) => req'[s].id \notin past'.answered
        BY <3>1, <3>2, <1>9, <1>11, <1>12, <1>14 DEF AnswersOK
      <3>4. \A s \in Requests : s # r /\ Adding(req'[s]) => req'[s].id # nextId
        BY <1>14, <1>17 DEF Adding
      <3>5. \A s, t \in Requests :
              Adding(req'[s]) /\ Adding(req'[t]) /\ req'[s].id = req'[t].id => s = t
        BY <3>1, <3>4, <1>9, <1>11 DEF AnswersOK
      <3> QED BY <3>2, <3>3, <3>5 DEF AnswersOK, Adding, Has
    <2>7. \A s \in Requests : HandlerOK(req'[s], c, nextId', nextFile')
      BY <2>2, <1>11, <1>17
    <2> QED BY <2>3, <2>4, <2>5, <2>6, <2>7 DEF Core
  <1>20. Telling'
    <2>1. \A s \in Requests : req'[s].pc = "send" => req'[s] = req[s]
      BY <1>9, <1>11
    <2>2. \A i \in live' : i \in Known => i \in live /\ items'[i] = items[i]
      BY <1>14, <1>15
    <2> QED BY <2>1, <2>2, <1>1, <1>12, TellingStep
  <1>21. FilesOK(c)'
    <2>1. FilesOK(b)
      BY <1>1 DEF Inv
    <2>2. row.kind = "attachment" =>
            /\ row.file \in files
            /\ \A s \in Requests \ {r} : Storing(req[s]) => req[s].file # row.file
      BY <2>1, <1>5, <1>7 DEF FilesOK, Storing
    <2>3. \A s \in Requests : Storing(req'[s]) => s # r /\ req'[s] = req[s]
      BY <1>9, <1>11 DEF Storing
    <2>4. ASSUME NEW s \in Requests, Storing(req'[s])
          PROVE  /\ req'[s].file \in files'
                 /\ \A i \in Known' : c[i].kind = "attachment" => c[i].file # req'[s].file
                 /\ \A t \in Requests \ {s} : Storing(req'[t]) => req'[t].file # req'[s].file
      <3>1. s # r /\ req'[s] = req[s] /\ Storing(req[s])
        BY <2>3, <2>4
      <3>2. \A i \in Known' : c[i].kind = "attachment" => c[i].file # req'[s].file
        BY <3>1, <2>1, <2>2, <1>14, <1>16 DEF FilesOK
      <3>3. req'[s].file \in files'
        BY <3>1, <2>1, <1>12 DEF FilesOK
      <3>4. \A t \in Requests \ {s} : Storing(req'[t]) => req'[t].file # req'[s].file
        BY <3>1, <2>1, <2>3 DEF FilesOK
      <3> QED BY <3>2, <3>3, <3>4
    <2>5. FilesBehindRows'
      <3> SUFFICES ASSUME ~past'.died, NEW i \in live', items'[i].kind = "attachment",
                          items'[i].file \notin files'
                   PROVE  \E s \in Requests : req'[s].pc = "delete" /\ req'[s].id = i
        BY DEF FilesBehindRows
      <3>1. i \in live /\ items'[i] = items[i]
        BY <2>2, <1>12, <1>15
      <3>2. PICK s \in Requests : req[s].pc = "delete" /\ req[s].id = i
        BY <3>1, <2>1, <1>12 DEF FilesOK, FilesBehindRows
      <3> QED BY <3>2, <1>5, <1>11
    <2> QED BY <2>4, <2>5 DEF FilesOK, Storing
  <1>22. Recorded(c)'
    <2>1. Recorded(b)
      BY <1>1 DEF Inv
    <2>2. \A s \in Requests, i \in live' : ~DeletionOwed(req'[s], i)
      <3>1. ASSUME NEW s \in Requests, NEW i \in live', DeletionOwed(req'[s], i)
            PROVE  FALSE
        <4>1. s # r
          BY <3>1, <1>9, <1>11 DEF DeletionOwed
        <4>2. i \in Known
          BY <3>1, <4>1, <1>17 DEF DeletionOwed, Has
        <4>3. i \in live /\ DeletionOwed(req[s], i)
          BY <3>1, <4>1, <4>2, <1>11, <1>14, <1>15
        <4> QED BY <4>3, <2>1 DEF Recorded
      <3> QED BY <3>1
    <2>3. ASSUME ~past'.died, NEW i \in Known', c[i].kind # "worklog"
          PROVE  IF i \in live'
                 THEN \/ \E s \in Requests : AddOwed(req'[s], i)
                      \/ \E e \in entries' : e.action = "ADD" /\ e.id = i
                 ELSE c[i].by \in accounts' =>
                      \/ \E s \in Requests : DeletionOwed(req'[s], i)
                      \/ \E e \in entries' : e.action = "DELETE" /\ e.id = i
      <3>1. CASE i = nextId
        <4>1. AddOwed(req'[r], i)
          BY <3>1, <1>9, <1>11 DEF AddOwed
        <4> QED BY <3>1, <4>1, <1>15
      <3>2. CASE i # nextId
        <4>1. i \in Known /\ c[i] = b[i] /\ (i \in live' <=> i \in live)
          BY <3>2, <1>14, <1>15, <1>16
        <4>2. \A s \in Requests : AddOwed(req[s], i) => AddOwed(req'[s], i)
          BY <1>5, <1>11 DEF AddOwed
        <4>3. \A s \in Requests : DeletionOwed(req[s], i) => DeletionOwed(req'[s], i)
          BY <1>5, <1>11 DEF DeletionOwed
        <4>4. CASE i \in live
          BY <4>1, <4>2, <4>4, <2>1, <2>3, <1>12 DEF Recorded
        <4>5. CASE i \notin live
          BY <4>1, <4>3, <4>5, <2>1, <2>3, <1>12 DEF Recorded
        <4> QED BY <4>4, <4>5
      <3> QED BY <3>1, <3>2
    <2> QED BY <2>2, <2>3 DEF Recorded, AddOwed, DeletionOwed
  <1> QED BY <1>16, <1>18, <1>19, <1>20, <1>21, <1>22 DEF IInv, Inv

-----------------------------------------------------------------------------
(* Rows that go with their task or with their author. *)
LEMMA RowsGo ==
  ASSUME NEW b, Inv(b), TypeOK', UNCHANGED <<nextId, files, nextFile, mails, req, past>>,
         live' \subseteq live, \A i \in live' : items'[i] = items[i],
         entries' \subseteq entries, accounts' \subseteq accounts,
         \A i \in live' : b[i].kind # "worklog" => b[i].by \in accounts',
         \A e \in entries' : e.by \in accounts',
         \A e \in entries : e.by \in accounts' => e \in entries',
         \A i \in live \ live' : b[i].kind # "worklog" => b[i].by \notin accounts'
  PROVE  IInv'
  <1>1. Known' = Known
    BY DEF Known
  <1>2. Core(b)'
    <2>1. RowsOK(b)'
      BY <1>1 DEF Inv, Core, RowsOK
    <2>2. NamesOK(b)' /\ AnswersOK(b)'
      BY <1>1 DEF Inv, Core, NamesOK, AnswersOK, Adding, Has
    <2>3. EntriesOK(b)'
      BY <1>1 DEF Inv, Core, EntriesOK
    <2> QED BY <2>1, <2>2, <2>3 DEF Inv, Core
  <1>3. Telling'
    BY TellingStep
  <1>4. FilesOK(b)'
    <2>1. FilesBehindRows'
      BY DEF Inv, FilesOK, FilesBehindRows
    <2> QED BY <2>1, <1>1 DEF Inv, FilesOK, Storing
  <1>5. Recorded(b)'
    <2>1. Recorded(b) /\ EntriesOK(b)
      BY DEF Inv, Core
    <2>2. \A r \in Requests, i \in live' : ~DeletionOwed(req'[r], i)
      BY <2>1 DEF Recorded
    <2>3. ASSUME NEW i \in Known, b[i].by \in accounts', NEW e \in entries, e.id = i
          PROVE  e \in entries'
      BY <2>1, <2>3 DEF EntriesOK
    <2>4. ASSUME ~past'.died, NEW i \in Known', b[i].kind # "worklog"
          PROVE  IF i \in live'
                 THEN \/ \E r \in Requests : AddOwed(req'[r], i)
                      \/ \E e \in entries' : e.action = "ADD" /\ e.id = i
                 ELSE b[i].by \in accounts' =>
                      \/ \E r \in Requests : DeletionOwed(req'[r], i)
                      \/ \E e \in entries' : e.action = "DELETE" /\ e.id = i
      <3>1. CASE i \in live'
        BY <3>1, <2>1, <2>3, <2>4, <1>1 DEF Recorded
      <3>2. CASE i \notin live' /\ b[i].by \in accounts'
        <4>1. i \notin live
          BY <3>2, <2>4
        <4> QED BY <4>1, <3>2, <2>1, <2>3, <2>4, <1>1 DEF Recorded
      <3> QED BY <3>1, <3>2
    <2> QED BY <2>2, <2>4 DEF Recorded, AddOwed, DeletionOwed
  <1> QED BY <1>1, <1>2, <1>3, <1>4, <1>5 DEF IInv, Inv

LEMMA DeleteTaskStep ==
  ASSUME IInv, DeleteTask
  PROVE  IInv'
  <1> USE DEF DeleteTask
  <1>1. PICK b \in [Known -> Item] : Inv(b)
    BY DEF IInv
  <1>2. /\ live' = {i \in live : items[i].kind # "worklog"}
        /\ \A i \in live' : items'[i] = items[i]
        /\ items' = [i \in live' |-> items[i]]
    BY DEF live
  <1>3. UNCHANGED <<accounts, nextId, entries, history, nextChange, files, nextFile, mails, req, past>>
    BY DEF log
  <1>4. TypeOK'
    <2>1. items' \in [live' -> Item] /\ live' \subseteq Ids
      BY <1>1, <1>2 DEF Inv, TypeOK
    <2>2. status' \in OrNull(Statuses) /\ kept' = kept
      BY <1>3 DEF OrNull, kept
    <2> QED BY <2>1, <2>2, <1>1, <1>3 DEF Inv, TypeOK
  <1>5. RowsOK(b) /\ EntriesOK(b)
    BY <1>1 DEF Inv, Core
  <1>6. \A i \in live' : b[i].kind # "worklog" => b[i].by \in accounts'
    BY <1>2, <1>3, <1>5 DEF RowsOK
  <1>7. \A i \in live \ live' : b[i].kind = "worklog"
    BY <1>2, <1>5 DEF RowsOK
  <1>8. \A e \in entries' : e.by \in accounts'
    BY <1>3, <1>5 DEF EntriesOK
  <1> QED BY <1>1, <1>2, <1>3, <1>4, <1>6, <1>7, <1>8, RowsGo

LEMMA DeleteAccountStep ==
  ASSUME IInv, NEW u \in Users, DeleteAccount(u)
  PROVE  IInv'
  <1> USE DEF DeleteAccount
  <1>1. PICK b \in [Known -> Item] : Inv(b)
    BY DEF IInv
  <1>2. /\ live' = {i \in live : items[i].kind = "worklog" \/ items[i].by # u}
        /\ \A i \in live' : items'[i] = items[i]
        /\ items' = [i \in live' |-> items[i]]
    BY DEF live
  <1>3. /\ kept' = {i \in kept : history[i].by # u}
        /\ history' = [i \in kept' |-> history[i]]
    BY DEF kept
  <1>4. TypeOK'
    <2>1. items' \in [live' -> Item] /\ live' \subseteq Ids
      BY <1>1, <1>2 DEF Inv, TypeOK
    <2>2. history' \in [kept' -> Change] /\ kept' \subseteq 1 .. nextChange' - 1
      BY <1>1, <1>3 DEF Inv, TypeOK
    <2> QED BY <2>1, <2>2, <1>1 DEF Inv, TypeOK
  <1>5. RowsOK(b) /\ EntriesOK(b)
    BY <1>1 DEF Inv, Core
  <1>6. \A i \in live' : b[i].kind # "worklog" => b[i].by \in accounts'
    BY <1>2, <1>5 DEF RowsOK
  <1>7. \A i \in live \ live' : b[i].by \notin accounts'
    BY <1>2, <1>5 DEF RowsOK
  <1>8. \A e \in entries' : e.by \in accounts'
    BY <1>5 DEF EntriesOK
  <1> QED BY <1>1, <1>2, <1>4, <1>6, <1>7, <1>8, RowsGo

-----------------------------------------------------------------------------
LEMMA InitInv ==
  Init => IInv
  <1> SUFFICES ASSUME Init PROVE IInv
    OBVIOUS
  <1> USE DEF Init
  <1>1. live = {} /\ kept = {} /\ Known = {}
    BY DEF live, kept, Known
  <1>2. PICK b : b = [i \in Known |-> NULL]
    OBVIOUS
  <1>3. \A r \in Requests : req[r] = Idle
    OBVIOUS
  <1>4. TypeOK
    <2>1. past \in Past
      BY DEF Past
    <2>2. items \in [live -> Item] /\ history \in [kept -> Change]
      BY <1>1
    <2>3. req \in [Requests -> Request]
      BY IdleFacts
    <2>4. nextId \in 1 .. MaxId + 1 /\ nextFile \in 1 .. MaxId + 1
      BY MaxIdAssumption
    <2> QED BY <1>1, <2>1, <2>2, <2>3, <2>4, StatusAssumption DEF TypeOK, OrNull
  <1>5. b \in [Known -> Item]
    BY <1>1, <1>2
  <1>6. Core(b)
    BY <1>1, <1>3, IdleFacts DEF Core, RowsOK, NamesOK, EntriesOK, AnswersOK
  <1>7. Telling
    BY <1>1 DEF Telling
  <1>8. FilesOK(b)
    BY <1>1, <1>3, IdleFacts DEF FilesOK, FilesBehindRows
  <1>9. Recorded(b)
    BY <1>1 DEF Recorded
  <1> QED BY <1>4, <1>5, <1>6, <1>7, <1>8, <1>9 DEF IInv, Inv

LEMMA ArriveStep ==
  ASSUME IInv, NEW r \in Requests, Arrive(r)
  PROVE  IInv'
  BY StartAddStep, StartDeleteStep, StartStatusStep DEF Arrive

LEMMA ProceedStep ==
  ASSUME IInv, NEW r \in Requests, Proceed(r)
  PROVE  IInv'
  <1>1. CASE WriteFile(r) \/ Insert(r) \/ Refresh(r)
    BY <1>1, WriteFileStep, InsertStep, RefreshStep
  <1>2. CASE FailInsert(r) \/ NoMoreIds(r) \/ FailStatus(r)
    BY <1>2, FailStep
  <1>3. CASE RemoveFile(r) \/ Delete(r)
    BY <1>3, RemoveFileStep, DeleteStep
  <1>4. CASE WriteStatus(r) \/ RereadStatus(r)
    BY <1>4, WriteStatusStep, RereadStatusStep
  <1>5. CASE Log(r)
    BY <1>5, LogStatusStep, LogEntryStep
  <1>6. CASE FailLog(r) \/ RereadEntry(r)
    BY <1>6, FailLogStep, RereadEntryStep
  <1>7. CASE TaskAgain(r) \/ Recipients(r) \/ Answer(r)
    BY <1>7, TaskAgainStep, RecipientsStep, AnswerStep
  <1>8. CASE \E u \in Users : Send(r, u)
    BY <1>8, SendStep
  <1> QED BY <1>1, <1>2, <1>3, <1>4, <1>5, <1>6, <1>7, <1>8 DEF Proceed

LEMMA NextInv ==
  IInv /\ [Next]_vars => IInv'
  <1> SUFFICES ASSUME IInv, [Next]_vars
               PROVE  IInv'
    OBVIOUS
  <1>1. CASE Next
    BY <1>1, ArriveStep, ProceedStep, AbortStep, DeleteTaskStep, DeleteAccountStep DEF Next
  <1>2. CASE UNCHANGED vars
    <2>1. PICK b \in [Known -> Item] : Inv(b)
      BY DEF IInv
    <2>2. UNCHANGED <<nextId, files, nextFile, mails, req, past>> /\ live' = live /\ items' = items
          /\ entries' = entries /\ accounts' = accounts
      BY <1>2 DEF vars, live
    <2>3. TypeOK'
      BY <1>2, <2>1, <2>2 DEF vars, Inv, TypeOK, kept
    <2>4. \A i \in live' : b[i].kind # "worklog" => b[i].by \in accounts'
      BY <2>1, <2>2 DEF Inv, Core, RowsOK
    <2>5. \A e \in entries' : e.by \in accounts'
      BY <2>1, <2>2 DEF Inv, Core, EntriesOK
    <2> QED BY <2>1, <2>2, <2>3, <2>4, <2>5, RowsGo
  <1> QED BY <1>1, <1>2

THEOREM Invariance ==
  Spec => []IInv
  BY InitInv, NextInv, PTL DEF Spec

-----------------------------------------------------------------------------
(* Rows, files, entries, mails and handlers keep their types: in           *)
(* particular ids come from the sequences only, and a handler never holds  *)
(* an id it was not given.                                                 *)
THEOREM TypeCorrect ==
  Spec => []TypeOK
  <1>1. IInv => TypeOK
    BY DEF IInv, Inv
  <1> QED BY <1>1, Invariance, PTL

(* Of two people whose comments on the task have both been answered, one   *)
(* at least was written to about the other's comment, however their        *)
(* requests interleave: who looks for commenters second finds the first.   *)
THEOREM OneIsTold ==
  Spec => []SomeoneTold
  <1>1. IInv => SomeoneTold
    <2> SUFFICES ASSUME IInv, NEW i \in live \cap past.answered, NEW j \in live \cap past.answered,
                        items[i].by # items[j].by
                 PROVE  <<items[j].by, i>> \in mails \/ <<items[i].by, j>> \in mails
      BY DEF SomeoneTold
    <2>1. PICK b \in [Known -> Item] : Inv(b)
      BY DEF IInv
    <2>2. Tells(i, items[j].by) \/ Tells(j, items[i].by)
      BY <2>1 DEF Inv, Telling, Served
    <2>3. \A r \in Requests : req[r].pc = "send" => req[r].id \notin past.answered
      BY <2>1, HandlerKnown DEF HandlerOK, Has, Adding, Inv, Core, AnswersOK
    <2> QED BY <2>2, <2>3 DEF Tells
  <1> QED BY <1>1, Invariance, PTL

(* As long as no request dies, the row of an attachment has its file, or   *)
(* the request that removed the file is about to delete the row: no upload *)
(* takes the name of another and no failed insert leaves a row behind.     *)
THEOREM RowsHaveFiles ==
  Spec => []FilesBehindRows
  <1>1. IInv => FilesBehindRows
    BY DEF IInv, Inv, FilesOK
  <1> QED BY <1>1, Invariance, PTL

(* As long as no request dies, every comment and attachment, and every     *)
(* deletion of one, is in the audit log or about to be, whichever accounts *)
(* are deleted meanwhile.                                                  *)
THEOREM LogIsComplete ==
  Spec => []EverythingLogged
  <1>1. IInv => EverythingLogged
    <2> SUFFICES ASSUME IInv, ~past.died
                 PROVE  /\ \A i \in live : items[i].kind # "worklog" =>
                              Owed(i) \/ \E e \in entries : e.action = "ADD" /\ e.id = i
                        /\ \A e \in entries : e.kind # "worklog" /\ e.id \notin live =>
                              Owed(e.id) \/ \E d \in entries : d.action = "DELETE" /\ d.id = e.id
      BY DEF EverythingLogged
    <2>1. PICK b \in [Known -> Item] : Inv(b)
      BY DEF IInv
    <2>2. \A r \in Requests : \A i : AddOwed(req[r], i) \/ DeletionOwed(req[r], i) => Owed(i)
      BY DEF AddOwed, DeletionOwed, Owed
    <2>3. ASSUME NEW i \in live, items[i].kind # "worklog"
          PROVE  Owed(i) \/ \E e \in entries : e.action = "ADD" /\ e.id = i
      BY <2>1, <2>2, <2>3 DEF Inv, Core, RowsOK, Recorded
    <2>4. ASSUME NEW e \in entries, e.kind # "worklog", e.id \notin live
          PROVE  Owed(e.id) \/ \E d \in entries : d.action = "DELETE" /\ d.id = e.id
      <3>1. e.id \in Known /\ b[e.id].kind # "worklog" /\ b[e.id].by \in accounts
        BY <2>1, <2>4 DEF Inv, Core, EntriesOK
      <3> QED BY <3>1, <2>1, <2>2, <2>4 DEF Inv, Recorded
    <2> QED BY <2>3, <2>4
  <1> QED BY <1>1, Invariance, PTL

-----------------------------------------------------------------------------
(* The history of the status.  While requests come one by one and none     *)
(* dies, a change that is under way goes from where the history has led,   *)
(* and the status is there too but between its UPDATE and its entry.       *)
Busy(q) == q.pc # "idle"

(* The change is made, but not logged yet. *)
Changed(q) == q.op = "status" /\ q.pc \in {"reread", "log"}

(* Where the changes up to the k-th, which is not among them, have led. *)
Reached(k) == IF k = 1 THEN ToDo ELSE history[k - 1].new

OneByOne ==
    ~past.overlapped => \A r, s \in Requests : Busy(req[r]) /\ Busy(req[s]) => r = s

Replaying ==
    ~past.overlapped /\ ~past.died /\ accounts = Users =>
       /\ kept = 1 .. nextChange - 1
       /\ \A k \in kept : history[k].old = Reached(k)
       /\ \A r \in Requests : req[r].op = "status" /\ req[r].pc \in {"write", "reread", "log"} =>
             req[r].old = Reached(nextChange)
       /\ \A r \in Requests : Changed(req[r]) => status \in {NULL, req[r].new}
       /\ (\A r \in Requests : ~Changed(req[r])) => status \in {NULL, Reached(nextChange)}

HInv == IInv /\ OneByOne /\ Replaying

(* A step of a request that is not about the status, or gives up on it. *)
LEMMA AsideStep ==
  ASSUME TypeOK, OneByOne, Replaying, NEW r \in Requests, Busy(req[r]),
         \A s \in Requests : s # r => req'[s] = req[s],
         UNCHANGED <<status, accounts, history, nextChange>>,
         past'.overlapped = past.overlapped, past.died => past'.died,
         req'[r].op # "status" \/ req'[r].pc \notin {"write", "reread", "log"},
         Changed(req[r]) => status = NULL \/ past'.died \/ accounts # Users
  PROVE  OneByOne' /\ Replaying'
  <1>1. OneByOne'
    <2>1. \A s \in Requests : Busy(req'[s]) => Busy(req[s])
      OBVIOUS
    <2> QED BY <2>1 DEF OneByOne, Busy
  <1>2. ~Changed(req'[r])
    BY DEF Changed
  <1> SUFFICES ASSUME ~past'.overlapped, ~past'.died, accounts' = Users
               PROVE  /\ kept' = 1 .. nextChange' - 1
                      /\ \A k \in kept' : history'[k].old = Reached(k)'
                      /\ \A s \in Requests : req'[s].op = "status" /\ req'[s].pc \in {"write", "reread", "log"} =>
                            req'[s].old = Reached(nextChange)'
                      /\ \A s \in Requests : Changed(req'[s]) => status' \in {NULL, req'[s].new}
                      /\ (\A s \in Requests : ~Changed(req'[s])) => status' \in {NULL, Reached(nextChange)'}
    BY <1>1 DEF Replaying, Changed
  <1>3. ~past.overlapped /\ ~past.died /\ accounts = Users
    OBVIOUS
  <1>4. Reached(nextChange)' = Reached(nextChange)
    BY DEF Reached
  <1>5. kept' = 1 .. nextChange' - 1 /\ \A k \in kept' : history'[k].old = Reached(k)'
    BY <1>3 DEF Replaying, Reached, kept
  <1>6. ASSUME NEW s \in Requests, req'[s].op = "status", req'[s].pc \in {"write", "reread", "log"}
        PROVE  req'[s].old = Reached(nextChange)'
    BY <1>3, <1>4, <1>6 DEF Replaying
  <1>7. ASSUME NEW s \in Requests, Changed(req'[s])
        PROVE  status' \in {NULL, req'[s].new}
    BY <1>2, <1>3, <1>7 DEF Replaying
  <1>8. ASSUME \A s \in Requests : ~Changed(req'[s])
        PROVE  status' \in {NULL, Reached(nextChange)'}
    <2>1. CASE \A s \in Requests : ~Changed(req[s])
      BY <2>1, <1>3, <1>4 DEF Replaying
    <2>2. CASE \E s \in Requests : Changed(req[s])
      <3>1. Changed(req[r])
        BY <2>2, <1>8
      <3> QED BY <3>1, <1>3
    <2> QED BY <2>1, <2>2
  <1> QED BY <1>5, <1>6, <1>7, <1>8

(* A request arrives.  Unless another one is there, a change of the status *)
(* starts where the history has led.                                       *)
LEMMA BeginReplaying ==
  ASSUME TypeOK, OneByOne, Replaying, NEW r \in Requests, NEW q, Begin(r, q), ~Changed(q),
         q.op = "status" /\ q.pc = "write" => q.old = status,
         q.op # "status" \/ q.pc = "write"
  PROVE  OneByOne' /\ Replaying'
  <1>1. /\ req'[r] = q
        /\ \A s \in Requests : s # r => req'[s] = req[s]
    BY OthersStay DEF Begin
  <1>2. /\ past'.died = past.died
        /\ ~past'.overlapped => ~past.overlapped /\ \A s \in Requests : ~Busy(req[s])
    BY DEF Begin, TypeOK, Past, Busy
  <1>3. OneByOne'
    <2>1. ~past'.overlapped => \A s \in Requests : Busy(req'[s]) => s = r
      BY <1>1, <1>2
    <2> QED BY <2>1 DEF OneByOne, Busy
  <1>4. UNCHANGED <<status, accounts, history, nextChange>> /\ status # NULL
    BY DEF Begin, tables, log
  <1> SUFFICES ASSUME ~past'.overlapped, ~past'.died, accounts' = Users
               PROVE  /\ kept' = 1 .. nextChange' - 1
                      /\ \A k \in kept' : history'[k].old = Reached(k)'
                      /\ \A s \in Requests : req'[s].op = "status" /\ req'[s].pc \in {"write", "reread", "log"} =>
                            req'[s].old = Reached(nextChange)'
                      /\ \A s \in Requests : Changed(req'[s]) => status' \in {NULL, req'[s].new}
                      /\ (\A s \in Requests : ~Changed(req'[s])) => status' \in {NULL, Reached(nextChange)'}
    BY <1>3 DEF Replaying, Changed
  <1>5. \A s \in Requests : ~Changed(req[s]) /\ ~Busy(req[s])
    BY <1>2 DEF Changed, Busy
  <1>6. status = Reached(nextChange)
    BY <1>2, <1>4, <1>5 DEF Replaying
  <1>7. Reached(nextChange)' = Reached(nextChange)
    BY <1>4 DEF Reached
  <1>8. kept' = 1 .. nextChange' - 1 /\ \A k \in kept' : history'[k].old = Reached(k)'
    BY <1>2, <1>4 DEF Replaying, Reached, kept
  <1>9. \A s \in Requests : ~Changed(req'[s])
    BY <1>1, <1>5
  <1>10. \A s \in Requests : req'[s].op = "status" /\ req'[s].pc \in {"write", "reread", "log"} =>
            req'[s].old = status
    BY <1>1, <1>5 DEF Busy
  <1> QED BY <1>4, <1>6, <1>7, <1>8, <1>9, <1>10

LEMMA WriteReplaying ==
  ASSUME TypeOK, OneByOne, Replaying, NEW r \in Requests,
         req[r].op = "status", WriteStatus(r) \/ RereadStatus(r)
  PROVE  OneByOne' /\ Replaying'
  <1>1. /\ \A s \in Requests : s # r => req'[s] = req[s]
        /\ req'[r].op = "status" /\ req'[r].old = req[r].old /\ req'[r].new = req[r].new
        /\ Changed(req'[r]) /\ Busy(req[r]) /\ req[r].pc \in {"write", "reread"}
    BY DEF TypeOK, Request, WriteStatus, RereadStatus, Goes, Local, Changed, Busy
  <1>2. UNCHANGED <<accounts, history, nextChange, past>>
    BY DEF WriteStatus, RereadStatus, Goes, Local, tables, log
  <1>3. OneByOne'
    <2>1. \A s \in Requests : Busy(req'[s]) => Busy(req[s])
      BY <1>1
    <2> QED BY <2>1, <1>2 DEF OneByOne, Busy
  <1> SUFFICES ASSUME ~past'.overlapped, ~past'.died, accounts' = Users
               PROVE  /\ kept' = 1 .. nextChange' - 1
                      /\ \A k \in kept' : history'[k].old = Reached(k)'
                      /\ \A s \in Requests : req'[s].op = "status" /\ req'[s].pc \in {"write", "reread", "log"} =>
                            req'[s].old = Reached(nextChange)'
                      /\ \A s \in Requests : Changed(req'[s]) => status' \in {NULL, req'[s].new}
                      /\ (\A s \in Requests : ~Changed(req'[s])) => status' \in {NULL, Reached(nextChange)'}
    BY <1>3 DEF Replaying, Changed
  <1>4. ~past.overlapped /\ ~past.died /\ accounts = Users
    BY <1>2
  <1>5. Reached(nextChange)' = Reached(nextChange)
    BY <1>2 DEF Reached
  <1>6. kept' = 1 .. nextChange' - 1 /\ \A k \in kept' : history'[k].old = Reached(k)'
    BY <1>2, <1>4 DEF Replaying, Reached, kept
  <1>7. ASSUME NEW s \in Requests, req'[s].op = "status", req'[s].pc \in {"write", "reread", "log"}
        PROVE  req'[s].old = Reached(nextChange)'
    BY <1>1, <1>4, <1>5, <1>7 DEF Replaying
  <1>8. \A s \in Requests : Changed(req'[s]) => s = r
    BY <1>1, <1>4 DEF OneByOne, Changed, Busy
  <1>9. status' \in {NULL, req'[r].new}
    <2>1. CASE WriteStatus(r)
      BY <2>1, <1>1 DEF WriteStatus
    <2>2. CASE RereadStatus(r)
      <3>1. Changed(req[r]) /\ status' = status
        BY <2>2 DEF RereadStatus, Goes, Local, tables, Changed
      <3> QED BY <3>1, <1>1, <1>4 DEF Replaying
    <2> QED BY <2>1, <2>2
  <1> QED BY <1>1, <1>6, <1>7, <1>8, <1>9

(* The entry is written: the history leads on to where the status is. *)
LEMMA LogReplaying ==
  ASSUME TypeOK, OneByOne, Replaying, NEW r \in Requests, Log(r), req[r].op = "status"
  PROVE  OneByOne' /\ Replaying'
  <1>1. /\ \A s \in Requests : s # r => req'[s] = req[s]
        /\ ~Changed(req'[r]) /\ req'[r].pc = "entry" /\ Changed(req[r]) /\ Busy(req[r])
        /\ req[r].pc = "log"
    BY DEF TypeOK, Request, Log, Changed, Busy
  <1>2. /\ UNCHANGED <<status, accounts, past>>
        /\ nextChange' = nextChange + 1 /\ nextChange \in Nat \ {0}
    BY DEF Log, TypeOK
  <1>3. PICK row : row = [by |-> req[r].by, old |-> req[r].old, new |-> req[r].new]
    OBVIOUS
  <1>4. history' = [i \in kept \cup {nextChange} |-> IF i = nextChange THEN row ELSE history[i]]
    BY <1>3 DEF Log, OldValue
  <1>5. OneByOne'
    <2>1. \A s \in Requests : Busy(req'[s]) => Busy(req[s])
      BY <1>1
    <2> QED BY <2>1, <1>2 DEF OneByOne, Busy
  <1> SUFFICES ASSUME ~past'.overlapped, ~past'.died, accounts' = Users
               PROVE  /\ kept' = 1 .. nextChange' - 1
                      /\ \A k \in kept' : history'[k].old = Reached(k)'
                      /\ \A s \in Requests : req'[s].op = "status" /\ req'[s].pc \in {"write", "reread", "log"} =>
                            req'[s].old = Reached(nextChange)'
                      /\ \A s \in Requests : Changed(req'[s]) => status' \in {NULL, req'[s].new}
                      /\ (\A s \in Requests : ~Changed(req'[s])) => status' \in {NULL, Reached(nextChange)'}
    BY <1>5 DEF Replaying, Changed
  <1>6. ~past.overlapped /\ ~past.died /\ accounts = Users
    BY <1>2
  <1>7. kept = 1 .. nextChange - 1 /\ kept' = 1 .. nextChange' - 1
    <2>1. kept' = kept \cup {nextChange}
      BY <1>4 DEF kept
    <2> QED BY <2>1, <1>2, <1>6 DEF Replaying
  <1>8. history'[nextChange] = row /\ \A k \in kept : history'[k] = history[k]
    BY <1>2, <1>4, <1>7
  <1>9. /\ row.old = Reached(nextChange) /\ row.new = req[r].new
        /\ status \in {NULL, req[r].new}
    BY <1>1, <1>3, <1>6 DEF Replaying
  <1>10. \A k \in 1 .. nextChange : Reached(k)' = Reached(k)
    BY <1>2, <1>7, <1>8 DEF Reached
  <1>11. \A k \in kept' : history'[k].old = Reached(k)'
    BY <1>2, <1>6, <1>7, <1>8, <1>9, <1>10 DEF Replaying
  <1>12. Reached(nextChange)' = row.new
    BY <1>2, <1>8 DEF Reached
  <1>13. \A s \in Requests : s # r => ~Busy(req'[s]) /\ ~Changed(req'[s])
    BY <1>1, <1>6 DEF OneByOne, Busy, Changed
  <1>14. ASSUME NEW s \in Requests, req'[s].op = "status", req'[s].pc \in {"write", "reread", "log"}
         PROVE  FALSE
    BY <1>1, <1>13, <1>14 DEF Busy
  <1> QED BY <1>1, <1>2, <1>7, <1>9, <1>11, <1>12, <1>13, <1>14

LEMMA OthersReplaying ==
  ASSUME IInv, OneByOne, Replaying, NEW r \in Requests,
         \/ WriteFile(r) \/ Insert(r) \/ FailInsert(r) \/ NoMoreIds(r) \/ Refresh(r)
         \/ RemoveFile(r) \/ Delete(r) \/ FailStatus(r)
         \/ Log(r) /\ req[r].op # "status"
         \/ FailLog(r) \/ RereadEntry(r) \/ TaskAgain(r) \/ Recipients(r) \/ Answer(r)
         \/ Abort(r) \/ \E u \in Users : Send(r, u)
  PROVE  OneByOne' /\ Replaying'
  <1>1. PICK b \in [Known -> Item] : Inv(b)
    BY DEF IInv
  <1>2. TypeOK /\ HandlerOK(req[r], b, nextId, nextFile) /\ req[r] \in Request
    BY <1>1, HandlerKnown DEF Inv
  <1>3. ASSUME Finish(r), req[r].pc # "idle",
               Changed(req[r]) => status = NULL \/ accounts # Users
        PROVE  OneByOne' /\ Replaying'
    <2>1. /\ \A s \in Requests : s # r => req'[s] = req[s]
          /\ req'[r].op # "status"
      BY <1>2, <1>3, IdleFacts, OthersStay DEF Finish, Local
    <2> QED BY <2>1, <1>2, <1>3, AsideStep DEF Finish, Local, tables, log, Busy
  <1>4. ASSUME NEW pc, Goes(r, pc), req[r].pc # "idle", req[r].op # "status"
        PROVE  OneByOne' /\ Replaying'
    <2>1. /\ \A s \in Requests : s # r => req'[s] = req[s]
          /\ req'[r].op # "status"
      BY <1>2, <1>4 DEF Goes, Local, TypeOK, Request
    <2> QED BY <2>1, <1>2, <1>4, AsideStep DEF Goes, Local, tables, log, Busy, Changed
  <1>5. CASE FailInsert(r) \/ NoMoreIds(r)
    BY <1>5, <1>3 DEF FailInsert, NoMoreIds, Changed
  <1>6. CASE FailStatus(r)
    BY <1>6, <1>3 DEF FailStatus
  <1>7. CASE FailLog(r)
    <2>1. req[r].by \in Users
      BY <1>2, <1>7 DEF FailLog, HandlerOK
    <2> QED BY <2>1, <1>7, <1>3 DEF FailLog
  <1>8. CASE Refresh(r) \/ RereadEntry(r) \/ TaskAgain(r)
    BY <1>8, <1>2, <1>3, <1>4 DEF Refresh, RereadEntry, TaskAgain, HandlerOK, Changed
  <1>9. CASE Abort(r)
    <2>1. /\ \A s \in Requests : s # r => req'[s] = req[s]
          /\ req'[r].op # "status" /\ past'.overlapped = past.overlapped /\ past'.died
      BY <1>2, <1>9, IdleFacts, OthersStay DEF Abort, TypeOK, Past
    <2> QED BY <2>1, <1>2, <1>9, AsideStep DEF Abort, tables, log, Busy
  <1>10. CASE Answer(r)
    <2>1. /\ \A s \in Requests : s # r => req'[s] = req[s]
          /\ req'[r].op # "status" /\ past'.overlapped = past.overlapped /\ past'.died = past.died
      BY <1>2, <1>10, IdleFacts, OthersStay DEF Answer, TypeOK, Past
    <2> QED BY <2>1, <1>2, <1>10, AsideStep DEF Answer, tables, log, Busy, Changed
  <1>11. CASE \/ WriteFile(r) \/ Insert(r) \/ RemoveFile(r) \/ Delete(r)
              \/ Log(r) /\ req[r].op # "status"
              \/ Recipients(r) \/ \E u \in Users : Send(r, u)
    <2>1. req[r].op # "status" /\ req[r].pc # "idle"
      BY <1>2, <1>11 DEF WriteFile, Insert, RemoveFile, Delete, Log, Recipients, Send, HandlerOK
    <2>2. UNCHANGED <<status, accounts, history, nextChange, past>>
      BY <1>11 DEF WriteFile, Insert, RemoveFile, Delete, Log, Recipients, Send, Local, tables, log
    <2>3. /\ \A s \in Requests : s # r => req'[s] = req[s]
          /\ req'[r].op = req[r].op
      <3>1. CASE WriteFile(r) \/ Insert(r)
        <4>1. PICK f, i : \/ req' = [req EXCEPT ![r].pc = "insert", ![r].file = f]
                          \/ req' = [req EXCEPT ![r].pc = "refresh", ![r].id = i]
          BY <3>1 DEF WriteFile, Insert
        <4> QED BY <4>1, <1>2 DEF TypeOK, Request
      <3>2. CASE Recipients(r)
        <4>1. PICK to : req' = [req EXCEPT ![r] = [req[r] EXCEPT !.pc = "send", !.to = to]]
          BY <3>2 DEF Recipients, Local
        <4> QED BY <4>1, <1>2 DEF TypeOK, Request
      <3>3. CASE RemoveFile(r) \/ Delete(r)
        BY <3>3, <1>2 DEF RemoveFile, Delete, TypeOK, Request
      <3>4. CASE Log(r)
        <4>1. req' = [req EXCEPT ![r].pc = "entry"]
          BY <3>4 DEF Log
        <4> QED BY <4>1, <1>2 DEF TypeOK, Request
      <3>5. CASE \E u \in Users : Send(r, u)
        <4>1. PICK to : req' = [req EXCEPT ![r].to = to]
          BY <3>5 DEF Send
        <4> QED BY <4>1, <1>2 DEF TypeOK, Request
      <3> QED BY <3>1, <3>2, <3>3, <3>4, <3>5, <1>11
    <2> QED BY <2>1, <2>2, <2>3, <1>2, AsideStep DEF Busy, Changed
  <1> QED BY <1>5, <1>6, <1>7, <1>8, <1>9, <1>10, <1>11

LEMMA ArriveReplaying ==
  ASSUME IInv, OneByOne, Replaying, NEW r \in Requests, Arrive(r)
  PROVE  OneByOne' /\ Replaying'
  <1>1. TypeOK
    BY DEF IInv, Inv
  <1>2. CASE \E u \in Users, kind \in Kinds : StartAdd(r, u, kind)
    <2>1. PICK u \in Users, kind \in Kinds : StartAdd(r, u, kind)
      BY <1>2
    <2>2. PICK q : q = [Idle EXCEPT !.pc = IF kind = "attachment" THEN "file" ELSE "insert",
                                    !.op = "add", !.by = u, !.kind = kind]
      OBVIOUS
    <2>3. q.op = "add"
      BY <2>2 DEF Idle
    <2> QED BY <2>1, <2>2, <2>3, <1>1, BeginReplaying DEF StartAdd, Changed
  <1>3. CASE \E u \in Users, i \in Ids : StartDelete(r, u, i)
    <2>1. PICK u \in Users, i \in Ids : StartDelete(r, u, i)
      BY <1>3
    <2>2. PICK q : q = [Idle EXCEPT !.pc = IF items[i].kind = "attachment" THEN "remove" ELSE "delete",
                                    !.op = "delete", !.by = u, !.id = i,
                                    !.kind = items[i].kind, !.file = items[i].file]
      OBVIOUS
    <2>3. q.op = "delete"
      BY <2>2 DEF Idle
    <2> QED BY <2>1, <2>2, <2>3, <1>1, BeginReplaying DEF StartDelete, Changed
  <1>4. CASE \E u \in Users, new \in Statuses : StartStatus(r, u, new)
    <2>1. PICK u \in Users, new \in Statuses : StartStatus(r, u, new)
      BY <1>4
    <2>2. PICK q : q = [Idle EXCEPT !.pc = "write", !.op = "status", !.by = u, !.old = status, !.new = new]
      OBVIOUS
    <2>3. q.op = "status" /\ q.pc = "write" /\ q.old = status
      BY <2>2 DEF Idle
    <2> QED BY <2>1, <2>2, <2>3, <1>1, BeginReplaying DEF StartStatus, Changed
  <1> QED BY <1>2, <1>3, <1>4 DEF Arrive

LEMMA ProceedReplaying ==
  ASSUME IInv, OneByOne, Replaying, NEW r \in Requests, Proceed(r) \/ Abort(r)
  PROVE  OneByOne' /\ Replaying'
  <1>1. PICK b \in [Known -> Item] : Inv(b)
    BY DEF IInv
  <1>2. TypeOK /\ HandlerOK(req[r], b, nextId, nextFile)
    BY <1>1, HandlerKnown DEF Inv
  <1>3. CASE WriteStatus(r) \/ RereadStatus(r)
    <2>1. req[r].op = "status"
      BY <1>2, <1>3 DEF WriteStatus, RereadStatus, HandlerOK
    <2> QED BY <2>1, <1>2, <1>3, WriteReplaying
  <1>4. CASE Log(r) /\ req[r].op = "status"
    BY <1>2, <1>4, LogReplaying
  <1> QED BY <1>3, <1>4, OthersReplaying DEF Proceed

LEMMA GoneReplaying ==
  ASSUME IInv, OneByOne, Replaying, DeleteTask \/ \E u \in Users : DeleteAccount(u)
  PROVE  OneByOne' /\ Replaying'
  <1>1. TypeOK
    BY DEF IInv, Inv
  <1>2. UNCHANGED <<nextChange, req, past>>
    BY DEF DeleteTask, DeleteAccount, log
  <1>3. OneByOne'
    BY <1>2 DEF OneByOne
  <1>4. CASE DeleteTask
    <2>1. UNCHANGED <<accounts, history>> /\ status' = NULL
      BY <1>4 DEF DeleteTask, log
    <2> QED BY <2>1, <1>2, <1>3 DEF Replaying, Reached, kept
  <1>5. CASE \E u \in Users : DeleteAccount(u)
    <2>1. accounts' # Users
      BY <1>5 DEF DeleteAccount
    <2> QED BY <2>1, <1>3 DEF Replaying
  <1> QED BY <1>4, <1>5

LEMMA HistoryInv ==
  Spec => [](IInv /\ OneByOne /\ Replaying)
  <1>1. Init => OneByOne /\ Replaying
    <2> SUFFICES ASSUME Init PROVE OneByOne /\ Replaying
      OBVIOUS
    <2>1. \A r \in Requests : req[r].pc = "idle" /\ req[r].op = "none"
      BY IdleFacts DEF Init
    <2>2. kept = {} /\ nextChange = 1 /\ status = ToDo
      BY DEF Init, kept
    <2>3. OneByOne
      BY <2>1 DEF OneByOne, Busy
    <2>4. Replaying
      BY <2>1, <2>2 DEF Replaying, Changed, Reached
    <2> QED BY <2>3, <2>4
  <1>2. IInv /\ OneByOne /\ Replaying /\ [Next]_vars => OneByOne' /\ Replaying'
    <2> SUFFICES ASSUME IInv, OneByOne, Replaying, [Next]_vars
                 PROVE  OneByOne' /\ Replaying'
      OBVIOUS
    <2>1. CASE Next
      BY <2>1, ArriveReplaying, ProceedReplaying, GoneReplaying DEF Next
    <2>2. CASE UNCHANGED vars
      BY <2>2 DEF vars, OneByOne, Replaying, Reached, kept
    <2> QED BY <2>1, <2>2
  <1> QED BY <1>1, <1>2, InitInv, NextInv, PTL DEF Spec

(* Status changes made one request after the other leave a history that    *)
(* replays, for any number of them: each starts where the one before       *)
(* ended, and the last ends at the status of the task.                     *)
THEOREM HistoryIsAChain ==
  Spec => []HistoryReplays
  <1>1. IInv /\ OneByOne /\ Replaying => HistoryReplays
    <2> SUFFICES ASSUME IInv, Replaying, ~past.overlapped, ~past.died, accounts = Users,
                        \A r \in Requests : req[r].pc = "idle",
                        NEW k \in 1 .. nextChange
                 PROVE  IF k < nextChange THEN history[k].old = Reached(k)
                                          ELSE status \in {NULL, Reached(k)}
      BY DEF HistoryReplays, Reached
    <2>1. nextChange \in Nat \ {0}
      BY DEF IInv, Inv, TypeOK
    <2>2. kept = 1 .. nextChange - 1 /\ status \in {NULL, Reached(nextChange)}
          /\ \A i \in kept : history[i].old = Reached(i)
      BY DEF Replaying, Changed
    <2>3. CASE k < nextChange
      <3>1. k \in kept
        BY <2>1, <2>2, <2>3
      <3> QED BY <3>1, <2>2, <2>3
    <2>4. CASE ~(k < nextChange)
      <3>1. k = nextChange
        BY <2>1, <2>4
      <3> QED BY <3>1, <2>2, <2>4
    <2> QED BY <2>3, <2>4
  <1> QED BY <1>1, HistoryInv, PTL
=============================================================================
