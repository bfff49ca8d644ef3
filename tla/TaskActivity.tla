---------------------------- MODULE TaskActivity ----------------------------
(***************************************************************************)
(* What happens around one task besides edits: its status, comments,       *)
(* attachments and worklogs, the audit log of all of them and the mails    *)
(* about comments (modules/communication, modules/tasks, log_activity).    *)
(* One action is one statement, one commit or one file operation of one    *)
(* request; the task and the accounts may be deleted at any time.          *)
(*                                                                         *)
(* Left out: the texts, blocked accounts, edits of a comment (they touch   *)
(* nothing else), the project membership of the callers (all are members)  *)
(* and the limits on type and size of a file.                              *)
(***************************************************************************)
EXTENDS Naturals

CONSTANTS
    Users,          \* the accounts at the start
    Statuses,       \* states of a task
    ToDo,           \* the one a task starts in
    MaxId,          \* bound: new rows, and requests start while rows and changes are fewer
    Requests,       \* request slots
    NULL            \* nothing

ASSUME StatusAssumption == ToDo \in Statuses
ASSUME MaxIdAssumption == MaxId \in Nat
ASSUME NullAssumption == NULL \notin Nat /\ NULL \notin Users /\ NULL \notin Statuses

Ids == 1 .. MaxId

Kinds == {"comment", "attachment", "worklog"}

OrNull(S) == S \cup {NULL}

(* Comments, attachments and worklogs share one sequence of ids here. *)
Item == [kind : Kinds, by : Users, file : OrNull(Ids)]

Entry == [action : {"ADD", "DELETE"}, id : Ids, kind : Kinds, by : Users]

Change == [by : Users, old : Statuses, new : Statuses]

VARIABLES
    status,     \* status of the task, or NULL once it is deleted
    accounts,   \* users.user_id
    items,      \* tables comments, attachments and time_logs: id -> row
    nextId,     \* the sequences behind their ids
    files,      \* files in the upload directory
    nextFile,   \* the names uuid4 has not given yet
    entries,    \* audit_logs, but for
    history,    \* the STATUS_CHANGE entries: id -> row
    nextChange, \* the sequence behind their ids
    mails,      \* <<recipient, comment>> handed to the mail service
    req,        \* per slot, the local state of the handler it runs
    past        \* history: how requests have got in each other's way

vars == <<status, accounts, items, nextId, files, nextFile, entries, history, nextChange, mails,
          req, past>>

log == <<entries, history, nextChange>>

tables == <<status, accounts, items, nextId, log>>

live == DOMAIN items

kept == DOMAIN history

Request ==
    [pc   : {"idle", "file", "insert", "refresh", "remove", "delete", "write", "reread",
             "log", "entry", "task", "recipients", "send"},
     op   : {"none", "add", "delete", "status"},
     kind : OrNull(Kinds),
     by   : OrNull(Users),          \* current_user
     id   : OrNull(Ids),            \* the comment, attachment or worklog
     file : OrNull(Ids),            \* dest, or attachment.file_path
     old  : OrNull(Statuses),       \* old_status
     new  : OrNull(Statuses),       \* new_status
     to   : SUBSET Users]           \* recipients not served yet

Idle == [pc |-> "idle", op |-> "none", kind |-> NULL, by |-> NULL, id |-> NULL,
         file |-> NULL, old |-> NULL, new |-> NULL, to |-> {}]

Past == [overlapped : BOOLEAN, died : BOOLEAN, answered : SUBSET Ids]

Init ==
    /\ status = ToDo
    /\ accounts = Users
    /\ items = [i \in {} |-> NULL]
    /\ nextId = 1 /\ nextFile = 1 /\ nextChange = 1
    /\ files = {} /\ entries = {} /\ mails = {}
    /\ history = [i \in {} |-> NULL]
    /\ req = [r \in Requests |-> Idle]
    /\ past = [overlapped |-> FALSE, died |-> FALSE, answered |-> {}]

(* The handler of r goes on with q and changes nothing shared. *)
Local(r, q) ==
    /\ req' = [req EXCEPT ![r] = q]
    /\ UNCHANGED <<tables, files, nextFile, mails, past>>

Goes(r, pc) == Local(r, [req[r] EXCEPT !.pc = pc])

Finish(r) == Local(r, Idle)

-----------------------------------------------------------------------------
(* A request arrives: the caller has an account and the task is there. The *)
(* lookups of the task that follow each other, in the router and in the    *)
(* service, are one step: the task never comes back.                       *)
Begin(r, q) ==
    /\ req[r].pc = "idle"
    /\ status # NULL
    /\ q.by \in accounts
    /\ req' = [req EXCEPT ![r] = q]
    /\ past' = [past EXCEPT !.overlapped = @ \/ \E s \in Requests : req[s].pc # "idle"]
    /\ UNCHANGED <<tables, files, nextFile, mails>>

Room == nextId + nextChange <= MaxId + 1

(* create_comment, save_attachment, create_time_log. *)
StartAdd(r, u, kind) ==
    /\ Room
    /\ Begin(r, [Idle EXCEPT !.pc = IF kind = "attachment" THEN "file" ELSE "insert",
                             !.op = "add", !.by = u, !.kind = kind])

MayDelete(u, i) == items[i].by = u

(* delete_comment, delete_attachment: the row is read once, here. *)
StartDelete(r, u, i) ==
    /\ i \in live
    /\ items[i].kind # "worklog"
    /\ MayDelete(u, i)
    /\ Begin(r, [Idle EXCEPT !.pc = IF items[i].kind = "attachment" THEN "remove" ELSE "delete",
                             !.op = "delete", !.by = u, !.id = i,
                             !.kind = items[i].kind, !.file = items[i].file])

(* update_work_item_status: old_status is what is read here; nothing is    *)
(* done for the same one.                                                  *)
StartStatus(r, u, new) ==
    /\ Room
    /\ status # new
    /\ Begin(r, [Idle EXCEPT !.pc = "write", !.op = "status", !.by = u, !.old = status, !.new = new])

-----------------------------------------------------------------------------
(* The file of an attachment, the row, db.refresh and the audit entry.     *)
NewFileByName(n) == 1  \* mutant: files keep the name they are uploaded with
NewFile(n) == n

WriteFile(r) ==
    /\ req[r].pc = "file"
    /\ nextFile <= MaxId
    /\ files' = files \cup {NewFile(nextFile)}
    /\ nextFile' = nextFile + 1
    /\ req' = [req EXCEPT ![r].pc = "insert", ![r].file = NewFile(nextFile)]
    /\ UNCHANGED <<tables, mails, past>>

(* The foreign keys: comments and attachments have one to their author,    *)
(* worklogs to the task.                                                   *)
StandsUnchecked(kind, u) == TRUE  \* mutant: no foreign keys
Stands(kind, u) == IF kind = "worklog" THEN status # NULL ELSE u \in accounts

Insert(r) ==
    LET q == req[r] IN
    /\ q.pc = "insert"
    /\ Stands(q.kind, q.by)
    /\ nextId <= MaxId
    /\ items' = [i \in live \cup {nextId} |->
                    IF i = nextId THEN [kind |-> q.kind, by |-> q.by, file |-> q.file]
                                  ELSE items[i]]
    /\ nextId' = nextId + 1
    /\ req' = [req EXCEPT ![r].pc = "refresh", ![r].id = nextId]
    /\ UNCHANGED <<status, accounts, log, files, nextFile, mails, past>>

(* The INSERT fails; a file that was written stays. *)
FailInsert(r) ==
    /\ req[r].pc = "insert"
    /\ ~Stands(req[r].kind, req[r].by)
    /\ Finish(r)

(* The bound of the model stops the request here. *)
NoMoreIds(r) ==
    /\ \/ req[r].pc = "insert" /\ nextId > MaxId
       \/ req[r].pc = "file" /\ nextFile > MaxId
    /\ Finish(r)

Refresh(r) ==
    /\ req[r].pc = "refresh"
    /\ IF req[r].id \in live THEN Goes(r, "log") ELSE Finish(r)

-----------------------------------------------------------------------------
(* The file goes first, if it is there; deleting a row that is gone is     *)
(* fine.                                                                   *)
RemoveFile(r) ==
    /\ req[r].pc = "remove"
    /\ files' = files \ {req[r].file}
    /\ req' = [req EXCEPT ![r].pc = "delete"]
    /\ UNCHANGED <<tables, nextFile, mails, past>>

Delete(r) ==
    /\ req[r].pc = "delete"
    /\ items' = [i \in live \ {req[r].id} |-> items[i]]
    /\ req' = [req EXCEPT ![r].pc = "log"]
    /\ UNCHANGED <<status, accounts, nextId, log, files, nextFile, mails, past>>

-----------------------------------------------------------------------------
(* The UPDATE and the refresh fail on a row that is gone.                  *)
WriteStatus(r) ==
    /\ req[r].pc = "write"
    /\ status # NULL
    /\ status' = req[r].new
    /\ req' = [req EXCEPT ![r].pc = "reread"]
    /\ UNCHANGED <<accounts, items, nextId, log, files, nextFile, mails, past>>

FailStatus(r) ==
    /\ req[r].pc \in {"write", "reread"}
    /\ status = NULL
    /\ Finish(r)

RereadStatus(r) ==
    /\ req[r].pc = "reread"
    /\ status # NULL
    /\ Goes(r, "log")

-----------------------------------------------------------------------------
OldAsReread(q) == status  \* mutant: old_value is taken from the refreshed row
OldValue(q) == q.old

(* log_activity: a commit of its own; the foreign key wants the account. *)
Log(r) ==
    LET q == req[r] IN
    /\ q.pc = "log"
    /\ q.by \in accounts
    /\ IF q.op = "status"
       THEN /\ history' = [i \in kept \cup {nextChange} |->
                             IF i = nextChange THEN [by |-> q.by, old |-> OldValue(q), new |-> q.new]
                                               ELSE history[i]]
            /\ nextChange' = nextChange + 1
            /\ UNCHANGED entries
       ELSE /\ entries' = entries \cup
                   {[action |-> IF q.op = "add" THEN "ADD" ELSE "DELETE",
                     id |-> q.id, kind |-> q.kind, by |-> q.by]}
            /\ UNCHANGED <<history, nextChange>>
    /\ req' = [req EXCEPT ![r].pc = "entry"]
    /\ UNCHANGED <<status, accounts, items, nextId, files, nextFile, mails, past>>

FailLog(r) ==
    /\ req[r].pc = "log"
    /\ req[r].by \notin accounts
    /\ Finish(r)

(* db.refresh(entry): gone with the account, or the end of most requests. *)
RereadEntry(r) ==
    LET q == req[r] IN
    /\ q.pc = "entry"
    /\ IF q.by \in accounts /\ q.op = "add" /\ q.kind = "comment" THEN Goes(r, "task") ELSE Finish(r)

-----------------------------------------------------------------------------
(* add_comment goes on: the task again (an assertion), whom to write to,   *)
(* the assignee by now among them, and one mail after the other.           *)
TaskAgain(r) ==
    /\ req[r].pc = "task"
    /\ IF status = NULL THEN Finish(r) ELSE Goes(r, "recipients")

CommentersAnswered == {items[i].by : i \in live \cap past.answered}  \* mutant: comments still being saved do not count
Commenters == {items[i].by : i \in {i \in live : items[i].kind = "comment"}}

Recipients(r) ==
    /\ req[r].pc = "recipients"
    /\ \E assignee \in OrNull(Users) :
          Local(r, [req[r] EXCEPT !.pc = "send",
                                  !.to = ((Commenters \cup {assignee}) \ {req[r].by}) \cap accounts])

Send(r, u) ==
    /\ req[r].pc = "send"
    /\ u \in req[r].to
    /\ mails' = mails \cup {<<u, req[r].id>>}
    /\ req' = [req EXCEPT ![r].to = @ \ {u}]
    /\ UNCHANGED <<tables, files, nextFile, past>>

Answer(r) ==
    /\ req[r].pc = "send"
    /\ req[r].to = {}
    /\ req' = [req EXCEPT ![r] = Idle]
    /\ past' = [past EXCEPT !.answered = @ \cup {req[r].id}]
    /\ UNCHANGED <<tables, files, nextFile, mails>>

-----------------------------------------------------------------------------
(* The request dies: the server stops or the connection breaks. *)
Abort(r) ==
    /\ req[r].pc # "idle"
    /\ req' = [req EXCEPT ![r] = Idle]
    /\ past' = [past EXCEPT !.died = TRUE]
    /\ UNCHANGED <<tables, files, nextFile, mails>>

(* delete_work_item of another request commits: worklogs go along. *)
DeleteTask ==
    /\ status # NULL
    /\ status' = NULL
    /\ items' = [i \in {i \in live : items[i].kind # "worklog"} |-> items[i]]
    /\ UNCHANGED <<accounts, nextId, log, files, nextFile, mails, req, past>>

(* delete_user commits: comments, attachments and audit entries go along,  *)
(* worklogs and files stay.                                                *)
DeleteAccount(u) ==
    /\ u \in accounts
    /\ accounts' = accounts \ {u}
    /\ items' = [i \in {i \in live : items[i].kind = "worklog" \/ items[i].by # u} |-> items[i]]
    /\ entries' = {e \in entries : e.by # u}
    /\ history' = [i \in {i \in kept : history[i].by # u} |-> history[i]]
    /\ UNCHANGED <<status, nextId, nextChange, files, nextFile, mails, req, past>>

Arrive(r) ==
    \E u \in Users :
        \/ \E kind \in Kinds : StartAdd(r, u, kind)
        \/ \E i \in Ids : StartDelete(r, u, i)
        \/ \E s \in Statuses : StartStatus(r, u, s)

Proceed(r) ==
    \/ WriteFile(r) \/ Insert(r) \/ FailInsert(r) \/ NoMoreIds(r) \/ Refresh(r)
    \/ RemoveFile(r) \/ Delete(r)
    \/ WriteStatus(r) \/ FailStatus(r) \/ RereadStatus(r)
    \/ Log(r) \/ FailLog(r) \/ RereadEntry(r)
    \/ TaskAgain(r) \/ Recipients(r) \/ Answer(r)
    \/ \E u \in Users : Send(r, u)

Next ==
    \/ \E r \in Requests : Arrive(r) \/ Proceed(r) \/ Abort(r)
    \/ DeleteTask
    \/ \E u \in Users : DeleteAccount(u)

Spec == Init /\ [][Next]_vars

-----------------------------------------------------------------------------
(* Type invariant. *)
TypeOK ==
    /\ status \in OrNull(Statuses)
    /\ accounts \subseteq Users
    /\ live \subseteq Ids /\ items \in [live -> Item]
    /\ nextId \in 1 .. MaxId + 1 /\ nextFile \in 1 .. MaxId + 1
    /\ files \subseteq Ids
    /\ entries \subseteq Entry
    /\ nextChange \in Nat \ {0}
    /\ kept \subseteq 1 .. nextChange - 1 /\ history \in [kept -> Change]
    /\ mails \subseteq Users \X Ids
    /\ req \in [Requests -> Request]
    /\ past \in Past

(* Of two people who comment on the task, even at the same moment, one at  *)
(* least is written to about the comment of the other                      *)
(* (service.py:55-84, which looks for commenters only after the commit).   *)
SomeoneTold ==
    \A i, j \in live \cap past.answered :
        items[i].by # items[j].by =>
            <<items[j].by, i>> \in mails \/ <<items[i].by, j>> \in mails

(* As long as no request dies, the row of an attachment has its file, or   *)
(* somebody is about to delete the row (service.py:201-216, 248-256).      *)
FilesBehindRows ==
    ~past.died =>
        \A i \in live : items[i].kind = "attachment" /\ items[i].file \notin files =>
            \E r \in Requests : req[r].pc = "delete" /\ req[r].id = i

(* As long as no request dies, every comment and attachment has an entry   *)
(* in the audit log, and so has its deletion, or the entry is about to be  *)
(* written; accounts that go take rows and entries along together          *)
(* (admin/service.py:256-281).                                             *)
Owed(i) == \E r \in Requests : req[r].id = i /\ req[r].pc \in {"refresh", "log"}

EverythingLogged ==
    ~past.died =>
        /\ \A i \in live : items[i].kind # "worklog" =>
              Owed(i) \/ \E e \in entries : e.action = "ADD" /\ e.id = i
        /\ \A e \in entries : e.kind # "worklog" /\ e.id \notin live =>
              Owed(e.id) \/ \E d \in entries : d.action = "DELETE" /\ d.id = e.id

(* Requests served one by one, none of which dies, leave a history that    *)
(* replays: each change starts where the one before ended, and the last    *)
(* ends at the status of the task (tasks/service.py:277-306).              *)
HistoryReplays ==
    ~past.overlapped /\ ~past.died /\ accounts = Users /\ (\A r \in Requests : req[r].pc = "idle") =>
        \A k \in 1 .. nextChange :
            LET reached == IF k = 1 THEN ToDo ELSE history[k - 1].new
            IN  IF k < nextChange THEN history[k].old = reached ELSE status \in {NULL, reached}
=============================================================================
