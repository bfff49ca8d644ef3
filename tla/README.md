# PZIO verification

TLA+ models of PZIO, the project-management application of this repository: a
FastAPI/SQLAlchemy backend (`src/backend/pzio`) on PostgreSQL and a React
frontend (`src/frontend/src`). TLC checks the models on small instances; TLAPS
proves the theorems listed below for every value of the constants.

    tlc -workers 2 -config sprints.cfg MCSprints.tla     # a run, see "Runs"
    tlapm WorkItemsProofs.tla                            # a module of proofs

`PROJECT.json` lists runs, theorems, the source lines every definition stands
for, and the hazards of the code with the properties aimed at them.

## How the program executes, and how the models see it

- Almost every handler is a synchronous function that FastAPI runs in a pool of
  threads, so requests interleave. Login through OAuth is a coroutine and runs
  on the one event loop, which it blocks while it waits for the database.
- A request has a session of its own (`db.py:24-30`) with `autoflush=False` and
  `expire_on_commit=False`: what was loaded stays as it was loaded, and an
  UPDATE writes the columns whose value differs from the loaded one. An UPDATE
  of a row that is gone fails (StaleDataError), a DELETE of one does not.
- The database is PostgreSQL at READ COMMITTED: every statement sees what is
  committed when it starts, and nothing holds what an earlier statement saw.
  Only unique indexes and foreign keys are checked at the write.

So in every module a slot `req[r]` is a handler under way, its record is the
handler's local variables, `pc` names the statement that comes next, and one
action is one statement or one commit. What was read may be stale when it is
used. Slots are reused without end. An HTTP error is the return to `Idle`.
The constants `MaxId` bound the ids a sequence hands out; a request that meets
the bound ends (`NoMoreIds`), as one that meets an error does.

Some promises only hold for requests that do not overlap. There the history
variable `overlapped` records whether two ever did; the properties start with
`~overlapped`, and the section "Where requests that overlap disagree" lists the
races that remain.

## Inventory

| component | state | operations | what is hard | what makes it correct | module |
|---|---|---|---|---|---|
| Task hierarchy (`modules/tasks`) | `work_items` with parent and sprint | create, edit, delete a tree | walks over several statements, check long before commit | no cycles, parent in the project, subtasks in the sprint of the parent, no lost move | `Backlog`, `WorkItems` |
| Status, worklogs (`modules/tasks`) | `status`, `time_logs` | change the status, log work | old value read before the commit | the history replays | `TaskActivity` |
| Comments, attachments, mails (`modules/communication`) | two tables, upload directory | create, delete, notify | files and rows written apart, rows without a key to the task | a row has its file, commenters are told | `TaskActivity` |
| Activity log (`modules/admin`) | `audit_logs` | `log_activity` | a commit of its own after the change | no change without an entry | `WorkItems`, `TaskActivity` |
| Project membership (`modules/projects`) | `project_members` | add, remove, change roles | gate, read, count and write are apart | an owner is left, ranks are respected | `Team`, `Membership` |
| Projects (`modules/projects`) | `projects` | create, edit, archive, list | free name chosen before the commit | names apart | planned |
| Sprints (`modules/projects`) | `sprints` | create, edit, delete | active sprint, name and dates checked on a copy | one active sprint, dates in order, no tasks in a new sprint | `Sprints` |
| Burndown (`modules/projects`) | none | a pure function of tasks and logs | dates, order of log entries | the curve ends at what is left | planned |
| Accounts (`modules/auth`) | `users`, advisory lock | register, OAuth login, role, status, address, delete | first administrator, unique address, blocked event loop | one first administrator, the last one who acts stays, no deadlock | `Accounts` |
| Tokens, passwords (`modules/auth`) | none | sign, verify, hash, reset | library calls | - | not modelled |
| Task types (`modules/admin`) | `task_types` | create, delete | the last type, types in use | a type is left, names apart | `Admin` |
| Backups (`modules/admin`) | `backups`, files | force a backup | one at a time, crash in between | no two at once | `Admin` |
| Sessions, pool (`db.py`) | connections, threads, the event loop | queue, checkout, commit, close | 40 threads, 15 connections, a session keeps its connection from job to job | requests finish, nobody waits for a connection that nobody will give back | `RequestPools`; statements and commits in every module |
| API client, session (`api/client.ts`, `modules/auth/*.tsx`) | token in storage, user on the screen | login, logout, OAuth, 401 | answers that arrive after logout, other tabs | the screen matches the token, the spinner ends | `AuthSession` |
| Forms and modals (`projects/components`, `auth/components`, `communication/components`, ...) | open, draft, error, submitting | open, type, submit, close, answers | answers after the form was closed and opened for another row, a row that changes under the draft | what is sent was typed for its row, errors are about the draft, typed text is kept, submitting ends | `Forms` |
| Board and pages (`modules/*/pages`, `projects/layouts`, `communication/components`, `admin/components`) | the rows of a list, loading, error | load, refresh, add, edit, remove, move and roll back | answers in any order, cancelled loads, changes shown before they are made | at rest the screen shows the server's rows, of the right sprint, task or filter | `Pages` |
| Confirmation dialog (`components/ConfirmProvider.tsx`) | one pending promise | ask, answer | two questions at once | everyone gets an answer | `Forms` |
| Start, configuration, seed, layout, deployment | - | - | - | - | not modelled |

The components interact through the database: the tasks, communication and
project modules call `log_activity` and `require_project_member`, the deletion
of an account (`auth/service.py:404`) takes memberships, comments, attachments
and audit entries along by foreign key, the deletion of a sprint or project
member does not reach the tasks that name them. The frontend only sees HTTP.

## The modules

**Backlog** is the abstract task hierarchy: a forest in which adding, editing and
removing a subtree are each one step. `Hierarchy` is its invariant (acyclic,
parent in the project, subtasks in the sprint of the parent).

**WorkItems** is the same hierarchy as `modules/tasks/service.py` keeps it: the
handlers of create, update and delete, one statement at a time. `parent` and
`walk` are `_validate_parent`, `cascade` is `_apply_sprint_to_descendants`,
`descend` and `delete` are `_delete_work_item_tree` and `_get_descendants`,
`audit` is the sequence of `log_activity` calls a handler still owes, made in
any order. The foreign key of `parent_id` guards `Insert`, `Update` and
`Delete`. `B == INSTANCE Backlog` reads the abstract state off the table.

**Team** is the abstract team of one project, a function from users to roles and
the set of users who wait for an answer. Its `Next` has the rules of the user
guide (`docs/user-guide-pl.md:166-169`); what the service lets through beyond
them is named and kept apart in `Departs`, so that nothing else is. **Membership** is
`modules/projects/services.py` and the gate in `dependencies.py`: the handlers
of add, remove and update, each a sequence of lookups and one write. The
deletion of an account takes its rows along. `T == INSTANCE Team` is the
refinement; `asking` makes it visible to whom a step answers, so the abstract
guard on the rank of the caller is really checked.

**Sprints** is creation, edit and deletion of the sprints of a project, with the
query for the active sprint, the choice of a free name with its suffix ("(1)",
"(2)", cut to the width of the column), and the checks on the dates. A name is
its number of letters and its suffix, which is all the length checks see. The
query for names that start with the one in the body does not find a name that
was cut (`NamesBut`), so two cut names may meet; `NamesApart` says that no others do.
`Assign` is the edit of a task that puts it in a sprint.

**Accounts** is registration, login through OAuth, change of role, status and
address, and deletion. `lock` is the queue of the advisory lock of
`_pick_role_for_new_user`; `LoopBusy` says that a coroutine is on the event
loop, so that no other runs.

**RequestPools** is what requests share whatever they do. FastAPI runs
synchronous code in 40 threads (the limiter of anyio), the engine of `db.py`
opens 5 + 10 connections and lets a request wait 30 seconds for one. A request
is a sequence of jobs (open its session, look its user up, run the handler);
each waits for a thread of its own, and between them the event loop has to
notice that the last has ended, but the session keeps its connection from the
first query to a commit or the end. The handler of a login through OAuth runs on
the event loop. Further dependencies of a handler are part of its job, and the
serialisation of the answer, a job without a connection, is left out. The
thread that closes a session is of another limiter and always there.

**TaskActivity** is what happens around one task: its status, comments,
attachments and worklogs, the audit log and the mails, while the task and the
accounts may be deleted at any time. Files and rows are separate variables
since the code writes them in separate steps. `past` holds history variables:
whether requests overlapped, whether one died, which comments were answered.

**Admin** is the dictionary of task types and the forced backups. The backup
program works or not; a request that dies leaves its row in progress.

**Frontend** is what the three modules that follow share: slots for requests
under way, and `NULL`. They name everything else apart, so that one module of
proofs can extend them all.

**AuthSession** is one tab of the browser: `AuthProvider` with its effect, the
token in `localStorage`, the client that sends it, and the forms, routes and
OAuth pages that begin and end a session. `requests` are those under way,
which answer in any order and outlive the page that sent them; `Render` is the
point at which React runs the effect, so that what happens between a change of
state and its render is visible. `history.crossed` records that an answer came
where the code has no defence: between a change and its render, or for a change
of profile of an earlier session.

**Forms** is what twenty-one forms have in common, modals, pages and sections: a
row they are opened for, a draft, an error, the flag that disables the button,
and submissions under way, which outlive the opening they were made in. The
record `form` holds what differs and is read off each component: whether it
stays mounted while closed, when it is filled anew (`renews`), when the error
goes (`clears`, where the handler that cancels and a success are told apart),
whether it notices that the page closed it (`effect`), whether the flag is that of `useForm` and so lowered by its
`reset` (`hook`), whether a question comes first (a second click, or the shared
dialog of `ConfirmProvider`), and what success does: close the form, put the
answer in place of the row, load the rows and close once more. A draft knows for
which row, and from which state of it, it was made; `saves` are the submissions,
`table` the rows on the server, `listed` what the page has of them, and
`disturbed` records what the properties except. Drafts that a schema turns down are never sent and are left
out.

**Pages** is what fourteen pages of the frontend have in common: rows loaded by
an effect for a key (the sprint of the board, the task, the filters of a list),
changes, and answers in any order. They differ in a few respects which the
record `page` holds and which are read off each component: whether the cleanup
of the effect cancels its load, whether a new key keeps the state or remounts
the page, whether loading is a flag or derived from the key loaded, whether a
failed change hides the rows, and, for each kind of change, how its answer gets
on the screen (`Effects`: another load, a refresh outside the effect, an edit
of the list, or at once with a rollback of the row or of the whole list). The
initial states range over all fourteen; the burndown of a sprint counts as a
page. On the backlog rows are tasks and the second row of a key may hang below
the first one, as its child or by way of a child the page does not list, having
another status than `ToDo`: the server deletes the whole tree
(`tasks/service.py:113-142`), the page takes out what it reaches among the rows
it listed when it asked (`ProjectsBacklogPage.tsx:55-97`); a parent is only set
that is there (`tasks/service.py:44-61`), and a task that hangs below one is the
only shape of tree two rows have. `past` records what the properties except. A
change of key and its effect are one step; `AuthSession` shows what comes of a render in between.

The modules `MC...` add the symmetry sets and views for TLC; the constants are in
the `.cfg` files. The modules `...Proofs` hold the theorems, each of the
component it is named after; `WorkItemsProofs` and `MembershipProofs` also those
of `Backlog` and `Team`, and `FrontendProofs` those of `AuthSession`, `Forms` and
`Pages`. Mutated definitions
stand before the one they change and are marked `mutant`; nothing else uses
them. They show that the properties depend on the code.

## Runs

| run | instance | question | answer |
|---|---|---|---|
| `workitems_serial` | 3 ids, 2 sprints, 1 request | do the handlers, run alone, implement the atomic operations of `Backlog`, keep the hierarchy and the audit log, and end? | yes |
| `workitems_concurrent` | 2 projects, 2 ids, 2 requests that may die | what survives every interleaving? | parents exist and are in the project, no move is lost |
| `workitems_cycle` | 2 ids, 2 requests | may two moves make a cycle? | yes: finding 1 |
| `membership_serial` | 3 users, one an administrator, 1 request, accounts go | does the service, one request at a time, implement the rules of the user guide, with an owner left? | with two departures, which `Team` names (findings 2, 3), while no account goes |
| `sprints` | 3 ids, 3 days, names of 1 letter and of the full width, 2 requests while ids are at most 2, 1 task | one active sprint, dates in order, names apart? are tasks of a deleted sprint ever in a new one? | yes, the first three for requests that do not overlap, but names that were cut do meet; no, for all |
| `accounts` | 2 addresses, 3 ids, all operations, 2 requests | one first administrator, no deadlock between the lock and the event loop? may the last acting administrator go? | yes; not by another request that overlaps none |
| `pools` | 3 requests of all kinds, 2 threads, 1 connection | does every request end? does one wait for a connection that nobody will give back? | yes; only while all threads, or the event loop, wait for connections |
| `activity` | 2 users, 2 rows, 2 requests that may die | are commenters told, do rows have their files, is everything logged, does the history replay? | yes; the last for requests that do not overlap |
| `admin` | 3 types, 3 backups, 2 seconds, 2 requests that may die | a type left, backups apart? | yes, for requests that do not overlap |
| `session` | 2 users, 2 seconds, 3 requests under way, 2 logins, loads or changes by other tabs, 1 OAuth attempt | does the screen agree with the token, does the spinner end? | yes, unless an answer came out of its time |
| `pages` | 14 pages, 2 keys with 2 rows each, 3 requests under way, 1 navigation, 2 changes | does a page at rest show the server's rows, of its key, and does loading end? | yes, unless a change overlapped, an answer for another key came late, an answer was lost, or a task was deleted by way of one the backlog does not list (finding 4) |
| `forms` | 21 forms, 2 rows, 2 submissions under way, 4 drafts | is a draft sent to the row it was made for, is a fresh form current, an error about its draft, one submission at a time, typed text kept, does submitting end? | yes, unless an answer came after the form was closed, the row changed under the draft, or a question was replaced |

The findings, with the runs that show them:

1. `workitems_cycle`: two PATCH requests that move A under B and B under A both
   pass the walk of `tasks/service.py:71-80` and both commit. From then on
   `_get_descendants` and the walk never end for these tasks. `service.py:76`
   says the hierarchy may not contain cycles.
2. `membership_serial`: a Scrum Master adds a member as Project Owner, which
   note 1 of the user guide rules out (`docs/user-guide-pl.md:167`); `add_member`
   only looks at the role of the caller (`projects/services.py:358`) and stores
   the roles it is given (`391`).
3. `membership_serial`: the only Scrum Master gives up the role, which note 3
   rules out (`docs/user-guide-pl.md:169`); `update_member_roles` counts owners
   only (`projects/services.py:517-556`).
4. `pages`: the question on the backlog says how many tasks go with the one
   deleted (`ProjectsBacklogPage.tsx:88`), counting those it lists. The server
   deletes the whole tree (`tasks/service.py:127`), and a task that is listed but
   hangs by one that is not stays on the screen.

The first run is violated. The other three are exceptions of properties that
hold: 2 and 3 are the steps of `Departs` that `ImplementsTeam` allows besides
`Next`, 4 is "unseen" in `past`, and TLC finds each property violated as soon as
one of its exceptions is left out.

The type invariant (`TypeOK`, `SessionTypeOK`, `FormTypeOK`, `PageTypeOK`) is
proved for every module with handlers, a form, a page or a tab. Some runs check it too; those of `WorkItems`, `Membership`, `Admin` and
`RequestPools` leave it to the proof.

### Bounds

Two requests at a time are enough for every race of a check with a write, and
for a coroutine that waits for the lock of a thread. Two ids make the shortest cycle and a parent
with a child; three make a chain, which the cascade and the walk need, and a
third name, which the second suffix needs. Two sprints tell the inherited from
the old one, two projects the parent's from the task's. One administrator and
two others are all the ranks a decision on a member looks at. In `sprints` two
requests overlap only while at most one sprint has been created (`MaxShared`),
because the suffixes need three sprints but no overlap; a history with an
overlap stops at two sprints, and an edit changes two of the four fields at most
(`MaxFields`), which is what the checks on name, dates and status relate. Names
have one letter or the full width, so that the suffix fits or the name is cut
and the third sprint of that name gets the name of the second.
In `activity` a request only starts while rows and changes of status together
are fewer than `MaxId`, so an instance sees two rows, a row and a change, or
two changes, and up to three with what was already under way; a pair of
comments, or a comment and its deletion, is what the properties relate. Three
requests in `session` are a cancelled one, its successor and one from a page,
and two visits after the first session a login of somebody else and a load of
the page; two seconds give tokens that differ and tokens that do not. In
`pages` one navigation and two changes give two loads or two changes that
overlap, and a change that overlaps with either load; the third request is the
load or refresh that the answer to a change starts. Two rows of a key are a task
and one below it, child or grandchild. In `forms` two rows, two
submissions and four drafts are an opening whose answer comes late, and a second
opening, for the other row, with a submission of its own; a row has changed or
it has not (`MaxRow = 2` was also run, with 4.8 million states). In `pools`
two threads can both wait for the connection of a request that waits for a
thread, which is how forty threads and fifteen connections jam; the third
request may be a coroutine on the event loop. Id
bounds end a request as an error would; no property rests on it.
`workitems_concurrent` leaves the audit log out of the state by a view, which
is sound as no guard and neither property reads it.

Deadlock is checked except in `membership_serial`, `activity`, `admin`, `pages`
and `forms`, where everybody, or everything that can be asked for, may be gone
for good.

### Fairness

`WF_vars(Proceed(r))` per slot in `WorkItems` and `Accounts`: a thread of the
pool, once it runs a handler, is scheduled again and again, and statements
return; PostgreSQL grants an advisory lock in the order of arrival, which is the
queue of the model, so weak fairness is enough. No request is obliged to
arrive. `RequestsFinish` is checked where no request may die, one at a time in
`workitems_serial` (a cycle makes loops endless, finding 1) and two at a time in
`accounts`; in `pools` for three.

Weak fairness of `Render` and `Respond(s)` in `AuthSession`: React renders what
has changed, and the browser ends every request, with an answer or, when the
connection does not last, with an error; `Serve(s)` and `Answer(s)` in `Pages`,
`Handle(s)` and `Conclude(s)` in `Forms` say the same. Users, other tabs and the clock are obliged to nothing.

In `RequestPools` fairness is strong for the steps of a request that need a
thread or a turn of the event loop (`Serve(r)`): both are first in, first out,
while the model lets any request that waits go next, so that one could be
passed over for ever only in the model. It is weak for the wait for a connection
(`Grant \/ TimedOut`), which the time-out of the pool ends after 30 seconds,
whatever the others do.

## Where requests that overlap disagree

The code checks and writes in separate statements at READ COMMITTED without
locks, except for the first administrator. Besides the finding, the models
show these outcomes of requests that overlap when `~overlapped` is dropped, or
with more than one slot:

- two owners who are demoted at the same time are both counted
  (`projects/services.py:550`) before either is changed, and no owner is left,
  though line 553 says there must be one;
- two sprints started at once are both active (`projects/services.py:664-679`);
  edits of the start and of the end of one sprint each fit the old other date
  (`710-713`); two sprints get the same name (`611`), as two projects do (`181`),
  and names that are cut do so without any overlap (`614`);
- a subtask moved while its new parent changes sprint keeps the parent's old
  sprint (`tasks/service.py:85-92`);
- a member added twice at once has two rows (`projects/services.py:382`);
  a member who becomes owner during a removal is removed (`485-488`);
- two administrators who demote each other leave none (`auth/service.py:196`);
- two task types deleted at once may be the last two (`admin/service.py:74`),
  two backups may run at once, and into one file within the same second (`195`);
- two changes of status read the same old status, so entries of the history do
  not chain (`tasks/service.py:287`).

A request that dies leaves a file without a row (`communication/service.py:201`),
a row without a file (`249`), a change without its entry (`admin/service.py:279`)
or a backup that blocks the next for ever (`admin/service.py:208`).

In `pools` a jam is real but ends: when all threads run jobs that wait for
connections, the requests that hold them wait for a thread, and nothing moves
until the pool times out (`db.py:15`, `auth/deps.py:34`), when the waiting
requests fail with an error 500. A coroutine of `oauth_login` that waits for a
connection keeps the event loop, which every holder needs to go on
(`auth/service.py:360`), so it can only time out. `WaitsForSomebody` excepts
these two states and no other.

On the frontend, `session` excepts these, recorded in `history`, which nothing promises either. An
answer that is handled between a change of state and its render can leave the
spinner without a request: the profile arrives, a login with an identical token
(issued within the same second, `auth/security.py:35`) takes it away again, and
the effect sees no change (`AuthProvider.tsx:53`). The answer to a change of
profile is shown whoever is logged in by then (`67`); a late 401, or the answer
to the deletion of an account, ends whatever session is there
(`api/client.ts:45`); a login or logout in another tab is only noticed at the
next load.

`pages` excepts six more, recorded in the history variable `past`. A list loaded
before a removal, and arriving after it, shows the row again
(`ProjectsMembersPage.tsx:107`), as any change that overlaps with a load may be
overwritten or shown twice. A failed move on the board puts back all tasks as
they were when it began, and with them a move made meanwhile
(`ProjectsBoardPage.tsx:348-360`). Answers that no effect cancels are shown for
whatever the page is about by then: the refresh of a project
(`ProjectDetailsLayout.tsx:92`), a new status of a task
(`TaskDetailPage.tsx:160`), the rollback on the board, and the burndown of a
sprint, which is shown under the name of the sprint opened last whichever answer
comes last (`ProjectsSprintsPage.tsx:129`); when that request fails, the curve
of the sprint before it stays under the new name (`131-141`). When the answer to a
change, to a refresh or to a load of comments or attachments is lost, the page
keeps what it has. On the backlog a task that hangs by one with another status
stays on the screen when the task above both is deleted (finding 4); a change of
it meanwhile overlaps with the deletion.

`forms` excepts these, recorded in `disturbed`:

- A form that stays mounted can be closed and opened again while its submission
  is under way. A late success closes or empties the form shown by then, a late
  failure shows its error there, and either enables the button of a submission
  that is still under way (the components that `ProjectsMembersPage.tsx:480-496`
  and the sprint and backlog pages keep mounted). The test at
  `EditProjectSprintModal.test.tsx:202` only covers errors that came before the
  form was closed.
- `reset` of `useForm` enables the button while the submission it belongs to is
  under way; what is typed after submitting is gone when the save succeeds.
- After a save on the backlog the form closes at once, and again when the
  backlog has been loaded, whichever task is edited by then
  (`ProjectsBacklogPage.tsx:285`), so what was typed meanwhile is lost.
  `AssignSprintModal` does not notice that it was closed by the page (`297`):
  sprint and confirmation survive and are offered for the next task.
- On the page of a task a new task object empties the draft of the edit form
  (`TaskDetailPage.tsx:412-421`), as a new project does on the overview
  (`ProjectsOverviewPage.tsx:62-68`).
- A question asked while another waits takes its place
  (`ConfirmProvider.tsx:22-28`); the promise of the first is never resolved and
  the form that waits for it stays disabled.
- Forms send whole rows, so one filled before another user's change puts the old
  values back.

Other places where documents and code differ, seen while modelling and without
a run that shows them: `delete_sprint` deletes the row only and
the tasks keep its id (`projects/services.py:731`), where
`projects/router.py:307` says their `sprintId` is cleared; deleting the account of the only owner leaves
the project without one (`auth/service.py:404`); after the last administrator
has deleted the account the next registration becomes Administrator
(`auth/service.py:86-98`); `docs/api/README.md` lets administrators delete
comments, the code only authors (`communication/service.py:154`); the
docstring of `log_activity` speaks of the caller's transaction
(`admin/service.py:268`) but the function commits; `burndown` reads
`log.new_status`, which no log has (`projects/services.py:827`);
`AddTaskModal.tsx:89` compares the project that was asked about with the one
selected when it was asked, which are the same, so that the tasks of the former
project may be offered as parents after another was selected.

## Proofs

Every theorem holds for every value of the constants its module's assumptions
allow, unless the last column names another one.

| theorem | what it says | assumes |
|---|---|---|
| `WorkItemsProofs!TypeCorrect` | `Spec => []TypeOK` | |
| `!ParentAlwaysInProject` | `Spec => []ParentInProject`, for any number of requests that overlap and die | |
| `!HandlersStaySound` | `Spec => []HandlersSound` | |
| `!MovesAreAsked` | `Spec => NoLostMove`: a task gets another parent only from the commit of an edit that asked for it | |
| `!HierarchyKept` | the atomic operations of `Backlog` keep the forest a forest, in its project and sprint | |
| `!SerialIsABacklog` | `Spec => ImplementsBacklog`: the refinement | one slot |
| `!SerialAcyclic` | `Spec => []Acyclic` | one slot |
| `!SerialAudit` | `Spec => []AuditComplete` | one slot, nobody dies |
| `MembershipProofs!TypeCorrect` | `Spec => []TypeOK` | |
| `!MembershipsHaveAccounts` | no membership outlives its account | |
| `!TeamHasOwner` | the atomic operations of `Team`, `Departs` included, always leave an owner | |
| `!SerialKeepsOwner` | `Spec => []HasOwner`: an owner is left until an account goes | one slot |
| `!SerialOneRow` | nobody has two memberships, whichever accounts go | one slot |
| `!SerialIsATeam` | `Spec => ImplementsTeam`: the refinement, until an account goes: every step is one of the user guide's or one of the two of `Departs` | one slot |
| `SprintsProofs!TypeCorrect` | `Spec => []TypeOK` | |
| `!AlwaysOneActive`, `!DatesStayInOrder` | while no two requests have overlapped, at most one sprint is active and dates are in order | |
| `!OnlyCutNamesMeet` | `Spec => []NamesApart`: likewise two sprints share a name only if it was cut to make room for its suffix | |
| `!NamesStayApart` | so that all names are apart, without exception | `NothingCut` |
| `!NewSprintsStayEmpty` | no task is in a sprint that is created, requests overlapping or not | |
| `AccountsProofs!TypeCorrect` | `Spec => []TypeOK` | |
| `!OneFirstAdministrator` | one account becomes administrator by registering, for any number of registrations, by form and OAuth, that overlap | |
| `!ActingAdminStays` | `Spec => AdminStays`: while no two requests have overlapped, no change of another account takes the last acting administrator away | |
| `!LockNeverJams` | whoever waits for the advisory lock waits for the head of its queue, which can always take its next statement | |
| `TaskActivityProofs!TypeCorrect` | `Spec => []TypeOK` | |
| `!OneIsTold` | `Spec => []SomeoneTold`, requests overlapping, dying, accounts going | |
| `!RowsHaveFiles` | `Spec => []FilesBehindRows`, until a request dies | |
| `!LogIsComplete` | `Spec => []EverythingLogged`, until a request dies | |
| `!HistoryIsAChain` | `Spec => []HistoryReplays`, until requests overlap or die or an account goes | |
| `AdminProofs!TypeCorrect`, `!NamesStayApart` | `Spec => []TypeOK`, `Spec => []NamesApart`, requests overlapping or not | |
| `!TypeAlwaysLeft`, `!BackupsStayApart` | while no two requests have overlapped, a task type is left and no two backups carry one version | |
| `RequestPoolsProofs!TypeCorrect`, `!NobodyWaitsInVain` | whoever waits for a connection waits for a request that can go on, while a thread and the event loop are free | |
| `FrontendProofs!SessionTypeCorrect`, `!TabAgrees` | `SessionTypeOK` and `SessionAgrees` of `AuthSession` | |
| `!FormTypeCorrect` | `FormTypeOK` of `Forms`, for all twenty-one | |
| `!FormWritesItsRow` | nothing is sent to a row that was filled in from or typed for another | |
| `!FormIsCurrent` | an open form that was not typed in shows its row as the page has it | |
| `!FormErrorIsOfDraft`, `!FormOneAtATime` | the error is about the draft; one submission at a time | |
| `!FormTypedIsKept` | the action property `TypedIsKept` | |
| `!PageTypeCorrect`, `!PageShowsItsKey` | `PageTypeOK` and `ShowsItsKey` of `Pages`, for all fourteen | |
| `!PageShowsServer` | `PageSpec => []ShowsServer`: a page at rest shows the server's rows, the backlog's trees included, whatever loads, changes, failures and rollbacks came before, and in any order, but for what `past` records | |

The exceptions (`history`, `disturbed`, `past`) of the properties of the frontend
are part of the formulas proved.

### WorkItems and Backlog

`ParentInProject` is not inductive: a handler commits long after it looked at
the parent. `IInv == TypeOK /\ HandlersSound /\ ParentInProject` adds that ids at
or above `nextId` are unused, so an id a handler holds is never given to another
task, and that a parent a handler has checked is in the project for as long as
it exists (rows never change project). The foreign key supplies existence at the
commit, the handler's state the project. `HandlerOK` takes the request and the
table as parameters, so that a step of one request is two lemmas: a local step
keeps it for the stepping request (`LocalStep`), a commit keeps it for all
others (`CommitStep`, `SoundAcrossCommit`).

`NoLostMove` follows from the types alone once one has looked at every
statement: only `Update` writes `parent`, and only if the request's parent
differs from the row it loaded (`CommitMoves`, `OthersMoveNothing`).

Of `Backlog`: `Acyclic` says every nonempty set of tasks has a member whose parent
is outside it, which avoids induction over paths: a new parent outside the
subtree of the task is the witness. `Subtree` is the intersection of the sets
closed under children, from the same reason.

The refinement needs to know what a handler that runs alone has found.
`SerialInv == IInv /\ Forest /\ AsRead`: the row and the parent it has loaded are
what is there; the walk up, if the new parent is below the task, has not left
the subtree yet, so that when it ends at a root the parent is not below the
task; the descent has found only descendants, and every child of whatever it has
asked about, so that when nothing is left to ask about it has found the subtree
(a set closed under children that contains the task). A commit then is the
operation of `Backlog`, any other statement leaves `items` alone. The walks are
loops of any length and no induction is needed: each level keeps `AsRead`. That the walk ends is a liveness property and
stays with TLC. `Acyclic` follows from `Forest`. `AuditComplete` needs `Trail`: for every
id handed out, its entry is in the log or among those the handler owes.

### Membership and Team

The serial theorems need, besides types, what the one handler has read still
being so at its next statement (`StillSo`): the rows are the ones read, the count
of owners is the count. It follows since nobody else writes, as long as no
account goes. `TypeCorrect` and `MembershipsHaveAccounts` need nothing of the
kind: the foreign key is checked at the INSERT. For the refinement `StillSo`
says, at the write, that the guards of the operation hold, the rank of the
caller against the target's included; the roles of a user are those of the rows,
and `asking` ends at the answer. `SerialOneRow` keeps a smaller invariant
(`Single`), which an account that goes does not disturb.

### Sprints, Admin, Accounts

*Sprints.* `SoloInv` says that while nothing has overlapped at most one handler
is busy, and the row, the absence of an active sprint and the free name it has
read are `StillSo`. `FinalName` picks a suffix no other sprint has, which exists
by the pigeonhole principle: there are more suffixes than sprints. A long name
is cut to make room for its suffix, and a cut name may meet another: the
invariant keeps all names but those of that form (`WasCut`) apart, which is
`OnlyCutNamesMeet`, and `NamesStayApart` follows when nothing is cut. That new sprints are empty follows from
the sequence alone: no task holds an id it has not handed out yet.

*Admin.* Names are kept apart by the unique index alone, so `NamesStayApart`
needs no more than types. For the two others `SoloInv` has the shape it has for
Sprints; the last type is kept by the count the handler compares, and the
version by the count it formats.

*Accounts.* `Queued` says whoever is past the lock is the head of its queue, so
two registrations never stand between the query for administrators and the
INSERT; `FoundNone` then says what that query saw is still so, whoever else
registers, changes or deletes an account. `ActingAdminStays` needs `Backed`:
while a role or a status is changed there is an acting administrator other than
the account it is changed of, at first the caller. `LockNeverJams` needs
`InLine`: whoever is in the queue of the lock is there once and has not ended, so
the head of the queue is never one who has left it.

### TaskActivity

Handlers and audit entries name rows that may be gone, with their author. The
invariant therefore quantifies over the rows as they were inserted:
`IInv == \E b \in [Known -> Item] : Inv(b)`, where `b` covers every id handed out,
agrees with the rows that live, and never changes but for a new id. With it,

- `Telling` gives `SomeoneTold`: of two comments whose recipients are both
  fixed, the author of one is among the recipients of the other. Whoever fixes
  them second finds the first comment, since a comment is committed before its
  handler looks for recipients;
- `FilesOK` gives `FilesBehindRows`: a file on its way into a row is on the disk
  and of no other row, because names are never given twice;
- `Recorded` gives `EverythingLogged`: every row ever inserted has its entry, or
  a handler that is about to write it, or its author is gone;
- `OneByOne /\ Replaying` gives `HistoryReplays`: while nothing has overlapped,
  died or gone, the old status a handler has read is the status of the task, and
  the changes logged so far end there. The history is a function of the number
  of a change, so that no induction over sequences is needed.

### RequestPools

A session that is not open or waits for a connection holds none. While someone
waits, all connections are held, so there is a holder, and a case distinction on
where it stands shows that its next step is enabled.

### The frontend

*AuthSession.* `SessionAgrees` is about what this tab has done with its answers.
`SessionInv` adds what a request may bring: one the server accepted carried a
token, and a login knows for whom (`Answerable`); and the profile that is still
awaited is that of the token on the screen, unless an answer came out of its
time, another tab interfered, or the effect has yet to run (`InTime`).

*Forms.* `FormOK` says what the twenty-one forms have in common, each line of it
for one step of the proof (for example that one that empties its draft when it
closes clears the error with it); `AllFormsOK` checks it form by form. The
invariant then has three parts. `SubmissionsOK`: what is under way was sent to a
row that can be open, was late if the form is closed, and only the question
asked is unanswered. `OneUnderWay`: as long as nothing from an earlier opening
came, there is one submission, of the draft shown, the button is disabled and no
error is shown. `DraftsMatch`: whose row a draft was made for, of the open form
and of each submission, and that an untouched draft is of the row's latest
state, also while the form is closed but mounted. `FormTypedIsKept` goes through
the actions with these.

*Pages.* `PageOK` is what the fourteen pages have in common. `ShowsItsKey` is not
inductive, since an answer under way brings rows: `RequestOK` says they are of
the key the request was sent for, `Filtered` that a live request is for the key
of the page, because the effect cancels loads and a page that remounts drops
everything, or that `past` already says it is not. `RowsOK` says the same of the
rows that are hidden while the page loads.

`ShowsServer` is about a page at rest, and says nothing of the requests whose
answers lead there. `ShowInv` does, as long as `past` is empty. What is under way
may replace all rows (`Overwrites`), alter some (`Alters`), or be about to have
them loaded (`Renewing`). What a change may reach (`Reach`, `Touched`) is its row,
and with a removed task those that may be below it. As long as no deletion went by
way of a task that is not listed, the answer takes off the screen (`Removed`) what
the server deleted (`Deleted`):

- `Apart`: nothing replaces the rows while something alters one, and no two
  reach the same row; a move on the board, whose rollback puts back all rows,
  overlaps with no other;
- `Brought`: a load that was accepted holds the rows the server has now, unless
  a change was made that will have them loaded again;
- `Follow`: once nothing is loading, every row shown is the server's or is that
  of a change under way, and that change `Tracks` it: the server has what it
  asked for if it was made, and if not, the page shows what the server has, or
  the change carries it to be put back.

Two facts hold whatever `past` says: a page with one row per key never meets a
second (`Singular`), so that an answer that takes the place of all rows leaves
none out; and what a page without a guard loads does not age unless it changes
something itself (`Sensible`). A step of one request is then a few lemmas, one
for each part: `ApartStill`, `BroughtStill`, `FollowsStill` when it alters
nothing, `FollowsOn` when it alters the rows `I`, which is where the cases of an
optimistic change, its rollback and its confirmation meet.

### What is not proved

The provers do arithmetic, sets and functions here; no induction over data is
used. The assumptions are those the modules name (`MaxIdAssumption`,
`NullAssumption`, ...), which TLC evaluates in every run. `PageNull` keeps `NULL`
out of the operations and effects it stands next to; `FormBounds` numbers slots
from 1, since 0 in `asked` is the question of the page. The modules of the
frontend share `Slots`, so all theorems of `FrontendProofs` assume that slots are
numbered.

Only model-checked: all liveness (`RequestsFinish` of `WorkItems`, `Accounts` and
`RequestPools`, `SpinnerEnds`, `LoadingEnds`, `SubmitEnds`), which is out of the
prover's reach, as is `ENABLED`. Every other property of a run is a theorem.
`HandlersSound`,
`MembersHaveAccounts`, `OneRowPerUser`, and `NamesApart` of `Admin` are proved and
in no run.

## Not modelled

Titles, descriptions, priorities, dates of tasks and the wording of messages;
passwords; pagination and filters; the limits on files;
the roles no decision reads. The gate on membership is in `Membership`; the other
modules take callers who pass it. Deployment, seed and configuration have no
state worth a model. Of the frontend, the options of selects, the columns, the
search for a parent task and the task history (a query whose answer carries the
id it is about) are left out. A task type may be deleted while tasks carry its
name, by design of `admin/service.py:67`, so the type of a task is not in
`WorkItems`. SQLite, which the settings allow, is not modelled: it
serialises writers.

## Plan

Done, in this order: WorkItems over Backlog, Membership over Team, Sprints,
Accounts, TaskActivity, Admin, AuthSession, Pages, Forms (with the shared
dialog), RequestPools; then the proofs of Sprints, Accounts and RequestPools,
of TaskActivity, both refinements, and of the frontend.

1. More of the pages: the two loads of the board, and the options of the forms,
   which are loaded when they open.
2. `Projects` (free name, archive) with the chooser of names taken out of
   `Sprints`, and `Burndown` as a function checked against a definition that
   sums what is left.
3. Profiles, passwords and the mails of their reset in `Accounts`.
