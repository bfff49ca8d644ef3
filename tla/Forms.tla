------------------------------- MODULE Forms -------------------------------
(***************************************************************************)
(* A form of the frontend: it is opened for a row (or to make one), what   *)
(* the user types is kept in a draft, and submitting sends it.  The forms  *)
(* of src/frontend/src/modules differ in when the draft is filled anew,    *)
(* whether the component stays mounted while the form is closed, what an   *)
(* answer does, and whether a question is asked before the draft is sent;  *)
(* the variable form holds which of them it is.                            *)
(*                                                                         *)
(* A row is the number of changes made to it.  A draft is the row it was   *)
(* filled from or typed for, what that row was then, and whether something *)
(* was typed.  Drafts the schema of the form turns down are not sent and   *)
(* are left out, as are the options of selects and the rights of the user. *)
(***************************************************************************)
EXTENDS Frontend

CONSTANTS
    Targets,        \* the rows, numbered
    MaxVersions,    \* bound: drafts
    MaxRow          \* bound: changes of a row that are told apart

(* A slot in asked is a submission, 0 a question of the page. *)
ASSUME FormBounds ==
    {MaxVersions, MaxRow} \cup Targets \subseteq Nat /\ Slots \subseteq Nat \ {0}
ASSUME FormNull == NULL \notin Nat

VARIABLES
    form,       \* which form
    open,       \* the row it is open for, or NULL
    draft,      \* what it contains
    error,      \* React state: the version whose failure is shown, or 0
    busy,       \* isSubmitting: the button that submits is disabled
    asked,      \* what the dialog that asks will resolve: a submission, 0 for
                \* a question of the page, or NULL when it is closed
    saves,      \* per slot, a submission that has not ended
    table,      \* the rows
    listed,     \* the rows as the page has them
    disturbed   \* history: what else reached into the form

formVars == <<form, open, draft, error, busy, asked, saves, table, listed, disturbed>>

-----------------------------------------------------------------------------
(* The forms. *)
Form ==
    [over    : {"new", "one", "many"},      \* what it is opened for
     stays   : BOOLEAN,                     \* mounted while it is closed
     filled  : BOOLEAN,                     \* a fresh draft is the row, or else blank
     renews  : SUBSET {"open", "close", "success", "row"},  \* when the draft is made fresh
     clears  : SUBSET {"open", "close", "success", "type"}, \* when the error goes
     tells   : BOOLEAN,                     \* a failure is shown in the form
     hook    : BOOLEAN,                     \* busy is kept by useForm, and lowered by its reset
     held    : SUBSET {"close", "type"},    \* what is disabled while busy
     asks    : {"no", "again", "dialog"},   \* the question before the draft is sent
     closes  : BOOLEAN,                     \* success closes it
     puts    : BOOLEAN,                     \* the page puts the answer in place of the row
     reloads : BOOLEAN,                     \* or loads the rows, then closes the form again
     effect  : BOOLEAN]                     \* notices that it was closed, whoever closed it

(* Mounted when it opens, useForm, closed by success. *)
Plain ==
    [over |-> "new", stays |-> FALSE, filled |-> FALSE, renews |-> {}, clears |-> {},
     tells |-> TRUE, hook |-> TRUE, held |-> {}, asks |-> "no", closes |-> TRUE,
     puts |-> FALSE, reloads |-> FALSE, effect |-> TRUE]

AddTaskModal == [Plain EXCEPT !.stays = TRUE, !.renews = {"open", "success"}, !.clears = {"open"}]
EditTaskModal ==
    [Plain EXCEPT !.over = "many", !.stays = TRUE, !.filled = TRUE,
                  !.renews = {"open", "close", "row"}, !.clears = {"close"},
                  !.asks = "dialog", !.puts = TRUE]
EditTaskOnBacklog ==
    [EditTaskModal EXCEPT !.renews = {"open", "close"}, !.puts = FALSE, !.reloads = TRUE]
AssignSprintModal ==
    [Plain EXCEPT !.over = "many", !.stays = TRUE, !.renews = {"close"},
                  !.clears = {"close", "success", "type"}, !.hook = FALSE, !.asks = "again",
                  !.reloads = TRUE, !.effect = FALSE]
AddProjectMemberModal == [Plain EXCEPT !.stays = TRUE, !.renews = {"success"}]
EditProjectMemberModal == [Plain EXCEPT !.over = "many", !.filled = TRUE]
AddProjectSprintModal == [Plain EXCEPT !.stays = TRUE, !.renews = {"success"}]
EditProjectSprintModal ==
    [Plain EXCEPT !.over = "many", !.stays = TRUE, !.filled = TRUE,
                  !.renews = {"open", "close"}, !.clears = {"close"}]
CreateProjectModal == [Plain EXCEPT !.renews = {"success"}]
ProjectOverviewPage ==
    [Plain EXCEPT !.over = "one", !.stays = TRUE, !.filled = TRUE,
                  !.renews = {"close", "row"}, !.clears = {"close"}, !.puts = TRUE,
                  !.effect = FALSE]
CommentForm == [Plain EXCEPT !.renews = {"success"}, !.tells = FALSE, !.closes = FALSE]
CommentItem ==
    [Plain EXCEPT !.over = "one", !.stays = TRUE, !.filled = TRUE, !.renews = {"open"},
                  !.tells = FALSE, !.hook = FALSE, !.held = {"close"}, !.puts = TRUE]
EditProfileForm == [Plain EXCEPT !.over = "one", !.filled = TRUE, !.puts = TRUE]
ChangeEmailForm ==
    [Plain EXCEPT !.over = "one", !.filled = TRUE, !.closes = FALSE, !.puts = TRUE]
ChangePasswordForm == [Plain EXCEPT !.renews = {"success"}, !.closes = FALSE]
LoginForm == Plain
RegisterForm == Plain
ForgotPasswordForm == Plain
ResetPasswordConfirmForm == Plain
WorklogsForm ==
    [Plain EXCEPT !.renews = {"success"}, !.hook = FALSE, !.held = {"type"}, !.closes = FALSE]
TaskTypesForm == [Plain EXCEPT !.renews = {"success"}, !.closes = FALSE]

Forms ==
    {AddTaskModal, EditTaskModal, EditTaskOnBacklog, AssignSprintModal,
     AddProjectMemberModal, EditProjectMemberModal, AddProjectSprintModal,
     EditProjectSprintModal, CreateProjectModal, ProjectOverviewPage, CommentForm,
     CommentItem, EditProfileForm, ChangeEmailForm, ChangePasswordForm, LoginForm,
     RegisterForm, ForgotPasswordForm, ResetPasswordConfirmForm, WorklogsForm, TaskTypesForm}

-----------------------------------------------------------------------------
(* Drafts.  Every change of a draft makes a new version of it; base is the *)
(* version in which it was made fresh.                                     *)
Draft == [row     : OrNull(Targets),
          seen    : 0 .. MaxRow,
          typed   : BOOLEAN,
          sure    : BOOLEAN,            \* a button to be clicked twice was clicked once
          base    : 0 .. MaxVersions,
          version : 0 .. MaxVersions]

NoDraft ==
    [row |-> NULL, seen |-> 0, typed |-> FALSE, sure |-> FALSE, base |-> 0, version |-> 0]

NextVersion == IF draft.version < MaxVersions THEN draft.version + 1 ELSE draft.version

Blank(v) == [NoDraft EXCEPT !.base = v, !.version = v]

Fresh(t, rows, v) ==
    IF form.filled THEN [Blank(v) EXCEPT !.row = t, !.seen = rows[t]] ELSE Blank(v)

Submission ==
    [state : {"none", "asking", "sent", "made", "refused", "loading"},
     late  : BOOLEAN,       \* the form was closed since
     row   : OrNull(Targets),
     draft : Draft,
     got   : 0 .. MaxRow]   \* made: the row in the answer

Idle == [state |-> "none", late |-> FALSE, row |-> NULL, draft |-> NoDraft, got |-> 0]

Unused(s) == saves[s].state = "none"

NextSlot(s) == Least(s, {r \in Slots : Unused(r)})

Late(cs) == [s \in Slots |-> IF cs[s] = Idle THEN Idle ELSE [cs[s] EXCEPT !.late = TRUE]]

Over == IF form.over = "many" THEN Targets ELSE {t \in Targets : Least(t, Targets)}

FormInit ==
    /\ form \in Forms
    /\ open = NULL
    /\ table = [t \in Targets |-> 0] /\ listed = table
    /\ \E t \in Over :
          draft = IF form.over = "one" /\ "row" \in form.renews THEN Fresh(t, listed, 0) ELSE NoDraft
    /\ error = 0 /\ busy = FALSE /\ asked = NULL
    /\ saves = [s \in Slots |-> Idle]
    /\ disturbed = {}

-----------------------------------------------------------------------------
(* What is done to the form.  The reset of useForm also forgets that a     *)
(* submission is under way.                                                *)
RenewsNever(when) == FALSE  \* mutant: a form that stays mounted keeps its draft
Renews(when) == when \in form.renews

Renewed(t, rows) ==
    /\ draft' = Fresh(t, rows, NextVersion)
    /\ busy' = (busy /\ ~form.hook)

ClearedToNull(when) ==  \* mutant: no error is another value than at first
    IF when \in form.clears THEN NULL ELSE error
ClearedNever(when) == error  \* mutant: the error stays until the next submission
Cleared(when) == IF when \in form.clears THEN 0 ELSE error

Opened(t) ==
    /\ open' = t
    /\ IF ~form.stays
       THEN draft' = Fresh(t, listed, NextVersion) /\ busy' = FALSE /\ error' = 0
       ELSE /\ IF Renews("open") THEN Renewed(t, listed) ELSE UNCHANGED <<draft, busy>>
            /\ error' = Cleared("open")

(* noticed: the form runs what it does when it closes. *)
Closed(noticed, rows, cs) ==
    /\ open' = NULL
    /\ saves' = Late(cs)
    /\ IF ~form.stays
       THEN busy' = FALSE /\ error' = 0 /\ UNCHANGED draft
       ELSE IF noticed /\ open # NULL
       THEN /\ IF Renews("close") THEN Renewed(open, rows) ELSE UNCHANGED <<draft, busy>>
            /\ error' = Cleared("close")
       ELSE UNCHANGED <<draft, busy, error>>

-----------------------------------------------------------------------------
(* The user.  Escape, a click beside the form and its cross close it at    *)
(* any time.                                                               *)
Open(t) ==
    /\ open = NULL /\ t \in Over /\ draft.version < MaxVersions
    /\ Opened(t)
    /\ UNCHANGED <<form, asked, saves, table, listed, disturbed>>

Close ==
    /\ open # NULL
    /\ "close" \in form.held => ~busy
    /\ Closed(TRUE, listed, saves)
    /\ UNCHANGED <<form, asked, table, listed, disturbed>>

Type ==
    /\ open # NULL /\ draft.version < MaxVersions
    /\ "type" \in form.held => ~busy
    /\ draft' = [draft EXCEPT !.row = open, !.typed = TRUE, !.sure = FALSE, !.version = NextVersion]
    /\ error' = Cleared("type")
    /\ UNCHANGED <<form, open, busy, asked, saves, table, listed, disturbed>>

EnabledAlways == TRUE  \* mutant: the button is not disabled
Enabled == ~busy

(* A blank form is not valid; ChangeEmailForm sends no address that is the *)
(* present one.                                                            *)
Submittable == open # NULL /\ Enabled /\ (draft.typed \/ (form.filled /\ form.closes))

Put(s, state) ==
    /\ NextSlot(s)
    /\ busy' = TRUE /\ error' = 0
    /\ saves' = [saves EXCEPT ![s] =
                    [state |-> state, late |-> FALSE, row |-> open, draft |-> draft, got |-> 0]]

(* Whether a question comes first depends on sprints and children of a     *)
(* task, which are left out.                                               *)
Submit(s) ==
    /\ Submittable
    /\ Put(s, "sent")
    /\ UNCHANGED <<form, open, draft, asked, table, listed, disturbed>>

AskAgain ==
    /\ Submittable /\ form.asks = "again" /\ ~draft.sure
    /\ draft' = [draft EXCEPT !.sure = TRUE]
    /\ UNCHANGED <<form, open, error, busy, asked, saves, table, listed, disturbed>>

(* What may be wrong with the form since an earlier opening reached it. *)
DisturbedBy(c) ==
    IF ~c.late THEN disturbed
    ELSE disturbed \cup {"late"} \cup {w \in {"behind"} : form.puts /\ ~form.closes}

-----------------------------------------------------------------------------
(* The dialog, of which there is one.  A question asked while another is   *)
(* open takes its place, and the other is never resolved.                  *)
AskFirst(s) ==
    /\ Submittable /\ form.asks = "dialog"
    /\ asked \notin Slots
    /\ Put(s, "asking")
    /\ asked' = s
    /\ UNCHANGED <<form, open, draft, table, listed, disturbed>>

AskInstead(s) ==
    /\ Submittable /\ form.asks = "dialog"
    /\ asked \in Slots
    /\ s = asked
    /\ busy' = TRUE /\ error' = 0
    /\ saves' = [saves EXCEPT ![s] =
                    [Idle EXCEPT !.state = "asking", !.row = open, !.draft = draft]]
    /\ disturbed' = disturbed \cup {"replaced"}
    /\ UNCHANGED <<form, open, draft, asked, table, listed>>

AskOfPage ==
    /\ form.asks = "dialog" /\ asked # 0
    /\ asked' = 0
    /\ IF asked \in Slots
       THEN saves' = [saves EXCEPT ![asked] = Idle] /\ disturbed' = disturbed \cup {"replaced"}
       ELSE UNCHANGED <<saves, disturbed>>
    /\ UNCHANGED <<form, open, draft, error, busy, table, listed>>

Confirm ==
    /\ asked # NULL
    /\ asked' = NULL
    /\ IF asked \in Slots THEN saves' = [saves EXCEPT ![asked].state = "sent"] ELSE UNCHANGED saves
    /\ UNCHANGED <<form, open, draft, error, busy, table, listed, disturbed>>

Cancel ==
    /\ asked # NULL
    /\ asked' = NULL
    /\ IF asked \in Slots
       THEN /\ saves' = [saves EXCEPT ![asked] = Idle] /\ busy' = FALSE
            /\ disturbed' = DisturbedBy(saves[asked])
       ELSE UNCHANGED <<saves, busy, disturbed>>
    /\ UNCHANGED <<form, open, draft, error, table, listed>>

-----------------------------------------------------------------------------
(* The server, and other people. *)
Later(n) == IF n < MaxRow THEN n + 1 ELSE n

Save(s) ==
    LET c == saves[s] IN
    /\ c.state = "sent"
    /\ IF form.over = "new"
       THEN saves' = [saves EXCEPT ![s].state = "made"] /\ UNCHANGED table
       ELSE /\ table' = [table EXCEPT ![c.row] = Later(@)]
            /\ saves' = [saves EXCEPT ![s].state = "made", ![s].got = Later(table[c.row])]
    /\ UNCHANGED <<form, open, draft, error, busy, asked, listed, disturbed>>

Reject(s, from) ==
    /\ saves[s].state = from
    /\ saves' = [saves EXCEPT ![s].state = "refused"]
    /\ UNCHANGED <<form, open, draft, error, busy, asked, table, listed, disturbed>>

(* The server refuses the submission, fails, or is not reached. *)
TurnDown(s) == Reject(s, "sent")

(* It is made, but the answer is lost. *)
LoseAnswer(s) == Reject(s, "made")

Others(t) ==
    /\ t \in Over /\ form.over # "new" /\ table[t] < MaxRow
    /\ table' = [table EXCEPT ![t] = @ + 1]
    /\ UNCHANGED <<form, open, draft, error, busy, asked, saves, listed, disturbed>>

(* The page gets the row, for whatever reason. *)
Refresh(t) ==
    /\ listed[t] # table[t]
    /\ listed' = [listed EXCEPT ![t] = table[t]]
    /\ IF Renews("row") /\ (open = t \/ form.over = "one")
       THEN Renewed(t, listed') ELSE UNCHANGED <<draft, busy>>
    /\ disturbed' = IF open # t THEN disturbed
                    ELSE disturbed \cup {IF Renews("row") THEN "renewed" ELSE "behind"}
    /\ UNCHANGED <<form, open, error, asked, saves, table>>

-----------------------------------------------------------------------------
(* Answers.  One that comes late still reaches a form that stays mounted,  *)
(* and always the page, which closes whatever is open.                     *)
ReachesForm(c) == form.stays \/ ~c.late

Made(s) ==
    LET c    == saves[s]
        rest == [saves EXCEPT ![s] = IF form.reloads THEN [c EXCEPT !.state = "loading"] ELSE Idle]
        rows == IF form.puts THEN [listed EXCEPT ![c.row] = c.got] ELSE listed
        anew == ReachesForm(c) /\ Renews("success") IN
    /\ c.state = "made"
    /\ listed' = rows
    /\ IF form.closes
       THEN /\ open' = NULL /\ saves' = Late(rest)
            /\ draft' = IF anew \/ Renews("close") \/ Renews("row")
                        THEN Fresh(c.row, rows, NextVersion) ELSE draft
            /\ error' = IF ~form.stays THEN 0
                        ELSE Cleared(IF form.effect /\ open # NULL THEN "close" ELSE "success")
            /\ busy' = FALSE
       ELSE /\ saves' = rest
            /\ draft' = IF anew THEN Fresh(c.row, rows, NextVersion) ELSE draft
            /\ busy' = (busy /\ ~ReachesForm(c))
            /\ UNCHANGED <<open, error>>
    /\ disturbed' = DisturbedBy(c)
    /\ UNCHANGED <<form, asked, table>>

FailedAndClosed(s) ==  \* mutant: the form is closed whatever the answer
    /\ saves[s].state = "refused"
    /\ Closed(TRUE, listed, [saves EXCEPT ![s] = Idle])
    /\ disturbed' = DisturbedBy(saves[s])
    /\ UNCHANGED <<form, asked, table, listed>>
FailedStillBusy(s) ==  \* mutant: the flag is lowered on success only
    /\ saves[s].state = "refused"
    /\ saves' = [saves EXCEPT ![s] = Idle]
    /\ disturbed' = DisturbedBy(saves[s])
    /\ UNCHANGED <<form, open, draft, error, busy, asked, table, listed>>
Failed(s) ==
    LET c == saves[s] IN
    /\ c.state = "refused"
    /\ saves' = [saves EXCEPT ![s] = Idle]
    /\ error' = IF ReachesForm(c) /\ form.tells THEN c.draft.version ELSE error
    /\ busy' = (busy /\ ~ReachesForm(c))
    /\ disturbed' = DisturbedBy(c)
    /\ UNCHANGED <<form, open, draft, asked, table, listed>>

(* The rows are loaded after a save, or not; then the page closes the form *)
(* once more.                                                              *)
Loaded(s) ==
    /\ saves[s].state = "loading"
    /\ \/ listed' = [t \in Targets |-> IF t \in Over THEN table[t] ELSE listed[t]]
       \/ UNCHANGED listed
    /\ Closed(form.effect, listed', [saves EXCEPT ![s] = Idle])
    /\ disturbed' = IF open = NULL THEN disturbed ELSE disturbed \cup {"closed"}
    /\ UNCHANGED <<form, asked, table>>

Handle(s) == Save(s) \/ TurnDown(s)

Conclude(s) == Made(s) \/ Failed(s) \/ Loaded(s)

FormNext ==
    \/ Close \/ Type \/ AskAgain \/ AskOfPage \/ Confirm \/ Cancel
    \/ \E t \in Targets : Open(t) \/ Others(t) \/ Refresh(t)
    \/ \E s \in Slots :
          \/ Submit(s) \/ AskFirst(s) \/ AskInstead(s)
          \/ Handle(s) \/ LoseAnswer(s) \/ Conclude(s)

FormSpec == FormInit /\ [][FormNext]_formVars

(* Requests are handled and end with an answer or an error; nothing makes  *)
(* the user do anything.                                                   *)
FairFormSpec == FormSpec /\ \A s \in Slots : WF_formVars(Handle(s)) /\ WF_formVars(Conclude(s))

-----------------------------------------------------------------------------
(* Type invariant. *)
FormTypeOK ==
    /\ form \in Form /\ open \in OrNull(Targets)
    /\ draft \in Draft /\ error \in 0 .. MaxVersions /\ busy \in BOOLEAN
    /\ asked \in OrNull({0} \cup Slots)
    /\ saves \in [Slots -> Submission]
    /\ table \in [Targets -> 0 .. MaxRow] /\ listed \in [Targets -> 0 .. MaxRow]
    /\ disturbed \in SUBSET {"late", "closed", "renewed", "behind", "replaced"}

(* What is sent was filled in from, or typed for, the row it is sent to,   *)
(* although one form serves all rows (for example EditTaskModal.tsx:92-    *)
(* 108): unless the page closed the form for an earlier save, which        *)
(* AssignSprintModal does not notice (ProjectsBacklogPage.tsx:295-298).    *)
WritesItsRow ==
    \A s \in Slots :
       LET c == saves[s] IN
       c.state # "none" /\ form.over = "many" /\ "closed" \notin disturbed => c.draft.row = c.row

(* A form just filled shows the row as the page has it, whether it was     *)
(* opened, closed, saved or refused before (ProjectsOverviewPage.tsx:62-   *)
(* 78, EditProjectSprintModal.tsx:45-71): unless the row changed on the    *)
(* page while the form was open and does not follow it.                    *)
DraftIsCurrent ==
    open # NULL /\ form.filled /\ ~draft.typed /\ "behind" \notin disturbed =>
       draft.row = open /\ draft.seen = listed[open]

(* The error shown is about the draft that is in the form: unless an       *)
(* answer to a form closed earlier came late, or the row took the place of *)
(* the draft (for example AddProjectMemberModal.tsx:61-96, which keeps     *)
(* both when it is closed).                                                *)
ErrorIsOfDraft ==
    open # NULL /\ error # 0 /\ disturbed \cap {"late", "renewed"} = {} =>
       error \in draft.base .. draft.version

(* An open form is submitted once at a time (asserted for example at       *)
(* CreateProjectModal.test.tsx:86): unless an answer to a form closed      *)
(* earlier, or a reset, enabled the button.                                *)
OneAtATime ==
    disturbed \cap {"late", "renewed"} = {} =>
       \A r, s \in Slots :
          (\A q \in {r, s} : ~saves[q].late /\ saves[q].state \notin {"none", "loading"}) => r = s

(* What is typed stays until the user closes the form, it is saved, or the *)
(* row takes its place, as long as nothing of a form closed earlier is     *)
(* under way.                                                              *)
TypedIsKept ==
    [][ open # NULL /\ draft.typed /\ (\A s \in Slots : ~saves[s].late) =>
           \/ open' = open /\ draft'.typed
           \/ open' = NULL /\ \A s \in Slots : saves'[s].state = saves[s].state
           \/ \E s \in Slots : saves[s].state = "made" /\ saves'[s].state # "made"
           \/ listed' # listed ]_formVars

(* A form that is submitting stops, unless its question waits for the user *)
(* or was replaced by another (ConfirmProvider.tsx:22-28).                 *)
SubmitEnds == busy /\ "replaced" \notin disturbed ~> ~busy \/ asked # NULL
=============================================================================
