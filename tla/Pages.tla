------------------------------- MODULE Pages -------------------------------
(***************************************************************************)
(* A page of the frontend that loads rows for what it is asked about (a    *)
(* sprint, a task, a filter), lets the user change them, and puts the      *)
(* answers on the screen.  The pages of src/frontend/src/modules differ in *)
(* how they do this; the variable page holds which of them it is.          *)
(*                                                                         *)
(* The server handles requests, and answers arrive, in any order.  Only    *)
(* this page changes the rows, and a row belongs to one key.               *)
(*                                                                         *)
(* Left out: the columns of a row, the order of rows, texts of errors, the *)
(* rows shown for other purposes (names of members, lists in a select),    *)
(* and buttons disabled while their request is under way, so that the      *)
(* users here can do more than the real ones.  The question asked before a *)
(* row is removed covers the page, so that asking and sending are one step *)
(* here.                                                                   *)
(***************************************************************************)
EXTENDS Frontend

CONSTANTS
    Keys,           \* what a page may be asked about
    MaxMoves,       \* bound: navigations
    MaxChanges      \* bound: changes

ASSUME PageBounds == {MaxMoves, MaxChanges} \cup Slots \subseteq Nat

Items == Keys \X (1 .. 2)

Values == 1 .. 3    \* of a row; 0 stands for a row that is not there

(* Where rows are tasks, the value of the second row of a key tells whether *)
(* it is below the first one: as its child, or as the child of a child      *)
(* that the page does not list, having another status.                      *)
Child == 2
Grandchild == 3

Ops == {"add", "set", "remove"}

(* How a change and its answer get on the screen:                          *)
(*   reload   the effect loads the rows again                              *)
(*   fetch    the rows are fetched again, outside the effect               *)
(*   edit     the row is appended, replaced or taken out                   *)
(*   replace  the answer is what is shown                                  *)
(*   row      at once; the row is put back when the change fails           *)
(*   whole    at once; all rows are put back when the change fails         *)
Effects == {"reload", "fetch", "edit", "replace", "row", "whole"}

ASSUME PageNull ==
    NULL \notin Keys /\ NULL \notin Nat /\ NULL \notin Ops \cup Effects

VARIABLES
    page,       \* which page
    key,        \* what it is asked about
    rows,       \* React state: the rows
    loaded,     \* React state: the key that is not loading any more, or NULL
    failed,     \* React state: an error is shown instead of the rows
    server,     \* the rows on the server; NULL when deleted
    calls,      \* per slot, a request whose answer has not been handled
    moves,      \* how many of MaxMoves are used up
    changes,    \* how many of MaxChanges are used up
    past        \* history: what disturbed the rows since the last load began

pageVars == <<page, key, rows, loaded, failed, server, calls, moves, changes, past>>

-----------------------------------------------------------------------------
(* The pages.  A page that moves keeps its state when it is asked about    *)
(* something else; one that remounts loses it.                             *)
Page ==
    [guarded : BOOLEAN,                 \* the cleanup of the effect cancels its load
     moves   : {"same", "remount"},
     single  : BOOLEAN,                 \* one row per key
     derived : BOOLEAN,                 \* loading is derived from the key loaded
     nested  : BOOLEAN,                 \* a row is removed with the rows below it
     hides   : SUBSET Ops,              \* a change that fails hides the rows
     how     : [Ops -> SUBSET Effects]]

How(add, set, remove) == [add |-> add, set |-> set, remove |-> remove]

Base == [guarded |-> TRUE, moves |-> "remount", single |-> FALSE, derived |-> FALSE,
         nested |-> FALSE, hides |-> {}, how |-> How({}, {}, {})]

ProjectsListPage ==
    [Base EXCEPT !.moves = "same", !.hides = {"set"}, !.how = How({"reload"}, {"reload"}, {})]
ProjectsMembersPage ==
    [Base EXCEPT !.moves = "same", !.how = How({"reload"}, {"reload"}, {"edit"})]
ProjectsSprintsPage == [Base EXCEPT !.how = How({"reload"}, {"reload"}, {"edit"})]
ProjectsBacklogPage ==
    [Base EXCEPT !.nested = TRUE, !.how = How({"edit"}, {"fetch"}, {"edit"})]
ProjectsBoardPage   == [Base EXCEPT !.moves = "same", !.how = How({}, {"whole"}, {})]
ProjectDetailsLayout ==
    [Base EXCEPT !.moves = "same", !.single = TRUE, !.how = How({}, {"replace", "fetch"}, {})]
TasksListPage == [Base EXCEPT !.how = How({"edit"}, {}, {})]
TaskDetailPage ==
    [Base EXCEPT !.moves = "same", !.single = TRUE, !.how = How({}, {"replace"}, {})]
WorklogsSection == [Base EXCEPT !.how = How({"edit"}, {}, {})]
CommentsSection == [Base EXCEPT !.guarded = FALSE, !.how = How({"edit"}, {"edit"}, {"edit"})]
AttachmentsSection == [Base EXCEPT !.guarded = FALSE, !.how = How({"fetch"}, {}, {"edit"})]
UsersPanel ==
    [Base EXCEPT !.moves = "same", !.derived = TRUE, !.how = How({}, {"row"}, {})]
BurndownModal == [Base EXCEPT !.guarded = FALSE, !.moves = "same", !.single = TRUE]
TaskTypesPanel == [Base EXCEPT !.hides = {"remove"}, !.how = How({"edit"}, {}, {"edit"})]

Pages ==
    {ProjectsListPage, ProjectsMembersPage, ProjectsSprintsPage, ProjectsBacklogPage,
     ProjectsBoardPage, ProjectDetailsLayout, TasksListPage, TaskDetailPage,
     WorklogsSection, CommentsSection, AttachmentsSection, BurndownModal, UsersPanel,
     TaskTypesPanel}

-----------------------------------------------------------------------------
Rows == [Items -> {0} \cup Values]

NoRows == [i \in Items |-> 0]

First(i) == <<i[1], 1>>

Second(i) == <<i[1], 2>>

(* What a row may be: only a second row can be below another.              *)
ValuesOf(i) == IF page.nested /\ i = Second(i) THEN Values ELSE 1 .. 2

(* The rows below row i in f that have one of these values.                *)
Below(f, i, hung) == {j \in Items : page.nested /\ i = First(i) /\ j = Second(i) /\ f[j] \in hung}

Call ==
    [kind   : {"none", "load", "fetch", "change"},
     key    : OrNull(Keys),
     live   : BOOLEAN,          \* neither cancelled nor of a page that is gone
     state  : {"sent", "accepted", "refused"},
     data   : Rows,             \* load, fetch: the answer; change: the rows before it,
                                \* where they matter
     op     : OrNull(Ops),
     how    : OrNull(Effects),
     item   : OrNull(Items),
     value  : {0} \cup Values]

NoCall ==
    [kind |-> "none", key |-> NULL, live |-> TRUE, state |-> "sent", data |-> NoRows,
     op |-> NULL, how |-> NULL, item |-> NULL, value |-> 0]

Ask(kind, k) == [NoCall EXCEPT !.kind = kind, !.key = k]

Free(s) == calls[s].kind = "none"

Taken(s) == Least(s, {r \in Slots : Free(r)})

Loading == loaded # key

Showing == ~Loading /\ ~failed

PageInit ==
    /\ page \in Pages
    /\ key \in Keys
    /\ rows = NoRows /\ loaded = NULL /\ failed = FALSE
    /\ server \in {f \in Rows : \A k \in Keys :
                      /\ f[<<k, 1>>] = 1
                      /\ f[<<k, 2>>] \in 0 .. (IF page.single THEN 0 ELSE IF page.nested THEN 3 ELSE 1)}
    /\ \E s \in Slots : Least(s, Slots) /\ calls = [r \in Slots |-> IF r = s THEN Ask("load", key) ELSE NoCall]
    /\ moves = 0 /\ changes = 0
    /\ past = {}

-----------------------------------------------------------------------------
(* The server. *)
OnServer(k) == [i \in Items |-> IF i[1] = k /\ server[i] \in Values THEN server[i] ELSE 0]

HangsBelow(c) == page.nested /\ c.op # "remove" /\ c.item = Second(c.item) /\ c.value # 1

Applies(c) ==
    /\ IF c.op = "add" THEN server[c.item] = 0 ELSE server[c.item] \in Values
    /\ HangsBelow(c) => server[First(c.item)] \in Values

(* _delete_work_item_tree takes all rows below, listed or not.             *)
Deleted(c) == {c.item} \cup Below(server, c.item, {Child, Grandchild})

Applied(c) ==
    IF c.op = "remove" THEN [i \in Items |-> IF i \in Deleted(c) THEN NULL ELSE server[i]]
    ELSE [server EXCEPT ![c.item] = c.value]

(* A row goes that hangs by one the page does not list.                    *)
TakesUnseen(c) == c.op = "remove" /\ Below(server, c.item, {Grandchild}) # {}

Settle(s, state, data) == calls' = [calls EXCEPT ![s].state = state, ![s].data = data]

Accept(s) ==
    LET c == calls[s] IN
    /\ c.kind # "none" /\ c.state = "sent"
    /\ IF c.kind = "change"
       THEN /\ Applies(c) /\ server' = Applied(c) /\ Settle(s, "accepted", c.data)
            /\ past' = past \cup {w \in {"unseen"} : TakesUnseen(c)}
       ELSE UNCHANGED <<server, past>> /\ Settle(s, "accepted", OnServer(c.key))
    /\ UNCHANGED <<page, key, rows, loaded, failed, moves, changes>>

(* The server refuses the request, fails, or is not reached. *)
Refuse(s) ==
    /\ ~Free(s) /\ calls[s].state = "sent"
    /\ Settle(s, "refused", calls[s].data)
    /\ UNCHANGED <<page, key, rows, loaded, failed, server, moves, changes, past>>

(* The change is made, but its answer is lost. *)
Lose(s) ==
    /\ calls[s].kind = "change" /\ calls[s].state = "accepted"
    /\ Settle(s, "refused", calls[s].data)
    /\ past' = past \cup {"lost"}
    /\ UNCHANGED <<page, key, rows, loaded, failed, server, moves, changes>>

Serve(s) == Accept(s) \/ Refuse(s)

-----------------------------------------------------------------------------
(* The effect that loads the rows: its cleanup, and what may disturb what  *)
(* it loads: a change whose answer does not lead to another load, and an   *)
(* answer for another key that is not filtered by key.                     *)
Cleaned(c) == IF page.guarded /\ c.kind = "load" THEN [c EXCEPT !.live = FALSE] ELSE c

(* Of a page that is gone only the requests at the server are of interest. *)
Unmounted(c) ==
    IF c.kind = "change" /\ c.state = "sent" THEN [c EXCEPT !.live = FALSE] ELSE NoCall

Disturbs(c) ==
    \/ c.live /\ (c.kind = "fetch" \/ (c.kind = "change" /\ c.how # "reload"))
    \/ ~c.live /\ c.kind = "change" /\ c.state = "sent"

HasOthers(c, k) ==
    \/ c.how = "replace" /\ c.item[1] # k
    \/ c.how = "whole" /\ \E i \in Items : c.data[i] # 0 /\ i[1] # k

Strays(c, k) ==
    /\ c.live
    /\ \/ HasOthers(c, k)
       \/ /\ c.key # k
          /\ \/ c.kind = "fetch" \/ c.how \in {"fetch", "replace", "whole"}
             \/ c.kind = "load" /\ ~page.guarded

StartLoad(s, k, others) ==
    /\ calls' = [others EXCEPT ![s] = Ask("load", k)]
    /\ past' = {w \in {"crossed", "stray"} : \E r \in Slots \ {s} :
                   IF w = "crossed" THEN Disturbs(others[r]) ELSE Strays(others[r], k)}

Navigate(s, k) ==
    /\ moves < MaxMoves /\ moves' = moves + 1
    /\ Taken(s)
    /\ key' = k
    /\ IF page.moves = "same"
       THEN /\ k # key
            /\ UNCHANGED rows
            /\ loaded' = IF page.derived THEN loaded ELSE NULL
            /\ failed' = (page.derived /\ failed)
            /\ StartLoad(s, k, [r \in Slots |-> Cleaned(calls[r])])
       ELSE /\ rows' = NoRows /\ loaded' = NULL /\ failed' = FALSE
            /\ StartLoad(s, k, [r \in Slots |-> Unmounted(calls[r])])
    /\ UNCHANGED <<page, server, changes>>

-----------------------------------------------------------------------------
(* A change.  Rows are added under ids that were never used. *)
Optimistic == {"row", "whole"}

Offered(op, i, v) ==
    CASE op = "add"    -> /\ i[1] = key /\ server[i] = 0 /\ \A r \in Slots : calls[r].item # i
                          /\ v = 1 \/ (page.nested /\ v \in ValuesOf(i))
      [] op = "set"    -> Showing /\ rows[i] # 0 /\ v # rows[i] /\ v \in ValuesOf(i)
      [] op = "remove" -> Showing /\ rows[i] # 0 /\ v = rows[i]

(* The rows a change may reach: with a removed row those that may be below.*)
Reach(op, i) ==
    {i} \cup {j \in Items : page.nested /\ op = "remove" /\ i = First(i) /\ j = Second(i)}

Crosses(c, op, i, how) ==
    /\ c.live /\ how # "reload"
    /\ \/ c.kind \in {"load", "fetch"}
       \/ /\ c.kind = "change" /\ c.how # "reload"
          /\ Reach(c.op, c.item) \cap Reach(op, i) # {} \/ how = "whole"

(* What is put back when the change fails, and what the rows to remove are *)
(* found in: handleDelete looks for them before it asks.                   *)
Kept(op, how) ==
    IF how \in Optimistic \/ (page.nested /\ op = "remove") THEN rows ELSE NoRows

Change(s, op, i, v, how) ==
    /\ changes < MaxChanges /\ changes' = changes + 1
    /\ how \in page.how[op]
    /\ Taken(s)
    /\ Offered(op, i, v)
    /\ calls' = [calls EXCEPT ![s] =
                    [Ask("change", key) EXCEPT
                        !.op = op, !.how = how, !.item = i, !.value = v,
                        !.data = Kept(op, how)]]
    /\ rows' = IF how \in Optimistic THEN [rows EXCEPT ![i] = v] ELSE rows
    /\ past' = past \cup {w \in {"crossed"} : \E r \in Slots : Crosses(calls[r], op, i, how)}
    /\ UNCHANGED <<page, key, loaded, failed, server, moves>>

-----------------------------------------------------------------------------
(* Answers. *)
Done(s) == calls' = [calls EXCEPT ![s] = NoCall]

(* A call that is not heeded any more. *)
ReachesAlways(c) == TRUE  \* mutant: the flag of the effect is not looked at
Reaches(c) == c.live

Ignored(s) ==
    /\ ~Free(s) /\ calls[s].state # "sent" /\ ~Reaches(calls[s])
    /\ Done(s)
    /\ UNCHANGED <<page, key, rows, loaded, failed, server, moves, changes, past>>

(* The flag is also lowered when the load fails. *)
SettlesOnSuccess(c) == c.state = "accepted"  \* mutant: only there
Settles(c) == TRUE

(* A page without a guard tells of the error and shows what it has, which  *)
(* may be of another key.  Where loading is derived, rows that arrive also  *)
(* end an error; elsewhere it went when the load began.                    *)
Missed == {w \in {"lost", "stray"} : w = "stray" => \E i \in Items : rows[i] # 0 /\ i[1] # key}

LoadAnswered(s) ==
    LET c == calls[s]
        ok == c.state = "accepted" IN
    /\ c.kind = "load" /\ c.state # "sent" /\ Reaches(c)
    /\ rows' = IF ok THEN c.data ELSE rows
    /\ failed' = IF ok THEN failed /\ ~page.derived ELSE page.guarded
    /\ loaded' = IF ~Settles(c) THEN loaded ELSE IF page.derived THEN c.key ELSE key
    /\ past' = IF ok \/ page.guarded THEN past ELSE past \cup Missed
    /\ Done(s)
    /\ UNCHANGED <<page, key, server, moves, changes>>

(* reloadBacklog, refreshAttachments, refreshProject: whatever is shown by *)
(* now.                                                                    *)
FetchAnswered(s) ==
    LET c == calls[s]
        ok == c.state = "accepted" IN
    /\ c.kind = "fetch" /\ c.state # "sent" /\ Reaches(c)
    /\ rows' = IF ok THEN c.data ELSE rows
    /\ failed' = IF page = ProjectDetailsLayout THEN ~ok ELSE failed
    /\ loaded' = IF page.guarded THEN loaded ELSE key
    /\ past' = IF ok THEN past ELSE past \cup {"lost"}
    /\ Done(s)
    /\ UNCHANGED <<page, key, server, moves, changes>>

(* getDescendantIds follows the parents among the rows listed.             *)
RemovedAlone(c) == {c.item}  \* mutant: the rows below it stay
Removed(c) == {c.item} \cup Below(c.data, c.item, {Child})

EditedBlank(c) ==  \* mutant: a removed row is blanked and stays in the list
    [rows EXCEPT ![c.item] = IF c.op = "remove" THEN NULL ELSE c.value]

Edited(c) ==
    CASE c.op = "add"    -> [rows EXCEPT ![c.item] = c.value]
      [] c.op = "set"    -> [rows EXCEPT ![c.item] = IF @ = 0 THEN 0 ELSE c.value]
      [] c.op = "remove" -> [i \in Items |-> IF i \in Removed(c) THEN 0 ELSE rows[i]]

ChangeMade(s) ==
    LET c == calls[s] IN
    /\ c.kind = "change" /\ c.state = "accepted" /\ Reaches(c)
    /\ CASE c.how = "reload" ->
              /\ loaded' = NULL /\ failed' = FALSE
              /\ StartLoad(s, key, [r \in Slots |-> Cleaned(calls[r])])
              /\ UNCHANGED rows
         [] c.how = "fetch" ->
              /\ calls' = [calls EXCEPT ![s] = Ask("fetch", c.key)]
              /\ past' = past \cup {w \in {"crossed"} : \E r \in Slots \ {s} : Disturbs(calls[r])}
              /\ UNCHANGED <<rows, loaded, failed>>
         [] c.how \in {"edit", "row"} ->
              /\ rows' = Edited(c)
              /\ Done(s) /\ UNCHANGED <<loaded, failed, past>>
         [] c.how = "replace" ->
              /\ rows' = [NoRows EXCEPT ![c.item] = c.value]
              /\ Done(s) /\ UNCHANGED <<loaded, failed, past>>
         [] c.how = "whole" ->
              Done(s) /\ UNCHANGED <<rows, loaded, failed, past>>
    /\ UNCHANGED <<page, key, server, moves, changes>>

Reverted(c) ==
    CASE c.how = "whole" -> c.data
      [] c.how = "row"   -> [rows EXCEPT ![c.item] = IF @ = 0 THEN 0 ELSE c.data[c.item]]
      [] OTHER           -> rows

ChangeFailed(s) ==
    LET c == calls[s] IN
    /\ c.kind = "change" /\ c.state = "refused" /\ Reaches(c)
    /\ rows' = Reverted(c)
    /\ failed' = (failed \/ c.op \in page.hides)
    /\ Done(s)
    /\ UNCHANGED <<page, key, loaded, server, moves, changes, past>>

Answer(s) ==
    Ignored(s) \/ LoadAnswered(s) \/ FetchAnswered(s) \/ ChangeMade(s) \/ ChangeFailed(s)

PageNext ==
    \E s \in Slots :
       \/ Serve(s) \/ Lose(s) \/ Answer(s)
       \/ \E k \in Keys : Navigate(s, k)
       \/ \E op \in Ops, i \in Items, v \in Values, how \in Effects : Change(s, op, i, v, how)

PageSpec == PageInit /\ [][PageNext]_pageVars

(* Requests are handled, and the browser ends each with an answer or an    *)
(* error.                                                                  *)
FairPageSpec == PageSpec /\ \A s \in Slots : WF_pageVars(Serve(s)) /\ WF_pageVars(Answer(s))

-----------------------------------------------------------------------------
(* Type invariant. *)
PageTypeOK ==
    /\ page \in Page /\ key \in Keys
    /\ rows \in Rows
    /\ loaded \in OrNull(Keys) /\ failed \in BOOLEAN
    /\ server \in [Items -> OrNull({0} \cup Values)]
    /\ calls \in [Slots -> Call]
    /\ moves \in 0 .. MaxMoves /\ changes \in 0 .. MaxChanges
    /\ past \in SUBSET {"crossed", "stray", "lost", "unseen"}

(* A page at rest shows what the server has, however loads, changes and    *)
(* their failures were ordered (for example ProjectsBoardPage.tsx:339-361, *)
(* UsersPanel.tsx:75-134, ProjectsBacklogPage.tsx:84-97): unless the       *)
(* answer to a change or a refresh was lost, one for another key came      *)
(* late, a change overlapped with a load or with another change of a row   *)
(* it may reach, or a task was deleted below a deleted one by way of one   *)
(* the backlog does not list, having another status: it stays on the       *)
(* screen (tasks/service.py:127, ProjectsBacklogPage.tsx:55-69).           *)
ShowsServer ==
    (\A s \in Slots : Free(s)) /\ Showing /\ past = {} => rows = OnServer(key)

(* The rows shown belong to what the page is asked about, whatever         *)
(* overlaps (for example TaskDetailPage.tsx:106-148): unless, after a      *)
(* navigation, an answer comes that the code does not filter by key, or    *)
(* the rows shown before stay since loading failed without a guard.        *)
ShowsItsKey ==
    Showing /\ "stray" \notin past => \A i \in Items : rows[i] # 0 => i[1] = key

(* Loading ends, also when loads are cancelled or fail                     *)
(* (for example ProjectsListPage.tsx:85-89).                               *)
LoadingEnds == Loading ~> ~Loading
=============================================================================
