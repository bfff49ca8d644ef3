---------------------------- MODULE AuthSession ----------------------------
(***************************************************************************)
(* The session of one browser tab: modules/auth/AuthProvider.tsx over the  *)
(* token in localStorage, the client that sends it, the forms that change  *)
(* it and the route that asks for it.  Answers arrive in any order, also   *)
(* after the page that asked for them is gone; other tabs write the same   *)
(* localStorage, and no listener tells this one.                           *)
(*                                                                         *)
(* A handler changes the state of React at once and the screen, with the   *)
(* effects that depend on it, at the next Render; an answer may come       *)
(* between the two.  Leaving the application for an OAuth provider or      *)
(* loading it anew drops everything but localStorage.                      *)
(*                                                                         *)
(* Left out: names and addresses in a profile, error texts, and the forms  *)
(* that neither read nor write the session (registration, passwords).      *)
(***************************************************************************)
EXTENDS Frontend

CONSTANTS
    Users,          \* accounts
    MaxTime,        \* bound: seconds in which tokens are issued
    MaxVisits,      \* bound: logins, loads of the page, returns, other tabs' changes
    MaxAttempts     \* bound: logins through an OAuth provider

ASSUME SessionBounds == {MaxTime, MaxVisits, MaxAttempts} \subseteq Nat
ASSUME SessionNull ==
    NULL \notin Users /\ NULL \notin Nat /\ NULL \notin [user : Users, at : Nat]

(* The claims of a JWT: two logins of a user within a second are alike. *)
Tokens == [user : Users, at : 0 .. MaxTime]

Attempts == 1 .. MaxAttempts

VARIABLES
    stored,     \* localStorage: the token, shared by all tabs
    oauth,      \* localStorage: oauth_state, the attempt that is expected back
    token,      \* React state of AuthProvider
    user,       \* React state of AuthProvider: whose profile it has
    screen,     \* token and user as they were rendered last
    requests,   \* per slot, a request that is not answered yet
    now,        \* the second in which the server issues tokens
    oldest,     \* the server refuses tokens that are older
    attempts,   \* how many OAuth attempts have been started
    visits,     \* how many of MaxVisits are used up
    history     \* what came out of its time: see History

sessionVars ==
    <<stored, oauth, token, user, screen, requests, now, oldest, attempts, visits, history>>

TabRequest ==
    [kind : {"none", "login", "me", "profile", "delete", "page"},
     who  : OrNull(Users),      \* login: who logs in
     sent : OrNull(Tokens),     \* the token in its Authorization header
     good : BOOLEAN,            \* the server accepted that token when it was sent
     live : BOOLEAN]            \* me: not cancelled by the effect's cleanup

NoRequest == [kind |-> "none", who |-> NULL, sent |-> NULL, good |-> FALSE, live |-> FALSE]

History ==
    [foreign  : BOOLEAN,    \* another tab has changed stored since this one did
     crossed  : BOOLEAN]    \* in this session an answer was handled out of its time

Nothing == [token |-> NULL, user |-> NULL]

SessionInit ==
    /\ stored \in OrNull([user : Users, at : {0}])
    /\ oauth = NULL
    /\ token = stored
    /\ user = NULL
    /\ screen = Nothing
    /\ requests = [s \in Slots |-> NoRequest]
    /\ now = 0 /\ oldest = 0 /\ attempts = 0 /\ visits = 0
    /\ history = [foreign |-> FALSE, crossed |-> FALSE]

Current == [token |-> token, user |-> user]

Rendered == screen = Current

clock == <<now, oldest>>

bounds == <<attempts, visits>>

Visit == visits < MaxVisits /\ visits' = visits + 1

Accepts(t) == t # NULL /\ t.at >= oldest

(* apiFetch reads the token from localStorage, not from React's state. *)
Request(kind) == [NoRequest EXCEPT !.kind = kind, !.sent = stored, !.good = Accepts(stored)]

FreeSlot(s) == requests[s].kind = "none"

-----------------------------------------------------------------------------
(* handleAuthExpired, logout and the catch of the effect all do this. *)
ClearedStorage == NULL

ClearSession ==
    /\ stored' = ClearedStorage
    /\ token' = NULL
    /\ user' = NULL
    /\ history' = [history EXCEPT !.foreign = FALSE, !.crossed = FALSE]

Login(t) ==
    /\ stored' = t
    /\ token' = t
    /\ user' = NULL
    /\ history' = [history EXCEPT !.foreign = FALSE,
                                  !.crossed = ~Rendered \/ history.foreign \/ (@ /\ t = token)]

Logout ==
    /\ screen.token # NULL /\ screen.user # NULL
    /\ ClearSession
    /\ UNCHANGED <<oauth, screen, requests, clock, bounds>>

-----------------------------------------------------------------------------
(* The dependencies of the effect that loads the profile. *)
Dependencies(c) == <<c.token, c.user>>

AwaitsProfile(c) == c.token # NULL /\ c.user = NULL

(* The cleanup of the effect that ran before. *)
Cancelled(c) == [c EXCEPT !.live = FALSE]

(* React renders; when token or user are not what they were, the effect is *)
(* cleaned up and runs again.                                              *)
Render ==
    /\ ~Rendered
    /\ screen' = Current
    /\ IF Dependencies(screen) = Dependencies(Current) THEN UNCHANGED requests
       ELSE LET clean == [s \in Slots |-> Cancelled(requests[s])] IN
            IF AwaitsProfile(Current)
            THEN \E s \in Slots :
                    /\ FreeSlot(s)
                    /\ requests' = [clean EXCEPT ![s] = [Request("me") EXCEPT !.live = TRUE]]
            ELSE requests' = clean
    /\ UNCHANGED <<stored, oauth, token, user, clock, bounds, history>>

(* ProtectedRoute and AppLayout show a page to a user whose profile is     *)
(* there.  What a page asks for starts from the rendered screen; the last  *)
(* free slot is left to the profile.                                       *)
OnPage == Rendered /\ screen.token # NULL /\ screen.user # NULL

Start(s, c) ==
    /\ FreeSlot(s)
    /\ \E r \in Slots \ {s} : FreeSlot(r)
    /\ requests' = [requests EXCEPT ![s] = c]
    /\ UNCHANGED <<stored, oauth, token, user, screen, clock, bounds, history>>

AskFromPage(s, kind) == OnPage /\ Start(s, Request(kind))

(* LoginForm, which is shown whether or not somebody is logged in. *)
SubmitLogin(s, u) == Rendered /\ Start(s, [NoRequest EXCEPT !.kind = "login", !.who = u])

-----------------------------------------------------------------------------
(* Answers.  Ended(s) frees the slot. *)
Ended(s) ==
    /\ ~FreeSlot(s)
    /\ requests' = [requests EXCEPT ![s] = NoRequest]
    /\ UNCHANGED <<oauth, screen, clock, attempts>>

Keep == UNCHANGED <<stored, token, user, history>>

LoggedIn(s) ==
    /\ requests[s].kind = "login"
    /\ Visit
    /\ Login([user |-> requests[s].who, at |-> now])
    /\ Ended(s)

(* A login that fails says so in its form, and a 401 of /api/auth/ ends    *)
(* no session.                                                             *)
LoginFailed(s) ==
    /\ requests[s].kind = "login"
    /\ Keep /\ UNCHANGED visits
    /\ Ended(s)

(* The bodies of then and catch run for a call that is not cancelled. *)
HeededAlways(c) == TRUE   \* mutant: the flag is not looked at
Heeded(c) == c.live

SetUser(u, out) ==
    /\ user' = u
    /\ history' = [history EXCEPT !.crossed = out]
    /\ UNCHANGED <<stored, token>>

Profile(s) ==
    LET c == requests[s] IN
    /\ c.kind = "me" /\ c.good
    /\ IF Heeded(c) THEN SetUser(c.sent.user, history.crossed \/ ~Rendered) ELSE Keep
    /\ UNCHANGED visits
    /\ Ended(s)

(* updateUser, whoever is logged in by now. *)
ProfileSaved(s) ==
    LET c == requests[s] IN
    /\ c.kind = "profile" /\ c.good
    /\ SetUser(c.sent.user, history.crossed \/ c.sent # token)
    /\ UNCHANGED visits
    /\ Ended(s)

AccountDeleted(s) ==
    /\ requests[s].kind = "delete" /\ requests[s].good
    /\ ClearSession /\ UNCHANGED visits
    /\ Ended(s)

PageAnswered(s) ==
    /\ requests[s].kind = "page"
    /\ Keep /\ UNCHANGED visits
    /\ Ended(s)

(* 401: the client dispatches pzio:auth-expired, cancelled or not. *)
Refused(s) ==
    /\ requests[s].kind \notin {"none", "login"}
    /\ ~Accepts(requests[s].sent)
    /\ ClearSession /\ UNCHANGED visits
    /\ Ended(s)

(* The server is not reached, or fails. *)
KeptOnFailure(c) == TRUE  \* mutant: the catch leaves the session as it is
KeepsSession(c) == c.kind # "me" \/ ~Heeded(c)

NotReached(s) ==
    LET c == requests[s] IN
    /\ c.kind \notin {"none", "login"}
    /\ IF KeepsSession(c) THEN Keep ELSE ClearSession
    /\ UNCHANGED visits
    /\ Ended(s)

Respond(s) ==
    \/ LoggedIn(s) \/ LoginFailed(s)
    \/ Profile(s) \/ ProfileSaved(s) \/ AccountDeleted(s) \/ PageAnswered(s)
    \/ Refused(s) \/ NotReached(s)

-----------------------------------------------------------------------------
(* The application is loaded: the state is what localStorage holds. *)
Load ==
    /\ token' = stored
    /\ user' = NULL
    /\ screen' = Nothing
    /\ UNCHANGED <<stored, clock>>

Reload ==
    /\ Load /\ Visit
    /\ requests' = [s \in Slots |-> NoRequest]
    /\ history' = [history EXCEPT !.foreign = FALSE, !.crossed = FALSE]
    /\ UNCHANGED <<oauth, attempts>>

(* OAuthButtons: the state goes to localStorage, the tab to the provider.  *)
StartOAuth ==
    /\ attempts < MaxAttempts
    /\ attempts' = attempts + 1
    /\ oauth' = attempts'
    /\ Load /\ UNCHANGED visits
    /\ requests' = [s \in Slots |-> NoRequest]
    /\ history' = [history EXCEPT !.foreign = FALSE, !.crossed = FALSE]

StateEmptied(a) == 0  \* mutant: an empty state is left
StateAfter(a) == NULL

(* OAuthCallbackPage, loaded with the answer to attempt a, maybe not for   *)
(* the first time.  The state is taken out of localStorage before it is    *)
(* compared; the page's ref keeps the effect from running twice.           *)
OAuthReturn(s, u, a) ==
    LET expected == oauth = a IN
    /\ a <= attempts
    /\ Load /\ Visit
    /\ oauth' = StateAfter(a)
    /\ requests' = [r \in Slots |->
                    IF r = s /\ expected THEN [NoRequest EXCEPT !.kind = "login", !.who = u]
                                         ELSE NoRequest]
    /\ history' = [history EXCEPT !.foreign = FALSE, !.crossed = FALSE]
    /\ UNCHANGED attempts

(* Another tab logs in or out. *)
OtherTab(t) ==
    /\ Visit
    /\ stored' = t
    /\ history' = [history EXCEPT !.foreign = TRUE]
    /\ UNCHANGED <<oauth, token, user, screen, requests, clock, attempts>>

Tick ==
    /\ now < MaxTime
    /\ now' = now + 1
    /\ UNCHANGED <<stored, oauth, token, user, screen, requests, oldest, bounds, history>>

(* Tokens expire. *)
Expire ==
    /\ oldest < now
    /\ oldest' = oldest + 1
    /\ UNCHANGED <<stored, oauth, token, user, screen, requests, now, bounds, history>>

SessionNext ==
    \/ Render \/ Logout \/ Reload \/ StartOAuth \/ Tick \/ Expire
    \/ \E s \in Slots :
          \/ Respond(s)
          \/ \E kind \in {"profile", "delete", "page"} : AskFromPage(s, kind)
          \/ \E u \in Users : SubmitLogin(s, u) \/ \E a \in Attempts : OAuthReturn(s, u, a)
    \/ OtherTab(NULL) \/ \E u \in Users : OtherTab([user |-> u, at |-> now])

SessionSpec == SessionInit /\ [][SessionNext]_sessionVars

(* React renders what has changed, and the browser ends every request: it  *)
(* is answered, or fails when the connection does.                         *)
FairSessionSpec == SessionSpec /\ WF_sessionVars(Render) /\ \A s \in Slots : WF_sessionVars(Respond(s))

-----------------------------------------------------------------------------
(* Type invariant. *)
SessionTypeOK ==
    /\ {stored, token} \subseteq OrNull(Tokens)
    /\ oauth \in OrNull(Attempts)
    /\ user \in OrNull(Users)
    /\ screen \in [token : OrNull(Tokens), user : OrNull(Users)]
    /\ requests \in [Slots -> TabRequest]
    /\ now \in 0 .. MaxTime /\ oldest \in 0 .. MaxTime
    /\ attempts \in 0 .. MaxAttempts /\ visits \in 0 .. MaxVisits
    /\ history \in History

(* This tab and localStorage agree about the session, and the profile is   *)
(* that of the token's user, however late the answers of earlier sessions  *)
(* come (AuthProvider.tsx:37-47); unless another tab has changed the token *)
(* or an answer came out of its time: the answer to a change of profile    *)
(* from an earlier session, one between a change and its render, or a      *)
(* login while the token was another tab's.                                *)
SessionAgrees ==
    ~history.foreign =>
        /\ token = stored
        /\ token # NULL /\ user # NULL /\ ~history.crossed => user = token.user

(* "this naturally goes back to false instead of getting stuck"            *)
(* (AuthProvider.tsx:13-15): the profile comes, or the session is dropped, *)
(* unless an answer comes out of its time.                                 *)
SpinnerEnds == AwaitsProfile(Current) ~> (~AwaitsProfile(Current) \/ history.crossed)
=============================================================================
