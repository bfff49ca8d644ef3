--------------------------- MODULE FrontendProofs ---------------------------
(***************************************************************************)
(* Proofs about the frontend, for every number of users, keys, rows and    *)
(* requests under way: the session of a tab (AuthSession), a form (Forms)  *)
(* and a page that loads rows (Pages).  The three share no state; each has *)
(* a part of its own below, with the invariant that is inductive, one      *)
(* lemma per action or kind of actions, and the theorems.                  *)
(***************************************************************************)
EXTENDS AuthSession, Forms, Pages, TLAPS

-----------------------------------------------------------------------------
(* The session.  What an answer finds when it comes: a request the server  *)
(* accepted carried a token, and the profile that is still awaited is the  *)
(* one of the token on the screen, or something came out of its time.      *)
Answerable ==
    \A s \in Slots :
        /\ requests[s].good => requests[s].sent # NULL
        /\ requests[s].kind = "login" => requests[s].who # NULL
        /\ requests[s].live => requests[s].kind = "me" /\ screen.token # NULL

InTime ==
    \A s \in Slots : requests[s].live =>
        \/ requests[s].sent = screen.token
        \/ history.foreign \/ history.crossed
        \/ token # screen.token

SessionInv == SessionTypeOK /\ Answerable /\ InTime /\ SessionAgrees

LEMMA SessionTypes ==
  /\ MaxTime \in Nat /\ MaxVisits \in Nat /\ MaxAttempts \in Nat
  /\ NULL \notin Users /\ NULL \notin Tokens /\ NULL \notin Attempts
  /\ NoRequest \in TabRequest
  /\ \A t \in Tokens : t.user \in Users /\ t.at \in 0 .. MaxTime
  <1>1. MaxTime \in Nat /\ MaxVisits \in Nat /\ MaxAttempts \in Nat
    BY SessionBounds
  <1>2. Tokens \subseteq [user : Users, at : Nat]
    BY <1>1 DEF Tokens
  <1>3. NULL \notin Users /\ NULL \notin Tokens /\ NULL \notin Attempts
    BY <1>2, <1>1, SessionNull DEF Attempts
  <1>4. NoRequest \in TabRequest
    BY DEF NoRequest, TabRequest, OrNull
  <1> QED BY <1>1, <1>3, <1>4 DEF Tokens

LEMMA SessionStarts ==
  ASSUME SessionInit
  PROVE  SessionInv
  <1>1. stored \in OrNull(Tokens)
    BY SessionTypes DEF SessionInit, OrNull, Tokens
  <1>2. \A s \in Slots : requests[s] = NoRequest
    BY DEF SessionInit
  <1>3. SessionTypeOK
    BY <1>1, SessionTypes DEF SessionInit, SessionTypeOK, OrNull, Nothing, History
  <1> QED BY <1>2, <1>3 DEF SessionInit, SessionInv, Answerable, InTime, SessionAgrees, NoRequest

LEMMA SessionFacts ==
  ASSUME SessionInv
  PROVE  /\ stored \in OrNull(Tokens) /\ token \in OrNull(Tokens)
         /\ user \in OrNull(Users)
         /\ screen = [token |-> screen.token, user |-> screen.user]
         /\ screen.token \in OrNull(Tokens) /\ screen.user \in OrNull(Users)
         /\ history = [foreign |-> history.foreign, crossed |-> history.crossed]
         /\ history.foreign \in BOOLEAN /\ history.crossed \in BOOLEAN
         /\ \A s \in Slots : requests[s] \in TabRequest
  BY DEF SessionInv, SessionTypeOK, History

(* What a handler may do to the session: leave it, end it, begin another,  *)
(* or bring a profile.                                                     *)
Brings(u, out) ==
    /\ u \in Users /\ out \in BOOLEAN
    /\ history.crossed => out
    /\ ~history.foreign /\ token # NULL /\ ~out => u = token.user

Handles ==
    \/ Keep
    \/ ClearSession
    \/ \E t \in Tokens : Login(t)
    \/ \E u, out : Brings(u, out) /\ SetUser(u, out)

LEMMA HandlingKeeps ==
  ASSUME SessionInv, Handles, screen' = screen
  PROVE  /\ {stored', token'} \subseteq OrNull(Tokens) /\ user' \in OrNull(Users)
         /\ history' \in History
         /\ SessionAgrees'
         /\ \A c \in TabRequest :
               /\ c.live => screen.token # NULL
               /\ c.live => \/ c.sent = screen.token
                            \/ history.foreign \/ history.crossed
                            \/ token # screen.token
               => (c.live => \/ c.sent = screen.token
                             \/ history'.foreign \/ history'.crossed
                             \/ token' # screen.token)
  <1>1. PICK f, g : f = history.foreign /\ g = history.crossed
    OBVIOUS
  <1>2. history = [foreign |-> f, crossed |-> g] /\ f \in BOOLEAN /\ g \in BOOLEAN
    BY <1>1, SessionFacts
  <1>3. Rendered \in BOOLEAN
    BY DEF Rendered
  <1>4. Rendered => token = screen.token
    BY DEF Rendered, Current
  <1>5. CASE Keep
    BY <1>5, SessionFacts DEF Keep, SessionInv, SessionTypeOK, SessionAgrees
  <1>6. CASE ClearSession
    <2>1. stored' = NULL /\ token' = NULL /\ user' = NULL
          /\ history' = [foreign |-> FALSE, crossed |-> FALSE]
      BY <1>2, <1>6 DEF ClearSession, ClearedStorage
    <2> QED BY <2>1 DEF OrNull, History, SessionAgrees
  <1>7. ASSUME NEW t \in Tokens, Login(t)
        PROVE  /\ {stored', token'} \subseteq OrNull(Tokens) /\ user' \in OrNull(Users)
               /\ history' \in History
               /\ SessionAgrees'
               /\ history'.crossed <=> ~Rendered \/ f \/ (g /\ t = token)
               /\ token' = t
    <2>1. PICK x : x = (~Rendered \/ f \/ (g /\ t = token))
      OBVIOUS
    <2>2. stored' = t /\ token' = t /\ user' = NULL
          /\ history' = [foreign |-> FALSE, crossed |-> x] /\ x \in BOOLEAN
      BY <1>2, <1>7, <2>1 DEF Login
    <2>3. history'.foreign = FALSE /\ history'.crossed = x /\ history' \in History
      BY <2>2 DEF History
    <2> QED BY <2>1, <2>2, <2>3 DEF OrNull, SessionAgrees
  <1>8. ASSUME NEW u, NEW out, Brings(u, out), SetUser(u, out)
        PROVE  /\ {stored', token'} \subseteq OrNull(Tokens) /\ user' \in OrNull(Users)
               /\ history' \in History
               /\ SessionAgrees'
               /\ history'.foreign = f /\ (g => history'.crossed) /\ token' = token
    <2>1. stored' = stored /\ token' = token /\ user' = u
          /\ history' = [foreign |-> f, crossed |-> out]
      BY <1>2, <1>8 DEF SetUser
    <2>2. history'.foreign = f /\ history'.crossed = out /\ history' \in History
      BY <1>2, <1>8, <2>1 DEF History, Brings
    <2>3. SessionAgrees'
      BY <1>1, <1>8, <2>1, <2>2 DEF Brings, SessionAgrees, SessionInv
    <2> QED BY <1>1, <1>8, <2>1, <2>2, <2>3, SessionFacts DEF Brings, OrNull
  <1> QED BY <1>1, <1>2, <1>4, <1>5, <1>6, <1>7, <1>8 DEF Handles

(* The parts of the state that only bounds are about. *)
Bounded ==
    /\ oauth \in OrNull(Attempts)
    /\ now \in 0 .. MaxTime /\ oldest \in 0 .. MaxTime
    /\ attempts \in 0 .. MaxAttempts /\ visits \in 0 .. MaxVisits

LEMMA VisitBounded ==
  ASSUME SessionInv, Visit
  PROVE  visits' \in 0 .. MaxVisits
  BY SessionTypes DEF Visit, SessionInv, SessionTypeOK

LEMMA HandledStep ==
  ASSUME SessionInv, Handles, screen' = screen, Bounded',
         NEW s, requests' = requests \/ requests' = [requests EXCEPT ![s] = NoRequest]
  PROVE  SessionInv'
  <1>1. \A r \in Slots : requests'[r] \in {requests[r], NoRequest}
    BY DEF SessionInv, SessionTypeOK
  <1>2. requests' \in [Slots -> TabRequest]
    BY SessionTypes DEF SessionInv, SessionTypeOK
  <1>3. SessionTypeOK'
    BY <1>2, HandlingKeeps DEF SessionTypeOK, Bounded, SessionInv
  <1>4. NoRequest.live = FALSE /\ NoRequest.good = FALSE /\ NoRequest.kind = "none"
    BY DEF NoRequest
  <1>5. Answerable'
    BY <1>1, <1>4 DEF Answerable, SessionInv
  <1>6. ASSUME NEW r \in Slots, requests'[r].live
        PROVE  \/ requests'[r].sent = screen'.token
               \/ history'.foreign \/ history'.crossed
               \/ token' # screen'.token
    <2>1. PICK c : c = requests[r]
      OBVIOUS
    <2>2. requests'[r] = c /\ c.live
      BY <1>1, <1>4, <1>6, <2>1
    <2>3. c \in TabRequest /\ screen.token # NULL
      BY <2>1, <2>2, SessionFacts DEF Answerable, SessionInv
    <2>4. \/ c.sent = screen.token
          \/ history.foreign \/ history.crossed
          \/ token # screen.token
      BY <2>1, <2>2 DEF InTime, SessionInv
    <2> QED BY <2>2, <2>3, <2>4, HandlingKeeps
  <1>7. InTime'
    BY <1>6 DEF InTime
  <1> QED BY <1>3, <1>5, <1>7, HandlingKeeps DEF SessionInv

LEMMA AnswerHandles ==
  ASSUME SessionInv, NEW s \in Slots, Respond(s)
  PROVE  Handles /\ Ended(s) /\ visits' \in 0 .. MaxVisits
  <1>1. PICK c : c = requests[s]
    OBVIOUS
  <1>2. c \in TabRequest /\ (c.good => c.sent \in Tokens /\ c.sent.user \in Users)
    BY <1>1, SessionFacts, SessionTypes DEF Answerable, SessionInv, TabRequest, OrNull
  <1>3. visits \in 0 .. MaxVisits
    BY DEF SessionInv, SessionTypeOK
  <1>4. history.crossed \in BOOLEAN
    BY SessionFacts
  <1>5. CASE LoggedIn(s)
    <2>1. c.who \in Users /\ now \in 0 .. MaxTime
      BY <1>1, <1>2, <1>5 DEF LoggedIn, Answerable, SessionInv, TabRequest, OrNull, SessionTypeOK
    <2>2. [user |-> c.who, at |-> now] \in Tokens
      BY <2>1 DEF Tokens
    <2> QED BY <1>1, <1>5, <2>2, VisitBounded DEF LoggedIn, Handles
  <1>6. CASE LoginFailed(s) \/ PageAnswered(s)
    BY <1>3, <1>6 DEF LoginFailed, PageAnswered, Handles
  <1>7. CASE Profile(s)
    <2>1. c.good /\ Ended(s) /\ visits' = visits
      BY <1>1, <1>7 DEF Profile
    <2>2. CASE c.live
      <3>1. PICK u, out : u = c.sent.user /\ out = (history.crossed \/ ~Rendered)
        OBVIOUS
      <3>2. SetUser(u, out)
        BY <1>1, <1>7, <2>2, <3>1 DEF Profile, Heeded
      <3>3. Rendered => token = screen.token
        BY DEF Rendered, Current
      <3>4. \/ c.sent = screen.token
            \/ history.foreign \/ history.crossed
            \/ token # screen.token
        BY <1>1, <2>2 DEF InTime, SessionInv
      <3>5. out \in BOOLEAN
        BY <3>1 DEF Rendered
      <3>6. Brings(u, out)
        BY <1>2, <2>1, <3>1, <3>3, <3>4, <3>5 DEF Brings
      <3> QED BY <1>3, <2>1, <3>2, <3>6 DEF Handles
    <2>3. CASE ~c.live
      BY <1>1, <1>3, <1>7, <2>1, <2>3 DEF Profile, Heeded, Handles
    <2> QED BY <2>2, <2>3
  <1>8. CASE ProfileSaved(s)
    <2>1. PICK u, out : u = c.sent.user /\ out = (history.crossed \/ c.sent # token)
      OBVIOUS
    <2>2. c.good /\ Ended(s) /\ visits' = visits /\ SetUser(u, out)
      BY <1>1, <1>8, <2>1 DEF ProfileSaved
    <2>3. Brings(u, out)
      BY <1>2, <1>4, <2>1, <2>2 DEF Brings
    <2> QED BY <1>3, <2>2, <2>3 DEF Handles
  <1>9. CASE AccountDeleted(s) \/ Refused(s)
    BY <1>3, <1>9 DEF AccountDeleted, Refused, Handles
  <1>10. CASE NotReached(s)
    BY <1>3, <1>10 DEF NotReached, Handles
  <1> QED BY <1>5, <1>6, <1>7, <1>8, <1>9, <1>10 DEF Respond

LEMMA AnswerKeeps ==
  ASSUME SessionInv, NEW s \in Slots, Respond(s)
  PROVE  SessionInv'
  <1>1. Handles /\ Ended(s) /\ visits' \in 0 .. MaxVisits
    BY AnswerHandles
  <1>2. Bounded'
    BY <1>1 DEF Ended, clock, Bounded, SessionInv, SessionTypeOK
  <1> QED BY <1>1, <1>2, HandledStep DEF Ended

LEMMA RequestFacts ==
  ASSUME SessionInv,
         NEW kind \in {"me", "profile", "delete", "page"}
  PROVE  /\ Request(kind) \in TabRequest
         /\ Request(kind).kind = kind /\ Request(kind).sent = stored
         /\ Request(kind).live = FALSE
         /\ Request(kind).good => stored # NULL
  <1>1. Accepts(stored) \in BOOLEAN /\ (Accepts(stored) => stored # NULL)
    BY DEF Accepts
  <1>2. PICK b, t : b = Accepts(stored) /\ t = stored
    OBVIOUS
  <1>3. Request(kind) = [NoRequest EXCEPT !.kind = kind, !.sent = t, !.good = b]
    BY <1>2 DEF Request
  <1>4. t \in OrNull(Tokens) /\ b \in BOOLEAN
    BY <1>1, <1>2, SessionFacts
  <1> QED BY <1>1, <1>2, <1>3, <1>4, SessionTypes DEF TabRequest, NoRequest

(* A request of a page, or of the login form. *)
LEMMA StartKeeps ==
  ASSUME SessionInv, NEW s \in Slots, NEW c \in TabRequest,
         c.live = FALSE, c.good => c.sent # NULL, c.kind = "login" => c.who # NULL,
         Start(s, c)
  PROVE  SessionInv'
  <1>1. /\ requests' = [requests EXCEPT ![s] = c]
        /\ UNCHANGED <<stored, oauth, token, user, screen, now, oldest, attempts, visits, history>>
    BY DEF Start, clock, bounds
  <1>2. \A r \in Slots : requests'[r] \in {requests[r], c}
    BY <1>1 DEF SessionInv, SessionTypeOK
  <1>3. SessionTypeOK'
    BY <1>1 DEF SessionInv, SessionTypeOK
  <1>4. Answerable'
    BY <1>1, <1>2 DEF SessionInv, Answerable
  <1>5. InTime'
    BY <1>1, <1>2 DEF SessionInv, InTime
  <1> QED BY <1>1, <1>3, <1>4, <1>5 DEF SessionInv, SessionAgrees

LEMMA RenderKeeps ==
  ASSUME SessionInv, Render
  PROVE  SessionInv'
  <1>1. /\ screen # Current /\ screen' = Current
        /\ UNCHANGED <<stored, oauth, token, user, now, oldest, attempts, visits, history>>
    BY DEF Render, Rendered, clock, bounds
  <1>2. screen' \in [token : OrNull(Tokens), user : OrNull(Users)]
        /\ screen'.token = token /\ screen'.user = user
    BY <1>1, SessionFacts DEF Current
  <1>3. Dependencies(screen) # Dependencies(Current)
    <2>1. ~(screen.token = token /\ screen.user = user)
      BY <1>1, SessionFacts DEF Current
    <2>2. Dependencies(screen) = <<screen.token, screen.user>>
          /\ Dependencies(Current) = <<token, user>>
      BY DEF Dependencies, Current
    <2> QED BY <2>1, <2>2
  <1> DEFINE clean == [s \in Slots |-> Cancelled(requests[s])]
  <1>4. \A r \in Slots : /\ clean[r] \in TabRequest /\ clean[r].live = FALSE
                         /\ clean[r].good = requests[r].good /\ clean[r].sent = requests[r].sent
                         /\ clean[r].kind = requests[r].kind /\ clean[r].who = requests[r].who
    BY SessionFacts DEF Cancelled, TabRequest
  <1> HIDE DEF clean
  <1>5. CASE requests' = clean
    <2>1. requests' \in [Slots -> TabRequest]
      BY <1>4, <1>5 DEF clean
    <2>2. SessionTypeOK'
      BY <1>1, <1>2, <2>1 DEF SessionInv, SessionTypeOK
    <2>3. Answerable' /\ InTime'
      BY <1>4, <1>5 DEF SessionInv, Answerable, InTime
    <2> QED BY <1>1, <2>2, <2>3 DEF SessionInv, SessionAgrees
  <1>6. ASSUME AwaitsProfile(Current), NEW s \in Slots,
               requests' = [clean EXCEPT ![s] = [Request("me") EXCEPT !.live = TRUE]]
        PROVE  SessionInv'
    <2>1. PICK m : m = [Request("me") EXCEPT !.live = TRUE]
      OBVIOUS
    <2>2. m \in TabRequest /\ m.kind = "me" /\ m.sent = stored /\ (m.good => stored # NULL)
      BY <2>1, RequestFacts DEF TabRequest
    <2>3. \A r \in Slots : requests'[r] = IF r = s THEN m ELSE clean[r]
      BY <1>6, <2>1 DEF clean
    <2>4. requests' \in [Slots -> TabRequest]
      BY <1>4, <1>6, <2>1, <2>2 DEF clean
    <2>5. SessionTypeOK'
      BY <1>1, <1>2, <2>4 DEF SessionInv, SessionTypeOK
    <2>6. token # NULL
      BY <1>6 DEF AwaitsProfile, Current
    <2>7. Answerable'
      BY <1>2, <1>4, <2>2, <2>3, <2>6 DEF SessionInv, Answerable
    <2>8. history.foreign \/ stored = token
      BY DEF SessionInv, SessionAgrees
    <2>9. InTime'
      BY <1>1, <1>2, <1>4, <2>2, <2>3, <2>8 DEF InTime
    <2> QED BY <1>1, <2>5, <2>7, <2>9 DEF SessionInv, SessionAgrees
  <1> QED BY <1>3, <1>5, <1>6 DEF Render, clean

(* The application is loaded: by the user, for a provider, or coming back. *)
LEMMA LoadKeeps ==
  ASSUME SessionInv, Load,
         history' = [history EXCEPT !.foreign = FALSE, !.crossed = FALSE],
         requests' \in [Slots -> TabRequest],
         \A r \in Slots : /\ requests'[r].good = FALSE /\ requests'[r].live = FALSE
                          /\ requests'[r].kind = "login" => requests'[r].who # NULL,
         oauth' \in OrNull(Attempts), attempts' \in 0 .. MaxAttempts,
         visits' \in 0 .. MaxVisits
  PROVE  SessionInv'
  <1>1. token' = stored /\ stored' = stored /\ user' = NULL /\ screen' = Nothing
        /\ UNCHANGED <<now, oldest>>
    BY DEF Load, clock
  <1>2. history' = [foreign |-> FALSE, crossed |-> FALSE]
    BY SessionFacts
  <1>3. SessionTypeOK'
    BY <1>1, <1>2 DEF SessionInv, SessionTypeOK, Nothing, OrNull, History
  <1>4. Answerable' /\ InTime'
    BY DEF Answerable, InTime
  <1> QED BY <1>1, <1>3, <1>4 DEF SessionInv, SessionAgrees

LEMMA ReturnKeeps ==
  ASSUME SessionInv,
         \/ Reload \/ StartOAuth
         \/ \E s \in Slots, u \in Users, a \in Attempts : OAuthReturn(s, u, a)
  PROVE  SessionInv'
  <1>1. /\ NoRequest \in TabRequest /\ NoRequest.good = FALSE /\ NoRequest.live = FALSE
        /\ NoRequest.kind = "none"
    BY SessionTypes DEF NoRequest
  <1>2. /\ oauth \in OrNull(Attempts) /\ attempts \in 0 .. MaxAttempts
        /\ visits \in 0 .. MaxVisits /\ MaxAttempts \in Nat
    BY SessionTypes DEF SessionInv, SessionTypeOK
  <1>3. CASE Reload
    BY <1>1, <1>2, <1>3, VisitBounded, LoadKeeps DEF Reload
  <1>4. CASE StartOAuth
    <2>1. attempts' \in 0 .. MaxAttempts /\ oauth' \in OrNull(Attempts) /\ visits' = visits
      BY <1>2, <1>4 DEF StartOAuth, Attempts, OrNull
    <2> QED BY <1>1, <1>2, <1>4, <2>1, LoadKeeps DEF StartOAuth
  <1>5. ASSUME NEW s \in Slots, NEW u \in Users, NEW a \in Attempts, OAuthReturn(s, u, a)
        PROVE  SessionInv'
    <2>1. PICK l : l = [NoRequest EXCEPT !.kind = "login", !.who = u]
      OBVIOUS
    <2>2. l \in TabRequest /\ l.good = FALSE /\ l.live = FALSE /\ l.who # NULL
      BY <2>1, SessionTypes DEF NoRequest, TabRequest, OrNull
    <2>3. requests' = [r \in Slots |-> IF r = s /\ oauth = a THEN l ELSE NoRequest]
      BY <1>5, <2>1 DEF OAuthReturn
    <2>4. /\ requests' \in [Slots -> TabRequest]
          /\ \A r \in Slots : /\ requests'[r].good = FALSE /\ requests'[r].live = FALSE
                              /\ requests'[r].kind = "login" => requests'[r].who # NULL
      BY <1>1, <2>2, <2>3
    <2>5. oauth' = NULL /\ attempts' = attempts
      BY <1>5 DEF OAuthReturn, StateAfter
    <2> QED BY <1>2, <1>5, <2>4, <2>5, VisitBounded, LoadKeeps DEF OAuthReturn, OrNull
  <1> QED BY <1>3, <1>4, <1>5

LEMMA OtherTabKeeps ==
  ASSUME SessionInv, NEW t \in OrNull(Tokens),
         OtherTab(t)
  PROVE  SessionInv'
  <1>1. /\ stored' = t /\ history' = [history EXCEPT !.foreign = TRUE]
        /\ UNCHANGED <<oauth, token, user, screen, requests, now, oldest, attempts>>
    BY DEF OtherTab, clock
  <1>2. history' = [foreign |-> TRUE, crossed |-> history.crossed]
    BY <1>1, SessionFacts
  <1>3. visits' \in 0 .. MaxVisits
    BY VisitBounded DEF OtherTab
  <1>4. SessionTypeOK'
    BY <1>1, <1>2, <1>3, SessionFacts DEF SessionInv, SessionTypeOK, History
  <1>5. Answerable' /\ InTime'
    BY <1>1, <1>2 DEF SessionInv, Answerable, InTime
  <1> QED BY <1>2, <1>4, <1>5 DEF SessionInv, SessionAgrees

LEMMA SessionSteps ==
  ASSUME SessionInv, [SessionNext]_sessionVars
  PROVE  SessionInv'
  <1>1. CASE Render
    BY <1>1, RenderKeeps
  <1>2. CASE Logout
    <2>1. /\ Handles /\ screen' = screen /\ requests' = requests
          /\ UNCHANGED <<oauth, now, oldest, attempts, visits>>
      BY <1>2 DEF Logout, Handles, clock, bounds
    <2>2. Bounded'
      BY <2>1 DEF Bounded, SessionInv, SessionTypeOK
    <2> QED BY <2>1, <2>2, HandledStep
  <1>3. CASE Tick \/ Expire
    <2>1. /\ UNCHANGED <<stored, oauth, token, user, screen, requests, attempts, visits, history>>
          /\ now' \in 0 .. MaxTime /\ oldest' \in 0 .. MaxTime
      BY <1>3, SessionTypes DEF Tick, Expire, bounds, SessionInv, SessionTypeOK
    <2> QED BY <2>1 DEF SessionInv, SessionTypeOK, Answerable, InTime, SessionAgrees
  <1>4. ASSUME NEW s \in Slots, Respond(s) PROVE SessionInv'
    BY <1>4, AnswerKeeps
  <1>5. ASSUME NEW s \in Slots, NEW kind \in {"profile", "delete", "page"}, AskFromPage(s, kind)
        PROVE  SessionInv'
    BY <1>5, RequestFacts, StartKeeps DEF AskFromPage
  <1>6. ASSUME NEW s \in Slots, NEW u \in Users, SubmitLogin(s, u) PROVE SessionInv'
    <2>1. PICK l : l = [NoRequest EXCEPT !.kind = "login", !.who = u]
      OBVIOUS
    <2>2. l \in TabRequest /\ l.good = FALSE /\ l.live = FALSE /\ l.who # NULL
      BY <2>1, SessionTypes DEF NoRequest, TabRequest, OrNull
    <2> QED BY <1>6, <2>1, <2>2, StartKeeps DEF SubmitLogin
  <1>7. CASE \/ Reload \/ StartOAuth
             \/ \E s \in Slots, u \in Users, a \in Attempts : OAuthReturn(s, u, a)
    BY <1>7, ReturnKeeps
  <1>8. CASE OtherTab(NULL) \/ \E u \in Users : OtherTab([user |-> u, at |-> now])
    <2>1. NULL \in OrNull(Tokens)
          /\ \A u \in Users : [user |-> u, at |-> now] \in OrNull(Tokens)
      BY DEF OrNull, Tokens, SessionInv, SessionTypeOK
    <2> QED BY <1>8, <2>1, OtherTabKeeps
  <1>9. CASE UNCHANGED sessionVars
    BY <1>9 DEF sessionVars, SessionInv, SessionTypeOK, Answerable, InTime, SessionAgrees
  <1> QED BY <1>1, <1>2, <1>3, <1>4, <1>5, <1>6, <1>7, <1>8, <1>9 DEF SessionNext

LEMMA SessionHolds ==
  SessionSpec => []SessionInv
  BY SessionStarts, SessionSteps, PTL DEF SessionSpec

(* The state of a tab keeps its types. *)
THEOREM SessionTypeCorrect ==
  SessionSpec => []SessionTypeOK
  <1>1. SessionInv => SessionTypeOK
    BY DEF SessionInv
  <1> QED BY <1>1, SessionHolds, PTL

(* This tab and localStorage agree about the session, and the profile is   *)
(* that of the token's user, for any number of requests under way, tabs    *)
(* and accounts, unless something came out of its time (AuthProvider.tsx:  *)
(* 37-47).                                                                 *)
THEOREM TabAgrees ==
  SessionSpec => []SessionAgrees
  <1>1. SessionInv => SessionAgrees
    BY DEF SessionInv
  <1> QED BY <1>1, SessionHolds, PTL

-----------------------------------------------------------------------------
(* The forms.  Nothing that began at an earlier opening of the form        *)
(* reached it.                                                             *)
Quiet == disturbed \cap {"late", "renewed"} = {}

Pending(c) == c.state # "none"

(* Facts about the forms there are. *)
FormOK(f) ==
    /\ f \in Form
    /\ f.over = "many" => f.closes
    /\ f.over = "many" /\ f.stays /\ "open" \notin f.renews => ~f.filled /\ "close" \in f.renews
    /\ f.filled /\ ~f.closes => ~f.stays /\ f.renews = {}
    /\ f.filled /\ f.stays /\ "open" \notin f.renews =>
          f.over = "one" /\ {"row", "close"} \subseteq f.renews /\ ~f.reloads
    /\ "close" \in f.renews => "close" \in f.clears
    /\ "row" \in f.renews \/ ("open" \in f.renews /\ "open" \notin f.clears) =>
          ~f.tells \/ ("close" \in f.clears /\ (f.effect \/ ~f.reloads))
    /\ f.reloads => f.closes

SubmissionsOK ==
    /\ open # NULL => open \in Over
    /\ \A t \in Targets \ Over : listed[t] = table[t]
    /\ asked \in Slots => saves[asked].state = "asking"
    /\ \A s \in Slots :
          LET c == saves[s] IN
          /\ c.state = "none" => c = Idle
          /\ Pending(c) => c.row \in Over
          /\ c.state = "asking" => asked = s
          /\ c.state = "loading" => c.late /\ form.reloads
          /\ Pending(c) /\ open = NULL => c.late

(* Of a form that was not reached by an earlier opening: the submission    *)
(* under way is the only one, of the draft in the form, and no error is    *)
(* shown meanwhile.                                                        *)
OneUnderWay ==
    /\ draft.base <= draft.version
    /\ ~form.tells => error = 0
    /\ Quiet => error = 0 \/ error \in draft.base .. draft.version
    /\ Quiet /\ open = NULL /\ ("row" \in form.renews \/ ("open" \in form.renews /\ "open" \notin form.clears))
          => error = 0
    /\ Quiet =>
          \A s \in Slots : Pending(saves[s]) /\ ~saves[s].late =>
             /\ busy /\ error = 0
             /\ saves[s].draft.version \in draft.base .. draft.version
             /\ \A r \in Slots : Pending(saves[r]) /\ ~saves[r].late => r = s

DraftsMatch ==
    /\ form.over = "many" /\ "closed" \notin disturbed =>
          /\ \A s \in Slots : Pending(saves[s]) => saves[s].draft.row = saves[s].row
          /\ open # NULL /\ (draft.typed \/ form.filled) => draft.row = open
          /\ open = NULL /\ form.stays /\ "open" \notin form.renews => ~draft.typed
    /\ form.filled /\ ~form.closes =>
          \A s \in Slots : Pending(saves[s]) /\ ~saves[s].late => draft.typed
    /\ form.filled /\ "behind" \notin disturbed =>
          /\ open # NULL /\ ~draft.typed => draft.row = open /\ draft.seen = listed[open]
          /\ open = NULL /\ form.stays /\ "open" \notin form.renews =>
                ~draft.typed /\ draft.row \in Over /\ draft.seen = listed[draft.row]

FormInv == FormTypeOK /\ FormOK(form) /\ SubmissionsOK /\ OneUnderWay /\ DraftsMatch

LEMMA AllFormsOK == \A f \in Forms : FormOK(f)
  <1> USE DEF FormOK, Form, Plain
  <1>1. FormOK(AddTaskModal)
    BY DEF AddTaskModal
  <1>2. FormOK(EditTaskModal)
    BY DEF EditTaskModal
  <1>3. FormOK(EditTaskOnBacklog)
    BY DEF EditTaskOnBacklog, EditTaskModal
  <1>4. FormOK(AssignSprintModal)
    BY DEF AssignSprintModal
  <1>5. FormOK(AddProjectMemberModal)
    BY DEF AddProjectMemberModal
  <1>6. FormOK(EditProjectMemberModal)
    BY DEF EditProjectMemberModal
  <1>7. FormOK(AddProjectSprintModal)
    BY DEF AddProjectSprintModal
  <1>8. FormOK(EditProjectSprintModal)
    BY DEF EditProjectSprintModal
  <1>9. FormOK(CreateProjectModal)
    BY DEF CreateProjectModal
  <1>10. FormOK(ProjectOverviewPage)
    BY DEF ProjectOverviewPage
  <1>11. FormOK(CommentForm)
    BY DEF CommentForm
  <1>12. FormOK(CommentItem)
    BY DEF CommentItem
  <1>13. FormOK(EditProfileForm)
    BY DEF EditProfileForm
  <1>14. FormOK(ChangeEmailForm)
    BY DEF ChangeEmailForm
  <1>15. FormOK(ChangePasswordForm)
    BY DEF ChangePasswordForm
  <1>16. FormOK(LoginForm)
    BY DEF LoginForm
  <1>17. FormOK(RegisterForm)
    BY DEF RegisterForm
  <1>18. FormOK(ForgotPasswordForm)
    BY DEF ForgotPasswordForm
  <1>19. FormOK(ResetPasswordConfirmForm)
    BY DEF ResetPasswordConfirmForm
  <1>20. FormOK(WorklogsForm)
    BY DEF WorklogsForm
  <1>21. FormOK(TaskTypesForm)
    BY DEF TaskTypesForm
  <1> QED BY <1>1, <1>2, <1>3, <1>4, <1>5, <1>6, <1>7, <1>8, <1>9, <1>10, <1>11, <1>12, <1>13, <1>14, <1>15, <1>16, <1>17, <1>18, <1>19, <1>20, <1>21 DEF Forms

(* The types of what the actions use, in the shape in which the steps need *)
(* them.                                                                   *)
LEMMA FormFacts ==
  ASSUME FormInv
  PROVE  /\ MaxVersions \in Nat /\ MaxRow \in Nat
         /\ \A t \in Targets : t \in Nat /\ t # NULL
         /\ \A s \in Slots : s \in Nat /\ s # NULL /\ s # 0
         /\ NULL # 0
         /\ Over \subseteq Targets
         /\ form \in Form /\ form.over \in {"new", "one", "many"}
         /\ draft \in Draft
         /\ draft.row \in OrNull(Targets) /\ draft.seen \in 0 .. MaxRow
         /\ draft.base \in 0 .. MaxVersions /\ draft.version \in 0 .. MaxVersions
         /\ draft.typed \in BOOLEAN /\ draft.sure \in BOOLEAN
         /\ error \in 0 .. MaxVersions /\ busy \in BOOLEAN
         /\ \A s \in Slots : saves[s] \in Submission
  <1>1. MaxVersions \in Nat /\ MaxRow \in Nat /\ \A t \in Targets : t \in Nat
    BY FormBounds
  <1>2. \A s \in Slots : s \in Nat /\ s # 0
    BY FormBounds
  <1>3. draft \in Draft /\ form \in Form /\ error \in 0 .. MaxVersions /\ busy \in BOOLEAN
    BY DEF FormInv, FormTypeOK
  <1>4. Over \subseteq Targets
    BY DEF Over
  <1>5. \A s \in Slots : saves[s] \in Submission
    BY DEF FormInv, FormTypeOK
  <1>6. form.over \in {"new", "one", "many"}
    BY <1>3 DEF Form
  <1>7. /\ draft.row \in OrNull(Targets) /\ draft.seen \in 0 .. MaxRow
        /\ draft.base \in 0 .. MaxVersions /\ draft.version \in 0 .. MaxVersions
        /\ draft.typed \in BOOLEAN /\ draft.sure \in BOOLEAN
    BY <1>3 DEF Draft
  <1> QED BY <1>1, <1>2, <1>3, <1>4, <1>5, <1>6, <1>7, FormNull

LEMMA SubmissionFacts ==
  ASSUME NEW c \in Submission
  PROVE  /\ c.state \in {"none", "asking", "sent", "made", "refused", "loading"}
         /\ c.late \in BOOLEAN /\ c.row \in OrNull(Targets)
         /\ c.draft \in Draft /\ c.got \in 0 .. MaxRow
         /\ c.draft.version \in 0 .. MaxVersions
         /\ c = [state |-> c.state, late |-> c.late, row |-> c.row, draft |-> c.draft, got |-> c.got]
  <1>1. /\ c.state \in {"none", "asking", "sent", "made", "refused", "loading"}
        /\ c.late \in BOOLEAN /\ c.row \in OrNull(Targets)
        /\ c.draft \in Draft /\ c.got \in 0 .. MaxRow
        /\ c = [state |-> c.state, late |-> c.late, row |-> c.row, draft |-> c.draft, got |-> c.got]
    BY DEF Submission
  <1> QED BY <1>1 DEF Draft

LEMMA NoCallFacts ==
  /\ Idle \in Submission /\ NoDraft \in Draft
  /\ Idle.state = "none" /\ ~Idle.late
  <1>1. MaxVersions \in Nat /\ MaxRow \in Nat
    BY FormBounds
  <1>2. NoDraft \in Draft
    BY <1>1 DEF NoDraft, Draft, OrNull
  <1> QED BY <1>1, <1>2 DEF Idle, Submission, OrNull

LEMMA BlankFacts ==
  ASSUME NEW v \in 0 .. MaxVersions
  PROVE  LET d == Blank(v) IN
         /\ d \in Draft /\ ~d.typed
         /\ d.base = v /\ d.version = v
  <1>1. NoDraft \in Draft
    BY NoCallFacts
  <1>2. Blank(v) \in Draft
    BY <1>1 DEF Blank, Draft
  <1>3. PICK d : d = NoDraft
    OBVIOUS
  <1>4. Blank(v) = [d EXCEPT !.base = v, !.version = v]
    BY <1>3 DEF Blank
  <1>5. d = [row |-> NULL, seen |-> 0, typed |-> FALSE, sure |-> FALSE, base |-> 0, version |-> 0]
    BY <1>3 DEF NoDraft
  <1> QED BY <1>2, <1>4, <1>5

(* A fresh draft is the row, where the form is filled, or blank.           *)
LEMMA FreshFacts ==
  ASSUME NEW t \in Targets, NEW fetched \in [Targets -> 0 .. MaxRow], NEW v \in 0 .. MaxVersions
  PROVE  LET d == Fresh(t, fetched, v) IN
         /\ d \in Draft /\ d.base = v /\ d.version = v /\ ~d.typed
         /\ form.filled => d.row = t /\ d.seen = fetched[t]
  <1>1. PICK d : d = Blank(v)
    OBVIOUS
  <1>2. d \in Draft /\ ~d.typed /\ d.base = v /\ d.version = v
    BY <1>1, BlankFacts
  <1>3. CASE form.filled
    <2>1. Fresh(t, fetched, v) = [d EXCEPT !.row = t, !.seen = fetched[t]]
      BY <1>1, <1>3 DEF Fresh
    <2>2. fetched[t] \in 0 .. MaxRow
      OBVIOUS
    <2>3. Fresh(t, fetched, v) \in Draft
      BY <2>1, <2>2, <1>2 DEF Draft, OrNull
    <2>4. d = [row |-> d.row, seen |-> d.seen, typed |-> d.typed, sure |-> d.sure,
               base |-> d.base, version |-> d.version]
      BY <1>2 DEF Draft
    <2> QED BY <2>1, <2>3, <2>4, <1>2, <1>3
  <1>4. CASE ~form.filled
    <2>1. Fresh(t, fetched, v) = d
      BY <1>1, <1>4 DEF Fresh
    <2> QED BY <2>1, <1>2, <1>4
  <1> QED BY <1>3, <1>4

LEMMA NextVersionFacts ==
  ASSUME FormInv
  PROVE  /\ NextVersion \in 0 .. MaxVersions
         /\ draft.base <= draft.version /\ draft.version <= NextVersion
  <1>1. draft.version \in 0 .. MaxVersions /\ MaxVersions \in Nat
    BY FormFacts
  <1>2. draft.base <= draft.version
    BY DEF FormInv, OneUnderWay
  <1> QED BY <1>1, <1>2 DEF NextVersion

(* Closing a form makes every submission late and changes nothing else.    *)
LEMMA LateFacts ==
  ASSUME NEW cs \in [Slots -> Submission],
         \A s \in Slots : cs[s].state = "none" => cs[s] = Idle
  PROVE  /\ Late(cs) \in [Slots -> Submission]
         /\ \A s \in Slots :
               /\ Late(cs)[s].state = cs[s].state
               /\ Late(cs)[s].row = cs[s].row /\ Late(cs)[s].draft = cs[s].draft
               /\ Late(cs)[s].late <=> Pending(cs[s])
               /\ cs[s].state = "none" => Late(cs)[s] = Idle
  <1> SUFFICES ASSUME NEW s \in Slots
               PROVE  /\ Late(cs)[s] \in Submission
                      /\ Late(cs)[s].state = cs[s].state
                      /\ Late(cs)[s].row = cs[s].row /\ Late(cs)[s].draft = cs[s].draft
                      /\ Late(cs)[s].late <=> Pending(cs[s])
                      /\ cs[s].state = "none" => Late(cs)[s] = Idle
    BY DEF Late
  <1>1. CASE cs[s] = Idle
    <2>1. Late(cs)[s] = Idle
      BY <1>1 DEF Late
    <2> QED BY <2>1, <1>1, NoCallFacts DEF Pending
  <1>2. CASE cs[s] # Idle
    <2>1. Late(cs)[s] = [cs[s] EXCEPT !.late = TRUE]
      BY <1>2 DEF Late
    <2>2. PICK c : c = cs[s]
      OBVIOUS
    <2>3. Late(cs)[s] = [state |-> c.state, late |-> TRUE, row |-> c.row, draft |-> c.draft, got |-> c.got]
      BY <2>1, <2>2, SubmissionFacts
    <2>4. Late(cs)[s] \in Submission
      BY <2>2, <2>3 DEF Submission
    <2>5. cs[s].state # "none"
      BY <1>2
    <2> QED BY <2>2, <2>3, <2>4, <2>5 DEF Pending
  <1> QED BY <1>1, <1>2

LEMMA FormStarts ==
  ASSUME FormInit
  PROVE  FormInv
  <1>1. FormOK(form)
    BY AllFormsOK DEF FormInit
  <1>2. \A s \in Slots : saves[s] = Idle
    BY DEF FormInit
  <1>3. MaxVersions \in Nat /\ MaxRow \in Nat /\ \A t \in Targets : t \in Nat
    BY FormBounds
  <1>4. saves \in [Slots -> Submission]
    BY NoCallFacts DEF FormInit
  <1>5. table \in [Targets -> 0 .. MaxRow] /\ listed = table
    BY <1>3 DEF FormInit
  <1>6. /\ draft \in Draft /\ draft.base = 0 /\ draft.version = 0 /\ ~draft.typed
        /\ form.over = "one" /\ "row" \in form.renews /\ form.filled =>
              draft.row \in Over /\ draft.seen = listed[draft.row]
    <2>1. CASE form.over = "one" /\ "row" \in form.renews
      <3>1. PICK t \in Over : draft = Fresh(t, listed, 0)
        BY <2>1 DEF FormInit
      <3>2. t \in Targets
        BY DEF Over
      <3> QED BY <3>1, <3>2, <1>3, <1>5, FreshFacts
    <2>2. CASE ~(form.over = "one" /\ "row" \in form.renews)
      <3>1. draft = NoDraft
        BY <2>2 DEF FormInit
      <3> QED BY <3>1, <2>2, NoCallFacts DEF NoDraft
    <2> QED BY <2>1, <2>2
  <1>7. /\ open = NULL /\ error = 0 /\ busy = FALSE /\ asked = NULL /\ disturbed = {}
    BY DEF FormInit
  <1>8. FormTypeOK
    <2>1. 0 \in 0 .. MaxVersions
      BY <1>3
    <2>2. form \in Form
      BY <1>1 DEF FormOK
    <2>3. listed \in [Targets -> 0 .. MaxRow]
      BY <1>5
    <2> QED BY <2>1, <2>2, <2>3, <1>4, <1>5, <1>6, <1>7 DEF FormTypeOK, OrNull
  <1>9. SubmissionsOK
    <2>1. asked \notin Slots
      BY <1>7, FormNull, FormBounds
    <2> QED BY <1>2, <1>5, <1>7, <2>1, NoCallFacts DEF SubmissionsOK, Pending
  <1>10. OneUnderWay
    BY <1>2, <1>6, <1>7, NoCallFacts DEF OneUnderWay, Pending
  <1>11. DraftsMatch
    BY <1>1, <1>2, <1>6, <1>7, NoCallFacts DEF DraftsMatch, Pending, FormOK
  <1> QED BY <1>1, <1>8, <1>9, <1>10, <1>11 DEF FormInv

LEMMA OneRow ==
  ASSUME form.over # "many", NEW t \in Over, NEW u \in Over
  PROVE  t = u
  <1>1. t \in Targets /\ u \in Targets /\ t <= u /\ u <= t
    BY DEF Over, Least
  <1> QED BY <1>1, FormBounds

LEMMA FormOpens ==
  ASSUME FormInv, NEW t \in Targets, Open(t)
  PROVE  FormInv'
  <1>1. /\ open = NULL /\ t \in Over /\ open' = t /\ t # NULL
        /\ form' = form /\ asked' = asked /\ saves' = saves /\ table' = table
        /\ listed' = listed /\ disturbed' = disturbed
    BY FormFacts DEF Open, Opened
  <1>2. Over' = Over /\ (Quiet <=> Quiet')
    BY <1>1 DEF Over, Quiet
  <1>3. /\ FormOK(form) /\ SubmissionsOK /\ OneUnderWay /\ DraftsMatch
        /\ listed \in [Targets -> 0 .. MaxRow]
    BY DEF FormInv, FormTypeOK
  <1>4. NextVersion \in 0 .. MaxVersions
    BY NextVersionFacts
  <1>5. \/ /\ draft' = Fresh(t, listed, NextVersion)
           /\ error' = 0 \/ (error' = error /\ "open" \in form.renews /\ "open" \notin form.clears)
        \/ /\ draft' = draft /\ error' \in {0, error}
           /\ form.stays /\ "open" \notin form.renews
    BY DEF Open, Opened, Renewed, Renews, Cleared
  <1>6. busy' \in BOOLEAN
    BY FormFacts DEF Open, Opened, Renewed
  <1>7. /\ draft' \in Draft /\ draft'.base <= draft'.version /\ draft'.base \in 0 .. MaxVersions
        /\ \/ draft'.base = draft'.version /\ ~draft'.typed
              /\ (form.filled => draft'.row = t /\ draft'.seen = listed[t])
           \/ draft' = draft /\ form.stays /\ "open" \notin form.renews
    BY <1>3, <1>4, <1>5, FreshFacts, FormFacts, NextVersionFacts
  <1>8. FormTypeOK'
    <2>1. error' \in 0 .. MaxVersions
      BY <1>5, FormFacts
    <2>2. open' \in OrNull(Targets)
      BY <1>1 DEF OrNull
    <2> QED BY <1>1, <1>6, <1>7, <2>1, <2>2 DEF FormInv, FormTypeOK
  <1>9. SubmissionsOK'
    BY <1>1, <1>2, <1>3 DEF SubmissionsOK, Pending
  <1>10. \A s \in Slots : Pending(saves[s]) => saves[s].late
    BY <1>1, <1>3 DEF SubmissionsOK
  <1>11. OneUnderWay'
    <2>1. ~form.tells => error' = 0
      BY <1>3, <1>5 DEF OneUnderWay
    <2>2. Quiet => error' = 0 \/ error' \in draft'.base .. draft'.version
      BY <1>1, <1>3, <1>5 DEF OneUnderWay
    <2> QED BY <1>1, <1>2, <1>7, <1>10, <2>1, <2>2 DEF OneUnderWay, Pending
  <1>12. DraftsMatch'
    <2>1. form.over = "many" /\ "closed" \notin disturbed /\ (draft'.typed \/ form.filled) =>
             draft'.row = t
      BY <1>1, <1>3, <1>7 DEF DraftsMatch, FormOK
    <2>2. form.filled /\ "behind" \notin disturbed => draft'.row = t /\ draft'.seen = listed[t]
      <3>1. ASSUME draft' = draft, form.stays, "open" \notin form.renews, form.filled,
                   "behind" \notin disturbed
            PROVE  draft'.row = t /\ draft'.seen = listed[t]
        <4>1. form.over = "one"
          BY <1>3, <3>1 DEF FormOK
        <4>2. draft.row \in Over /\ draft.seen = listed[draft.row]
          BY <1>1, <1>3, <3>1 DEF DraftsMatch
        <4> QED BY <1>1, <3>1, <4>1, <4>2, OneRow
      <3> QED BY <1>7, <3>1
    <2> QED BY <1>1, <1>2, <1>3, <1>10, <2>1, <2>2 DEF DraftsMatch, Pending
  <1> QED BY <1>1, <1>3, <1>8, <1>9, <1>11, <1>12 DEF FormInv

LEMMA FormTypes ==
  ASSUME FormInv, Type
  PROVE  FormInv'
  <1>1. /\ open # NULL /\ open' = open /\ draft.version < MaxVersions
        /\ form' = form /\ busy' = busy /\ asked' = asked /\ saves' = saves
        /\ table' = table /\ listed' = listed /\ disturbed' = disturbed
        /\ error' \in {0, error}
    BY DEF Type, Cleared
  <1>2. Over' = Over /\ (Quiet <=> Quiet')
    BY <1>1 DEF Over, Quiet
  <1>3. /\ FormOK(form) /\ SubmissionsOK /\ OneUnderWay /\ DraftsMatch
        /\ open \in OrNull(Targets)
    BY DEF FormInv, FormTypeOK
  <1>4. PICK d : d = draft
    OBVIOUS
  <1>5. /\ d \in Draft /\ d.base \in 0 .. MaxVersions /\ d.version \in 0 .. MaxVersions
        /\ d = [row |-> d.row, seen |-> d.seen, typed |-> d.typed, sure |-> d.sure,
                base |-> d.base, version |-> d.version]
    BY <1>4, FormFacts DEF Draft
  <1>6. NextVersion = d.version + 1 /\ d.version + 1 \in 0 .. MaxVersions
    BY <1>1, <1>4, <1>5, FormFacts DEF NextVersion
  <1>7. draft' = [d EXCEPT !.row = open, !.typed = TRUE, !.sure = FALSE, !.version = d.version + 1]
    BY <1>4, <1>6 DEF Type
  <1>8. draft' \in Draft
    BY <1>3, <1>5, <1>6, <1>7 DEF Draft
  <1>9. /\ draft'.row = open /\ draft'.typed /\ draft'.base = draft.base
        /\ draft'.version = draft.version + 1
    BY <1>4, <1>5, <1>7
  <1>10. FormTypeOK'
    <2>1. error' \in 0 .. MaxVersions
      BY <1>1, FormFacts
    <2> QED BY <1>1, <1>8, <2>1 DEF FormInv, FormTypeOK
  <1>11. SubmissionsOK'
    BY <1>1, <1>2, <1>3 DEF SubmissionsOK, Pending
  <1>12. OneUnderWay'
    <2>1. error \in 0 .. MaxVersions /\ draft.base \in 0 .. MaxVersions /\ draft.version \in 0 .. MaxVersions
          /\ MaxVersions \in Nat
      BY FormFacts
    <2>2. draft'.base <= draft'.version
      BY <1>3, <1>9, <2>1 DEF OneUnderWay
    <2>3. (~form.tells => error' = 0) /\ (error = 0 => error' = 0)
      BY <1>1, <1>3 DEF OneUnderWay
    <2>4. \A v : v \in draft.base .. draft.version => v \in draft'.base .. draft'.version
      BY <1>9, <2>1
    <2> QED BY <1>1, <1>2, <1>3, <2>2, <2>3, <2>4 DEF OneUnderWay, Pending
  <1>13. DraftsMatch'
    BY <1>1, <1>2, <1>3, <1>9 DEF DraftsMatch, Pending
  <1> QED BY <1>1, <1>3, <1>10, <1>11, <1>12, <1>13 DEF FormInv

LEMMA FormAsksAgain ==
  ASSUME FormInv, AskAgain
  PROVE  FormInv'
  <1>1. /\ form' = form /\ open' = open /\ error' = error /\ busy' = busy /\ asked' = asked
        /\ saves' = saves /\ table' = table /\ listed' = listed
        /\ disturbed' = disturbed
    BY DEF AskAgain
  <1>2. Over' = Over /\ (Quiet <=> Quiet')
    BY <1>1 DEF Over, Quiet
  <1>3. PICK d : d = draft
    OBVIOUS
  <1>4. /\ d \in Draft
        /\ d = [row |-> d.row, seen |-> d.seen, typed |-> d.typed, sure |-> d.sure,
                base |-> d.base, version |-> d.version]
    BY <1>3, FormFacts DEF Draft
  <1>5. draft' = [d EXCEPT !.sure = TRUE]
    BY <1>3 DEF AskAgain
  <1>6. draft' \in Draft
    BY <1>4, <1>5 DEF Draft
  <1>7. /\ draft'.row = draft.row /\ draft'.seen = draft.seen /\ draft'.typed = draft.typed
        /\ draft'.base = draft.base /\ draft'.version = draft.version
    BY <1>3, <1>4, <1>5
  <1>8. FormTypeOK'
    BY <1>1, <1>6 DEF FormInv, FormTypeOK
  <1>9. SubmissionsOK'
    BY <1>1, <1>2 DEF FormInv, SubmissionsOK, Pending
  <1>10. OneUnderWay'
    BY <1>1, <1>2, <1>7 DEF FormInv, OneUnderWay, Pending
  <1>11. DraftsMatch'
    BY <1>1, <1>2, <1>7 DEF FormInv, DraftsMatch, Pending
  <1> QED BY <1>1, <1>8, <1>9, <1>10, <1>11 DEF FormInv

(* What closing does, whoever closes the form: the user (Close), or the    *)
(* page once the rows are loaded (Loaded), which not every form notices.   *)
LEMMA FormIsClosed ==
  ASSUME FormInv,
         NEW noticed \in BOOLEAN, NEW cs \in [Slots -> Submission],
         NEW fetched \in [Targets -> 0 .. MaxRow],
         Closed(noticed, fetched, cs),
         form' = form, asked' = asked, table' = table, listed' = fetched,
         disturbed \subseteq disturbed',
         disturbed' \in SUBSET {"late", "closed", "renewed", "behind", "replaced"},
         \A s \in Slots :
            \/ cs[s] = saves[s]
            \/ cs[s] = Idle /\ saves[s].state # "asking",
         \A t \in Targets \ Over : fetched[t] = table[t],
         fetched # listed => form.reloads,
         ~noticed => ~form.effect /\ form.reloads /\ (open # NULL => "closed" \in disturbed')
  PROVE  FormInv'
  <1>1. /\ FormOK(form) /\ SubmissionsOK /\ OneUnderWay /\ DraftsMatch /\ FormTypeOK
        /\ open \in OrNull(Targets)
    BY DEF FormInv, FormTypeOK
  <1>2. open' = NULL /\ saves' = Late(cs)
    BY DEF Closed
  <1>3. Over' = Over /\ (Quiet' => Quiet)
    BY DEF Over, Quiet
  <1>4. NextVersion \in 0 .. MaxVersions /\ draft.base <= draft.version
    BY NextVersionFacts
  <1>5. \A s \in Slots : cs[s].state = "none" => cs[s] = Idle
    BY <1>1 DEF SubmissionsOK
  <1>6. /\ saves' \in [Slots -> Submission]
        /\ \A s \in Slots :
              /\ saves'[s].state = cs[s].state
              /\ saves'[s].row = cs[s].row /\ saves'[s].draft = cs[s].draft
              /\ saves'[s].late <=> Pending(cs[s])
              /\ cs[s].state = "none" => saves'[s] = Idle
    BY <1>2, <1>5, LateFacts
  <1>7. \A s \in Slots : Pending(saves'[s]) =>
           /\ saves'[s].late /\ Pending(saves[s]) /\ cs[s] = saves[s]
           /\ saves'[s].state = saves[s].state
           /\ saves'[s].row = saves[s].row
           /\ saves'[s].draft = saves[s].draft
    BY <1>6, NoCallFacts DEF Pending
  <1>8. \/ /\ draft' = Fresh(open, fetched, NextVersion)
           /\ form.stays /\ noticed /\ open # NULL /\ "close" \in form.renews /\ error' = 0
        \/ /\ draft' = draft /\ error' \in {0, error}
           /\ ~form.stays \/ ~noticed \/ open = NULL \/ "close" \notin form.renews
    BY <1>1 DEF Closed, Renewed, Renews, Cleared, FormOK
  <1>9. (form.stays /\ (~noticed \/ open = NULL \/ "close" \notin form.clears)) \/ error' = 0
    BY DEF Closed, Cleared
  <1>10. busy' \in BOOLEAN
    BY FormFacts DEF Closed, Renewed
  <1>11. open # NULL => open \in Over /\ open \in Targets
    BY <1>1, FormFacts DEF SubmissionsOK
  <1>12. /\ draft' \in Draft /\ draft'.base <= draft'.version
         /\ \/ /\ form.stays /\ noticed /\ open # NULL /\ "close" \in form.renews /\ error' = 0
               /\ ~draft'.typed /\ (form.filled => draft'.row = open /\ draft'.seen = fetched[open])
            \/ /\ draft' = draft /\ error' \in {0, error}
               /\ ~form.stays \/ ~noticed \/ open = NULL \/ "close" \notin form.renews
    BY <1>4, <1>8, <1>11, FreshFacts, FormFacts
  <1>13. FormTypeOK'
    <2>1. error' \in 0 .. MaxVersions
      BY <1>12, FormFacts
    <2>2. open' \in OrNull(Targets)
      BY <1>2 DEF OrNull
    <2> QED BY <1>1, <1>6, <1>10, <1>12, <2>1, <2>2 DEF FormTypeOK
  <1>14. SubmissionsOK'
    <2>1. asked \in Slots => saves'[asked].state = "asking"
      <3>1. SUFFICES ASSUME asked \in Slots
                     PROVE  saves'[asked].state = "asking"
        OBVIOUS
      <3>2. saves[asked].state = "asking"
        BY <1>1, <3>1 DEF SubmissionsOK
      <3> QED BY <1>6, <3>1, <3>2
    <2>2. \A s \in Slots :
             /\ saves'[s].state = "none" => saves'[s] = Idle
             /\ Pending(saves'[s]) => saves'[s].row \in Over /\ saves'[s].late
             /\ saves'[s].state = "asking" => asked = s
             /\ saves'[s].state = "loading" => saves'[s].late /\ form.reloads
      <3> SUFFICES ASSUME NEW s \in Slots
                   PROVE  /\ saves'[s].state = "none" => saves'[s] = Idle
                          /\ Pending(saves'[s]) => saves'[s].row \in Over /\ saves'[s].late
                          /\ saves'[s].state = "asking" => asked = s
                          /\ saves'[s].state = "loading" => saves'[s].late /\ form.reloads
        OBVIOUS
      <3>1. saves'[s].state = "none" => saves'[s] = Idle
        BY <1>6
      <3>2. CASE Pending(saves'[s])
        BY <1>1, <1>7, <3>1, <3>2 DEF SubmissionsOK, Pending
      <3> QED BY <3>1, <3>2 DEF Pending
    <2> QED BY <1>2, <1>3, <2>1, <2>2 DEF SubmissionsOK, Pending
  <1>15. OneUnderWay'
    <2>1. ~form.tells => error' = 0
      BY <1>1, <1>12 DEF OneUnderWay
    <2>2. Quiet => error' = 0 \/ error' \in draft'.base .. draft'.version
      BY <1>1, <1>12 DEF OneUnderWay
    <2>3. Quiet /\ ("row" \in form.renews \/ ("open" \in form.renews /\ "open" \notin form.clears))
             => error' = 0
      <3>1. CASE ~form.tells
        BY <2>1, <3>1
      <3>2. CASE form.tells /\ open = NULL
        BY <1>1, <1>12, <3>2 DEF OneUnderWay
      <3>3. CASE form.tells /\ open # NULL
        BY <1>1, <1>9, <3>3 DEF FormOK
      <3> QED BY <3>1, <3>2, <3>3
    <2> QED BY <1>3, <1>7, <1>12, <2>1, <2>2, <2>3 DEF OneUnderWay, Pending
  <1>16. DraftsMatch'
    <2>1. ASSUME form.over = "many", "closed" \notin disturbed'
          PROVE  /\ \A s \in Slots : Pending(saves'[s]) => saves'[s].draft.row = saves'[s].row
                 /\ form.stays /\ "open" \notin form.renews => ~draft'.typed
      <3>1. \A s \in Slots : Pending(saves'[s]) => saves'[s].draft.row = saves'[s].row
        BY <1>1, <1>7, <2>1 DEF DraftsMatch
      <3>2. form.stays /\ "open" \notin form.renews => ~draft'.typed
        BY <1>1, <1>12, <2>1 DEF DraftsMatch, FormOK
      <3> QED BY <3>1, <3>2
    <2>2. ASSUME form.filled, "behind" \notin disturbed', form.stays, "open" \notin form.renews
          PROVE  ~draft'.typed /\ draft'.row \in Over /\ draft'.seen = fetched[draft'.row]
      <3>1. "close" \in form.renews /\ ~form.reloads
        BY <1>1, <2>2 DEF FormOK
      <3>2. fetched = listed
        BY <3>1
      <3>3. CASE open = NULL
        BY <1>1, <1>12, <2>2, <3>2, <3>3 DEF DraftsMatch
      <3>4. CASE open # NULL
        <4>1. noticed
          BY <3>1, <2>2, <1>1, <3>4 DEF FormOK
        <4> QED BY <1>11, <1>12, <2>2, <3>1, <3>4, <4>1
      <3> QED BY <3>3, <3>4
    <2> QED BY <1>2, <1>3, <1>7, <2>1, <2>2 DEF DraftsMatch, Pending
  <1> QED BY <1>1, <1>13, <1>14, <1>15, <1>16 DEF FormInv

LEMMA FormCloses ==
  ASSUME FormInv, Close
  PROVE  FormInv'
  <1>1. /\ Closed(TRUE, listed, saves)
        /\ form' = form /\ asked' = asked /\ table' = table /\ listed' = listed
        /\ disturbed' = disturbed
    BY DEF Close
  <1>2. /\ saves \in [Slots -> Submission] /\ listed \in [Targets -> 0 .. MaxRow]
        /\ disturbed' \in SUBSET {"late", "closed", "renewed", "behind", "replaced"}
        /\ \A t \in Targets \ Over : listed[t] = table[t]
    BY <1>1 DEF FormInv, FormTypeOK, SubmissionsOK
  <1> QED BY <1>1, <1>2, FormIsClosed

LEMMA FormIsChangedByOthers ==
  ASSUME FormInv, NEW t \in Targets, Others(t)
  PROVE  FormInv'
  <1>1. /\ form' = form /\ open' = open /\ draft' = draft /\ error' = error /\ busy' = busy
        /\ asked' = asked /\ saves' = saves /\ listed' = listed
        /\ disturbed' = disturbed /\ t \in Over /\ table[t] < MaxRow
        /\ table' = [table EXCEPT ![t] = @ + 1]
    BY DEF Others
  <1>2. Over' = Over /\ (Quiet <=> Quiet')
    BY <1>1 DEF Over, Quiet
  <1>3. FormTypeOK'
    <2>1. table[t] \in 0 .. MaxRow /\ MaxRow \in Nat
      BY FormFacts DEF FormInv, FormTypeOK
    <2>2. table' \in [Targets -> 0 .. MaxRow]
      BY <1>1, <2>1 DEF FormInv, FormTypeOK
    <2> QED BY <1>1, <2>2 DEF FormInv, FormTypeOK
  <1>4. SubmissionsOK'
    <2>1. \A u \in Targets \ Over : table'[u] = table[u]
      BY <1>1 DEF FormInv, FormTypeOK
    <2> QED BY <1>1, <1>2, <2>1 DEF FormInv, SubmissionsOK, Pending
  <1>5. OneUnderWay'
    BY <1>1, <1>2 DEF FormInv, OneUnderWay, Pending
  <1>6. DraftsMatch'
    BY <1>1, <1>2 DEF FormInv, DraftsMatch, Pending
  <1> QED BY <1>1, <1>3, <1>4, <1>5, <1>6 DEF FormInv

LEMMA FormIsRefreshed ==
  ASSUME FormInv, NEW t \in Targets, Refresh(t)
  PROVE  FormInv'
  <1>1. /\ form' = form /\ open' = open /\ error' = error /\ asked' = asked
        /\ saves' = saves /\ table' = table
        /\ listed' = [listed EXCEPT ![t] = table[t]] /\ listed[t] # table[t]
    BY DEF Refresh
  <1>2. /\ FormOK(form) /\ SubmissionsOK /\ OneUnderWay /\ DraftsMatch /\ FormTypeOK
        /\ open \in OrNull(Targets)
    BY DEF FormInv, FormTypeOK
  <1>3. Over' = Over /\ (Quiet' => Quiet)
    BY <1>1 DEF Over, Quiet, Refresh
  <1>4. t \in Over
    BY <1>1, <1>2 DEF SubmissionsOK
  <1>5. /\ listed' \in [Targets -> 0 .. MaxRow] /\ listed'[t] = table[t]
        /\ \A u \in Targets : u # t => listed'[u] = listed[u]
    BY <1>1, <1>2 DEF FormTypeOK
  <1>6. PICK fetched : fetched = listed'
    OBVIOUS
  <1>7. \/ /\ draft' = Fresh(t, fetched, NextVersion) /\ "row" \in form.renews
           /\ open = t \/ form.over = "one"
        \/ /\ draft' = draft /\ busy' = busy
           /\ "row" \notin form.renews \/ (open # t /\ form.over # "one")
    BY <1>6 DEF Refresh, Renewed, Renews
  <1>8. NextVersion \in 0 .. MaxVersions /\ draft.base <= draft.version
    BY NextVersionFacts
  <1>9. /\ draft' \in Draft /\ draft'.base <= draft'.version
        /\ \/ /\ ~draft'.typed /\ (form.filled => draft'.row = t /\ draft'.seen = fetched[t])
              /\ "row" \in form.renews /\ (open = t \/ form.over = "one")
           \/ /\ draft' = draft /\ busy' = busy
              /\ "row" \notin form.renews \/ (open # t /\ form.over # "one")
    BY <1>5, <1>6, <1>7, <1>8, FreshFacts, FormFacts
  <1>10. busy' \in BOOLEAN
    BY FormFacts DEF Refresh, Renewed
  <1>11. /\ open # t => disturbed' = disturbed
         /\ open = t /\ "row" \in form.renews => disturbed' = disturbed \cup {"renewed"}
         /\ open = t /\ "row" \notin form.renews => disturbed' = disturbed \cup {"behind"}
    BY DEF Refresh, Renews
  <1>12. open # NULL => open \in Over
    BY <1>2 DEF SubmissionsOK
  <1>13. CASE draft' = draft /\ busy' = busy /\ ("row" \notin form.renews \/ (open # t /\ form.over # "one"))
    <2>1. FormTypeOK'
      BY <1>1, <1>2, <1>5, <1>9, <1>10, <1>11 DEF FormTypeOK
    <2>2. SubmissionsOK'
      BY <1>1, <1>2, <1>3, <1>4, <1>5 DEF SubmissionsOK, Pending
    <2>3. OneUnderWay'
      BY <1>1, <1>2, <1>3, <1>13 DEF OneUnderWay, Pending
    <2>4. DraftsMatch'
      <3>1. /\ "closed" \notin disturbed' => "closed" \notin disturbed
            /\ "behind" \notin disturbed' => "behind" \notin disturbed
        BY <1>11
      <3>2. form.filled /\ "behind" \notin disturbed' /\ open # NULL => listed'[open] = listed[open]
        <4>1. "row" \notin form.renews /\ open = t => "behind" \in disturbed'
          BY <1>11
        <4> QED BY <4>1, <1>2, <1>5, <1>12, <1>13, FormFacts
      <3>3. form.filled /\ open = NULL /\ form.stays /\ "open" \notin form.renews => FALSE
        BY <1>2, <1>13 DEF FormOK
      <3> QED BY <1>1, <1>2, <1>3, <1>13, <3>1, <3>2, <3>3 DEF DraftsMatch, Pending
    <2> QED BY <1>1, <1>2, <2>1, <2>2, <2>3, <2>4 DEF FormInv
  <1>14. CASE /\ draft' = Fresh(t, fetched, NextVersion) /\ "row" \in form.renews
              /\ open = t \/ form.over = "one"
    <2>1. ~draft'.typed /\ (form.filled => draft'.row = t /\ draft'.seen = fetched[t])
      BY <1>5, <1>6, <1>8, <1>14, FreshFacts
    <2>2. open = t \/ open = NULL
      BY <1>4, <1>12, <1>14, OneRow
    <2>3. Quiet' => open = NULL
      BY <1>11, <1>14, <2>2 DEF Quiet
    <2>4. FormTypeOK'
      BY <1>1, <1>2, <1>5, <1>9, <1>10, <1>11 DEF FormTypeOK
    <2>5. SubmissionsOK'
      BY <1>1, <1>2, <1>3, <1>4, <1>5 DEF SubmissionsOK, Pending
    <2>6. OneUnderWay'
      <3>1. Quiet' => error = 0 /\ \A s \in Slots : Pending(saves[s]) => saves[s].late
        BY <1>2, <1>3, <1>14, <2>3 DEF OneUnderWay, SubmissionsOK
      <3> QED BY <1>1, <1>2, <1>9, <3>1 DEF OneUnderWay, Pending
    <2>7. DraftsMatch'
      <3>1. /\ "closed" \notin disturbed' => "closed" \notin disturbed
            /\ "behind" \notin disturbed' => "behind" \notin disturbed
        BY <1>11
      <3>2. ~(form.filled /\ ~form.closes)
        BY <1>2, <1>14 DEF FormOK
      <3>3. form.over = "many" => open = t
        BY <1>14
      <3> QED BY <1>1, <1>2, <1>3, <1>4, <1>6, <2>1, <2>2, <3>1, <3>2, <3>3 DEF DraftsMatch, Pending
    <2> QED BY <1>1, <1>2, <2>4, <2>5, <2>6, <2>7 DEF FormInv
  <1> QED BY <1>7, <1>13, <1>14

(* A submission that is put: sent at once, asked about first, or asked     *)
(* about in place of one whose question is open.                           *)
LEMMA FormPuts ==
  ASSUME FormInv, NEW s \in Slots,
         NEW n \in Submission, Submittable,
         saves' = [saves EXCEPT ![s] = n],
         ~n.late, n.row = open, n.draft = draft,
         \/ n.state = "sent" /\ saves[s].state = "none" /\ asked' = asked
         \/ n.state = "asking" /\ asked' = s /\ (asked \in Slots => asked = s),
         form' = form, open' = open, draft' = draft, table' = table, listed' = listed,
         busy' = TRUE, error' = 0,
         disturbed' = disturbed \/ disturbed' = disturbed \cup {"replaced"}
  PROVE  FormInv'
  <1>1. /\ FormOK(form) /\ SubmissionsOK /\ OneUnderWay /\ DraftsMatch /\ FormTypeOK
        /\ open # NULL /\ ~busy /\ (draft.typed \/ (form.filled /\ form.closes))
    BY DEF FormInv, Submittable, Enabled
  <1>2. Over' = Over /\ (Quiet <=> Quiet')
    BY DEF Over, Quiet
  <1>3. /\ saves'[s] = n /\ \A r \in Slots : r # s => saves'[r] = saves[r]
        /\ saves' \in [Slots -> Submission]
    BY <1>1 DEF FormTypeOK
  <1>4. n.state \in {"sent", "asking"}
    OBVIOUS
  <1>5. open \in Over /\ open \in Targets
    BY <1>1, FormFacts DEF SubmissionsOK
  <1>6. FormTypeOK'
    <2>1. error' \in 0 .. MaxVersions
      BY FormFacts
    <2>2. asked' \in OrNull({0} \cup Slots)
      BY <1>1 DEF FormTypeOK, OrNull
    <2> QED BY <1>1, <1>3, <2>1, <2>2 DEF FormTypeOK
  <1>7. SubmissionsOK'
    <2>1. asked' \in Slots => saves'[asked'].state = "asking"
      <3>1. CASE n.state = "sent" /\ saves[s].state = "none" /\ asked' = asked
        <4>1. asked \in Slots => asked # s
          BY <1>1, <3>1 DEF SubmissionsOK
        <4> QED BY <1>1, <1>3, <3>1, <4>1 DEF SubmissionsOK
      <3>2. CASE n.state = "asking" /\ asked' = s
        BY <1>3, <3>2
      <3> QED BY <3>1, <3>2
    <2>2. \A r \in Slots : r # s =>
             /\ saves'[r].state = "asking" => asked' = r
             /\ saves'[r] = saves[r]
      BY <1>1, <1>3 DEF SubmissionsOK
    <2>3. \A r \in Slots :
             LET c == saves'[r] IN
             /\ c.state = "none" => c = Idle
             /\ Pending(c) => c.row \in Over
             /\ c.state = "asking" => asked' = r
             /\ c.state = "loading" => c.late /\ form.reloads
      <3> SUFFICES ASSUME NEW r \in Slots
                   PROVE  LET c == saves'[r] IN
                          /\ c.state = "none" => c = Idle
                          /\ Pending(c) => c.row \in Over
                          /\ c.state = "asking" => asked' = r
                          /\ c.state = "loading" => c.late /\ form.reloads
        OBVIOUS
      <3>1. CASE r = s
        BY <1>3, <1>4, <1>5, <3>1
      <3>2. CASE r # s
        BY <1>1, <2>2, <3>2 DEF SubmissionsOK
      <3> QED BY <3>1, <3>2
    <2> QED BY <1>1, <1>2, <2>1, <2>3 DEF SubmissionsOK, Pending
  <1>8. OneUnderWay'
    <2>1. Quiet => \A r \in Slots : ~(Pending(saves[r]) /\ ~saves[r].late)
      BY <1>1 DEF OneUnderWay
    <2>2. Quiet => \A r \in Slots : Pending(saves'[r]) /\ ~saves'[r].late => r = s
      BY <1>3, <2>1
    <2>3. draft.version \in draft.base .. draft.version
      BY <1>1, FormFacts DEF OneUnderWay
    <2>4. Quiet => \A r \in Slots : Pending(saves'[r]) /\ ~saves'[r].late =>
             /\ saves'[r].draft.version \in draft.base .. draft.version
             /\ \A q \in Slots : Pending(saves'[q]) /\ ~saves'[q].late => q = r
      BY <1>3, <2>2, <2>3
    <2> QED BY <1>1, <1>2, <2>4 DEF OneUnderWay, Pending
  <1>9. DraftsMatch'
    <2>1. /\ "closed" \notin disturbed' => "closed" \notin disturbed
          /\ "behind" \notin disturbed' => "behind" \notin disturbed
      OBVIOUS
    <2>2. form.over = "many" /\ "closed" \notin disturbed =>
             \A r \in Slots : Pending(saves'[r]) => saves'[r].draft.row = saves'[r].row
      <3> SUFFICES ASSUME form.over = "many", "closed" \notin disturbed, NEW r \in Slots,
                          Pending(saves'[r])
                   PROVE  saves'[r].draft.row = saves'[r].row
        OBVIOUS
      <3>1. CASE r = s
        BY <1>1, <1>3, <3>1 DEF DraftsMatch
      <3>2. CASE r # s
        BY <1>1, <1>3, <3>2 DEF DraftsMatch
      <3> QED BY <3>1, <3>2
    <2>3. form.filled /\ ~form.closes => draft.typed
      BY <1>1
    <2> QED BY <1>1, <1>2, <2>1, <2>2, <2>3 DEF DraftsMatch, Pending
  <1> QED BY <1>1, <1>6, <1>7, <1>8, <1>9 DEF FormInv

LEMMA FormSubmits ==
  ASSUME FormInv, NEW s \in Slots,
         Submit(s) \/ AskFirst(s) \/ AskInstead(s)
  PROVE  FormInv'
  <1>1. draft \in Draft /\ MaxRow \in Nat /\ open \in OrNull(Targets)
    BY FormFacts DEF FormInv, FormTypeOK
  <1>2. ASSUME NEW state \in {"asking", "sent"}
        PROVE  [state |-> state, late |-> FALSE, row |-> open, draft |-> draft, got |-> 0] \in Submission
    BY <1>1 DEF Submission
  <1>3. CASE Submit(s)
    <2>1. PICK n : n = [state |-> "sent", late |-> FALSE, row |-> open, draft |-> draft, got |-> 0]
      OBVIOUS
    <2>2. /\ n \in Submission /\ n.state = "sent" /\ ~n.late /\ n.row = open /\ n.draft = draft
      BY <2>1, <1>2
    <2>3. /\ Submittable /\ saves[s].state = "none" /\ asked' = asked
          /\ saves' = [saves EXCEPT ![s] = n]
          /\ form' = form /\ open' = open /\ draft' = draft /\ table' = table /\ listed' = listed
          /\ busy' = TRUE /\ error' = 0 /\ disturbed' = disturbed
      BY <1>3, <2>1 DEF Submit, Put, NextSlot, Least, Unused
    <2> QED BY <2>2, <2>3, FormPuts
  <1>4. CASE AskFirst(s)
    <2>1. PICK n : n = [state |-> "asking", late |-> FALSE, row |-> open, draft |-> draft, got |-> 0]
      OBVIOUS
    <2>2. /\ n \in Submission /\ n.state = "asking" /\ ~n.late /\ n.row = open /\ n.draft = draft
      BY <2>1, <1>2
    <2>3. /\ Submittable /\ asked' = s /\ asked \notin Slots
          /\ saves' = [saves EXCEPT ![s] = n]
          /\ form' = form /\ open' = open /\ draft' = draft /\ table' = table /\ listed' = listed
          /\ busy' = TRUE /\ error' = 0 /\ disturbed' = disturbed
      BY <1>4, <2>1 DEF AskFirst, Put
    <2> QED BY <2>2, <2>3, FormPuts
  <1>5. CASE AskInstead(s)
    <2>1. PICK n : n = [Idle EXCEPT !.state = "asking", !.row = open, !.draft = draft]
      OBVIOUS
    <2>2. PICK c : c = Idle
      OBVIOUS
    <2>3. n = [c EXCEPT !.state = "asking", !.row = open, !.draft = draft]
      BY <2>1, <2>2
    <2>4. c \in Submission /\ ~c.late
      BY <2>2, NoCallFacts
    <2>5. c = [state |-> c.state, late |-> c.late, row |-> c.row, draft |-> c.draft, got |-> c.got]
      BY <2>4, SubmissionFacts
    <2>6. n.state = "asking" /\ ~n.late /\ n.row = open /\ n.draft = draft
      BY <2>3, <2>4, <2>5
    <2>7. n \in Submission
      BY <2>3, <2>4, <1>1 DEF Submission
    <2>8. /\ Submittable /\ s = asked /\ asked' = asked
          /\ saves' = [saves EXCEPT ![s] = n]
          /\ form' = form /\ open' = open /\ draft' = draft /\ table' = table /\ listed' = listed
          /\ busy' = TRUE /\ error' = 0 /\ disturbed' = disturbed \cup {"replaced"}
      BY <1>5, <2>1 DEF AskInstead
    <2> QED BY <2>6, <2>7, <2>8, FormPuts
  <1> QED BY <1>3, <1>4, <1>5

(* What is left to see when neither the form, the draft nor the rows the   *)
(* page has change: no submission begins, and of those under way none but  *)
(* the state moves.                                                        *)
LEMMA FormGoesOn ==
  ASSUME FormInv, FormTypeOK', SubmissionsOK',
         form' = form, open' = open, draft' = draft, listed' = listed,
         disturbed \subseteq disturbed',
         \A s \in Slots : Pending(saves'[s]) =>
            /\ Pending(saves[s]) /\ saves'[s].late = saves[s].late
            /\ saves'[s].row = saves[s].row
            /\ saves'[s].draft = saves[s].draft,
         ~form.tells => error' = error,
         Quiet' => error' = error \/ (open # NULL /\ error' \in draft.base .. draft.version),
         Quiet' => \/ error' = error /\ busy' = busy
                   \/ \A s \in Slots : ~(Pending(saves'[s]) /\ ~saves'[s].late)
  PROVE  FormInv'
  <1>1. FormOK(form) /\ OneUnderWay /\ DraftsMatch
    BY DEF FormInv
  <1>2. Over' = Over /\ (Quiet' => Quiet)
    BY DEF Over, Quiet
  <1>3. OneUnderWay'
    <2>1. Quiet' => error' = 0 \/ error' \in draft.base .. draft.version
      BY <1>1, <1>2 DEF OneUnderWay
    <2>2. ~form.tells => error' = 0
      BY <1>1 DEF OneUnderWay
    <2>3. Quiet' /\ open = NULL => error' = error
      OBVIOUS
    <2>4. Quiet' => \A s \in Slots : Pending(saves'[s]) /\ ~saves'[s].late =>
             /\ Pending(saves[s]) /\ ~saves[s].late
             /\ busy' = busy /\ error' = error
             /\ saves'[s].draft = saves[s].draft
      OBVIOUS
    <2> QED BY <1>1, <1>2, <2>1, <2>2, <2>3, <2>4 DEF OneUnderWay, Pending
  <1>4. DraftsMatch'
    <2>1. /\ "closed" \notin disturbed' => "closed" \notin disturbed
          /\ "behind" \notin disturbed' => "behind" \notin disturbed
      OBVIOUS
    <2> QED BY <1>1, <1>2, <2>1 DEF DraftsMatch, Pending
  <1> QED BY <1>1, <1>3, <1>4 DEF FormInv

(* The submission in slot s ends.                                          *)
LEMMA SubmissionEnds ==
  ASSUME FormInv, NEW s \in Slots,
         saves' = [saves EXCEPT ![s] = Idle],
         form' = form, open' = open, table' = table, listed' = listed,
         asked' \notin Slots \/ (asked' = asked /\ asked' # s),
         asked \in Slots => asked' = asked \/ asked = s
  PROVE  /\ saves' \in [Slots -> Submission] /\ SubmissionsOK'
         /\ \A r \in Slots : Pending(saves'[r]) =>
               r # s /\ saves'[r] = saves[r] /\ Pending(saves[r])
         /\ Quiet /\ Pending(saves[s]) /\ ~saves[s].late =>
               \A r \in Slots : ~(Pending(saves'[r]) /\ ~saves'[r].late)
  <1>1. SubmissionsOK /\ OneUnderWay /\ saves \in [Slots -> Submission]
    BY DEF FormInv, FormTypeOK
  <1>2. Over' = Over
    BY DEF Over
  <1>3. /\ saves'[s] = Idle /\ \A r \in Slots : r # s => saves'[r] = saves[r]
        /\ saves' \in [Slots -> Submission]
    BY <1>1, NoCallFacts
  <1>4. \A r \in Slots : Pending(saves'[r]) =>
           r # s /\ saves'[r] = saves[r] /\ Pending(saves[r])
    BY <1>3, NoCallFacts DEF Pending
  <1>5. SubmissionsOK'
    <2>1. asked' \in Slots => saves'[asked'].state = "asking"
      BY <1>1, <1>3 DEF SubmissionsOK
    <2>2. \A r \in Slots :
             LET c == saves'[r] IN
             /\ c.state = "none" => c = Idle
             /\ Pending(c) => c.row \in Over
             /\ c.state = "asking" => asked' = r
             /\ c.state = "loading" => c.late /\ form.reloads
             /\ Pending(c) /\ open = NULL => c.late
      <3> SUFFICES ASSUME NEW r \in Slots
                   PROVE  LET c == saves'[r] IN
                          /\ c.state = "none" => c = Idle
                          /\ Pending(c) => c.row \in Over
                          /\ c.state = "asking" => asked' = r
                          /\ c.state = "loading" => c.late /\ form.reloads
                          /\ Pending(c) /\ open = NULL => c.late
        OBVIOUS
      <3>1. CASE r = s
        BY <1>3, <3>1, NoCallFacts DEF Pending
      <3>2. CASE r # s
        BY <1>1, <1>3, <3>2 DEF SubmissionsOK
      <3> QED BY <3>1, <3>2
    <2> QED BY <1>1, <1>2, <2>1, <2>2 DEF SubmissionsOK, Pending
  <1>6. Quiet /\ Pending(saves[s]) /\ ~saves[s].late =>
           \A r \in Slots : ~(Pending(saves'[r]) /\ ~saves'[r].late)
    BY <1>1, <1>4 DEF OneUnderWay
  <1> QED BY <1>3, <1>4, <1>5, <1>6

LEMMA FormIsConfirmed ==
  ASSUME FormInv, Confirm
  PROVE  FormInv'
  <1>1. /\ form' = form /\ open' = open /\ draft' = draft /\ error' = error /\ busy' = busy
        /\ table' = table /\ listed' = listed /\ disturbed' = disturbed
        /\ asked # NULL /\ asked' = NULL
        /\ asked \in Slots => saves' = [saves EXCEPT ![asked].state = "sent"]
        /\ asked \notin Slots => saves' = saves
    BY DEF Confirm
  <1>2. SubmissionsOK /\ FormTypeOK /\ Over' = Over /\ NULL \notin Slots
    BY <1>1, FormFacts DEF FormInv, Over
  <1>3. CASE asked \in Slots
    <2>1. PICK c : c = saves[asked]
      OBVIOUS
    <2>2. /\ c \in Submission /\ c.state = "asking"
          /\ c = [state |-> c.state, late |-> c.late, row |-> c.row, draft |-> c.draft, got |-> c.got]
      BY <1>2, <1>3, <2>1, FormFacts, SubmissionFacts DEF SubmissionsOK
    <2>3. PICK n : n = [c EXCEPT !.state = "sent"]
      OBVIOUS
    <2>4. n \in Submission
      BY <2>2, <2>3 DEF Submission
    <2>5. n.state = "sent" /\ n.late = c.late /\ n.row = c.row /\ n.draft = c.draft
      BY <2>2, <2>3
    <2>6. saves' = [saves EXCEPT ![asked] = n]
      BY <1>1, <1>2, <1>3, <2>1, <2>3 DEF FormTypeOK
    <2>7. /\ saves'[asked] = n /\ \A s \in Slots : s # asked => saves'[s] = saves[s]
          /\ saves' \in [Slots -> Submission]
      BY <1>2, <1>3, <2>4, <2>6 DEF FormTypeOK
    <2>8. FormTypeOK'
      BY <1>1, <1>2, <2>7 DEF FormTypeOK, OrNull
    <2>9. \A s \in Slots :
             /\ saves'[s].state = "none" => saves'[s] = Idle
             /\ Pending(saves'[s]) =>
                   /\ Pending(saves[s]) /\ saves'[s].late = saves[s].late
                   /\ saves'[s].row = saves[s].row
                   /\ saves'[s].draft = saves[s].draft
             /\ saves'[s].state # "asking"
             /\ saves'[s].state = "loading" => saves[s].state = "loading"
      <3> SUFFICES ASSUME NEW s \in Slots
                   PROVE  /\ saves'[s].state = "none" => saves'[s] = Idle
                          /\ Pending(saves'[s]) =>
                                /\ Pending(saves[s]) /\ saves'[s].late = saves[s].late
                                /\ saves'[s].row = saves[s].row
                                /\ saves'[s].draft = saves[s].draft
                          /\ saves'[s].state # "asking"
                          /\ saves'[s].state = "loading" => saves[s].state = "loading"
        OBVIOUS
      <3>1. CASE s = asked
        BY <2>1, <2>2, <2>5, <2>7, <3>1 DEF Pending
      <3>2. CASE s # asked
        BY <1>2, <2>7, <3>2 DEF SubmissionsOK
      <3> QED BY <3>1, <3>2
    <2>10. SubmissionsOK'
      BY <1>1, <1>2, <2>9 DEF SubmissionsOK, Pending
    <2> QED BY <1>1, <2>8, <2>9, <2>10, FormGoesOn
  <1>4. CASE asked \notin Slots
    <2>1. FormTypeOK'
      BY <1>1, <1>2, <1>4 DEF FormTypeOK, OrNull
    <2>2. SubmissionsOK'
      BY <1>1, <1>2, <1>4 DEF SubmissionsOK, Pending
    <2> QED BY <1>1, <1>4, <2>1, <2>2, FormGoesOn
  <1> QED BY <1>3, <1>4

LEMMA FormIsNotConfirmed ==
  ASSUME FormInv, Cancel \/ AskOfPage
  PROVE  FormInv'
  <1>1. /\ form' = form /\ open' = open /\ draft' = draft /\ error' = error
        /\ table' = table /\ listed' = listed /\ asked' \in {0, NULL}
        /\ asked \in Slots => saves' = [saves EXCEPT ![asked] = Idle]
        /\ asked \notin Slots => saves' = saves /\ busy' = busy /\ disturbed' = disturbed
    BY DEF Cancel, AskOfPage
  <1>2. SubmissionsOK /\ FormTypeOK /\ asked' \notin Slots
    BY <1>1, FormFacts DEF FormInv
  <1>3. asked' \in OrNull({0} \cup Slots)
    BY <1>1 DEF OrNull
  <1>4. CASE asked \in Slots
    <2>1. saves[asked].state = "asking"
      BY <1>2, <1>4 DEF SubmissionsOK
    <2>2. /\ saves' \in [Slots -> Submission] /\ SubmissionsOK'
          /\ \A r \in Slots : Pending(saves'[r]) =>
                r # asked /\ saves'[r] = saves[r] /\ Pending(saves[r])
          /\ Quiet /\ ~saves[asked].late =>
                \A r \in Slots : ~(Pending(saves'[r]) /\ ~saves'[r].late)
      BY <1>1, <1>2, <1>4, <2>1, SubmissionEnds DEF Pending
    <2>3. /\ busy' \in BOOLEAN
          /\ disturbed' \in {disturbed \cup {"replaced"}, DisturbedBy(saves[asked])}
          /\ busy' = busy \/ disturbed' = DisturbedBy(saves[asked])
      BY <1>4, FormFacts DEF Cancel, AskOfPage
    <2>4. /\ disturbed \subseteq disturbed'
          /\ disturbed' \in SUBSET {"late", "closed", "renewed", "behind", "replaced"}
          /\ Quiet' => Quiet /\ (busy' = busy \/ ~saves[asked].late)
      BY <1>2, <2>3 DEF DisturbedBy, FormTypeOK, Quiet
    <2>5. FormTypeOK'
      BY <1>1, <1>2, <1>3, <2>2, <2>3, <2>4 DEF FormTypeOK
    <2> QED BY <1>1, <2>2, <2>4, <2>5, FormGoesOn
  <1>5. CASE asked \notin Slots
    <2>1. FormTypeOK'
      BY <1>1, <1>2, <1>3, <1>5 DEF FormTypeOK
    <2>2. SubmissionsOK'
      <3>1. Over' = Over
        BY <1>1 DEF Over
      <3> QED BY <1>1, <1>2, <1>5, <3>1 DEF SubmissionsOK, Pending
    <2> QED BY <1>1, <1>5, <2>1, <2>2, FormGoesOn
  <1> QED BY <1>4, <1>5

LEMMA FormIsServed ==
  ASSUME FormInv, NEW s \in Slots,
         Handle(s) \/ LoseAnswer(s)
  PROVE  FormInv'
  <1>1. /\ form' = form /\ open' = open /\ draft' = draft /\ error' = error /\ busy' = busy
        /\ asked' = asked /\ listed' = listed /\ disturbed' = disturbed
        /\ saves[s].state \in {"sent", "made"}
    BY DEF Handle, Save, TurnDown, LoseAnswer, Reject
  <1>2. /\ SubmissionsOK /\ FormTypeOK /\ Over' = Over
    BY <1>1 DEF FormInv, Over
  <1>3. PICK c : c = saves[s]
    OBVIOUS
  <1>4. /\ c \in Submission /\ c.state \in {"sent", "made"} /\ c.row \in Over
        /\ c = [state |-> c.state, late |-> c.late, row |-> c.row, draft |-> c.draft, got |-> c.got]
    BY <1>1, <1>2, <1>3, FormFacts, SubmissionFacts DEF SubmissionsOK, Pending
  <1>5. c.row \in Targets /\ table[c.row] \in 0 .. MaxRow
    BY <1>2, <1>4, FormFacts DEF FormTypeOK
  <1>6. Later(table[c.row]) \in 0 .. MaxRow
    BY <1>5, FormFacts DEF Later
  <1>7. PICK n \in {[c EXCEPT !.state = "made"], [c EXCEPT !.state = "refused"],
                    [c EXCEPT !.state = "made", !.got = Later(table[c.row])]} :
           saves' = [saves EXCEPT ![s] = n]
    BY <1>2, <1>3 DEF Handle, Save, TurnDown, LoseAnswer, Reject, FormTypeOK
  <1>8. n \in Submission
    BY <1>4, <1>6, <1>7 DEF Submission
  <1>9. n.state \in {"made", "refused"} /\ n.late = c.late /\ n.row = c.row /\ n.draft = c.draft
    BY <1>4, <1>7
  <1>10. /\ saves'[s] = n /\ \A r \in Slots : r # s => saves'[r] = saves[r]
         /\ saves' \in [Slots -> Submission]
    BY <1>2, <1>7, <1>8 DEF FormTypeOK
  <1>11. table' = table \/ table' = [table EXCEPT ![c.row] = Later(@)]
    BY <1>3 DEF Handle, Save, TurnDown, LoseAnswer, Reject
  <1>12. /\ table' \in [Targets -> 0 .. MaxRow]
         /\ \A t \in Targets \ Over : table'[t] = table[t]
    BY <1>2, <1>4, <1>5, <1>6, <1>11 DEF FormTypeOK
  <1>13. FormTypeOK'
    BY <1>1, <1>2, <1>10, <1>12 DEF FormTypeOK
  <1>14. \A r \in Slots :
            /\ saves'[r].state = "none" => saves'[r] = Idle
            /\ Pending(saves'[r]) =>
                  /\ Pending(saves[r]) /\ saves'[r].late = saves[r].late
                  /\ saves'[r].row = saves[r].row
                  /\ saves'[r].draft = saves[r].draft
            /\ saves'[r].state = "asking" <=> saves[r].state = "asking"
            /\ saves'[r].state = "loading" => saves[r].state = "loading"
    <2> SUFFICES ASSUME NEW r \in Slots
                 PROVE  /\ saves'[r].state = "none" => saves'[r] = Idle
                        /\ Pending(saves'[r]) =>
                              /\ Pending(saves[r]) /\ saves'[r].late = saves[r].late
                              /\ saves'[r].row = saves[r].row
                              /\ saves'[r].draft = saves[r].draft
                        /\ saves'[r].state = "asking" <=> saves[r].state = "asking"
                        /\ saves'[r].state = "loading" => saves[r].state = "loading"
      OBVIOUS
    <2>1. CASE r = s
      BY <1>3, <1>4, <1>9, <1>10, <2>1 DEF Pending
    <2>2. CASE r # s
      BY <1>2, <1>10, <2>2 DEF SubmissionsOK
    <2> QED BY <2>1, <2>2
  <1>15. SubmissionsOK'
    BY <1>1, <1>2, <1>12, <1>14 DEF SubmissionsOK, Pending
  <1> QED BY <1>1, <1>13, <1>14, <1>15, FormGoesOn

LEMMA FormFails ==
  ASSUME FormInv, NEW s \in Slots, Failed(s)
  PROVE  FormInv'
  <1>1. PICK c : c = saves[s]
    OBVIOUS
  <1>2. /\ form' = form /\ open' = open /\ draft' = draft /\ asked' = asked
        /\ table' = table /\ listed' = listed /\ c.state = "refused"
        /\ saves' = [saves EXCEPT ![s] = Idle]
        /\ error' = error \/ (form.tells /\ error' = c.draft.version)
        /\ busy' = (busy /\ ~ReachesForm(c)) /\ disturbed' = DisturbedBy(c)
    BY <1>1 DEF Failed
  <1>3. SubmissionsOK /\ OneUnderWay /\ FormTypeOK /\ asked # s
    BY <1>1, <1>2 DEF FormInv, SubmissionsOK
  <1>4. c.late \in BOOLEAN /\ c.draft.version \in 0 .. MaxVersions
    BY <1>1, <1>3, SubmissionFacts DEF FormTypeOK
  <1>5. /\ disturbed \subseteq disturbed'
        /\ disturbed' \in SUBSET {"late", "closed", "renewed", "behind", "replaced"}
        /\ Quiet' => Quiet /\ ~c.late
    BY <1>2, <1>3 DEF DisturbedBy, FormTypeOK, Quiet
  <1>6. /\ saves' \in [Slots -> Submission] /\ SubmissionsOK'
        /\ \A r \in Slots : Pending(saves'[r]) =>
              r # s /\ saves'[r] = saves[r] /\ Pending(saves[r])
        /\ Quiet /\ ~c.late => \A r \in Slots : ~(Pending(saves'[r]) /\ ~saves'[r].late)
    BY <1>1, <1>2, <1>3, SubmissionEnds DEF Pending
  <1>7. Quiet' => /\ open # NULL
                  /\ c.draft.version \in draft.base .. draft.version
    BY <1>1, <1>2, <1>3, <1>5 DEF SubmissionsOK, OneUnderWay, Pending
  <1>8. FormTypeOK'
    <2>1. error' \in 0 .. MaxVersions /\ busy' \in BOOLEAN
      BY <1>2, <1>4, FormFacts
    <2> QED BY <1>2, <1>3, <1>5, <1>6, <2>1 DEF FormTypeOK
  <1> QED BY <1>2, <1>5, <1>6, <1>7, <1>8, FormGoesOn

LEMMA FormLoads ==
  ASSUME FormInv, NEW s \in Slots, Loaded(s)
  PROVE  FormInv'
  <1>1. PICK fetched : fetched = listed'
    OBVIOUS
  <1>2. PICK cs : cs = [saves EXCEPT ![s] = Idle]
    OBVIOUS
  <1>3. /\ form' = form /\ asked' = asked /\ table' = table
        /\ saves[s].state = "loading"
        /\ Closed(form.effect, fetched, cs)
        /\ disturbed' = (IF open = NULL THEN disturbed ELSE disturbed \cup {"closed"})
        /\ \/ fetched = [t \in Targets |-> IF t \in Over THEN table[t] ELSE listed[t]]
           \/ fetched = listed
    BY <1>1, <1>2 DEF Loaded
  <1>4. FormTypeOK /\ SubmissionsOK /\ form.effect \in BOOLEAN
    BY FormFacts DEF FormInv, Form
  <1>5. form.reloads
    BY <1>3, <1>4 DEF SubmissionsOK
  <1>6. /\ fetched \in [Targets -> 0 .. MaxRow]
        /\ \A t \in Targets \ Over : fetched[t] = table[t]
    BY <1>3, <1>4 DEF FormTypeOK, SubmissionsOK
  <1>7. /\ cs \in [Slots -> Submission]
        /\ \A r \in Slots : cs[r] = saves[r] \/ (cs[r] = Idle /\ saves[r].state # "asking")
    BY <1>2, <1>3, <1>4, NoCallFacts DEF FormTypeOK
  <1>8. /\ disturbed \subseteq disturbed'
        /\ disturbed' \in SUBSET {"late", "closed", "renewed", "behind", "replaced"}
        /\ open # NULL => "closed" \in disturbed'
    BY <1>3, <1>4 DEF FormTypeOK
  <1> QED BY <1>1, <1>3, <1>4, <1>5, <1>6, <1>7, <1>8, FormIsClosed

LEMMA FormIsMade ==
  ASSUME FormInv, NEW s \in Slots, Made(s)
  PROVE  FormInv'
  <1>1. PICK c : c = saves[s]
    OBVIOUS
  <1>2. PICK fetched : fetched = listed'
    OBVIOUS
  <1>3. /\ FormOK(form) /\ SubmissionsOK /\ OneUnderWay /\ DraftsMatch /\ FormTypeOK
        /\ Over' = Over /\ form' = form /\ asked' = asked /\ table' = table
        /\ c.state = "made" /\ disturbed' = DisturbedBy(c)
        /\ fetched = (IF form.puts THEN [listed EXCEPT ![c.row] = c.got] ELSE listed)
    BY <1>1, <1>2 DEF FormInv, Made, Over
  <1>4. /\ c \in Submission /\ c.late \in BOOLEAN /\ c.got \in 0 .. MaxRow
        /\ c.row \in Over /\ c.row \in Targets
        /\ open = NULL => c.late
    BY <1>1, <1>3, FormFacts, SubmissionFacts DEF SubmissionsOK, Pending
  <1>5. /\ fetched \in [Targets -> 0 .. MaxRow]
        /\ \A t \in Targets \ Over : fetched[t] = table[t]
    BY <1>3, <1>4 DEF FormTypeOK, SubmissionsOK
  <1>6. /\ disturbed \subseteq disturbed'
        /\ disturbed' \in SUBSET {"late", "closed", "renewed", "behind", "replaced"}
        /\ Quiet' => Quiet /\ ~c.late
        /\ "closed" \notin disturbed' => "closed" \notin disturbed
        /\ "behind" \notin disturbed' =>
              "behind" \notin disturbed /\ (c.late => ~form.puts \/ form.closes)
    BY <1>3 DEF DisturbedBy, FormTypeOK, Quiet
  <1>7. Quiet' => error = 0
    BY <1>1, <1>3, <1>6 DEF OneUnderWay, Pending
  <1>8. PICK rest : rest = [saves EXCEPT ![s] =
                               IF form.reloads THEN [c EXCEPT !.state = "loading"] ELSE Idle]
    OBVIOUS
  <1>9. NextVersion \in 0 .. MaxVersions /\ draft.base <= draft.version
    BY NextVersionFacts
  <1>10. \/ draft' = Fresh(c.row, fetched, NextVersion)
         \/ draft' = draft
    BY <1>1, <1>2, <1>3 DEF Made
  <1>11. /\ draft' \in Draft /\ draft'.base <= draft'.version
         /\ \/ ~draft'.typed /\ (form.filled => draft'.row = c.row /\ draft'.seen = fetched[c.row])
            \/ draft' = draft
    BY <1>4, <1>5, <1>9, <1>10, FreshFacts, FormFacts
  <1>12. asked # s
    BY <1>1, <1>3 DEF SubmissionsOK
  <1>13. CASE form.closes
    <2>1. /\ open' = NULL /\ saves' = Late(rest) /\ busy' = FALSE
          /\ error' \in {0} \cup {Cleared(when) : when \in {"close", "success"}}
          /\ "close" \in form.renews => draft' = Fresh(c.row, fetched, NextVersion)
      BY <1>1, <1>2, <1>3, <1>8, <1>13 DEF Made, Renews
    <2>2. error' \in {0, error}
      BY <2>1 DEF Cleared
    <2>3. "close" \in form.renews =>
             ~draft'.typed /\ (form.filled => draft'.row = c.row /\ draft'.seen = fetched[c.row])
      BY <2>1, <1>4, <1>5, <1>9, FreshFacts
    <2>4. c = [state |-> c.state, late |-> c.late, row |-> c.row, draft |-> c.draft, got |-> c.got]
      BY <1>4, SubmissionFacts
    <2>5. PICK n : n = [c EXCEPT !.state = "loading"]
      OBVIOUS
    <2>6. n.state = "loading" /\ n.row = c.row /\ n.draft = c.draft
      BY <2>4, <2>5
    <2>7. n \in Submission
      BY <2>5, <1>4 DEF Submission
    <2>8. /\ rest \in [Slots -> Submission]
          /\ \A r \in Slots : r # s => rest[r] = saves[r]
          /\ rest[s] = (IF form.reloads THEN n ELSE Idle)
      BY <1>3, <1>8, <2>5, <2>7, NoCallFacts DEF FormTypeOK
    <2>9. \A r \in Slots :
             /\ rest[r].state = "none" => rest[r] = Idle
             /\ Pending(rest[r]) =>
                   /\ Pending(saves[r]) /\ rest[r].row = saves[r].row
                   /\ rest[r].draft = saves[r].draft
             /\ rest[r].state = "asking" <=> saves[r].state = "asking"
             /\ rest[r].state = "loading" => form.reloads
      <3> SUFFICES ASSUME NEW r \in Slots
                   PROVE  /\ rest[r].state = "none" => rest[r] = Idle
                          /\ Pending(rest[r]) =>
                                /\ Pending(saves[r]) /\ rest[r].row = saves[r].row
                                /\ rest[r].draft = saves[r].draft
                          /\ rest[r].state = "asking" <=> saves[r].state = "asking"
                          /\ rest[r].state = "loading" => form.reloads
        OBVIOUS
      <3>1. CASE r = s
        BY <1>1, <1>3, <2>6, <2>8, <3>1, NoCallFacts DEF Pending
      <3>2. CASE r # s
        BY <1>3, <2>8, <3>2 DEF SubmissionsOK
      <3> QED BY <3>1, <3>2
    <2>10. /\ saves' \in [Slots -> Submission]
           /\ \A r \in Slots :
                 /\ saves'[r].state = rest[r].state
                 /\ saves'[r].row = rest[r].row /\ saves'[r].draft = rest[r].draft
                 /\ saves'[r].late <=> Pending(rest[r])
                 /\ rest[r].state = "none" => saves'[r] = Idle
      BY <2>1, <2>8, <2>9, LateFacts
    <2>11. \A r \in Slots :
              /\ saves'[r].state = "none" => saves'[r] = Idle
              /\ Pending(saves'[r]) =>
                    /\ saves'[r].late /\ Pending(saves[r])
                    /\ saves'[r].row = saves[r].row
                    /\ saves'[r].draft = saves[r].draft
              /\ saves'[r].state = "asking" <=> saves[r].state = "asking"
              /\ saves'[r].state = "loading" => form.reloads
      BY <2>9, <2>10 DEF Pending
    <2>12. FormTypeOK'
      <3>1. error' \in 0 .. MaxVersions
        BY <2>2, FormFacts
      <3>2. open' \in OrNull(Targets)
        BY <2>1 DEF OrNull
      <3> QED BY <1>2, <1>3, <1>5, <1>6, <1>11, <2>1, <2>10, <3>1, <3>2 DEF FormTypeOK
    <2>13. SubmissionsOK'
      BY <1>2, <1>3, <1>5, <2>1, <2>11 DEF SubmissionsOK, Pending
    <2>14. OneUnderWay'
      <3>1. ~form.tells => error' = 0
        BY <1>3, <2>2 DEF OneUnderWay
      <3>2. Quiet' => error' = 0
        BY <1>7, <2>2
      <3> QED BY <1>3, <1>11, <2>11, <3>1, <3>2 DEF OneUnderWay, Pending
    <2>15. DraftsMatch'
      <3>1. form.over = "many" /\ form.stays /\ "open" \notin form.renews => ~draft'.typed
        BY <1>3, <2>3 DEF FormOK
      <3>2. form.over = "many" /\ "closed" \notin disturbed' =>
               \A r \in Slots : Pending(saves'[r]) => saves'[r].draft.row = saves'[r].row
        BY <1>3, <1>6, <2>11 DEF DraftsMatch
      <3>3. form.filled /\ form.stays /\ "open" \notin form.renews =>
               ~draft'.typed /\ draft'.row \in Over /\ draft'.seen = fetched[draft'.row]
        BY <1>3, <1>4, <2>3 DEF FormOK
      <3> QED BY <1>2, <1>3, <1>13, <2>1, <3>1, <3>2, <3>3 DEF DraftsMatch, Pending
    <2> QED BY <1>3, <2>12, <2>13, <2>14, <2>15 DEF FormInv
  <1>14. CASE ~form.closes
    <2>1. /\ open' = open /\ error' = error /\ saves' = [saves EXCEPT ![s] = Idle]
          /\ busy' = (busy /\ ~ReachesForm(c))
          /\ form.renews = {} => draft' = draft
      BY <1>1, <1>2, <1>3, <1>8, <1>14 DEF Made, Renews, FormOK
    <2>2. /\ saves' \in [Slots -> Submission]
          /\ saves'[s] = Idle
          /\ \A r \in Slots : r # s => saves'[r] = saves[r]
      BY <1>3, <2>1, NoCallFacts DEF FormTypeOK
    <2>3. \A r \in Slots : Pending(saves'[r]) =>
              r # s /\ saves'[r] = saves[r] /\ Pending(saves[r])
      BY <2>2, NoCallFacts DEF Pending
    <2>4. Quiet' => \A r \in Slots : ~(Pending(saves'[r]) /\ ~saves'[r].late)
      BY <1>1, <1>3, <1>6, <2>3 DEF OneUnderWay, Pending
    <2>5. FormTypeOK'
      <3>1. busy' \in BOOLEAN
        BY <2>1, FormFacts
      <3> QED BY <1>2, <1>3, <1>5, <1>6, <1>11, <2>1, <2>2, <3>1 DEF FormTypeOK
    <2>6. SubmissionsOK'
      <3>1. asked' \in Slots => saves'[asked'].state = "asking"
        BY <1>3, <1>12, <2>2 DEF SubmissionsOK
      <3>2. \A r \in Slots :
               LET d == saves'[r] IN
               /\ d.state = "none" => d = Idle
               /\ Pending(d) => d.row \in Over
               /\ d.state = "asking" => asked = r
               /\ d.state = "loading" => d.late /\ form.reloads
               /\ Pending(d) /\ open = NULL => d.late
        <4> SUFFICES ASSUME NEW r \in Slots
                     PROVE  LET d == saves'[r] IN
                            /\ d.state = "none" => d = Idle
                            /\ Pending(d) => d.row \in Over
                            /\ d.state = "asking" => asked = r
                            /\ d.state = "loading" => d.late /\ form.reloads
                            /\ Pending(d) /\ open = NULL => d.late
          OBVIOUS
        <4>1. CASE r = s
          BY <2>2, <4>1, NoCallFacts DEF Pending
        <4>2. CASE r # s
          BY <1>3, <2>2, <4>2 DEF SubmissionsOK
        <4> QED BY <4>1, <4>2
      <3> QED BY <1>2, <1>3, <1>5, <2>1, <3>1, <3>2 DEF SubmissionsOK, Pending
    <2>7. OneUnderWay'
      <3>1. Quiet' => error' = 0
        BY <1>7, <2>1
      <3>2. ~form.tells => error' = 0
        BY <1>3, <2>1 DEF OneUnderWay
      <3> QED BY <1>3, <1>11, <2>4, <3>1, <3>2 DEF OneUnderWay
    <2>8. DraftsMatch'
      <3>1. form.over # "many" /\ (form.filled => ~form.stays /\ form.renews = {})
        BY <1>3, <1>14 DEF FormOK
      <3>2. form.filled => draft' = draft
        BY <2>1, <3>1
      <3>3. form.filled /\ "behind" \notin disturbed' /\ open # NULL /\ ~draft.typed =>
               draft.row = open /\ draft.seen = fetched[open]
        <4>1. form.filled /\ ~draft.typed => c.late
          BY <1>1, <1>3, <1>4, <1>14 DEF DraftsMatch, Pending
        <4>2. c.late /\ "behind" \notin disturbed' => fetched = listed
          BY <1>3, <1>6, <1>14
        <4> QED BY <1>3, <1>6, <4>1, <4>2 DEF DraftsMatch
      <3>4. form.filled =>
               \A r \in Slots : Pending(saves'[r]) /\ ~saves'[r].late => draft.typed
        BY <1>3, <1>14, <2>3 DEF DraftsMatch
      <3> QED BY <1>2, <1>3, <2>1, <3>1, <3>2, <3>3, <3>4 DEF DraftsMatch
    <2> QED BY <1>3, <2>5, <2>6, <2>7, <2>8 DEF FormInv
  <1> QED BY <1>13, <1>14

LEMMA FormSteps ==
  ASSUME FormInv, [FormNext]_formVars
  PROVE  FormInv'
  <1>1. CASE FormNext
    <2>1. CASE AskOfPage \/ Cancel
      BY <2>1, FormIsNotConfirmed
    <2>2. CASE Close \/ Type \/ AskAgain \/ Confirm
      BY <2>2, FormCloses, FormTypes, FormAsksAgain, FormIsConfirmed
    <2>3. CASE \E t \in Targets : Open(t) \/ Others(t) \/ Refresh(t)
      BY <2>3, FormOpens, FormIsChangedByOthers, FormIsRefreshed
    <2>4. CASE \E s \in Slots : Submit(s) \/ AskFirst(s) \/ AskInstead(s)
      BY <2>4, FormSubmits
    <2>5. CASE \E s \in Slots : Handle(s) \/ LoseAnswer(s)
      BY <2>5, FormIsServed
    <2>6. CASE \E s \in Slots : Conclude(s)
      BY <2>6, FormIsMade, FormFails, FormLoads DEF Conclude
    <2> QED BY <1>1, <2>1, <2>2, <2>3, <2>4, <2>5, <2>6 DEF FormNext
  <1>2. CASE UNCHANGED formVars
    <2>1. /\ form' = form /\ open' = open /\ draft' = draft /\ error' = error /\ busy' = busy
          /\ asked' = asked /\ saves' = saves /\ table' = table
          /\ listed' = listed /\ disturbed' = disturbed
      BY <1>2 DEF formVars
    <2>2. Over' = Over /\ (Quiet' <=> Quiet)
      BY <2>1 DEF Over, Quiet
    <2>3. FormTypeOK' /\ FormOK(form)'
      BY <2>1 DEF FormInv, FormTypeOK
    <2>4. SubmissionsOK'
      BY <2>1, <2>2 DEF FormInv, SubmissionsOK
    <2>5. OneUnderWay'
      BY <2>1, <2>2 DEF FormInv, OneUnderWay
    <2>6. DraftsMatch'
      BY <2>1, <2>2 DEF FormInv, DraftsMatch
    <2> QED BY <2>3, <2>4, <2>5, <2>6 DEF FormInv
  <1> QED BY <1>1, <1>2

LEMMA FormInvHolds ==
  FormSpec => []FormInv
  <1>1. FormInit => FormInv
    BY FormStarts
  <1>2. FormInv /\ [FormNext]_formVars => FormInv'
    BY FormSteps
  <1> QED BY <1>1, <1>2, PTL DEF FormSpec

(* The type invariant of a form. *)
THEOREM FormTypeCorrect ==
  FormSpec => []FormTypeOK
  <1>1. FormInv => FormTypeOK
    BY DEF FormInv
  <1> QED BY <1>1, FormInvHolds, PTL

(* Whatever is sent, or waits to be asked about, was typed for or filled   *)
(* in from the row it is sent to, for any number of rows and submissions   *)
(* under way.                                                              *)
THEOREM FormWritesItsRow ==
  FormSpec => []WritesItsRow
  <1>1. FormInv => WritesItsRow
    BY DEF FormInv, DraftsMatch, WritesItsRow, Pending
  <1> QED BY <1>1, FormInvHolds, PTL

(* A form that is open and was not typed in shows the row as the page has  *)
(* it, unless the row changed on the page behind the form.                 *)
THEOREM FormIsCurrent ==
  FormSpec => []DraftIsCurrent
  <1>1. FormInv => DraftIsCurrent
    BY DEF FormInv, DraftsMatch, DraftIsCurrent
  <1> QED BY <1>1, FormInvHolds, PTL

(* The error an open form shows is about its draft. *)
THEOREM FormErrorIsOfDraft ==
  FormSpec => []ErrorIsOfDraft
  <1>1. FormInv => ErrorIsOfDraft
    BY DEF FormInv, OneUnderWay, ErrorIsOfDraft, Quiet
  <1> QED BY <1>1, FormInvHolds, PTL

(* An open form is submitted once at a time. *)
THEOREM FormOneAtATime ==
  FormSpec => []OneAtATime
  <1>1. FormInv => OneAtATime
    BY DEF FormInv, OneUnderWay, OneAtATime, Quiet, Pending
  <1> QED BY <1>1, FormInvHolds, PTL

LEMMA TypedStays ==
  ASSUME FormInv, [FormNext]_formVars,
         open # NULL, draft.typed, \A s \in Slots : ~saves[s].late
  PROVE  \/ open' = open /\ draft'.typed
         \/ open' = NULL /\ \A s \in Slots : saves'[s].state = saves[s].state
         \/ \E s \in Slots : saves[s].state = "made" /\ saves'[s].state # "made"
         \/ listed' # listed
  <1>1. SubmissionsOK /\ FormTypeOK
    BY DEF FormInv
  <1>2. CASE open' = open /\ draft' = draft
    BY <1>2
  <1>3. CASE AskAgain
    <2>1. PICK d : d = draft
      OBVIOUS
    <2>2. d = [row |-> d.row, seen |-> d.seen, typed |-> d.typed, sure |-> d.sure,
               base |-> d.base, version |-> d.version]
      BY <2>1, <1>1 DEF FormTypeOK, Draft
    <2>3. draft' = [d EXCEPT !.sure = TRUE] /\ open' = open
      BY <1>3, <2>1 DEF AskAgain
    <2> QED BY <2>1, <2>2, <2>3
  <1>4. CASE Type
    <2>1. PICK d : d = draft
      OBVIOUS
    <2>2. d = [row |-> d.row, seen |-> d.seen, typed |-> d.typed, sure |-> d.sure,
               base |-> d.base, version |-> d.version]
      BY <2>1, <1>1 DEF FormTypeOK, Draft
    <2>3. PICK v : draft' = [d EXCEPT !.row = open, !.typed = TRUE, !.sure = FALSE, !.version = v]
      BY <1>4, <2>1 DEF Type
    <2>4. open' = open
      BY <1>4 DEF Type
    <2> QED BY <2>2, <2>3, <2>4
  <1>5. CASE Close
    <2>1. open' = NULL /\ saves' = Late(saves)
      BY <1>5 DEF Close, Closed
    <2>2. /\ saves \in [Slots -> Submission]
          /\ \A s \in Slots : saves[s].state = "none" => saves[s] = Idle
      BY <1>1 DEF FormTypeOK, SubmissionsOK
    <2> QED BY <2>1, <2>2, LateFacts
  <1>6. ASSUME NEW t \in Targets, Refresh(t)
        PROVE  listed' # listed
    <2>1. listed' = [listed EXCEPT ![t] = table[t]] /\ listed[t] # table[t]
      BY <1>6 DEF Refresh
    <2> QED BY <1>1, <2>1 DEF FormTypeOK
  <1>7. ASSUME NEW s \in Slots, Made(s)
        PROVE  saves[s].state = "made" /\ saves'[s].state # "made"
    <2>1. PICK c : c = saves[s]
      OBVIOUS
    <2>2. c \in Submission /\ c.state = "made"
      BY <1>1, <1>7, <2>1 DEF FormTypeOK, Made
    <2>3. PICK n : n = [c EXCEPT !.state = "loading"]
      OBVIOUS
    <2>4. n \in Submission
      BY <2>2, <2>3 DEF Submission
    <2>5. n.state = "loading"
      BY <2>2, <2>3, SubmissionFacts
    <2>6. PICK rest : rest = [saves EXCEPT ![s] = IF form.reloads THEN n ELSE Idle]
      OBVIOUS
    <2>7. saves' = rest \/ saves' = Late(rest)
      BY <1>7, <2>1, <2>3, <2>6 DEF Made
    <2>8. /\ rest \in [Slots -> Submission] /\ rest[s].state # "made"
          /\ \A r \in Slots : rest[r].state = "none" => rest[r] = Idle
      BY <1>1, <2>4, <2>5, <2>6, NoCallFacts DEF FormTypeOK, SubmissionsOK
    <2>9. Late(rest)[s].state = rest[s].state
      BY <2>8, LateFacts
    <2> QED BY <2>1, <2>2, <2>7, <2>8, <2>9
  <1>8. ASSUME NEW s \in Slots, Loaded(s)
        PROVE  FALSE
    BY <1>1, <1>8 DEF Loaded, SubmissionsOK
  <1>9. CASE \/ AskOfPage \/ Confirm \/ Cancel \/ UNCHANGED formVars
             \/ \E t \in Targets : Others(t)
             \/ \E s \in Slots : Submit(s) \/ AskFirst(s) \/ AskInstead(s)
    BY <1>2, <1>9 DEF AskOfPage, Confirm, Cancel, formVars, Others, Submit, AskFirst, AskInstead
  <1>10. CASE \E s \in Slots : Handle(s) \/ LoseAnswer(s) \/ Failed(s)
    BY <1>2, <1>10 DEF Handle, Save, TurnDown, LoseAnswer, Reject, Failed
  <1>11. ~\E t \in Targets : Open(t)
    BY DEF Open
  <1> QED BY <1>3, <1>4, <1>5, <1>6, <1>7, <1>8, <1>9, <1>10, <1>11 DEF FormNext, Conclude

(* What is typed leaves the form with a save, at the user's wish or with a *)
(* row that takes its place, and in no other way.                          *)
THEOREM FormTypedIsKept ==
  FormSpec => TypedIsKept
  <1>1. FormInv /\ [FormNext]_formVars =>
           [ open # NULL /\ draft.typed /\ (\A s \in Slots : ~saves[s].late) =>
                \/ open' = open /\ draft'.typed
                \/ open' = NULL /\ \A s \in Slots : saves'[s].state = saves[s].state
                \/ \E s \in Slots : saves[s].state = "made" /\ saves'[s].state # "made"
                \/ listed' # listed ]_formVars
    BY TypedStays
  <1> QED BY <1>1, FormInvHolds, PTL DEF FormSpec, TypedIsKept

-----------------------------------------------------------------------------
(* The pages.  What the pages there are have in common. *)
PageOK(p) ==
    /\ p \in Page
    /\ p.derived => p.guarded
    /\ p.nested => ~p.single
    /\ \A op \in Ops : \A how \in p.how[op] :
          /\ how \in Effects
          /\ p.guarded \/ p.moves = "remount"
          /\ how \in {"row", "whole", "replace"} => op = "set" /\ p.moves = "same"
          /\ how = "row" <=> p.derived
          /\ how = "whole" => \A o \in Ops : p.how[o] \subseteq {"whole"}
          /\ how = "replace" => p.single
          /\ how = "reload" => p.guarded
          /\ op = "add" => ~p.single /\ (how = "edit" => p.moves = "remount")

Of(f, k) == \A i \in Items : f[i] # 0 => i[1] = k

(* A request under way. *)
RequestOK(c) ==
    /\ c.kind = "none" => c = NoCall
    /\ c.kind # "none" => c.key \in Keys
    /\ c.kind = "change" =>
          /\ c.op \in Ops /\ c.item \in Items /\ c.how \in page.how[c.op]
          /\ c.op = "add" => c.item[1] = c.key
    /\ c.kind # "change" => c.how = NULL
    /\ c.kind = "fetch" => \E op \in Ops : "fetch" \in page.how[op]
    /\ c.kind \in {"load", "fetch"} /\ c.state = "accepted" => Of(c.data, c.key)

(* What a request may bring is of key k, or it is among w that it may not  *)
(* be.                                                                     *)
Filtered(c, k, w) ==
    /\ page.moves = "remount" /\ c.kind # "none" /\ c.live => c.key = k
    /\ page.guarded /\ c.kind = "load" /\ c.live => c.key = k
    /\ Strays(c, k) => "stray" \in w

RowsOK ==
    /\ ~page.derived => loaded \in {NULL, key}
    /\ page.derived => "stray" \notin past
    /\ page.moves = "remount" => Of(rows, key)
    /\ loaded # NULL /\ ~failed /\ "stray" \notin past => Of(rows, loaded)

PageInv ==
    /\ PageTypeOK /\ PageOK(page) /\ RowsOK
    /\ \A s \in Slots : RequestOK(calls[s]) /\ Filtered(calls[s], key, past)

LEMMA PageShape ==
  ASSUME NEW g \in BOOLEAN, NEW m \in {"same", "remount"}, NEW one \in BOOLEAN,
         NEW d \in BOOLEAN, NEW nest \in BOOLEAN, NEW hidden \in SUBSET Ops,
         NEW add \in SUBSET Effects, NEW set \in SUBSET Effects, NEW remove \in SUBSET Effects,
         d => g, nest => ~one,
         add # {} => ~one,
         {"row", "whole", "replace"} \cap (add \cup remove) = {},
         "edit" \in add => m = "remount",
         "replace" \in set => one,
         "whole" \in set => add \cup set \cup remove = {"whole"},
         \A how \in add \cup set \cup remove :
            /\ g \/ m = "remount"
            /\ how \in {"row", "whole", "replace"} => m = "same"
            /\ how = "row" <=> d
            /\ how = "reload" => g
  PROVE  PageOK([guarded |-> g, moves |-> m, single |-> one, derived |-> d,
                 nested |-> nest, hides |-> hidden, how |-> How(add, set, remove)])
  <1>1. PICK f : f = How(add, set, remove)
    OBVIOUS
  <1>2. /\ f \in [Ops -> SUBSET Effects]
        /\ f["add"] = add /\ f["set"] = set /\ f["remove"] = remove
    BY <1>1 DEF How, Ops
  <1>3. PICK p : p = [guarded |-> g, moves |-> m, single |-> one, derived |-> d,
                      nested |-> nest, hides |-> hidden, how |-> f]
    OBVIOUS
  <1>4. p \in Page
    BY <1>2, <1>3 DEF Page
  <1>5. /\ p.guarded = g /\ p.moves = m /\ p.single = one /\ p.derived = d /\ p.how = f
        /\ p.nested = nest
    BY <1>3
  <1>6. ASSUME NEW op \in Ops, NEW how \in f[op]
        PROVE  /\ how \in add \cup set \cup remove /\ how \in Effects
               /\ op = "add" => how \in add
               /\ op = "remove" => how \in remove
               /\ op = "set" => how \in set
               /\ op \in {"add", "set", "remove"}
    BY <1>2, <1>6 DEF Ops
  <1>7. "whole" \in set => \A o \in Ops : f[o] \subseteq {"whole"}
    BY <1>6
  <1>8. PageOK(p)
    <2> SUFFICES ASSUME NEW op \in Ops, NEW how \in f[op]
                 PROVE  /\ g \/ m = "remount"
                        /\ how \in {"row", "whole", "replace"} => op = "set" /\ m = "same"
                        /\ how = "row" <=> d
                        /\ how = "whole" => \A o \in Ops : f[o] \subseteq {"whole"}
                        /\ how = "replace" => one
                        /\ how = "reload" => g
                        /\ op = "add" => ~one /\ (how = "edit" => m = "remount")
      BY <1>4, <1>5, <1>6 DEF PageOK
    <2> QED BY <1>6, <1>7
  <1> QED BY <1>1, <1>3, <1>8

LEMMA AllPagesOK == \A p \in Pages : PageOK(p)
  <1>1. {{}, {"reload"}, {"edit"}, {"fetch"}, {"whole"}, {"row"}, {"replace"},
         {"replace", "fetch"}} \subseteq SUBSET Effects
    BY DEF Effects
  <1>2. {{}, {"set"}, {"remove"}} \subseteq SUBSET Ops
    BY DEF Ops
  <1>3. PICK none : none = How({}, {}, {})
    OBVIOUS
  <1>4. Base = [guarded |-> TRUE, moves |-> "remount", single |-> FALSE, derived |-> FALSE,
                nested |-> FALSE, hides |-> {}, how |-> none]
    BY <1>3 DEF Base
  <1>5. PageOK(ProjectsListPage)
    <2>1. PICK h : h = How({"reload"}, {"reload"}, {})
      OBVIOUS
    <2>2. ProjectsListPage = [Base EXCEPT !.moves = "same", !.hides = {"set"}, !.how = h]
      BY <2>1 DEF ProjectsListPage
    <2>3. ProjectsListPage =
             [guarded |-> TRUE, moves |-> "same", single |-> FALSE, derived |-> FALSE,
              nested |-> FALSE, hides |-> {"set"}, how |-> h]
      BY <1>4, <2>2
    <2> QED BY <1>1, <1>2, <2>1, <2>3, PageShape
  <1>6. PageOK(ProjectsMembersPage)
    <2>1. PICK h : h = How({"reload"}, {"reload"}, {"edit"})
      OBVIOUS
    <2>2. ProjectsMembersPage = [Base EXCEPT !.moves = "same", !.how = h]
      BY <2>1 DEF ProjectsMembersPage
    <2>3. ProjectsMembersPage =
             [guarded |-> TRUE, moves |-> "same", single |-> FALSE, derived |-> FALSE,
              nested |-> FALSE, hides |-> {}, how |-> h]
      BY <1>4, <2>2
    <2> QED BY <1>1, <1>2, <2>1, <2>3, PageShape
  <1>7. PageOK(ProjectsSprintsPage)
    <2>1. PICK h : h = How({"reload"}, {"reload"}, {"edit"})
      OBVIOUS
    <2>2. ProjectsSprintsPage = [Base EXCEPT !.how = h]
      BY <2>1 DEF ProjectsSprintsPage
    <2>3. ProjectsSprintsPage =
             [guarded |-> TRUE, moves |-> "remount", single |-> FALSE, derived |-> FALSE,
              nested |-> FALSE, hides |-> {}, how |-> h]
      BY <1>4, <2>2
    <2> QED BY <1>1, <1>2, <2>1, <2>3, PageShape
  <1>8. PageOK(ProjectsBacklogPage)
    <2>1. PICK h : h = How({"edit"}, {"fetch"}, {"edit"})
      OBVIOUS
    <2>2. ProjectsBacklogPage = [Base EXCEPT !.nested = TRUE, !.how = h]
      BY <2>1 DEF ProjectsBacklogPage
    <2>3. ProjectsBacklogPage =
             [guarded |-> TRUE, moves |-> "remount", single |-> FALSE, derived |-> FALSE,
              nested |-> TRUE, hides |-> {}, how |-> h]
      BY <1>4, <2>2
    <2> QED BY <1>1, <1>2, <2>1, <2>3, PageShape
  <1>9. PageOK(ProjectsBoardPage)
    <2>1. PICK h : h = How({}, {"whole"}, {})
      OBVIOUS
    <2>2. ProjectsBoardPage = [Base EXCEPT !.moves = "same", !.how = h]
      BY <2>1 DEF ProjectsBoardPage
    <2>3. ProjectsBoardPage =
             [guarded |-> TRUE, moves |-> "same", single |-> FALSE, derived |-> FALSE,
              nested |-> FALSE, hides |-> {}, how |-> h]
      BY <1>4, <2>2
    <2> QED BY <1>1, <1>2, <2>1, <2>3, PageShape
  <1>10. PageOK(ProjectDetailsLayout)
    <2>1. PICK h : h = How({}, {"replace", "fetch"}, {})
      OBVIOUS
    <2>2. ProjectDetailsLayout = [Base EXCEPT !.moves = "same", !.single = TRUE, !.how = h]
      BY <2>1 DEF ProjectDetailsLayout
    <2>3. ProjectDetailsLayout =
             [guarded |-> TRUE, moves |-> "same", single |-> TRUE, derived |-> FALSE,
              nested |-> FALSE, hides |-> {}, how |-> h]
      BY <1>4, <2>2
    <2> QED BY <1>1, <1>2, <2>1, <2>3, PageShape
  <1>11. PageOK(TasksListPage)
    <2>1. PICK h : h = How({"edit"}, {}, {})
      OBVIOUS
    <2>2. TasksListPage = [Base EXCEPT !.how = h]
      BY <2>1 DEF TasksListPage
    <2>3. TasksListPage =
             [guarded |-> TRUE, moves |-> "remount", single |-> FALSE, derived |-> FALSE,
              nested |-> FALSE, hides |-> {}, how |-> h]
      BY <1>4, <2>2
    <2> QED BY <1>1, <1>2, <2>1, <2>3, PageShape
  <1>12. PageOK(TaskDetailPage)
    <2>1. PICK h : h = How({}, {"replace"}, {})
      OBVIOUS
    <2>2. TaskDetailPage = [Base EXCEPT !.moves = "same", !.single = TRUE, !.how = h]
      BY <2>1 DEF TaskDetailPage
    <2>3. TaskDetailPage =
             [guarded |-> TRUE, moves |-> "same", single |-> TRUE, derived |-> FALSE,
              nested |-> FALSE, hides |-> {}, how |-> h]
      BY <1>4, <2>2
    <2> QED BY <1>1, <1>2, <2>1, <2>3, PageShape
  <1>13. PageOK(WorklogsSection)
    <2>1. PICK h : h = How({"edit"}, {}, {})
      OBVIOUS
    <2>2. WorklogsSection = [Base EXCEPT !.how = h]
      BY <2>1 DEF WorklogsSection
    <2>3. WorklogsSection =
             [guarded |-> TRUE, moves |-> "remount", single |-> FALSE, derived |-> FALSE,
              nested |-> FALSE, hides |-> {}, how |-> h]
      BY <1>4, <2>2
    <2> QED BY <1>1, <1>2, <2>1, <2>3, PageShape
  <1>14. PageOK(CommentsSection)
    <2>1. PICK h : h = How({"edit"}, {"edit"}, {"edit"})
      OBVIOUS
    <2>2. CommentsSection = [Base EXCEPT !.guarded = FALSE, !.how = h]
      BY <2>1 DEF CommentsSection
    <2>3. CommentsSection =
             [guarded |-> FALSE, moves |-> "remount", single |-> FALSE, derived |-> FALSE,
              nested |-> FALSE, hides |-> {}, how |-> h]
      BY <1>4, <2>2
    <2> QED BY <1>1, <1>2, <2>1, <2>3, PageShape
  <1>15. PageOK(AttachmentsSection)
    <2>1. PICK h : h = How({"fetch"}, {}, {"edit"})
      OBVIOUS
    <2>2. AttachmentsSection = [Base EXCEPT !.guarded = FALSE, !.how = h]
      BY <2>1 DEF AttachmentsSection
    <2>3. AttachmentsSection =
             [guarded |-> FALSE, moves |-> "remount", single |-> FALSE, derived |-> FALSE,
              nested |-> FALSE, hides |-> {}, how |-> h]
      BY <1>4, <2>2
    <2> QED BY <1>1, <1>2, <2>1, <2>3, PageShape
  <1>16. PageOK(BurndownModal)
    <2>1. BurndownModal = [Base EXCEPT !.guarded = FALSE, !.moves = "same", !.single = TRUE]
      BY DEF BurndownModal
    <2>2. BurndownModal =
             [guarded |-> FALSE, moves |-> "same", single |-> TRUE, derived |-> FALSE,
              nested |-> FALSE, hides |-> {}, how |-> none]
      BY <1>4, <2>1
    <2> QED BY <1>1, <1>2, <1>3, <2>2, PageShape
  <1>17. PageOK(UsersPanel)
    <2>1. PICK h : h = How({}, {"row"}, {})
      OBVIOUS
    <2>2. UsersPanel = [Base EXCEPT !.moves = "same", !.derived = TRUE, !.how = h]
      BY <2>1 DEF UsersPanel
    <2>3. UsersPanel =
             [guarded |-> TRUE, moves |-> "same", single |-> FALSE, derived |-> TRUE,
              nested |-> FALSE, hides |-> {}, how |-> h]
      BY <1>4, <2>2
    <2> QED BY <1>1, <1>2, <2>1, <2>3, PageShape
  <1>18. PageOK(TaskTypesPanel)
    <2>1. PICK h : h = How({"edit"}, {}, {"edit"})
      OBVIOUS
    <2>2. TaskTypesPanel = [Base EXCEPT !.hides = {"remove"}, !.how = h]
      BY <2>1 DEF TaskTypesPanel
    <2>3. TaskTypesPanel =
             [guarded |-> TRUE, moves |-> "remount", single |-> FALSE, derived |-> FALSE,
              nested |-> FALSE, hides |-> {"remove"}, how |-> h]
      BY <1>4, <2>2
    <2> QED BY <1>1, <1>2, <2>1, <2>3, PageShape
  <1> QED BY <1>5, <1>6, <1>7, <1>8, <1>9, <1>10, <1>11, <1>12, <1>13,
            <1>14, <1>15, <1>16, <1>17, <1>18 DEF Pages

LEMMA PageFacts ==
  ASSUME PageInv
  PROVE  /\ MaxMoves \in Nat /\ MaxChanges \in Nat
         /\ NULL \notin Keys /\ NULL \notin Ops /\ NULL \notin Effects
         /\ key \in Keys /\ rows \in Rows /\ loaded \in OrNull(Keys)
         /\ calls \in [Slots -> Call] /\ PageOK(page)
         /\ \A s \in Slots : calls[s] \in Call
  BY PageBounds, PageNull DEF PageInv, PageTypeOK

LEMMA CallFacts ==
  ASSUME NEW c \in Call
  PROVE  /\ c.kind \in {"none", "load", "fetch", "change"} /\ c.live \in BOOLEAN
         /\ c.key \in OrNull(Keys) /\ c.state \in {"sent", "accepted", "refused"}
         /\ c.data \in Rows /\ c.op \in OrNull(Ops) /\ c.how \in OrNull(Effects)
         /\ c.item \in OrNull(Items) /\ c.value \in {0} \cup Values
         /\ c = [kind |-> c.kind, key |-> c.key, live |-> c.live, state |-> c.state,
                 data |-> c.data, op |-> c.op, how |-> c.how, item |-> c.item,
                 value |-> c.value]
  BY DEF Call

(* Facts about requests that were not sent, or were only just sent.        *)
LEMMA AskFacts ==
  ASSUME NEW kind \in {"load", "fetch", "change"}, NEW k \in Keys
  PROVE  /\ NoCall \in Call /\ NoCall.kind = "none" /\ NoCall.live
         /\ NoCall.how = NULL /\ NoCall.state = "sent"
         /\ LET c == Ask(kind, k) IN
            /\ c \in Call /\ c.kind = kind /\ c.key = k /\ c.live /\ c.state = "sent"
            /\ c.how = NULL
  <1>1. PICK n : n = NoCall
    OBVIOUS
  <1>2. NoRows \in Rows
    BY DEF NoRows, Rows
  <1>3. n = [kind |-> "none", key |-> NULL, live |-> TRUE, state |-> "sent", data |-> NoRows,
             op |-> NULL, how |-> NULL, item |-> NULL, value |-> 0]
    BY <1>1 DEF NoCall
  <1>4. n \in Call
    BY <1>2, <1>3 DEF Call, OrNull
  <1>5. PICK c : c = Ask(kind, k)
    OBVIOUS
  <1>6. c = [n EXCEPT !.kind = kind, !.key = k]
    BY <1>1, <1>5 DEF Ask
  <1>7. c \in Call
    BY <1>4, <1>6 DEF Call, OrNull
  <1>8. c.kind = kind /\ c.key = k /\ c.live /\ c.state = "sent" /\ c.how = NULL
    BY <1>3, <1>6
  <1> QED BY <1>1, <1>3, <1>4, <1>5, <1>7, <1>8

LEMMA NothingStrays ==
  ASSUME NEW c, NEW k, c.how = NULL,
         c.kind = "fetch" => c.key = k,
         c.kind = "load" => page.guarded \/ c.key = k
  PROVE  ~Strays(c, k)
  <1>1. NULL \notin Effects
    BY PageNull
  <1> QED BY <1>1 DEF Strays, HasOthers, Effects

LEMMA NoCallIsOK ==
  ASSUME NEW k \in Keys, NEW w
  PROVE  RequestOK(NoCall) /\ Filtered(NoCall, k, w)
  <1>1. NoCall.kind = "none" /\ NoCall.how = NULL
    BY AskFacts
  <1>2. ~Strays(NoCall, k)
    BY <1>1, NothingStrays
  <1> QED BY <1>1, <1>2 DEF RequestOK, Filtered

LEMMA LoadIsOK ==
  ASSUME NEW k \in Keys, NEW w
  PROVE  RequestOK(Ask("load", k)) /\ Filtered(Ask("load", k), k, w)
  <1>1. PICK c : c = Ask("load", k)
    OBVIOUS
  <1>2. c.kind = "load" /\ c.key = k /\ c.state = "sent" /\ c.how = NULL
    BY <1>1, AskFacts
  <1>3. ~Strays(c, k)
    BY <1>2, NothingStrays
  <1> QED BY <1>1, <1>2, <1>3 DEF RequestOK, Filtered

(* A step after which every request is OK.                                 *)
LEMMA PageFrame ==
  ASSUME PageInv, PageTypeOK', RowsOK', page' = page,
         \A s \in Slots : RequestOK(calls'[s]) /\ Filtered(calls'[s], key', past')
  PROVE  PageInv'
  <1>1. PageOK(page)'
    BY DEF PageInv, PageOK
  <1>2. ASSUME NEW s \in Slots
        PROVE  RequestOK(calls[s])' /\ Filtered(calls[s], key, past)'
    <2>1. RequestOK(calls[s])'
      BY DEF RequestOK
    <2>2. Filtered(calls[s], key, past)'
      BY DEF Filtered, Strays, HasOthers
    <2> QED BY <2>1, <2>2
  <1> QED BY <1>1, <1>2 DEF PageInv

(* One request changes, or takes the place of one that ended.              *)
LEMMA OneRequest ==
  ASSUME PageInv, NEW s \in Slots, NEW n \in Call,
         calls' = [calls EXCEPT ![s] = n], page' = page, key' = key, past \subseteq past',
         RequestOK(n), Filtered(n, key, past')
  PROVE  /\ calls' \in [Slots -> Call]
         /\ \A r \in Slots : RequestOK(calls'[r]) /\ Filtered(calls'[r], key', past')
  <1>1. calls \in [Slots -> Call] /\ \A r \in Slots : RequestOK(calls[r]) /\ Filtered(calls[r], key, past)
    BY DEF PageInv, PageTypeOK
  <1>2. ASSUME NEW r \in Slots
        PROVE  RequestOK(calls'[r]) /\ Filtered(calls'[r], key', past')
    <2>1. CASE r = s
      BY <1>1, <2>1
    <2>2. CASE r # s
      <3>1. calls'[r] = calls[r]
        BY <1>1, <2>2
      <3>2. PICK c : c = calls[r]
        OBVIOUS
      <3>3. RequestOK(c) /\ Filtered(c, key, past)
        BY <1>1, <3>2
      <3>4. Filtered(c, key, past')
        BY <3>3 DEF Filtered
      <3> QED BY <3>1, <3>2, <3>3, <3>4
    <2> QED BY <2>1, <2>2
  <1>3. calls' \in [Slots -> Call]
    BY <1>1
  <1> QED BY <1>2, <1>3

(* A load begins among requests that are all OK: what may stray is noted.  *)
LEMMA LoadStarts ==
  ASSUME PageOK(page), NEW s \in Slots, NEW k \in Keys,
         NEW others \in [Slots -> Call], StartLoad(s, k, others),
         \A r \in Slots :
            /\ RequestOK(others[r])
            /\ page.moves = "remount" /\ others[r].kind # "none" /\ others[r].live => others[r].key = k
            /\ page.guarded /\ others[r].kind = "load" => ~others[r].live \/ others[r].key = k
  PROVE  /\ calls' \in [Slots -> Call]
         /\ \A r \in Slots : RequestOK(calls'[r]) /\ Filtered(calls'[r], k, past')
         /\ past' \in SUBSET {"crossed", "stray", "lost", "unseen"}
         /\ page.derived => "stray" \notin past'
  <1>1. /\ calls' = [others EXCEPT ![s] = Ask("load", k)]
        /\ past' \subseteq {"crossed", "stray"}
        /\ "stray" \in past' <=> \E r \in Slots \ {s} : Strays(others[r], k)
    BY DEF StartLoad
  <1>2. calls' \in [Slots -> Call]
    BY <1>1, AskFacts
  <1>3. ASSUME NEW r \in Slots
        PROVE  RequestOK(calls'[r]) /\ Filtered(calls'[r], k, past')
    <2>1. CASE r = s
      <3>1. calls'[r] = Ask("load", k)
        BY <1>1, <2>1
      <3> QED BY <3>1, LoadIsOK
    <2>2. CASE r # s
      <3>1. calls'[r] = others[r]
        BY <1>1, <2>2
      <3>2. Strays(others[r], k) => "stray" \in past'
        BY <1>1, <2>2
      <3>3. Filtered(others[r], k, past')
        BY <3>2 DEF Filtered
      <3> QED BY <3>1, <3>3
    <2> QED BY <2>1, <2>2
  <1>4. ASSUME page.derived, NEW r \in Slots
        PROVE  ~Strays(others[r], k)
    <2>1. PICK c : c = others[r]
      OBVIOUS
    <2>2. RequestOK(c) /\ c \in Call
      BY <2>1
    <2>3. page.guarded /\ \A op \in Ops : \A how \in page.how[op] : how = "row"
      BY <1>4 DEF PageOK
    <2>4. c.how \in {"row", NULL}
      BY <2>2, <2>3 DEF RequestOK
    <2>5. c.kind # "fetch"
      BY <2>2, <2>3 DEF RequestOK
    <2>6. NULL \notin {"replace", "whole", "fetch"}
      BY PageNull DEF Effects
    <2>7. ~Strays(c, k)
      BY <2>3, <2>4, <2>5, <2>6 DEF Strays, HasOthers
    <2> QED BY <2>1, <2>7
  <1> QED BY <1>1, <1>2, <1>3, <1>4

LEMMA PageStarts ==
  ASSUME PageInit
  PROVE  PageInv
  <1>1. /\ PageOK(page) /\ key \in Keys /\ rows = NoRows /\ loaded = NULL /\ failed = FALSE
        /\ moves = 0 /\ changes = 0 /\ past = {} /\ server \in Rows
    BY AllPagesOK DEF PageInit
  <1>2. PICK s \in Slots : calls = [r \in Slots |-> IF r = s THEN Ask("load", key) ELSE NoCall]
    BY DEF PageInit
  <1>3. calls \in [Slots -> Call]
    BY <1>1, <1>2, AskFacts
  <1>4. \A r \in Slots : RequestOK(calls[r]) /\ Filtered(calls[r], key, past)
    BY <1>1, <1>2, NoCallIsOK, LoadIsOK
  <1>5. rows \in Rows /\ Of(rows, key)
    BY <1>1 DEF NoRows, Rows, Of
  <1>6. server \in [Items -> OrNull({0} \cup Values)]
    BY <1>1 DEF Rows, OrNull
  <1>7. PageTypeOK
    <2>1. MaxMoves \in Nat /\ MaxChanges \in Nat
      BY PageBounds
    <2>2. page \in Page
      BY <1>1 DEF PageOK
    <2>3. loaded \in OrNull(Keys)
      BY <1>1 DEF OrNull
    <2>4. moves \in 0 .. MaxMoves /\ changes \in 0 .. MaxChanges
      BY <1>1, <2>1
    <2>5. failed \in BOOLEAN /\ past \in SUBSET {"crossed", "stray", "lost", "unseen"}
      BY <1>1
    <2> QED BY <1>1, <1>3, <1>5, <1>6, <2>2, <2>3, <2>4, <2>5 DEF PageTypeOK
  <1>8. RowsOK
    BY <1>1, <1>5 DEF RowsOK
  <1> QED BY <1>1, <1>4, <1>7, <1>8 DEF PageInv

LEMMA OnServerFacts ==
  ASSUME NEW k
  PROVE  OnServer(k) \in Rows /\ Of(OnServer(k), k)
  <1>1. \A i \in Items : OnServer(k)[i] = (IF i[1] = k /\ server[i] \in Values THEN server[i] ELSE 0)
    BY DEF OnServer
  <1> QED BY <1>1 DEF OnServer, Rows, Of

(* The server handles a request, or an answer is lost: nothing on the page *)
(* changes.                                                                *)
LEMMA PageIsServed ==
  ASSUME PageInv, NEW s \in Slots,
         Serve(s) \/ Lose(s)
  PROVE  PageInv'
  <1>1. PICK c : c = calls[s]
    OBVIOUS
  <1>2. /\ page' = page /\ key' = key /\ rows' = rows /\ loaded' = loaded
        /\ failed' = failed /\ moves' = moves /\ changes' = changes
        /\ past' \in {past, past \cup {"lost"}, past \cup {"unseen"}} /\ c.kind # "none"
    BY <1>1 DEF Serve, Accept, Refuse, Lose, Free
  <1>3. /\ PageTypeOK /\ RowsOK /\ c \in Call /\ RequestOK(c) /\ Filtered(c, key, past)
        /\ NULL \notin Effects
    BY <1>1, PageFacts DEF PageInv
  <1>4. PICK st \in {"accepted", "refused"}, data \in {c.data, OnServer(c.key)} :
           /\ calls' = [calls EXCEPT ![s].state = st, ![s].data = data]
           /\ c.kind = "change" => data = c.data
           /\ c.kind # "change" /\ st = "accepted" => data = OnServer(c.key)
    <2>1. CASE Accept(s)
      BY <1>1, <2>1 DEF Accept, Settle
    <2>2. CASE Refuse(s) \/ Lose(s)
      BY <1>1, <2>2 DEF Refuse, Lose, Settle
    <2> QED BY <2>1, <2>2 DEF Serve
  <1>5. PICK n : n = [c EXCEPT !.state = st, !.data = data]
    OBVIOUS
  <1>6. data \in Rows
    BY <1>3, OnServerFacts, CallFacts
  <1>7. n \in Call
    BY <1>3, <1>5, <1>6 DEF Call
  <1>8. /\ n.kind = c.kind /\ n.key = c.key /\ n.live = c.live /\ n.state = st /\ n.data = data
        /\ n.op = c.op /\ n.how = c.how /\ n.item = c.item
    BY <1>3, <1>5, CallFacts
  <1>9. calls' = [calls EXCEPT ![s] = n]
    BY <1>1, <1>3, <1>4, <1>5 DEF PageTypeOK
  <1>10. RequestOK(n)
    <2>1. c.kind \in {"load", "fetch"} /\ st = "accepted" => Of(n.data, n.key)
      BY <1>4, <1>8, OnServerFacts
    <2> QED BY <1>2, <1>3, <1>8, <2>1 DEF RequestOK
  <1>11. Filtered(n, key, past')
    <2>1. Strays(n, key) => Strays(c, key)
      <3>1. c.kind # "change" => c.how = NULL
        BY <1>3 DEF RequestOK
      <3>2. c.how \in {"replace", "whole", "fetch"} => n.data = c.data
        BY <1>3, <1>4, <1>8, <3>1 DEF Effects
      <3> QED BY <1>8, <3>2 DEF Strays, HasOthers
    <2> QED BY <1>2, <1>3, <1>8, <2>1 DEF Filtered
  <1>12. /\ calls' \in [Slots -> Call]
         /\ \A r \in Slots : RequestOK(calls'[r]) /\ Filtered(calls'[r], key', past')
    BY <1>2, <1>7, <1>9, <1>10, <1>11, OneRequest
  <1>13. server' \in [Items -> OrNull({0} \cup Values)]
    <2>1. CASE server' = server
      BY <1>3, <2>1 DEF PageTypeOK
    <2>2. CASE server' = Applied(c) /\ c.kind = "change"
      <3>1. c.item \in Items /\ c.value \in {0} \cup Values
        BY <1>3, <2>2, CallFacts DEF RequestOK
      <3>2. CASE c.op = "remove"
        <4>1. server' = [i \in Items |-> IF i \in Deleted(c) THEN NULL ELSE server[i]]
          BY <2>2, <3>2 DEF Applied
        <4> QED BY <1>3, <4>1 DEF PageTypeOK, OrNull
      <3>3. CASE c.op # "remove"
        <4>1. server' = [server EXCEPT ![c.item] = c.value]
          BY <2>2, <3>3 DEF Applied
        <4> QED BY <1>3, <3>1, <4>1 DEF PageTypeOK, OrNull
      <3> QED BY <3>2, <3>3
    <2> QED BY <1>1, <2>1, <2>2 DEF Serve, Accept, Refuse, Lose
  <1>14. PageTypeOK'
    BY <1>2, <1>3, <1>12, <1>13 DEF PageTypeOK
  <1>15. RowsOK'
    BY <1>2, <1>3 DEF RowsOK
  <1> QED BY <1>2, <1>12, <1>14, <1>15, PageFrame

(* The cleanup of the effect cancels a load, and nothing else.             *)
LEMMA CleanedIsOK ==
  ASSUME NEW c \in Call, RequestOK(c)
  PROVE  LET d == Cleaned(c) IN
         /\ d \in Call /\ RequestOK(d)
         /\ d.kind = c.kind /\ d.key = c.key /\ (d.live => c.live)
         /\ page.guarded /\ d.kind = "load" => ~d.live
  <1>1. CASE page.guarded /\ c.kind = "load"
    <2>1. PICK n : n = [c EXCEPT !.live = FALSE]
      OBVIOUS
    <2>2. n \in Call
      BY <2>1 DEF Call
    <2>3. /\ n.kind = "load" /\ n.key = c.key /\ ~n.live /\ n.state = c.state
          /\ n.data = c.data /\ n.how = c.how
      BY <1>1, <2>1, CallFacts
    <2>4. RequestOK(n)
      BY <1>1, <2>3 DEF RequestOK
    <2>5. Cleaned(c) = n
      BY <1>1, <2>1 DEF Cleaned
    <2> QED BY <1>1, <2>2, <2>3, <2>4, <2>5
  <1>2. CASE ~(page.guarded /\ c.kind = "load")
    <2>1. Cleaned(c) = c
      BY <1>2 DEF Cleaned
    <2> QED BY <1>2, <2>1
  <1> QED BY <1>1, <1>2

LEMMA PageMoves ==
  ASSUME PageInv, NEW s \in Slots, NEW k \in Keys,
         Navigate(s, k)
  PROVE  PageInv'
  <1>1. /\ page' = page /\ key' = k /\ server' = server /\ changes' = changes
        /\ moves < MaxMoves /\ moves' = moves + 1
    BY DEF Navigate
  <1>2. PageTypeOK /\ RowsOK /\ PageOK(page) /\ page.moves \in {"same", "remount"}
    BY DEF PageInv, PageOK, Page
  <1>3. moves' \in 0 .. MaxMoves
    BY <1>1, <1>2, PageFacts DEF PageTypeOK
  <1>4. \A r \in Slots : RequestOK(calls[r]) /\ calls[r] \in Call
    BY DEF PageInv, PageTypeOK
  <1>5. CASE page.moves = "same"
    <2>1. PICK others : others = [r \in Slots |-> Cleaned(calls[r])]
      OBVIOUS
    <2>2. /\ StartLoad(s, k, others) /\ rows' = rows
          /\ loaded' = (IF page.derived THEN loaded ELSE NULL)
          /\ failed' = (page.derived /\ failed)
      BY <1>5, <2>1 DEF Navigate
    <2>3. \A r \in Slots :
             /\ others[r] \in Call /\ RequestOK(others[r])
             /\ page.guarded /\ others[r].kind = "load" => ~others[r].live
      BY <1>4, <2>1, CleanedIsOK
    <2>4. others \in [Slots -> Call]
      BY <2>1, <2>3
    <2>5. /\ calls' \in [Slots -> Call]
          /\ \A r \in Slots : RequestOK(calls'[r]) /\ Filtered(calls'[r], k, past')
          /\ past' \in SUBSET {"crossed", "stray", "lost", "unseen"}
          /\ page.derived => "stray" \notin past'
      BY <1>2, <1>5, <2>2, <2>3, <2>4, LoadStarts
    <2>6. PageTypeOK'
      <3>1. loaded' \in OrNull(Keys) /\ failed' \in BOOLEAN
        BY <1>2, <2>2 DEF PageTypeOK, OrNull
      <3> QED BY <1>1, <1>2, <1>3, <2>2, <2>5, <3>1 DEF PageTypeOK
    <2>7. RowsOK'
      BY <1>1, <1>2, <1>5, <2>2, <2>5 DEF RowsOK
    <2> QED BY <1>1, <2>5, <2>6, <2>7, PageFrame
  <1>6. CASE page.moves = "remount"
    <2>1. PICK others : others = [r \in Slots |-> Unmounted(calls[r])]
      OBVIOUS
    <2>2. /\ StartLoad(s, k, others) /\ rows' = NoRows /\ loaded' = NULL /\ failed' = FALSE
      BY <1>6, <2>1 DEF Navigate
    <2>3. \A r \in Slots :
             /\ others[r] \in Call /\ RequestOK(others[r])
             /\ others[r].kind # "none" => others[r].kind = "change" /\ ~others[r].live
      <3> SUFFICES ASSUME NEW r \in Slots
                   PROVE  /\ others[r] \in Call /\ RequestOK(others[r])
                          /\ others[r].kind # "none" => others[r].kind = "change" /\ ~others[r].live
        OBVIOUS
      <3>1. PICK c : c = calls[r]
        OBVIOUS
      <3>2. c \in Call /\ RequestOK(c) /\ others[r] = Unmounted(c)
        BY <1>4, <2>1, <3>1
      <3>3. CASE c.kind = "change" /\ c.state = "sent"
        <4>1. PICK n : n = [c EXCEPT !.live = FALSE]
          OBVIOUS
        <4>2. n \in Call
          BY <3>2, <4>1 DEF Call
        <4>3. /\ n.kind = "change" /\ n.key = c.key /\ ~n.live /\ n.state = c.state
              /\ n.op = c.op /\ n.how = c.how /\ n.item = c.item
          BY <3>2, <3>3, <4>1, CallFacts
        <4>4. RequestOK(n)
          BY <3>2, <3>3, <4>3 DEF RequestOK
        <4>5. others[r] = n
          BY <3>2, <3>3, <4>1 DEF Unmounted
        <4> QED BY <4>2, <4>3, <4>4, <4>5
      <3>4. CASE ~(c.kind = "change" /\ c.state = "sent")
        <4>1. others[r] = NoCall
          BY <3>2, <3>4 DEF Unmounted
        <4> QED BY <4>1, NoCallIsOK, AskFacts
      <3> QED BY <3>3, <3>4
    <2>4. others \in [Slots -> Call]
      BY <2>1, <2>3
    <2>5. /\ calls' \in [Slots -> Call]
          /\ \A r \in Slots : RequestOK(calls'[r]) /\ Filtered(calls'[r], k, past')
          /\ past' \in SUBSET {"crossed", "stray", "lost", "unseen"}
          /\ page.derived => "stray" \notin past'
      BY <1>2, <2>2, <2>3, <2>4, LoadStarts
    <2>6. rows' \in Rows /\ Of(rows', k)
      BY <2>2 DEF NoRows, Rows, Of
    <2>7. PageTypeOK'
      <3>1. loaded' \in OrNull(Keys) /\ failed' \in BOOLEAN
        BY <2>2 DEF OrNull
      <3> QED BY <1>1, <1>2, <1>3, <2>5, <2>6, <3>1 DEF PageTypeOK
    <2>8. RowsOK'
      BY <1>1, <1>2, <2>2, <2>5, <2>6 DEF RowsOK
    <2> QED BY <1>1, <2>5, <2>7, <2>8, PageFrame
  <1> QED BY <1>2, <1>5, <1>6

LEMMA PageChanges ==
  ASSUME PageInv, NEW s \in Slots,
         NEW op \in Ops, NEW i \in Items, NEW v \in Values, NEW how \in Effects,
         Change(s, op, i, v, how)
  PROVE  PageInv'
  <1>1. /\ page' = page /\ key' = key /\ loaded' = loaded /\ failed' = failed
        /\ server' = server /\ moves' = moves
        /\ changes < MaxChanges /\ changes' = changes + 1 /\ how \in page.how[op]
        /\ past' \in {past, past \cup {"crossed"}}
        /\ rows' = (IF how \in Optimistic THEN [rows EXCEPT ![i] = v] ELSE rows)
    <2>1. \A w \in {w \in {"crossed"} : \E r \in Slots : Crosses(calls[r], op, i, how)} : w = "crossed"
      OBVIOUS
    <2> QED BY <2>1 DEF Change
  <1>2. /\ PageTypeOK /\ RowsOK /\ PageOK(page) /\ key \in Keys /\ rows \in Rows
        /\ NULL \notin Ops /\ NULL \notin Effects
    BY PageFacts DEF PageInv
  <1>3. /\ op = "add" => i[1] = key /\ how \notin Optimistic
        /\ op # "add" => ~Loading /\ ~failed /\ rows[i] # 0
    <2>1. how \in Optimistic => op = "set"
      BY <1>1, <1>2 DEF PageOK, Optimistic
    <2>2. Offered(op, i, v)
      BY DEF Change
    <2> QED BY <2>1, <2>2 DEF Offered, Showing, Ops
  <1>4. PICK data \in {rows, NoRows} :
           /\ how \in Optimistic => data = rows
           /\ calls' = [calls EXCEPT ![s] =
                          [Ask("change", key) EXCEPT
                              !.op = op, !.how = how, !.item = i, !.value = v, !.data = data]]
    BY DEF Change, Kept
  <1>5. PICK a : a = Ask("change", key)
    OBVIOUS
  <1>6. PICK n : n = [a EXCEPT !.op = op, !.how = how, !.item = i, !.value = v, !.data = data]
    OBVIOUS
  <1>7. a \in Call /\ a.kind = "change" /\ a.key = key /\ a.live
    BY <1>2, <1>5, AskFacts
  <1>8. data \in Rows
    BY <1>2 DEF NoRows, Rows
  <1>9. n \in Call
    BY <1>6, <1>7, <1>8 DEF Call, OrNull
  <1>10. /\ n.kind = "change" /\ n.key = key /\ n.op = op /\ n.how = how /\ n.item = i
         /\ n.data = data
    BY <1>6, <1>7, CallFacts
  <1>11. RequestOK(n)
    BY <1>1, <1>2, <1>3, <1>10 DEF RequestOK
  <1>12. "stray" \notin past /\ op # "add" => Of(rows, key)
    <2>1. op # "add" => loaded = key
      BY <1>3 DEF Loading
    <2> QED BY <1>2, <1>3, <2>1, PageFacts DEF RowsOK
  <1>13. Filtered(n, key, past')
    <2>1. ASSUME HasOthers(n, key)
          PROVE  "stray" \in past
      <3>1. CASE op = "add"
        <4>1. how \notin {"whole"} /\ n.item[1] = key
          BY <1>3, <1>10, <3>1 DEF Optimistic
        <4> QED BY <1>10, <2>1, <4>1 DEF HasOthers
      <3>2. CASE op # "add"
        <4>1. how = "whole" => n.data = rows
          BY <1>4, <1>10 DEF Optimistic
        <4> QED BY <1>3, <1>10, <1>12, <2>1, <3>2, <4>1 DEF HasOthers, Of
      <3> QED BY <3>1, <3>2
    <2> QED BY <1>1, <1>10, <2>1 DEF Filtered, Strays
  <1>14. /\ calls' \in [Slots -> Call]
         /\ \A r \in Slots : RequestOK(calls'[r]) /\ Filtered(calls'[r], key', past')
    <2>1. calls' = [calls EXCEPT ![s] = n] /\ past \subseteq past'
      BY <1>1, <1>4, <1>5, <1>6
    <2> QED BY <1>1, <1>9, <1>11, <1>13, <2>1, OneRequest
  <1>15. rows' \in Rows /\ \A k : Of(rows, k) => Of(rows', k)
    <2>1. CASE how \notin Optimistic
      BY <1>1, <1>2, <2>1
    <2>2. CASE how \in Optimistic
      <3>1. rows' = [rows EXCEPT ![i] = v] /\ rows[i] # 0
        BY <1>1, <1>3, <2>2
      <3> QED BY <1>2, <3>1 DEF Rows, Of
    <2> QED BY <2>1, <2>2
  <1>16. PageTypeOK'
    <2>1. changes' \in 0 .. MaxChanges
      BY <1>1, <1>2, PageFacts DEF PageTypeOK
    <2>2. past' \in SUBSET {"crossed", "stray", "lost", "unseen"}
      BY <1>1, <1>2 DEF PageTypeOK
    <2> QED BY <1>1, <1>2, <1>14, <1>15, <2>1, <2>2 DEF PageTypeOK
  <1>17. RowsOK'
    BY <1>1, <1>2, <1>15 DEF RowsOK
  <1> QED BY <1>1, <1>14, <1>16, <1>17, PageFrame

(* An answer that ends a request; what it does to the rows is left open.   *)
LEMMA RequestEnds ==
  ASSUME PageInv, NEW s \in Slots, Done(s),
         page' = page, key' = key, server' = server, moves' = moves, changes' = changes,
         rows' \in Rows, loaded' \in OrNull(Keys), failed' \in BOOLEAN,
         past \subseteq past', past' \in SUBSET {"crossed", "stray", "lost", "unseen"}, RowsOK'
  PROVE  PageInv'
  <1>1. key \in Keys /\ NoCall \in Call
    BY AskFacts, PageFacts
  <1>2. calls' = [calls EXCEPT ![s] = NoCall]
    BY DEF Done
  <1>3. /\ calls' \in [Slots -> Call]
        /\ \A r \in Slots : RequestOK(calls'[r]) /\ Filtered(calls'[r], key', past')
    BY <1>1, <1>2, NoCallIsOK, OneRequest
  <1>4. PageTypeOK'
    BY <1>3 DEF PageInv, PageTypeOK
  <1> QED BY <1>3, <1>4, PageFrame

LEMMA PageIgnores ==
  ASSUME PageInv, NEW s \in Slots, Ignored(s)
  PROVE  PageInv'
  <1>1. /\ Done(s) /\ page' = page /\ key' = key /\ rows' = rows /\ loaded' = loaded
        /\ failed' = failed /\ server' = server /\ moves' = moves /\ changes' = changes
        /\ past' = past
    BY DEF Ignored
  <1>2. PageTypeOK /\ RowsOK
    BY DEF PageInv
  <1>3. /\ rows' \in Rows /\ loaded' \in OrNull(Keys) /\ failed' \in BOOLEAN
        /\ past \subseteq past' /\ past' \in SUBSET {"crossed", "stray", "lost", "unseen"}
    BY <1>1, <1>2 DEF PageTypeOK
  <1>4. RowsOK'
    BY <1>1, <1>2 DEF RowsOK
  <1> QED BY <1>1, <1>3, <1>4, RequestEnds

LEMMA PageIsLoaded ==
  ASSUME PageInv, NEW s \in Slots, LoadAnswered(s)
  PROVE  PageInv'
  <1>1. PICK c : c = calls[s]
    OBVIOUS
  <1>2. PICK ok \in BOOLEAN : ok <=> c.state = "accepted"
    OBVIOUS
  <1>3. /\ c.kind = "load" /\ c.live /\ Done(s)
        /\ page' = page /\ key' = key /\ server' = server /\ moves' = moves /\ changes' = changes
        /\ rows' = (IF ok THEN c.data ELSE rows)
        /\ failed' = (IF ok THEN failed /\ ~page.derived ELSE page.guarded)
        /\ loaded' = (IF page.derived THEN c.key ELSE key)
        /\ past' = (IF ok \/ page.guarded THEN past ELSE past \cup Missed)
    BY <1>1, <1>2 DEF LoadAnswered, Reaches, Settles
  <1>4. /\ PageTypeOK /\ RowsOK /\ PageOK(page) /\ key \in Keys /\ rows \in Rows
        /\ c \in Call /\ RequestOK(c) /\ Filtered(c, key, past)
    BY <1>1, PageFacts DEF PageInv
  <1>5. c.data \in Rows /\ c.key \in Keys /\ (ok => Of(c.data, c.key))
    BY <1>2, <1>3, <1>4, CallFacts DEF RequestOK
  <1>6. /\ rows' \in Rows /\ loaded' \in OrNull(Keys) /\ failed' \in BOOLEAN
        /\ past \subseteq past' /\ past' \in SUBSET {"crossed", "stray", "lost", "unseen"}
    <2>1. loaded' \in OrNull(Keys) /\ rows' \in Rows
      BY <1>3, <1>4, <1>5 DEF OrNull
    <2>2. failed' \in BOOLEAN
      <3>1. failed \in BOOLEAN /\ page.guarded \in BOOLEAN
        BY <1>4 DEF PageTypeOK, Page
      <3> QED BY <1>3, <3>1
    <2>3. Missed \subseteq {"lost", "stray"}
      BY DEF Missed
    <2> QED BY <1>3, <1>4, <2>1, <2>2, <2>3 DEF PageTypeOK
  <1>7. page.derived => page.guarded /\ c.key = key
    BY <1>3, <1>4 DEF PageOK, Filtered
  <1>8. page.moves = "remount" => c.key = key
    BY <1>3, <1>4 DEF Filtered
  <1>9. ASSUME "stray" \notin past'
        PROVE  failed' \/ Of(rows', key)
    <2>1. CASE ok
      <3>1. c.key = key
        <4>1. CASE page.guarded
          BY <1>3, <1>4, <4>1 DEF Filtered
        <4>2. CASE ~page.guarded
          <5>1. ~Strays(c, key)
            BY <1>3, <1>4, <1>6, <1>9 DEF Filtered
          <5> QED BY <1>3, <4>2, <5>1 DEF Strays
        <4> QED BY <4>1, <4>2
      <3> QED BY <1>3, <1>5, <2>1, <3>1
    <2>2. CASE ~ok /\ page.guarded
      BY <1>3, <2>2
    <2>3. CASE ~ok /\ ~page.guarded
      <3>1. "stray" \notin Missed
        BY <1>3, <1>9, <2>3
      <3>2. ~\E i \in Items : rows[i] # 0 /\ i[1] # key
        BY <3>1 DEF Missed
      <3> QED BY <1>3, <2>3, <3>2 DEF Of
    <2> QED BY <2>1, <2>2, <2>3
  <1>10. RowsOK'
    <2>1. loaded' = key
      BY <1>3, <1>7
    <2>2. page.moves = "remount" => Of(rows', key)
      BY <1>3, <1>4, <1>5, <1>8 DEF RowsOK
    <2>3. page.derived => "stray" \notin past'
      BY <1>3, <1>4, <1>7 DEF RowsOK
    <2> QED BY <1>3, <1>9, <2>1, <2>2, <2>3 DEF RowsOK
  <1> QED BY <1>3, <1>6, <1>10, RequestEnds

LEMMA PageIsFetched ==
  ASSUME PageInv, NEW s \in Slots, FetchAnswered(s)
  PROVE  PageInv'
  <1>1. PICK c : c = calls[s]
    OBVIOUS
  <1>2. PICK ok \in BOOLEAN : ok <=> c.state = "accepted"
    OBVIOUS
  <1>3. /\ c.kind = "fetch" /\ c.live /\ Done(s)
        /\ page' = page /\ key' = key /\ server' = server /\ moves' = moves /\ changes' = changes
        /\ rows' = (IF ok THEN c.data ELSE rows)
        /\ failed' = failed \/ failed' = ~ok
        /\ loaded' = (IF page.guarded THEN loaded ELSE key)
        /\ past' = (IF ok THEN past ELSE past \cup {"lost"})
    BY <1>1, <1>2 DEF FetchAnswered, Reaches
  <1>4. /\ PageTypeOK /\ RowsOK /\ PageOK(page) /\ key \in Keys /\ rows \in Rows
        /\ c \in Call /\ RequestOK(c) /\ Filtered(c, key, past) /\ page.moves \in {"same", "remount"}
    BY <1>1, PageFacts DEF PageInv, PageOK, Page
  <1>5. c.data \in Rows /\ c.key \in Keys /\ (ok => Of(c.data, c.key))
    BY <1>2, <1>3, <1>4, CallFacts DEF RequestOK
  <1>6. /\ rows' \in Rows /\ loaded' \in OrNull(Keys) /\ failed' \in BOOLEAN
        /\ past \subseteq past' /\ past' \in SUBSET {"crossed", "stray", "lost", "unseen"}
    BY <1>3, <1>4, <1>5 DEF OrNull, PageTypeOK
  <1>7. ~page.derived
    BY <1>3, <1>4 DEF RequestOK, PageOK
  <1>8. ~page.guarded => page.moves = "remount"
    BY <1>3, <1>4 DEF RequestOK, PageOK
  <1>9. page.moves = "remount" => c.key = key
    BY <1>3, <1>4 DEF Filtered
  <1>10. "stray" \notin past => c.key = key
    <2>1. "stray" \notin past => ~Strays(c, key)
      BY <1>4 DEF Filtered
    <2> QED BY <1>3, <2>1 DEF Strays
  <1>11. RowsOK'
    <2>1. loaded' \in {NULL, key}
      BY <1>3, <1>4, <1>7 DEF RowsOK
    <2>2. page.moves = "remount" => Of(rows', key)
      BY <1>3, <1>4, <1>5, <1>9 DEF RowsOK
    <2>3. "stray" \notin past' => "stray" \notin past
      BY <1>6
    <2>4. ASSUME loaded' = key, ~failed', "stray" \notin past'
          PROVE  Of(rows', key)
      <3>1. CASE ok
        BY <1>3, <1>5, <1>10, <2>3, <2>4, <3>1
      <3>2. CASE ~ok /\ page.guarded
        BY <1>3, <1>4, <2>3, <2>4, <3>2, PageFacts DEF RowsOK
      <3>3. CASE ~ok /\ ~page.guarded
        BY <1>8, <2>2, <3>3
      <3> QED BY <3>1, <3>2, <3>3
    <2> QED BY <1>3, <1>7, <2>1, <2>2, <2>4 DEF RowsOK
  <1> QED BY <1>3, <1>6, <1>11, RequestEnds

LEMMA PageIsReverted ==
  ASSUME PageInv, NEW s \in Slots, ChangeFailed(s)
  PROVE  PageInv'
  <1>1. PICK c : c = calls[s]
    OBVIOUS
  <1>2. /\ c.kind = "change" /\ c.live /\ Done(s)
        /\ page' = page /\ key' = key /\ server' = server /\ moves' = moves /\ changes' = changes
        /\ rows' = Reverted(c) /\ loaded' = loaded /\ past' = past
        /\ failed' = (failed \/ c.op \in page.hides)
    BY <1>1 DEF ChangeFailed, Reaches
  <1>3. /\ PageTypeOK /\ RowsOK /\ PageOK(page) /\ key \in Keys /\ rows \in Rows
        /\ c \in Call /\ RequestOK(c) /\ Filtered(c, key, past)
    BY <1>1, PageFacts DEF PageInv
  <1>4. c.data \in Rows /\ c.op \in Ops /\ c.item \in Items /\ c.how \in page.how[c.op]
    BY <1>2, <1>3, CallFacts DEF RequestOK
  <1>5. \/ c.how = "whole" /\ rows' = c.data /\ ~page.derived /\ page.moves = "same"
        \/ rows' \in Rows /\ \A k : Of(rows, k) => Of(rows', k)
    <2>1. CASE c.how = "whole"
      BY <1>2, <1>3, <1>4, <2>1 DEF Reverted, PageOK
    <2>2. CASE c.how = "row"
      <3>1. rows' = [rows EXCEPT ![c.item] = IF @ = 0 THEN 0 ELSE c.data[c.item]]
        BY <1>2, <2>2 DEF Reverted
      <3>2. c.data[c.item] \in {0} \cup Values
        BY <1>4 DEF Rows
      <3> QED BY <1>3, <1>4, <3>1, <3>2 DEF Rows, Of
    <2>3. CASE c.how # "row" /\ c.how # "whole"
      BY <1>2, <1>3, <2>3 DEF Reverted
    <2> QED BY <2>1, <2>2, <2>3
  <1>6. c.how = "whole" /\ "stray" \notin past => Of(c.data, key)
    <2>1. "stray" \notin past => ~Strays(c, key)
      BY <1>3 DEF Filtered
    <2> QED BY <1>2, <2>1 DEF Strays, HasOthers, Of
  <1>7. /\ rows' \in Rows /\ loaded' \in OrNull(Keys) /\ failed' \in BOOLEAN
        /\ past \subseteq past' /\ past' \in SUBSET {"crossed", "stray", "lost", "unseen"}
    BY <1>2, <1>3, <1>4, <1>5 DEF PageTypeOK
  <1>8. RowsOK'
    BY <1>2, <1>3, <1>5, <1>6, PageFacts DEF RowsOK
  <1> QED BY <1>2, <1>7, <1>8, RequestEnds

(* A row is appended, replaced or taken out.                               *)
LEMMA EditedFacts ==
  ASSUME NEW c, rows \in Rows, c.op \in Ops, c.item \in Items, c.value \in {0} \cup Values
  PROVE  /\ Edited(c) \in Rows
         /\ c.op # "add" => \A j \in Items : rows[j] = 0 => Edited(c)[j] = 0
         /\ c.op # "remove" => \A j \in Items : j # c.item => Edited(c)[j] = rows[j]
         /\ c.op = "add" => Edited(c)[c.item] = c.value
         /\ c.op = "set" => Edited(c)[c.item] = IF rows[c.item] = 0 THEN 0 ELSE c.value
         /\ c.op = "remove" =>
               \A j \in Items : Edited(c)[j] = IF j \in Removed(c) THEN 0 ELSE rows[j]
  <1>1. c.op \in {"add", "set", "remove"}
    BY DEF Ops
  <1>2. CASE c.op = "add"
    <2>1. Edited(c) = [rows EXCEPT ![c.item] = c.value]
      BY <1>2 DEF Edited
    <2> QED BY <1>2, <2>1 DEF Rows
  <1>3. CASE c.op = "set"
    <2>1. Edited(c) = [rows EXCEPT ![c.item] = IF @ = 0 THEN 0 ELSE c.value]
      BY <1>3 DEF Edited
    <2> QED BY <1>3, <2>1 DEF Rows
  <1>4. CASE c.op = "remove"
    <2>1. Edited(c) = [j \in Items |-> IF j \in Removed(c) THEN 0 ELSE rows[j]]
      BY <1>4 DEF Edited
    <2> QED BY <1>4, <2>1 DEF Rows
  <1> QED BY <1>1, <1>2, <1>3, <1>4

LEMMA PageIsChanged ==
  ASSUME PageInv, NEW s \in Slots, ChangeMade(s)
  PROVE  PageInv'
  <1>1. PICK c : c = calls[s]
    OBVIOUS
  <1>2. /\ c.kind = "change" /\ c.state = "accepted" /\ c.live
        /\ page' = page /\ key' = key /\ server' = server /\ moves' = moves /\ changes' = changes
    BY <1>1 DEF ChangeMade, Reaches
  <1>3. /\ PageTypeOK /\ RowsOK /\ PageOK(page) /\ key \in Keys /\ rows \in Rows
        /\ c \in Call /\ RequestOK(c) /\ Filtered(c, key, past)
        /\ page.moves \in {"same", "remount"}
    BY <1>1, PageFacts DEF PageInv, PageOK, Page
  <1>4. /\ c.op \in Ops /\ c.item \in Items /\ c.how \in page.how[c.op] /\ c.how \in Effects
        /\ c.key \in Keys /\ c.value \in {0} \cup Values
    BY <1>2, <1>3, CallFacts DEF RequestOK, PageOK
  <1>5. CASE c.how = "reload"
    <2>1. PICK others : others = [r \in Slots |-> Cleaned(calls[r])]
      OBVIOUS
    <2>2. /\ StartLoad(s, key, others) /\ rows' = rows /\ loaded' = NULL /\ failed' = FALSE
      BY <1>1, <1>5, <2>1 DEF ChangeMade
    <2>3. \A r \in Slots :
             /\ others[r] \in Call /\ RequestOK(others[r])
             /\ page.guarded /\ others[r].kind = "load" => ~others[r].live
             /\ page.moves = "remount" /\ others[r].kind # "none" /\ others[r].live => others[r].key = key
      <3>1. \A r \in Slots : calls[r] \in Call /\ RequestOK(calls[r]) /\ Filtered(calls[r], key, past)
        BY DEF PageInv, PageTypeOK
      <3>2. \A r \in Slots : others[r] = Cleaned(calls[r])
        BY <2>1
      <3>3. \A r \in Slots :
               page.moves = "remount" /\ calls[r].kind # "none" /\ calls[r].live => calls[r].key = key
        BY <3>1 DEF Filtered
      <3>4. \A r \in Slots :
               LET d == Cleaned(calls[r]) IN
               /\ d \in Call /\ RequestOK(d)
               /\ d.kind = calls[r].kind /\ d.key = calls[r].key /\ (d.live => calls[r].live)
               /\ page.guarded /\ d.kind = "load" => ~d.live
        BY <3>1, CleanedIsOK
      <3> QED BY <3>2, <3>3, <3>4
    <2>4. others \in [Slots -> Call]
      BY <2>1, <2>3
    <2>5. /\ calls' \in [Slots -> Call]
          /\ \A r \in Slots : RequestOK(calls'[r]) /\ Filtered(calls'[r], key, past')
          /\ past' \in SUBSET {"crossed", "stray", "lost", "unseen"}
          /\ page.derived => "stray" \notin past'
      BY <1>3, <2>2, <2>3, <2>4, LoadStarts
    <2>6. PageTypeOK'
      <3>1. loaded' \in OrNull(Keys) /\ failed' \in BOOLEAN
        BY <2>2 DEF OrNull
      <3> QED BY <1>2, <1>3, <2>2, <2>5, <3>1 DEF PageTypeOK
    <2>7. RowsOK'
      BY <1>2, <1>3, <2>2, <2>5 DEF RowsOK
    <2> QED BY <1>2, <2>5, <2>6, <2>7, PageFrame
  <1>6. CASE c.how = "fetch"
    <2>1. PICK n : n = Ask("fetch", c.key)
      OBVIOUS
    <2>2. /\ n \in Call /\ n.kind = "fetch" /\ n.key = c.key /\ n.live /\ n.state = "sent"
          /\ n.how = NULL
      BY <1>4, <2>1, AskFacts
    <2>3. /\ calls' = [calls EXCEPT ![s] = n]
          /\ rows' = rows /\ loaded' = loaded /\ failed' = failed
          /\ past' \in {past, past \cup {"crossed"}}
      <3>1. \A w \in {w \in {"crossed"} : \E r \in Slots \ {s} : Disturbs(calls[r])} : w = "crossed"
        OBVIOUS
      <3> QED BY <1>1, <1>6, <2>1, <3>1 DEF ChangeMade
    <2>4. RequestOK(n)
      BY <1>4, <1>6, <2>2 DEF RequestOK
    <2>5. Filtered(n, key, past')
      <3>1. Strays(n, key) => Strays(c, key)
        <4>1. NULL \notin {"replace", "whole"}
          BY PageNull DEF Effects
        <4> QED BY <1>2, <1>6, <2>2, <4>1 DEF Strays, HasOthers
      <3>2. page.moves = "remount" => c.key = key
        BY <1>2, <1>3 DEF Filtered
      <3> QED BY <1>3, <2>2, <2>3, <3>1, <3>2 DEF Filtered
    <2>6. /\ calls' \in [Slots -> Call]
          /\ \A r \in Slots : RequestOK(calls'[r]) /\ Filtered(calls'[r], key', past')
      BY <1>2, <2>2, <2>3, <2>4, <2>5, OneRequest
    <2>7. PageTypeOK'
      BY <1>2, <1>3, <2>3, <2>6 DEF PageTypeOK
    <2>8. RowsOK'
      BY <1>2, <1>3, <2>3 DEF RowsOK
    <2> QED BY <1>2, <2>6, <2>7, <2>8, PageFrame
  <1>7. CASE c.how \notin {"reload", "fetch"}
    <2>1. Done(s) /\ loaded' = loaded /\ failed' = failed /\ past' = past
      BY <1>1, <1>4, <1>7 DEF ChangeMade, Effects
    <2>2. rows' \in Rows
      <3>1. CASE c.how = "whole"
        BY <1>1, <1>3, <3>1 DEF ChangeMade
      <3>2. CASE c.how = "replace"
        <4>1. rows' = [NoRows EXCEPT ![c.item] = c.value]
          BY <1>1, <3>2 DEF ChangeMade
        <4> QED BY <1>4, <4>1 DEF NoRows, Rows
      <3>3. CASE c.how \in {"edit", "row"}
        <4>1. rows' = Edited(c)
          BY <1>1, <3>3 DEF ChangeMade
        <4> QED BY <1>3, <1>4, <4>1, EditedFacts
      <3> QED BY <1>4, <1>7, <3>1, <3>2, <3>3 DEF Effects
    <2>3. ASSUME NEW k, Of(rows, k), page.moves = "remount" => k = key
          PROVE  \/ Of(rows', k)
                 \/ c.how = "replace"
      <3>1. CASE c.how = "whole"
        <4>1. rows' = rows
          BY <1>1, <3>1 DEF ChangeMade
        <4> QED BY <2>3, <4>1
      <3>2. CASE c.how \in {"edit", "row"} /\ c.op # "add"
        <4>1. rows' = Edited(c)
          BY <1>1, <3>2 DEF ChangeMade
        <4>2. \A j \in Items : rows[j] = 0 => rows'[j] = 0
          BY <1>3, <1>4, <3>2, <4>1, EditedFacts
        <4> QED BY <2>3, <4>2 DEF Of
      <3>3. CASE c.how \in {"edit", "row"} /\ c.op = "add"
        <4>1. page.moves = "remount"
          BY <1>3, <1>4, <3>3 DEF PageOK, Optimistic
        <4>2. c.item[1] = key
          BY <1>2, <1>3, <3>3, <4>1 DEF Filtered, RequestOK
        <4>3. rows' = [rows EXCEPT ![c.item] = c.value]
          BY <1>1, <3>3 DEF ChangeMade, Edited
        <4> QED BY <1>3, <1>4, <2>3, <4>1, <4>2, <4>3 DEF Rows, Of
      <3> QED BY <1>4, <1>7, <3>1, <3>2, <3>3 DEF Effects
    <2>4. ASSUME c.how = "replace"
          PROVE  page.moves = "same" /\ ~page.derived /\ ("stray" \notin past => Of(rows', key))
      <3>1. page.moves = "same" /\ ~page.derived
        BY <1>3, <1>4, <2>4 DEF PageOK
      <3>2. "stray" \notin past => ~Strays(c, key)
        BY <1>3 DEF Filtered
      <3>3. "stray" \notin past => c.item[1] = key
        BY <1>2, <2>4, <3>2 DEF Strays, HasOthers
      <3>4. rows' = [NoRows EXCEPT ![c.item] = c.value]
        BY <1>1, <2>4 DEF ChangeMade
      <3> QED BY <1>4, <3>1, <3>3, <3>4 DEF NoRows, Of
    <2>5. RowsOK'
      <3>1. page.moves = "remount" => Of(rows', key)
        BY <1>3, <2>3, <2>4 DEF RowsOK
      <3>2. ASSUME loaded # NULL, ~failed, "stray" \notin past
            PROVE  Of(rows', loaded)
        <4>1. CASE c.how = "replace"
          BY <1>3, <2>4, <3>2, <4>1 DEF RowsOK
        <4>2. CASE c.how # "replace"
          <5>1. page.moves = "remount" => loaded = key
            <6>1. page.derived => page.moves = "same"
              BY <1>3, <1>4, <1>7 DEF PageOK
            <6> QED BY <1>3, <3>2, <6>1 DEF RowsOK
          <5> QED BY <1>3, <2>3, <3>2, <4>2, <5>1 DEF RowsOK
        <4> QED BY <4>1, <4>2
      <3> QED BY <1>2, <1>3, <2>1, <3>1, <3>2 DEF RowsOK
    <2>6. /\ loaded' \in OrNull(Keys) /\ failed' \in BOOLEAN
          /\ past \subseteq past' /\ past' \in SUBSET {"crossed", "stray", "lost", "unseen"}
      BY <1>3, <2>1 DEF PageTypeOK
    <2> QED BY <1>2, <2>1, <2>2, <2>5, <2>6, RequestEnds
  <1> QED BY <1>5, <1>6, <1>7

LEMMA PageSteps ==
  ASSUME PageInv, [PageNext]_pageVars
  PROVE  PageInv'
  <1>1. CASE PageNext
    <2>1. PICK s \in Slots :
             \/ Serve(s) \/ Lose(s) \/ Answer(s)
             \/ \E k \in Keys : Navigate(s, k)
             \/ \E op \in Ops, i \in Items, v \in Values, how \in Effects :
                   Change(s, op, i, v, how)
      BY <1>1 DEF PageNext
    <2>2. CASE Serve(s) \/ Lose(s)
      BY <2>2, PageIsServed
    <2>3. CASE Answer(s)
      BY <2>3, PageIgnores, PageIsLoaded, PageIsFetched, PageIsChanged, PageIsReverted DEF Answer
    <2>4. CASE \E k \in Keys : Navigate(s, k)
      BY <2>4, PageMoves
    <2>5. CASE \E op \in Ops, i \in Items, v \in Values, how \in Effects :
                  Change(s, op, i, v, how)
      BY <2>5, PageChanges
    <2> QED BY <2>1, <2>2, <2>3, <2>4, <2>5
  <1>2. CASE UNCHANGED pageVars
    <2>1. /\ page' = page /\ key' = key /\ rows' = rows /\ loaded' = loaded
          /\ failed' = failed /\ server' = server /\ calls' = calls /\ moves' = moves
          /\ changes' = changes /\ past' = past
      BY <1>2 DEF pageVars
    <2>2. PageTypeOK'
      BY <2>1 DEF PageInv, PageTypeOK
    <2>3. RowsOK'
      BY <2>1 DEF PageInv, RowsOK
    <2>4. \A s \in Slots : RequestOK(calls'[s]) /\ Filtered(calls'[s], key', past')
      BY <2>1 DEF PageInv
    <2> QED BY <2>1, <2>2, <2>3, <2>4, PageFrame
  <1> QED BY <1>1, <1>2

LEMMA PageInvHolds ==
  PageSpec => []PageInv
  <1>1. PageInit => PageInv
    BY PageStarts
  <1>2. PageInv /\ [PageNext]_pageVars => PageInv'
    BY PageSteps
  <1> QED BY <1>1, <1>2, PTL DEF PageSpec

(* The type invariant of a page. *)
THEOREM PageTypeCorrect ==
  PageSpec => []PageTypeOK
  <1>1. PageInv => PageTypeOK
    BY DEF PageInv
  <1> QED BY <1>1, PageInvHolds, PTL

(* The rows shown belong to what the page is asked about, for any number   *)
(* of keys, navigations, changes and requests under way, unless an answer  *)
(* came that the code does not filter by key.                              *)
THEOREM PageShowsItsKey ==
  PageSpec => []ShowsItsKey
  <1>1. PageInv => ShowsItsKey
    <2>1. SUFFICES ASSUME PageInv, Showing, "stray" \notin past
                   PROVE  \A i \in Items : rows[i] # 0 => i[1] = key
      BY DEF ShowsItsKey
    <2>2. loaded = key /\ ~failed /\ key \in Keys /\ NULL \notin Keys
      BY <2>1, PageFacts DEF Showing, Loading
    <2> QED BY <2>1, <2>2 DEF PageInv, RowsOK, Of
  <1> QED BY <1>1, PageInvHolds, PTL

-----------------------------------------------------------------------------
(* A page at rest.  What is under way may replace all rows, alter one of   *)
(* them, or be about to have them loaded.                                  *)
Overwrites(c) == c.live /\ c.kind \in {"load", "fetch"}

Alters(c) == c.live /\ c.kind = "change" /\ c.how # "reload"

Renewing(c) == c.live /\ c.kind = "change" /\ c.how = "reload" /\ c.state = "accepted"

(* The rows change c may reach.                                            *)
Touched(c) == Reach(c.op, c.item)

(* Whatever was disturbed: the page without a guard that is asked about    *)
(* something else changes nothing, so that what it loads does not age.     *)
Sensible(c) ==
    /\ c.kind = "change" => c.value \in Values
    /\ ~page.guarded /\ page.moves = "same" /\ c.kind = "load" /\ c.state = "accepted" =>
          c.data = OnServer(c.key)

Singular == page.single => \A k \in Keys : server[<<k, 2>>] = 0

(* As long as nothing was disturbed, what alters rows of key k alters      *)
(* different rows, and nothing replaces them meanwhile.                    *)
Apart(cs, k) ==
    \A s \in Slots :
       /\ cs[s].kind = "change" /\ cs[s].state = "sent" => cs[s].live
       /\ Alters(cs[s]) =>
             /\ cs[s].item[1] = k
             /\ \A r \in Slots :
                   /\ ~Overwrites(cs[r])
                   /\ r # s /\ Alters(cs[r]) =>
                         Touched(cs[r]) \cap Touched(cs[s]) = {} /\ cs[r].how # "whole"

(* What replaces the rows brings those of the server, g, or they are       *)
(* loaded once more.                                                       *)
Brought(cs, g) ==
    (\A s \in Slots : ~Renewing(cs[s])) =>
       \A s \in Slots : Overwrites(cs[s]) /\ cs[s].state = "accepted" => cs[s].data = g

(* How change c has the rows it may reach, shown as in f: by now the       *)
(* server has them as in g.                                                *)
Tracks(c, f, g) ==
    /\ c.state = "accepted" =>
          IF c.op = "remove"
          THEN \A j \in Touched(c) : g[j] = IF j \in Removed(c) THEN 0 ELSE f[j]
          ELSE g[c.item] = c.value
    /\ c.how \notin Optimistic /\ c.state # "accepted" => \A j \in Touched(c) : f[j] = g[j]
    /\ page.nested /\ c.op = "remove" => \A j \in Touched(c) : c.data[j] = f[j]
    /\ c.how = "edit" /\ c.op = "set" => f[c.item] # 0
    /\ c.how \in Optimistic =>
          /\ f[c.item] = c.value
          /\ c.state # "accepted" => c.data[c.item] = g[c.item]
    /\ c.how = "whole" => \A j \in Items : j # c.item => c.data[j] = f[j]

(* Every row is the server's, or there is a change that has it.            *)
Follow(cs, f, g) ==
    /\ \A i \in Items : f[i] = g[i] \/ \E s \in Slots : Alters(cs[s]) /\ i \in Touched(cs[s])
    /\ \A s \in Slots : Alters(cs[s]) => Tracks(cs[s], f, g)

Settled ==
    /\ loaded = key /\ ~failed
    /\ \A s \in Slots : ~Overwrites(calls[s]) /\ ~Renewing(calls[s])

ShowInv ==
    /\ Singular /\ \A s \in Slots : Sensible(calls[s])
    /\ past = {} => /\ Apart(calls, key)
                    /\ Brought(calls, OnServer(key))
                    /\ Settled => Follow(calls, rows, OnServer(key))

LEMMA SameServer ==
  ASSUME server' = server
  PROVE  \A k : OnServer(k)' = OnServer(k)
  BY DEF OnServer

LEMMA TouchedFacts ==
  ASSUME NEW c, c.item \in Items
  PROVE  /\ c.item \in Touched(c) /\ Touched(c) \subseteq Items
         /\ \A j \in Touched(c) : j[1] = c.item[1]
         /\ c.op # "remove" => Touched(c) = {c.item}
         /\ \A j \in Touched(c) : j # c.item =>
               page.nested /\ c.op = "remove" /\ c.item = First(c.item) /\ j = Second(c.item)
         /\ c.op = "remove" => Removed(c) \subseteq Touched(c) /\ c.item \in Removed(c)
         /\ c.op = "remove" => Deleted(c) \subseteq Touched(c) /\ c.item \in Deleted(c)
  <1>1. /\ c.item \in Touched(c) /\ Touched(c) \subseteq Items
        /\ c.op # "remove" => Touched(c) = {c.item}
        /\ \A j \in Touched(c) : j # c.item =>
              page.nested /\ c.op = "remove" /\ c.item = First(c.item) /\ j = Second(c.item)
    BY DEF Touched, Reach
  <1>2. Second(c.item)[1] = c.item[1]
    BY DEF Second
  <1>3. /\ c.op = "remove" => Removed(c) \subseteq Touched(c) /\ c.item \in Removed(c)
        /\ c.op = "remove" => Deleted(c) \subseteq Touched(c) /\ c.item \in Deleted(c)
    BY DEF Touched, Reach, Removed, Deleted, Below
  <1> QED BY <1>1, <1>2, <1>3

(* The same for a step that leaves the page as it is.                      *)
LEMMA SamePage ==
  ASSUME page' = page, NEW g
  PROVE  /\ Apart(calls, key)' <=> Apart(calls', key')
         /\ Follow(calls, rows, g)' <=> Follow(calls', rows', g)
  <1>1. \A s \in Slots : Touched(calls[s])' = Touched(calls'[s])
    BY DEF Touched, Reach
  <1>2. \A s \in Slots : Removed(calls[s])' = Removed(calls'[s])
    BY DEF Removed, Below
  <1>3. \A s \in Slots : Tracks(calls[s], rows, g)' <=> Tracks(calls'[s], rows', g)
    BY <1>1, <1>2 DEF Tracks
  <1> QED BY <1>1, <1>3 DEF Apart, Follow, Alters, Overwrites

LEMMA KeyIsFiltered ==
  ASSUME PageInv, past = {}, NEW s \in Slots, Overwrites(calls[s])
  PROVE  calls[s].key = key
  <1>1. PICK c : c = calls[s]
    OBVIOUS
  <1>2. Filtered(c, key, past)
    BY <1>1 DEF PageInv
  <1>3. ~Strays(c, key) /\ (page.guarded /\ c.kind = "load" /\ c.live => c.key = key)
    BY <1>2 DEF Filtered
  <1>4. c.live /\ c.kind \in {"load", "fetch"}
    BY <1>1 DEF Overwrites
  <1> QED BY <1>1, <1>3, <1>4 DEF Strays

LEMMA ChangeFacts ==
  ASSUME PageInv, NEW s \in Slots, calls[s].kind = "change"
  PROVE  LET c == calls[s] IN
         /\ c.op \in Ops /\ c.item \in Items /\ c.how \in page.how[c.op] /\ c.how \in Effects
         /\ c.key \in Keys /\ c.data \in Rows /\ c.state \in {"sent", "accepted", "refused"}
         /\ page.guarded \/ page.moves = "remount"
  <1>1. PICK c : c = calls[s]
    OBVIOUS
  <1>2. c \in Call /\ RequestOK(c) /\ PageOK(page) /\ c.kind = "change"
    BY <1>1, PageFacts DEF PageInv
  <1> QED BY <1>1, <1>2, CallFacts DEF RequestOK, PageOK

(* The parts of the invariant when one request changes.                    *)
LEMMA SensibleStill ==
  ASSUME PageInv, ShowInv, NEW s \in Slots, NEW n \in Call,
         calls' = [calls EXCEPT ![s] = n], page' = page, server' = server, Sensible(n)
  PROVE  Singular' /\ \A r \in Slots : Sensible(calls[r])'
  <1>1. Singular'
    BY DEF ShowInv, Singular
  <1>2. ASSUME NEW r \in Slots
        PROVE  Sensible(calls[r])'
    <2>1. PICK d : d = calls'[r]
      OBVIOUS
    <2>2. Sensible(d)
      BY <2>1, PageFacts DEF ShowInv
    <2>3. OnServer(d.key)' = OnServer(d.key)
      BY SameServer
    <2> QED BY <2>1, <2>2, <2>3 DEF Sensible
  <1> QED BY <1>1, <1>2

LEMMA ApartStill ==
  ASSUME calls \in [Slots -> Call], Apart(calls, key), NEW s \in Slots, NEW n,
         calls' = [calls EXCEPT ![s] = n],
         n.kind = "change" /\ n.state = "sent" => n.live,
         Alters(n) => /\ Alters(calls[s]) /\ n.item = calls[s].item
                      /\ n.op = calls[s].op /\ n.how = calls[s].how,
         Overwrites(n) => \/ Overwrites(calls[s])
                          \/ \A r \in Slots \ {s} : ~Alters(calls[r])
  PROVE  Apart(calls', key)
  <1>1. calls'[s] = n /\ \A r \in Slots : r # s => calls'[r] = calls[r]
    OBVIOUS
  <1>2. ~(Alters(n) /\ Overwrites(n))
    BY DEF Alters, Overwrites
  <1>3. PICK c : c = calls[s]
    OBVIOUS
  <1>4. /\ Alters(n) => /\ Alters(c) /\ n.item = c.item /\ n.how = c.how
                        /\ Touched(n) = Touched(c)
        /\ Overwrites(n) => Overwrites(c) \/ \A r \in Slots \ {s} : ~Alters(calls[r])
    BY <1>3 DEF Touched
  <1> SUFFICES ASSUME NEW q \in Slots
               PROVE  /\ calls'[q].kind = "change" /\ calls'[q].state = "sent" => calls'[q].live
                      /\ Alters(calls'[q]) =>
                            /\ calls'[q].item[1] = key
                            /\ \A r \in Slots :
                                  /\ ~Overwrites(calls'[r])
                                  /\ r # q /\ Alters(calls'[r]) =>
                                        /\ Touched(calls'[r]) \cap Touched(calls'[q]) = {}
                                        /\ calls'[r].how # "whole"
    BY DEF Apart
  <1>5. CASE q = s
    BY <1>1, <1>2, <1>3, <1>4, <1>5 DEF Apart
  <1>6. CASE q # s
    BY <1>1, <1>2, <1>3, <1>4, <1>6 DEF Apart
  <1> QED BY <1>5, <1>6

LEMMA BroughtStill ==
  ASSUME calls \in [Slots -> Call], NEW g, Brought(calls, g), NEW s \in Slots, NEW n,
         calls' = [calls EXCEPT ![s] = n],
         Renewing(calls[s]) => Renewing(n),
         Overwrites(n) /\ n.state = "accepted" => n.data = g
  PROVE  Brought(calls', g)
  <1>1. calls'[s] = n /\ \A r \in Slots : r # s => calls'[r] = calls[r]
    OBVIOUS
  <1> QED BY <1>1 DEF Brought

LEMMA SettledBefore ==
  ASSUME calls \in [Slots -> Call], NEW s \in Slots, NEW n, calls' = [calls EXCEPT ![s] = n],
         key' = key, loaded' = loaded, failed => failed',
         Renewing(calls[s]) => Renewing(n),
         Overwrites(calls[s]) => Overwrites(n),
         Settled'
  PROVE  Settled
  <1>1. calls'[s] = n /\ \A r \in Slots : r # s => calls'[r] = calls[r]
    OBVIOUS
  <1>2. /\ loaded' = key' /\ ~failed'
        /\ \A r \in Slots : ~Overwrites(calls'[r]) /\ ~Renewing(calls'[r])
    BY DEF Settled
  <1> QED BY <1>1, <1>2 DEF Settled

(* A request that alters nothing gives way to one that alters nothing.     *)
LEMMA FollowsStill ==
  ASSUME calls \in [Slots -> Call], NEW f, NEW g, Follow(calls, f, g), NEW s \in Slots, NEW n,
         calls' = [calls EXCEPT ![s] = n], ~Alters(calls[s]), ~Alters(n)
  PROVE  Follow(calls', f, g)
  <1>1. calls'[s] = n /\ \A r \in Slots : r # s => calls'[r] = calls[r]
    OBVIOUS
  <1>2. \A r \in Slots : Alters(calls[r]) => r # s
    OBVIOUS
  <1> QED BY <1>1, <1>2 DEF Follow

(* Rows I change, shown or on the server, as does the request that has     *)
(* them.                                                                   *)
Passes(I, c, n, f, g, f2, g2) ==
    /\ \A j \in Items \ I : f2[j] = f[j] /\ g2[j] = g[j]
    /\ Alters(c) => Touched(c) = I
    /\ IF Alters(n) THEN Touched(n) = I /\ Tracks(n, f2, g2) ELSE \A j \in I : f2[j] = g2[j]

LEMMA FollowsOn ==
  ASSUME calls \in [Slots -> Call], NEW s \in Slots, NEW n, NEW I \in SUBSET Items,
         NEW f, NEW g, NEW f2, NEW g2,
         Follow(calls, f, g), Passes(I, calls[s], n, f, g, f2, g2),
         calls' = [calls EXCEPT ![s] = n],
         \A r \in Slots \ {s} : Alters(calls[r]) =>
             calls[r].item \in Items /\ Touched(calls[r]) \cap I = {} /\ calls[r].how # "whole"
  PROVE  Follow(calls', f2, g2)
  <1> USE DEF Passes
  <1>1. calls'[s] = n /\ \A r \in Slots : r # s => calls'[r] = calls[r]
    OBVIOUS
  <1>2. ASSUME NEW j \in Items
        PROVE  f2[j] = g2[j] \/ \E r \in Slots : Alters(calls'[r]) /\ j \in Touched(calls'[r])
    <2>1. CASE j \in I
      BY <1>1, <2>1
    <2>2. CASE j \notin I
      <3>1. CASE f[j] = g[j]
        BY <2>2, <3>1
      <3>2. CASE \E r \in Slots : Alters(calls[r]) /\ j \in Touched(calls[r])
        BY <1>1, <2>2, <3>2
      <3> QED BY <3>1, <3>2 DEF Follow
    <2> QED BY <2>1, <2>2
  <1>3. ASSUME NEW r \in Slots, Alters(calls'[r])
        PROVE  Tracks(calls'[r], f2, g2)
    <2>1. CASE r = s
      BY <1>1, <1>3, <2>1
    <2>2. CASE r # s
      <3>1. PICK d : d = calls[r]
        OBVIOUS
      <3>2. Tracks(d, f, g) /\ d.item \in Items /\ Touched(d) \cap I = {} /\ d.how # "whole"
        BY <1>1, <1>3, <2>2, <3>1 DEF Follow
      <3>3. d.item \in Touched(d) /\ \A j \in Touched(d) : f2[j] = f[j] /\ g2[j] = g[j]
        BY <3>2, TouchedFacts
      <3>4. Tracks(d, f2, g2)
        BY <3>2, <3>3 DEF Tracks
      <3> QED BY <1>1, <2>2, <3>1, <3>4
    <2> QED BY <2>1, <2>2
  <1> QED BY <1>2, <1>3 DEF Follow

(* Initially a load is under way, and nothing is shown.                    *)
LEMMA ShowStarts ==
  ASSUME PageInit
  PROVE  ShowInv
  <1>1. key \in Keys /\ loaded = NULL /\ NULL \notin Keys
    BY PageNull DEF PageInit
  <1>2. PICK s \in Slots : calls = [r \in Slots |-> IF r = s THEN Ask("load", key) ELSE NoCall]
    BY DEF PageInit
  <1>3. \A r \in Slots : calls[r].kind \in {"none", "load"} /\ calls[r].state = "sent"
    BY <1>1, <1>2, AskFacts
  <1>4. \A r \in Slots : Sensible(calls[r]) /\ ~Alters(calls[r])
    BY <1>3 DEF Sensible, Alters
  <1>5. Apart(calls, key) /\ Brought(calls, OnServer(key)) /\ ~Settled
    BY <1>1, <1>3, <1>4 DEF Apart, Brought, Settled
  <1>6. Singular
    <2>1. PICK one : one = page.single
      OBVIOUS
    <2>2. one => \A k \in Keys : server[<<k, 2>>] = 0
      <3> SUFFICES ASSUME one, NEW k \in Keys PROVE server[<<k, 2>>] = 0
        OBVIOUS
      <3>1. server[<<k, 2>>] \in 0 .. (IF one THEN 0 ELSE IF page.nested THEN 3 ELSE 1)
        BY <2>1 DEF PageInit
      <3> QED BY <3>1
    <2> QED BY <2>1, <2>2 DEF Singular
  <1> QED BY <1>4, <1>5, <1>6 DEF ShowInv

(* A load begins: of the others, only a load without a guard is heeded.    *)
LEMMA LoadBegins ==
  ASSUME PageInv, ShowInv, NEW s \in Slots, NEW k \in Keys,
         NEW others \in [Slots -> Call], StartLoad(s, k, others),
         page' = page, server' = server, key' = k,
         \A r \in Slots :
            /\ Sensible(others[r])
            /\ others[r].kind = "load" /\ others[r].live => ~page.guarded /\ page.moves = "same"
  PROVE  ShowInv'
  <1>1. PICK n : n = Ask("load", k)
    OBVIOUS
  <1>2. n.kind = "load" /\ n.live /\ n.state = "sent" /\ n.key = k
    BY <1>1, AskFacts
  <1>3. /\ calls'[s] = n
        /\ \A r \in Slots : r # s => calls'[r] = others[r]
    BY <1>1 DEF StartLoad
  <1>4. Sensible(n) /\ Overwrites(n) /\ ~Alters(n)
    BY <1>2 DEF Sensible, Overwrites, Alters
  <1>5. Singular'
    BY DEF ShowInv, Singular
  <1>6. ASSUME NEW r \in Slots
        PROVE  Sensible(calls[r])'
    <2>1. PICK d : d = calls'[r]
      OBVIOUS
    <2>2. Sensible(d)
      BY <1>3, <1>4, <2>1
    <2>3. OnServer(d.key)' = OnServer(d.key)
      BY SameServer
    <2> QED BY <2>1, <2>2, <2>3 DEF Sensible
  <1>7. ASSUME past' = {}, NEW r \in Slots, r # s
        PROVE  /\ ~Alters(others[r])
               /\ others[r].kind = "change" /\ others[r].state = "sent" => others[r].live
               /\ Overwrites(others[r]) /\ others[r].state = "accepted" =>
                     others[r].data = OnServer(k)
    <2>1. PICK d : d = others[r]
      OBVIOUS
    <2>2. ~Disturbs(d) /\ ~Strays(d, k)
      BY <1>7, <2>1 DEF StartLoad
    <2>3. /\ ~Alters(d)
          /\ d.kind = "change" /\ d.state = "sent" => d.live
          /\ Overwrites(d) => d.kind = "load" /\ d.live
      BY <2>2 DEF Disturbs, Alters, Overwrites
    <2>4. ASSUME Overwrites(d), d.state = "accepted"
          PROVE  d.data = OnServer(k)
      <3>1. d.kind = "load" /\ d.live /\ ~page.guarded /\ page.moves = "same" /\ Sensible(d)
        BY <2>1, <2>3, <2>4
      <3>2. d.data = OnServer(d.key)
        BY <2>4, <3>1 DEF Sensible
      <3>3. d.key = k
        BY <2>2, <3>1 DEF Strays
      <3> QED BY <3>2, <3>3
    <2> QED BY <2>1, <2>3, <2>4
  <1>8. ASSUME past' = {}
        PROVE  Apart(calls', k) /\ Brought(calls', OnServer(k))
    BY <1>2, <1>3, <1>4, <1>7, <1>8 DEF Apart, Brought
  <1>9. ~Settled'
    BY <1>3, <1>4 DEF Settled
  <1>10. OnServer(k)' = OnServer(k)
    BY SameServer
  <1>11. Apart(calls, key)' <=> Apart(calls', k)
    BY SamePage
  <1> QED BY <1>5, <1>6, <1>8, <1>9, <1>10, <1>11 DEF ShowInv

(* What a step that leaves the page, the key and the server does when      *)
(* something is disturbed.                                                 *)
LEMMA ShowFrame ==
  ASSUME PageInv, ShowInv, NEW s \in Slots, NEW n \in Call,
         calls' = [calls EXCEPT ![s] = n], page' = page, server' = server, key' = key,
         Sensible(n),
         past' = {} => /\ Apart(calls', key)
                       /\ Brought(calls', OnServer(key))
                       /\ Settled' => Follow(calls', rows', OnServer(key))
  PROVE  ShowInv'
  <1>1. Singular' /\ \A r \in Slots : Sensible(calls[r])'
    BY SensibleStill
  <1>2. OnServer(key)' = OnServer(key)
    BY SameServer
  <1>3. PICK g : g = OnServer(key)
    OBVIOUS
  <1>4. past' = {} => /\ Apart(calls', key')
                      /\ Brought(calls', g)
                      /\ Settled' => Follow(calls', rows', g)
    BY <1>3
  <1>5. OnServer(key)' = g
    BY <1>2, <1>3
  <1>6. /\ Apart(calls, key)' <=> Apart(calls', key')
        /\ Follow(calls, rows, g)' <=> Follow(calls', rows', g)
    BY SamePage
  <1> QED BY <1>1, <1>4, <1>5, <1>6 DEF ShowInv

(* The server refuses a request, or answers a load, or an answer is lost:  *)
(* nothing changes on the server.                                          *)
LEMMA ShowIsAnswered ==
  ASSUME PageInv, ShowInv, NEW s \in Slots,
         Refuse(s) \/ Lose(s) \/ (Accept(s) /\ calls[s].kind # "change")
  PROVE  ShowInv'
  <1>1. PICK c : c = calls[s]
    OBVIOUS
  <1>2. /\ page' = page /\ key' = key /\ rows' = rows /\ loaded' = loaded
        /\ failed' = failed /\ server' = server /\ c.kind # "none"
    BY <1>1 DEF Accept, Refuse, Lose, Free
  <1>3. /\ calls \in [Slots -> Call] /\ c \in Call
    BY <1>1, PageFacts
  <1>4. PICK st \in {"accepted", "refused"}, data \in {c.data, OnServer(c.key)} :
           /\ calls' = [calls EXCEPT ![s].state = st, ![s].data = data]
           /\ st = "refused" => data = c.data
           /\ st = "accepted" => c.kind # "change" /\ data = OnServer(c.key)
           /\ past' = {} => past = {} /\ c.state = "sent"
    <2>1. CASE Accept(s) /\ c.kind # "change"
      BY <1>1, <2>1 DEF Accept, Settle
    <2>2. CASE Refuse(s)
      BY <1>1, <2>2 DEF Refuse, Settle
    <2>3. CASE Lose(s)
      BY <1>1, <2>3 DEF Lose, Settle
    <2> QED BY <1>1, <2>1, <2>2, <2>3
  <1>5. PICK n : n = [c EXCEPT !.state = st, !.data = data]
    OBVIOUS
  <1>6. data \in Rows
    BY <1>3, OnServerFacts, CallFacts
  <1>7. n \in Call
    BY <1>3, <1>5, <1>6 DEF Call
  <1>8. /\ n.kind = c.kind /\ n.key = c.key /\ n.live = c.live /\ n.state = st /\ n.data = data
        /\ n.op = c.op /\ n.how = c.how /\ n.item = c.item /\ n.value = c.value
    BY <1>3, <1>5, CallFacts
  <1>9. calls' = [calls EXCEPT ![s] = n]
    BY <1>1, <1>3, <1>4, <1>5
  <1>10. Sensible(n)
    <2>1. Sensible(c)
      BY <1>1 DEF ShowInv
    <2> QED BY <1>4, <1>8, <2>1 DEF Sensible
  <1>11. (Overwrites(n) <=> Overwrites(c)) /\ (Alters(n) <=> Alters(c)) /\ ~Renewing(n)
    BY <1>4, <1>8 DEF Overwrites, Alters, Renewing
  <1>12. ASSUME past' = {}
         PROVE  /\ Apart(calls', key)
                /\ Brought(calls', OnServer(key))
                /\ Settled' => Follow(calls', rows', OnServer(key))
    <2>1. PICK g : g = OnServer(key)
      OBVIOUS
    <2>2. /\ past = {} /\ c.state = "sent"
          /\ Apart(calls, key) /\ Brought(calls, g) /\ (Settled => Follow(calls, rows, g))
      BY <1>4, <1>12, <2>1 DEF ShowInv
    <2>3. ~Renewing(c) /\ (n.kind = "change" /\ n.state = "sent" => n.live)
      BY <1>4, <1>8, <2>2 DEF Renewing
    <2>4. Apart(calls', key)
      BY <1>1, <1>3, <1>8, <1>9, <1>11, <2>2, <2>3, ApartStill
    <2>5. Overwrites(n) /\ n.state = "accepted" => n.data = g
      BY <1>1, <1>4, <1>8, <1>11, <2>1, <2>2, KeyIsFiltered
    <2>6. Brought(calls', g)
      BY <1>1, <1>3, <1>9, <2>2, <2>3, <2>5, BroughtStill
    <2>7. ASSUME Settled'
          PROVE  Follow(calls', rows', g)
      <3>1. Follow(calls, rows, g)
        BY <1>1, <1>2, <1>3, <1>9, <1>11, <2>2, <2>3, <2>7, SettledBefore
      <3>2. CASE ~Alters(c)
        BY <1>1, <1>2, <1>3, <1>9, <1>11, <3>1, <3>2, FollowsStill
      <3>3. CASE Alters(c)
        <4>1. c.kind = "change" /\ c.item \in Items
          BY <1>1, <3>3, ChangeFacts DEF Alters
        <4>2. Tracks(c, rows, g)
          BY <1>1, <3>1, <3>3 DEF Follow
        <4>3. st = "refused" /\ n.data = c.data
          BY <1>4, <1>8, <4>1
        <4>4. Touched(n) = Touched(c)
          BY <1>8 DEF Touched
        <4>5. Tracks(n, rows', g)
          BY <1>2, <1>8, <2>2, <4>2, <4>3, <4>4 DEF Tracks
        <4>6. PICK I \in SUBSET Items : I = Touched(c)
          BY <4>1, TouchedFacts
        <4>7. \A r \in Slots \ {s} : Alters(calls[r]) =>
                 calls[r].item \in Items /\ Touched(calls[r]) \cap I = {} /\ calls[r].how # "whole"
          BY <1>1, <2>2, <3>3, <4>6, ChangeFacts DEF Apart, Alters
        <4>8. Passes(I, calls[s], n, rows, g, rows', g)
          BY <1>1, <1>2, <1>11, <3>3, <4>4, <4>5, <4>6 DEF Passes
        <4> QED BY <1>3, <1>9, <3>1, <4>6, <4>7, <4>8, FollowsOn
      <3> QED BY <3>2, <3>3
    <2> QED BY <2>1, <2>4, <2>6, <2>7
  <1> QED BY <1>2, <1>7, <1>9, <1>10, <1>12, ShowFrame

(* The server makes a change.                                              *)
LEMMA ShowIsServed ==
  ASSUME PageInv, ShowInv, NEW s \in Slots, Accept(s), calls[s].kind = "change"
  PROVE  ShowInv'
  <1>1. PICK c : c = calls[s]
    OBVIOUS
  <1>2. /\ page' = page /\ key' = key /\ rows' = rows /\ loaded' = loaded
        /\ failed' = failed /\ past' = past \cup {w \in {"unseen"} : TakesUnseen(c)}
        /\ c.kind = "change" /\ c.state = "sent" /\ Applies(c) /\ server' = Applied(c)
        /\ calls' = [calls EXCEPT ![s].state = "accepted", ![s].data = c.data]
    BY <1>1 DEF Accept, Settle
  <1>3. /\ calls \in [Slots -> Call] /\ c \in Call /\ PageOK(page)
        /\ server \in [Items -> OrNull({0} \cup Values)]
    BY <1>1, PageFacts DEF PageInv, PageTypeOK
  <1>4. /\ c.op \in Ops /\ c.item \in Items /\ c.how \in page.how[c.op]
        /\ page.guarded \/ page.moves = "remount"
        /\ c.op = "add" => ~page.single
    <2>1. /\ c.op \in Ops /\ c.item \in Items /\ c.how \in page.how[c.op]
          /\ page.guarded \/ page.moves = "remount"
      BY <1>1, ChangeFacts
    <2> QED BY <1>3, <2>1 DEF PageOK
  <1>5. c.value \in Values
    BY <1>1, <1>2 DEF ShowInv, Sensible
  <1>6. /\ c.item \in Touched(c) /\ Touched(c) \subseteq Items
        /\ \A j \in Touched(c) : j[1] = c.item[1]
        /\ c.op # "remove" => Touched(c) = {c.item}
        /\ \A j \in Touched(c) : j # c.item =>
              page.nested /\ c.op = "remove" /\ c.item = First(c.item) /\ j = Second(c.item)
        /\ c.op = "remove" => Deleted(c) \subseteq Touched(c)
    BY <1>4, TouchedFacts
  <1>7. /\ c.op # "remove" => server'[c.item] = c.value
        /\ c.op = "remove" =>
              \A j \in Items : server'[j] = IF j \in Deleted(c) THEN NULL ELSE server[j]
        /\ \A j \in Items \ Touched(c) : server'[j] = server[j]
    <2>1. CASE c.op = "remove"
      <3>1. server' = [j \in Items |-> IF j \in Deleted(c) THEN NULL ELSE server[j]]
        BY <1>2, <2>1 DEF Applied
      <3> QED BY <1>6, <2>1, <3>1
    <2>2. CASE c.op # "remove"
      <3>1. server' = [server EXCEPT ![c.item] = c.value]
        BY <1>2, <2>2 DEF Applied
      <3> QED BY <1>3, <1>4, <1>6, <2>2, <3>1
    <2> QED BY <2>1, <2>2
  <1>8. Singular'
    <2> SUFFICES ASSUME page.single, NEW k \in Keys
                 PROVE  server'[<<k, 2>>] = 0
      BY <1>2 DEF Singular
    <2>1. <<k, 2>> \in Items
      BY DEF Items
    <2>2. server[<<k, 2>>] = 0
      BY DEF ShowInv, Singular
    <2>3. server[c.item] # 0
      BY <1>2, <1>4 DEF Applies, Values
    <2>4. \A j \in Touched(c) : j = c.item
      BY <1>3, <1>6 DEF PageOK
    <2> QED BY <1>7, <2>1, <2>2, <2>3, <2>4
  <1>9. PICK n : n = [c EXCEPT !.state = "accepted", !.data = c.data]
    OBVIOUS
  <1>10. /\ n.kind = "change" /\ n.live = c.live /\ n.state = "accepted" /\ n.data = c.data
         /\ n.op = c.op /\ n.how = c.how /\ n.item = c.item /\ n.value = c.value
    BY <1>2, <1>3, <1>9, CallFacts
  <1>11. calls' = [calls EXCEPT ![s] = n]
    BY <1>1, <1>2, <1>3, <1>9
  <1>12. ASSUME NEW r \in Slots
         PROVE  Sensible(calls[r])'
    <2>1. PICK d : d = calls'[r]
      OBVIOUS
    <2>2. d.kind = "change" => d.value \in Values
      <3>1. r # s => d = calls[r] /\ Sensible(d)
        BY <1>3, <1>11, <2>1 DEF ShowInv
      <3>2. r = s => d = n
        BY <1>3, <1>11, <2>1
      <3> QED BY <1>5, <1>10, <3>1, <3>2 DEF Sensible
    <2> QED BY <1>2, <1>4, <2>1, <2>2 DEF Sensible
  <1>13. ~Overwrites(n) /\ ~Overwrites(c) /\ ~Renewing(c) /\ (Alters(n) <=> Alters(c))
    BY <1>2, <1>10 DEF Overwrites, Alters, Renewing
  <1>14. ASSUME past' = {}
         PROVE  /\ Apart(calls', key)
                /\ Brought(calls', OnServer(key)')
                /\ Settled' => Follow(calls', rows, OnServer(key)')
    <2>1. PICK g, g2 : g = OnServer(key) /\ g2 = OnServer(key)'
      OBVIOUS
    <2>2. /\ Apart(calls, key) /\ Brought(calls, g)
          /\ Settled => Follow(calls, rows, g)
      BY <1>2, <1>14, <2>1 DEF ShowInv
    <2>3. c.live
      BY <1>1, <1>2, <2>2 DEF Apart
    <2>4. Apart(calls', key)
      BY <1>1, <1>3, <1>10, <1>11, <1>13, <2>2, ApartStill
    <2>5. CASE c.how = "reload"
      <3>1. Renewing(n)
        BY <1>10, <2>3, <2>5 DEF Renewing
      <3>2. calls'[s] = n
        BY <1>3, <1>11
      <3>3. Brought(calls', g2) /\ ~Settled'
        BY <3>1, <3>2 DEF Brought, Settled
      <3> QED BY <2>1, <2>4, <3>3
    <2>6. CASE c.how # "reload"
      <3>1. Alters(c)
        BY <1>2, <2>3, <2>6 DEF Alters
      <3>2. /\ c.item[1] = key
            /\ \A r \in Slots : /\ ~Overwrites(calls[r])
                                /\ r # s /\ Alters(calls[r]) =>
                                      /\ Touched(calls[r]) \cap Touched(c) = {}
                                      /\ calls[r].how # "whole"
        BY <1>1, <2>2, <3>1 DEF Apart
      <3>3. \A r \in Slots : ~Overwrites(calls'[r])
        BY <1>3, <1>11, <1>13, <3>2
      <3>4. Brought(calls', g2)
        BY <3>3 DEF Brought
      <3>5. \A j \in Items :
               /\ g[j] = (IF j[1] = key /\ server[j] \in Values THEN server[j] ELSE 0)
               /\ g2[j] = (IF j[1] = key /\ server'[j] \in Values THEN server'[j] ELSE 0)
        BY <1>2, <2>1 DEF OnServer
      <3>6. /\ \A j \in Items \ Touched(c) : g2[j] = g[j]
            /\ c.op # "remove" => g2[c.item] = c.value
        BY <1>4, <1>5, <1>7, <3>2, <3>5
      <3>7. ASSUME Settled'
            PROVE  Follow(calls', rows, g2)
        <4>1. Settled
          BY <1>1, <1>2, <1>3, <1>11, <1>13, <3>7, SettledBefore
        <4>2. Follow(calls, rows, g) /\ Tracks(c, rows, g)
          BY <1>1, <2>2, <3>1, <4>1 DEF Follow
        <4>3. ASSUME c.op = "remove", NEW j \in Touched(c)
              PROVE  g2[j] = IF j \in Removed(c) THEN 0 ELSE rows[j]
          <5>1. NULL \notin Values /\ c.how \notin Optimistic
            <6>1. c.how \notin Optimistic
              BY <1>3, <1>4, <4>3 DEF PageOK, Optimistic
            <6> QED BY <6>1, PageNull DEF Values
          <5>2. j \in Items /\ j[1] = key /\ rows[j] = g[j]
            BY <1>2, <1>6, <3>2, <4>2, <4>3, <5>1 DEF Tracks
          <5>3. CASE j = c.item
            <6>1. j \in Deleted(c) /\ j \in Removed(c)
              BY <1>4, <4>3, <5>3, TouchedFacts
            <6> QED BY <1>7, <3>5, <4>3, <5>1, <5>2, <6>1
          <5>4. CASE j # c.item
            <6>1. page.nested /\ c.item = First(c.item) /\ j = Second(c.item)
              BY <1>6, <4>3, <5>4
            <6>2. /\ j \in Deleted(c) <=> server[j] \in {Child, Grandchild}
                  /\ j \in Removed(c) <=> c.data[j] = Child
                  /\ server[j] # Grandchild
              <7>1. Below(server, c.item, {Grandchild}) = {}
                BY <1>2, <1>14, <4>3 DEF TakesUnseen
              <7> QED BY <5>2, <5>4, <6>1, <7>1 DEF Deleted, Removed, Below
            <6>3. c.data[j] = rows[j]
              BY <4>2, <4>3, <6>1 DEF Tracks
            <6>4. Child \in Values /\ Child # 0
              BY DEF Child, Values
            <6> QED BY <1>7, <3>5, <4>3, <5>1, <5>2, <6>2, <6>3, <6>4
          <5> QED BY <5>3, <5>4
        <4>4. Touched(n) = Touched(c) /\ Removed(n) = Removed(c)
          BY <1>10 DEF Touched, Removed, Below
        <4>5. Tracks(n, rows, g2)
          BY <1>10, <3>6, <4>2, <4>3, <4>4 DEF Tracks
        <4>6. PICK I \in SUBSET Items : I = Touched(c)
          BY <1>6
        <4>7. \A r \in Slots \ {s} : Alters(calls[r]) =>
                 calls[r].item \in Items /\ Touched(calls[r]) \cap I = {} /\ calls[r].how # "whole"
          BY <3>2, <4>6, ChangeFacts DEF Alters
        <4>8. Passes(I, calls[s], n, rows, g, rows, g2)
          BY <1>1, <1>13, <3>1, <3>6, <4>4, <4>5, <4>6 DEF Passes
        <4> QED BY <1>3, <1>11, <4>2, <4>6, <4>7, <4>8, FollowsOn
      <3> QED BY <2>1, <2>4, <3>4, <3>7
    <2> QED BY <2>5, <2>6
  <1>15. PICK g2 : g2 = OnServer(key)'
    OBVIOUS
  <1>16. /\ Apart(calls, key)' <=> Apart(calls', key')
         /\ Follow(calls, rows, g2)' <=> Follow(calls', rows', g2)
    BY <1>2, SamePage
  <1> QED BY <1>2, <1>8, <1>12, <1>14, <1>15, <1>16 DEF ShowInv

(* What the user changes.                                                  *)
LEMMA ShowChanges ==
  ASSUME PageInv, ShowInv, NEW s \in Slots,
         NEW op \in Ops, NEW i \in Items, NEW v \in Values, NEW how \in Effects,
         Change(s, op, i, v, how)
  PROVE  ShowInv'
  <1>1. /\ page' = page /\ key' = key /\ loaded' = loaded /\ failed' = failed
        /\ server' = server /\ how \in page.how[op]
        /\ past' = {} => past = {} /\ \A r \in Slots : ~Crosses(calls[r], op, i, how)
        /\ rows' = (IF how \in Optimistic THEN [rows EXCEPT ![i] = v] ELSE rows)
        /\ Offered(op, i, v) /\ Taken(s)
    BY DEF Change
  <1>2. PICK data \in {rows, NoRows} :
           /\ how \in Optimistic \/ (page.nested /\ op = "remove") => data = rows
           /\ calls' = [calls EXCEPT ![s] =
                          [Ask("change", key) EXCEPT
                              !.op = op, !.how = how, !.item = i, !.value = v, !.data = data]]
    BY DEF Change, Kept
  <1>3. /\ calls \in [Slots -> Call] /\ key \in Keys /\ rows \in Rows /\ PageOK(page)
        /\ PageTypeOK /\ RowsOK
    BY PageFacts DEF PageInv
  <1>4. PICK a : a = Ask("change", key)
    OBVIOUS
  <1>5. PICK n : n = [a EXCEPT !.op = op, !.how = how, !.item = i, !.value = v, !.data = data]
    OBVIOUS
  <1>6. a \in Call /\ a.kind = "change" /\ a.live /\ a.state = "sent"
    BY <1>3, <1>4, AskFacts
  <1>7. data \in Rows
    BY <1>3 DEF NoRows, Rows
  <1>8. n \in Call
    BY <1>5, <1>6, <1>7 DEF Call, OrNull
  <1>9. /\ n.kind = "change" /\ n.live /\ n.state = "sent" /\ n.op = op /\ n.how = how
        /\ n.item = i /\ n.value = v /\ n.data = data
    BY <1>5, <1>6, CallFacts
  <1>10. calls' = [calls EXCEPT ![s] = n]
    BY <1>2, <1>4, <1>5
  <1>11. Sensible(n) /\ ~Overwrites(n) /\ ~Renewing(n) /\ (Alters(n) <=> how # "reload")
    BY <1>9 DEF Sensible, Overwrites, Renewing, Alters
  <1>12. calls[s].kind = "none"
    BY <1>1 DEF Taken, Least, Free
  <1>13. ~Overwrites(calls[s]) /\ ~Renewing(calls[s]) /\ ~Alters(calls[s])
    BY <1>12 DEF Overwrites, Renewing, Alters
  <1>14. ASSUME past' = {}
         PROVE  /\ Apart(calls', key)
                /\ Brought(calls', OnServer(key))
                /\ Settled' => Follow(calls', rows', OnServer(key))
    <2>1. PICK g : g = OnServer(key)
      OBVIOUS
    <2>2. /\ past = {} /\ Apart(calls, key) /\ Brought(calls, g)
          /\ Settled => Follow(calls, rows, g)
      BY <1>1, <1>14, <2>1 DEF ShowInv
    <2>3. Brought(calls', g)
      BY <1>3, <1>10, <1>11, <1>13, <2>2, BroughtStill
    <2>4. Settled' => Settled
      BY <1>1, <1>3, <1>10, <1>13, SettledBefore
    <2>5. CASE how = "reload"
      <3>1. rows' = rows
        BY <1>1, <2>5 DEF Optimistic
      <3>2. Apart(calls', key)
        BY <1>3, <1>9, <1>10, <1>11, <2>2, <2>5, ApartStill
      <3>3. Settled' => Follow(calls', rows', g)
        BY <1>3, <1>10, <1>11, <1>13, <2>2, <2>4, <2>5, <3>1, FollowsStill
      <3> QED BY <2>1, <2>3, <3>2, <3>3
    <2>6. CASE how # "reload"
      <3>1. ASSUME NEW r \in Slots
            PROVE  /\ ~Overwrites(calls[r])
                   /\ Alters(calls[r]) =>
                         /\ calls[r].item \in Items
                         /\ Touched(calls[r]) \cap Touched(n) = {}
                         /\ calls[r].how # "whole" /\ how # "whole"
        <4>1. ~Crosses(calls[r], op, i, how) /\ Touched(n) = Reach(op, i)
          BY <1>1, <1>9, <1>14 DEF Touched
        <4>2. /\ ~Overwrites(calls[r])
              /\ Alters(calls[r]) => Touched(calls[r]) \cap Touched(n) = {} /\ how # "whole"
          BY <2>6, <4>1 DEF Crosses, Overwrites, Alters, Touched
        <4>3. ASSUME Alters(calls[r]), calls[r].how = "whole"
              PROVE  how = "whole"
          <5>1. calls[r].op \in Ops /\ calls[r].how \in page.how[calls[r].op]
            BY <4>3, ChangeFacts DEF Alters
          <5>2. page.how[op] \subseteq {"whole"}
            BY <1>3, <4>3, <5>1 DEF PageOK
          <5> QED BY <1>1, <5>2
        <4>4. Alters(calls[r]) => calls[r].item \in Items
          BY ChangeFacts DEF Alters
        <4> QED BY <4>2, <4>3, <4>4
      <3>2. i[1] = key
        <4>1. CASE op = "add"
          BY <1>1, <4>1 DEF Offered
        <4>2. CASE op # "add"
          <5>1. loaded = key /\ ~failed /\ rows[i] # 0
            BY <1>1, <4>2 DEF Offered, Showing, Loading, Ops
          <5>2. Of(rows, key)
            BY <1>3, <2>2, <5>1, PageFacts DEF RowsOK
          <5> QED BY <5>1, <5>2 DEF Of
        <4> QED BY <4>1, <4>2
      <3>3. calls'[s] = n /\ \A r \in Slots : r # s => calls'[r] = calls[r]
        BY <1>3, <1>10
      <3>4. Apart(calls', key)
        BY <1>9, <1>11, <2>2, <2>6, <3>1, <3>2, <3>3 DEF Apart
      <3>5. ASSUME Settled'
            PROVE  Follow(calls', rows', g)
        <4>1. Follow(calls, rows, g)
          BY <2>2, <2>4, <3>5
        <4>2. /\ i \in Touched(n) /\ Touched(n) \subseteq Items
              /\ op # "remove" => Touched(n) = {i}
          BY <1>9, TouchedFacts
        <4>3. \A j \in Touched(n) : rows[j] = g[j]
          BY <3>1, <4>1, <4>2 DEF Follow
        <4>4. how \in Optimistic => op = "set"
          BY <1>1, <1>3 DEF PageOK, Optimistic
        <4>5. /\ \A j \in Items \ {i} : rows'[j] = rows[j]
              /\ how \in Optimistic => rows'[i] = v
              /\ how \notin Optimistic => rows' = rows
          BY <1>1, <1>3 DEF Rows
        <4>6. how = "edit" /\ op = "set" => rows'[i] # 0
          BY <1>1, <4>5 DEF Offered, Optimistic
        <4>7. Tracks(n, rows', g)
          BY <1>2, <1>9, <4>2, <4>3, <4>4, <4>5, <4>6 DEF Tracks, Optimistic
        <4>8. PICK I \in SUBSET Items : I = Touched(n)
          BY <4>2
        <4>9. Passes(I, calls[s], n, rows, g, rows', g)
          BY <1>11, <1>13, <2>6, <4>2, <4>5, <4>7, <4>8 DEF Passes
        <4> QED BY <1>3, <1>10, <3>1, <4>1, <4>8, <4>9, FollowsOn
      <3> QED BY <2>1, <2>3, <3>4, <3>5
    <2> QED BY <2>5, <2>6
  <1> QED BY <1>1, <1>8, <1>10, <1>11, <1>14, ShowFrame

(* A request ends, and no load has to begin for it.                        *)
LEMMA ShowEnds ==
  ASSUME PageInv, ShowInv, NEW s \in Slots, Done(s), ~Renewing(calls[s]),
         page' = page, key' = key, server' = server,
         past' = {} => past = {} /\ (Settled' => Follow(calls', rows', OnServer(key)))
  PROVE  ShowInv'
  <1>1. /\ calls \in [Slots -> Call] /\ NoCall \in Call /\ NoCall.kind = "none"
        /\ calls' = [calls EXCEPT ![s] = NoCall]
    BY PageFacts, AskFacts DEF Done
  <1>2. Sensible(NoCall) /\ ~Overwrites(NoCall) /\ ~Alters(NoCall)
    BY <1>1 DEF Sensible, Overwrites, Alters
  <1>3. PICK n : n = NoCall
    OBVIOUS
  <1>4. ASSUME past' = {}
        PROVE  Apart(calls', key) /\ Brought(calls', OnServer(key))
    <2>1. PICK g : g = OnServer(key)
      OBVIOUS
    <2>2. Apart(calls, key) /\ Brought(calls, g)
      BY <1>4, <2>1 DEF ShowInv
    <2>3. Apart(calls', key)
      BY <1>1, <1>2, <1>3, <2>2, ApartStill
    <2>4. Brought(calls', g)
      BY <1>1, <1>2, <1>3, <2>2, BroughtStill
    <2> QED BY <2>1, <2>3, <2>4
  <1> QED BY <1>1, <1>2, <1>4, ShowFrame

LEMMA ShowIgnores ==
  ASSUME PageInv, ShowInv, NEW s \in Slots, Ignored(s)
  PROVE  ShowInv'
  <1>1. /\ Done(s) /\ page' = page /\ key' = key /\ rows' = rows /\ loaded' = loaded
        /\ failed' = failed /\ server' = server /\ past' = past /\ ~calls[s].live
    BY DEF Ignored, Reaches
  <1>2. ~Renewing(calls[s]) /\ ~Overwrites(calls[s]) /\ ~Alters(calls[s])
    BY <1>1 DEF Renewing, Overwrites, Alters
  <1>3. PICK n : n = NoCall
    OBVIOUS
  <1>4. /\ calls \in [Slots -> Call] /\ n \in Call /\ ~Alters(n)
        /\ calls' = [calls EXCEPT ![s] = n]
    BY <1>1, <1>3, PageFacts, AskFacts DEF Done, Alters
  <1>5. ASSUME past = {}, Settled'
        PROVE  Follow(calls', rows', OnServer(key))
    <2>1. PICK g : g = OnServer(key)
      OBVIOUS
    <2>2. Settled
      BY <1>1, <1>2, <1>4, <1>5, SettledBefore
    <2>3. Follow(calls, rows, g)
      BY <1>5, <2>1, <2>2 DEF ShowInv
    <2> QED BY <1>1, <1>2, <1>4, <2>1, <2>3, FollowsStill
  <1> QED BY <1>1, <1>2, <1>5, ShowEnds

(* Rows arrive, or the page shows that they did not: nothing altered them  *)
(* meanwhile.                                                              *)
LEMMA ShowArrives ==
  ASSUME PageInv, ShowInv, NEW s \in Slots, LoadAnswered(s) \/ FetchAnswered(s)
  PROVE  ShowInv'
  <1>1. PICK c : c = calls[s]
    OBVIOUS
  <1>2. /\ Done(s) /\ page' = page /\ key' = key /\ server' = server
        /\ c.kind \in {"load", "fetch"} /\ c.live
        /\ c.state = "accepted" => rows' = c.data /\ past' = past
        /\ c.state # "accepted" => failed' \/ past' # {}
    <2>1. CASE LoadAnswered(s)
      <3>1. ~page.guarded => "lost" \in past \cup Missed
        BY DEF Missed
      <3> QED BY <1>1, <2>1, <3>1 DEF LoadAnswered, Reaches
    <2>2. CASE FetchAnswered(s)
      BY <1>1, <2>2 DEF FetchAnswered, Reaches
    <2> QED BY <2>1, <2>2
  <1>3. Overwrites(c) /\ ~Renewing(c)
    BY <1>2 DEF Overwrites, Renewing
  <1>4. /\ calls \in [Slots -> Call] /\ NoCall.kind = "none"
        /\ calls' = [calls EXCEPT ![s] = NoCall]
    BY <1>2, PageFacts, AskFacts DEF Done
  <1>5. past' = {} => past = {}
    BY <1>1, <1>2 DEF LoadAnswered, FetchAnswered
  <1>6. ASSUME past' = {}, Settled'
        PROVE  Follow(calls', rows', OnServer(key))
    <2>1. PICK g : g = OnServer(key)
      OBVIOUS
    <2>2. /\ ~failed'
          /\ \A r \in Slots : ~Renewing(calls'[r])
      BY <1>6 DEF Settled
    <2>3. c.state = "accepted" /\ rows' = c.data
      BY <1>2, <1>6, <2>2
    <2>4. Apart(calls, key) /\ Brought(calls, g)
      BY <1>5, <1>6, <2>1 DEF ShowInv
    <2>5. \A r \in Slots : r # s => calls'[r] = calls[r]
      BY <1>4
    <2>6. \A r \in Slots : ~Renewing(calls[r])
      BY <1>1, <1>3, <2>2, <2>5
    <2>7. rows' = g
      BY <1>1, <1>3, <2>3, <2>4, <2>6 DEF Brought
    <2>8. \A r \in Slots : ~Alters(calls'[r])
      <3>1. \A r \in Slots : ~Alters(calls[r])
        BY <1>1, <1>3, <2>4 DEF Apart
      <3>2. calls'[s].kind = "none"
        BY <1>4
      <3> QED BY <2>5, <3>1, <3>2 DEF Alters
    <2> QED BY <2>1, <2>7, <2>8 DEF Follow
  <1> QED BY <1>1, <1>2, <1>3, <1>5, <1>6, ShowEnds

(* A change ends, and the rows it may reach are the server's.              *)
LEMMA ShowRowEnds ==
  ASSUME PageInv, ShowInv, NEW s \in Slots, Done(s), Alters(calls[s]),
         page' = page, key' = key, server' = server, loaded' = loaded, past' = past,
         failed => failed',
         NEW I \in SUBSET Items, Touched(calls[s]) = I,
         NEW g, g = OnServer(key),
         past = {} /\ Tracks(calls[s], rows, g) =>
            /\ \A j \in Items \ I : rows'[j] = rows[j]
            /\ \A j \in I : rows'[j] = g[j]
  PROVE  ShowInv'
  <1>1. PICK n : n = NoCall
    OBVIOUS
  <1>2. /\ calls \in [Slots -> Call] /\ n \in Call /\ n.kind = "none"
        /\ calls' = [calls EXCEPT ![s] = n]
    BY <1>1, PageFacts, AskFacts DEF Done
  <1>3. ~Alters(n) /\ ~Renewing(calls[s]) /\ ~Overwrites(calls[s])
    BY <1>2 DEF Alters, Renewing, Overwrites
  <1>4. ASSUME past = {}, Settled'
        PROVE  Follow(calls', rows', g)
    <2>1. Settled
      BY <1>2, <1>3, <1>4, SettledBefore
    <2>2. Follow(calls, rows, g) /\ Apart(calls, key)
      BY <1>4, <2>1 DEF ShowInv
    <2>3. Tracks(calls[s], rows, g)
      BY <2>2 DEF Follow
    <2>4. Passes(I, calls[s], n, rows, g, rows', g)
      BY <1>3, <1>4, <2>3 DEF Passes
    <2>5. \A r \in Slots \ {s} : Alters(calls[r]) =>
             calls[r].item \in Items /\ Touched(calls[r]) \cap I = {} /\ calls[r].how # "whole"
      BY <2>2, ChangeFacts DEF Apart, Alters
    <2> QED BY <1>2, <2>2, <2>4, <2>5, FollowsOn
  <1> QED BY <1>3, <1>4, ShowEnds

LEMMA ShowReverts ==
  ASSUME PageInv, ShowInv, NEW s \in Slots, ChangeFailed(s)
  PROVE  ShowInv'
  <1>1. PICK c : c = calls[s]
    OBVIOUS
  <1>2. /\ c.kind = "change" /\ c.state = "refused" /\ c.live /\ Done(s)
        /\ page' = page /\ key' = key /\ server' = server
        /\ rows' = Reverted(c) /\ loaded' = loaded /\ past' = past /\ (failed => failed')
    BY <1>1 DEF ChangeFailed, Reaches
  <1>3. /\ c.item \in Items /\ c.data \in Rows /\ rows \in Rows /\ c.value \in Values
        /\ calls \in [Slots -> Call]
    BY <1>1, <1>2, ChangeFacts, PageFacts DEF ShowInv, Sensible
  <1>4. PICK g : g = OnServer(key)
    OBVIOUS
  <1>5. CASE c.how = "reload"
    <2>1. PICK n : n = NoCall
      OBVIOUS
    <2>2. /\ rows' = rows /\ ~Renewing(c) /\ ~Overwrites(c) /\ ~Alters(c)
      BY <1>2, <1>5 DEF Reverted, Renewing, Overwrites, Alters
    <2>3. n.kind = "none" /\ calls' = [calls EXCEPT ![s] = n]
      BY <1>2, <2>1, AskFacts, PageFacts DEF Done
    <2>4. ~Alters(n)
      BY <2>3 DEF Alters
    <2>5. ASSUME past = {}, Settled'
          PROVE  Follow(calls', rows', g)
      <3>1. Settled
        BY <1>1, <1>2, <1>3, <2>2, <2>3, <2>5, SettledBefore
      <3>2. Follow(calls, rows, g)
        BY <1>4, <2>5, <3>1 DEF ShowInv
      <3> QED BY <1>1, <1>3, <2>2, <2>3, <2>4, <3>2, FollowsStill
    <2> QED BY <1>1, <1>2, <1>4, <2>2, <2>5, ShowEnds
  <1>6. CASE c.how # "reload"
    <2>1. Alters(c)
      BY <1>2, <1>6 DEF Alters
    <2>2. PICK i \in Items, I \in SUBSET Items : i = c.item /\ I = Touched(c)
      BY <1>3, TouchedFacts
    <2>3. ASSUME Tracks(c, rows, g)
          PROVE  (\A j \in Items \ I : rows'[j] = rows[j]) /\ \A j \in I : rows'[j] = g[j]
      <3>1. /\ c.how \notin Optimistic => \A j \in I : rows[j] = g[j]
            /\ c.how \in Optimistic => rows[i] = c.value /\ c.data[i] = g[i] /\ I = {i}
            /\ c.how = "whole" => \A j \in Items : j # i => c.data[j] = rows[j]
        <4>1. c.how \in Optimistic => c.op = "set"
          BY <1>1, <1>2, ChangeFacts, PageFacts DEF PageOK, Optimistic
        <4>2. c.how \in Optimistic => I = {i}
          BY <1>3, <2>2, <4>1, TouchedFacts
        <4> QED BY <1>2, <2>2, <2>3, <4>2 DEF Tracks
      <3>2. CASE c.how = "whole"
        <4>1. rows' = c.data
          BY <1>2, <3>2 DEF Reverted
        <4> QED BY <2>2, <3>1, <3>2, <4>1 DEF Optimistic
      <3>3. CASE c.how = "row"
        <4>1. rows' = [rows EXCEPT ![i] = IF @ = 0 THEN 0 ELSE c.data[i]]
          BY <1>2, <2>2, <3>3 DEF Reverted
        <4>2. rows[i] # 0
          BY <1>3, <3>1, <3>3 DEF Optimistic, Values
        <4> QED BY <1>3, <3>1, <3>3, <4>1, <4>2 DEF Optimistic, Rows
      <3>4. CASE c.how \notin Optimistic
        <4>1. rows' = rows
          BY <1>2, <3>4 DEF Reverted, Optimistic
        <4> QED BY <3>1, <3>4, <4>1
      <3> QED BY <3>2, <3>3, <3>4 DEF Optimistic
    <2>4. Alters(calls[s]) /\ Touched(calls[s]) = I /\ (failed => failed')
      BY <1>1, <1>2, <2>1, <2>2
    <2>5. past = {} /\ Tracks(calls[s], rows, g) =>
             (\A j \in Items \ I : rows'[j] = rows[j]) /\ \A j \in I : rows'[j] = g[j]
      BY <1>1, <2>3
    <2> QED BY <1>2, <1>4, <2>4, <2>5, ShowRowEnds
  <1> QED BY <1>5, <1>6

LEMMA CleanedIsSensible ==
  ASSUME NEW c \in Call, Sensible(c)
  PROVE  Sensible(Cleaned(c))
  <1>1. CASE page.guarded /\ c.kind = "load"
    <2>1. PICK n : n = [c EXCEPT !.live = FALSE]
      OBVIOUS
    <2>2. n.kind = "load"
      BY <1>1, <2>1, CallFacts
    <2>3. Cleaned(c) = n
      BY <1>1, <2>1 DEF Cleaned
    <2> QED BY <1>1, <2>2, <2>3 DEF Sensible
  <1>2. CASE ~(page.guarded /\ c.kind = "load")
    BY <1>2 DEF Cleaned
  <1> QED BY <1>1, <1>2

(* A load begins, since the page is asked about something else.            *)
LEMMA ShowMoves ==
  ASSUME PageInv, ShowInv, NEW s \in Slots, NEW k \in Keys, Navigate(s, k)
  PROVE  ShowInv'
  <1>1. page' = page /\ server' = server /\ key' = k
    BY DEF Navigate
  <1>2. /\ page.moves \in {"same", "remount"}
        /\ \A r \in Slots : calls[r] \in Call /\ RequestOK(calls[r]) /\ Sensible(calls[r])
    BY PageFacts DEF PageInv, PageOK, Page, ShowInv
  <1>3. CASE page.moves = "same"
    <2>1. PICK others : others = [r \in Slots |-> Cleaned(calls[r])]
      OBVIOUS
    <2>2. StartLoad(s, k, others)
      BY <1>3, <2>1 DEF Navigate
    <2>3. ASSUME NEW r \in Slots
          PROVE  /\ others[r] \in Call /\ Sensible(others[r])
                 /\ others[r].kind = "load" /\ others[r].live =>
                       ~page.guarded /\ page.moves = "same"
      <3>1. others[r] = Cleaned(calls[r])
        BY <2>1
      <3> QED BY <1>2, <1>3, <3>1, CleanedIsOK, CleanedIsSensible
    <2>4. others \in [Slots -> Call]
      BY <2>1, <2>3
    <2> QED BY <1>1, <2>2, <2>3, <2>4, LoadBegins
  <1>4. CASE page.moves = "remount"
    <2>1. PICK others : others = [r \in Slots |-> Unmounted(calls[r])]
      OBVIOUS
    <2>2. StartLoad(s, k, others)
      BY <1>4, <2>1 DEF Navigate
    <2>3. ASSUME NEW r \in Slots
          PROVE  /\ others[r] \in Call /\ Sensible(others[r])
                 /\ others[r].kind # "load"
      <3>1. PICK c : c = calls[r]
        OBVIOUS
      <3>2. c \in Call /\ Sensible(c) /\ others[r] = Unmounted(c)
        BY <1>2, <2>1, <3>1
      <3>3. CASE c.kind = "change" /\ c.state = "sent"
        <4>1. PICK n : n = [c EXCEPT !.live = FALSE]
          OBVIOUS
        <4>2. n \in Call
          BY <3>2, <4>1 DEF Call
        <4>3. n.kind = "change" /\ n.value = c.value
          BY <3>2, <3>3, <4>1, CallFacts
        <4>4. others[r] = n
          BY <3>2, <3>3, <4>1 DEF Unmounted
        <4> QED BY <3>2, <3>3, <4>2, <4>3, <4>4 DEF Sensible
      <3>4. CASE ~(c.kind = "change" /\ c.state = "sent")
        <4>1. others[r] = NoCall /\ NoCall \in Call /\ NoCall.kind = "none"
          BY <3>2, <3>4, AskFacts DEF Unmounted
        <4> QED BY <4>1 DEF Sensible
      <3> QED BY <3>3, <3>4
    <2>4. others \in [Slots -> Call]
      BY <2>1, <2>3
    <2> QED BY <1>1, <2>2, <2>3, <2>4, LoadBegins
  <1> QED BY <1>2, <1>3, <1>4

(* A change is confirmed.                                                  *)
LEMMA ShowConfirms ==
  ASSUME PageInv, ShowInv, NEW s \in Slots, ChangeMade(s)
  PROVE  ShowInv'
  <1>1. PICK c : c = calls[s]
    OBVIOUS
  <1>2. /\ c.kind = "change" /\ c.state = "accepted" /\ c.live
        /\ page' = page /\ key' = key /\ server' = server
    BY <1>1 DEF ChangeMade, Reaches
  <1>3. /\ c.op \in Ops /\ c.item \in Items /\ c.how \in page.how[c.op] /\ c.how \in Effects
        /\ c.key \in Keys /\ c.value \in Values /\ rows \in Rows /\ key \in Keys
        /\ calls \in [Slots -> Call] /\ PageOK(page) /\ c \in Call
    BY <1>1, <1>2, ChangeFacts, PageFacts DEF ShowInv, Sensible
  <1>4. PICK g : g = OnServer(key)
    OBVIOUS
  <1>5. CASE c.how = "reload"
    <2>1. PICK others : others = [r \in Slots |-> Cleaned(calls[r])]
      OBVIOUS
    <2>2. StartLoad(s, key, others)
      BY <1>1, <1>5, <2>1 DEF ChangeMade
    <2>3. ASSUME NEW r \in Slots
          PROVE  /\ others[r] \in Call /\ Sensible(others[r])
                 /\ others[r].kind = "load" /\ others[r].live =>
                       ~page.guarded /\ page.moves = "same"
      <3>1. others[r] = Cleaned(calls[r])
        BY <2>1
      <3>2. calls[r] \in Call /\ RequestOK(calls[r]) /\ Sensible(calls[r])
        BY PageFacts DEF PageInv, ShowInv
      <3>3. page.guarded
        BY <1>3, <1>5 DEF PageOK
      <3> QED BY <3>1, <3>2, <3>3, CleanedIsOK, CleanedIsSensible
    <2>4. others \in [Slots -> Call]
      BY <2>1, <2>3
    <2> QED BY <1>2, <1>3, <2>2, <2>3, <2>4, LoadBegins
  <1>6. ASSUME c.how # "reload"
        PROVE  /\ Alters(c)
               /\ past = {} => /\ c.item[1] = key
                               /\ \A r \in Slots :
                                     /\ ~Overwrites(calls[r])
                                     /\ r # s /\ Alters(calls[r]) =>
                                           Touched(calls[r]) \cap Touched(c) = {}
    <2>1. Alters(c)
      BY <1>2, <1>6 DEF Alters
    <2> QED BY <1>1, <2>1 DEF ShowInv, Apart
  <1>7. CASE c.how = "fetch"
    <2>1. PICK n : n = Ask("fetch", c.key)
      OBVIOUS
    <2>2. n \in Call /\ n.kind = "fetch" /\ n.live /\ n.state = "sent"
      BY <1>3, <2>1, AskFacts
    <2>3. /\ calls' = [calls EXCEPT ![s] = n]
          /\ past' = {} => past = {} /\ \A r \in Slots \ {s} : ~Disturbs(calls[r])
      BY <1>1, <1>7, <2>1 DEF ChangeMade
    <2>4. Sensible(n) /\ Overwrites(n) /\ ~Alters(n)
      BY <2>2 DEF Sensible, Overwrites, Alters
    <2>5. ASSUME past' = {}
          PROVE  Apart(calls', key) /\ Brought(calls', g) /\ ~Settled'
      <3>1. past = {} /\ \A r \in Slots \ {s} : ~Alters(calls[r])
        BY <2>3, <2>5 DEF Disturbs, Alters
      <3>2. Apart(calls, key)
        BY <3>1 DEF ShowInv
      <3>3. Apart(calls', key)
        BY <1>3, <2>2, <2>3, <2>4, <3>1, <3>2, ApartStill
      <3>4. calls'[s] = n /\ \A r \in Slots : r # s => calls'[r] = calls[r]
        BY <1>3, <2>3
      <3>5. \A r \in Slots : r # s => ~Overwrites(calls'[r])
        BY <1>6, <1>7, <3>1, <3>4
      <3> QED BY <2>2, <2>4, <3>3, <3>4, <3>5 DEF Brought, Settled
    <2> QED BY <1>2, <1>4, <2>2, <2>3, <2>4, <2>5, ShowFrame
  <1>8. CASE c.how \in {"edit", "row", "whole"}
    <2>1. /\ Done(s) /\ loaded' = loaded /\ failed' = failed /\ past' = past
          /\ c.how = "whole" => rows' = rows
          /\ c.how # "whole" => rows' = Edited(c)
      BY <1>1, <1>8 DEF ChangeMade
    <2>2. PICK i \in Items, I \in SUBSET Items : i = c.item /\ I = Touched(c)
      BY <1>3, TouchedFacts
    <2>3. ASSUME Tracks(c, rows, g)
          PROVE  (\A j \in Items \ I : rows'[j] = rows[j]) /\ \A j \in I : rows'[j] = g[j]
      <3>1. c.how \in Optimistic => c.op = "set"
        BY <1>3 DEF PageOK, Optimistic
      <3>2. CASE c.op = "remove"
        <4>1. /\ \A j \in I : g[j] = IF j \in Removed(c) THEN 0 ELSE rows[j]
              /\ Removed(c) \subseteq I
          BY <1>2, <1>3, <2>2, <2>3, <3>2, TouchedFacts DEF Tracks
        <4>2. rows' = Edited(c)
          BY <2>1, <3>1, <3>2 DEF Optimistic
        <4>3. \A j \in Items : rows'[j] = IF j \in Removed(c) THEN 0 ELSE rows[j]
          BY <1>3, <3>2, <4>2, EditedFacts
        <4> QED BY <4>1, <4>3
      <3>3. CASE c.op # "remove"
        <4>1. I = {i}
          BY <1>3, <2>2, <3>3, TouchedFacts
        <4>2. /\ g[i] = c.value
              /\ c.how \in Optimistic => rows[i] = c.value
              /\ c.how = "edit" /\ c.op = "set" => rows[i] # 0
          BY <1>2, <2>2, <2>3, <3>3 DEF Tracks
        <4>3. c.op = "set" /\ c.how # "whole" => rows[i] # 0
          BY <1>3, <1>8, <4>2 DEF Optimistic, Values
        <4>4. CASE c.how = "whole"
          BY <2>1, <4>1, <4>2, <4>4 DEF Optimistic
        <4>5. CASE c.how # "whole"
          <5>1. rows' = Edited(c) /\ c.op \in {"add", "set"}
            BY <1>3, <2>1, <3>3, <4>5 DEF Ops
          <5>2. rows'[i] = c.value /\ \A j \in Items : j # i => rows'[j] = rows[j]
            BY <1>3, <2>2, <3>3, <4>3, <4>5, <5>1, EditedFacts
          <5> QED BY <4>1, <4>2, <5>2
        <4> QED BY <4>4, <4>5
      <3> QED BY <3>2, <3>3
    <2>4. Alters(calls[s]) /\ Touched(calls[s]) = I /\ (failed => failed')
      BY <1>1, <1>6, <1>8, <2>1, <2>2
    <2>5. past = {} /\ Tracks(calls[s], rows, g) =>
             (\A j \in Items \ I : rows'[j] = rows[j]) /\ \A j \in I : rows'[j] = g[j]
      BY <1>1, <2>3
    <2> QED BY <1>2, <1>4, <2>1, <2>4, <2>5, ShowRowEnds
  <1>9. CASE c.how = "replace"
    <2>1. /\ Done(s) /\ loaded' = loaded /\ failed' = failed /\ past' = past
          /\ rows' = [NoRows EXCEPT ![c.item] = c.value]
      BY <1>1, <1>9 DEF ChangeMade
    <2>2. /\ page.single /\ ~page.nested /\ c.op = "set"
          /\ \A op \in Ops : \A how \in page.how[op] : how \notin Optimistic
      BY <1>3, <1>9 DEF PageOK, Optimistic
    <2>3. /\ calls'[s].kind = "none"
          /\ \A r \in Slots : r # s => calls'[r] = calls[r]
          /\ calls' = [calls EXCEPT ![s] = NoCall]
      BY <1>3, <2>1, AskFacts DEF Done
    <2>4. ~Renewing(c) /\ ~Overwrites(c) /\ ~Alters(calls'[s])
      BY <1>2, <1>9, <2>3 DEF Renewing, Overwrites, Alters
    <2>5. ASSUME past = {}, Settled'
          PROVE  Follow(calls', rows', g)
      <3>1. Settled
        BY <1>1, <1>2, <1>3, <2>1, <2>3, <2>4, <2>5, SettledBefore
      <3>2. Follow(calls, rows, g)
        BY <1>4, <2>5, <3>1 DEF ShowInv
      <3>3. Tracks(c, rows, g)
        BY <1>1, <1>6, <1>9, <3>2 DEF Follow
      <3>4. g[c.item] = c.value
        BY <1>2, <2>2, <3>3 DEF Tracks
      <3>5. \A j \in Items : g[j] = (IF j[1] = key /\ server[j] \in Values THEN server[j] ELSE 0)
        BY <1>4 DEF OnServer
      <3>6. g[<<key, 2>>] = 0 /\ <<key, 2>> \in Items
        <4>1. server[<<key, 2>>] = 0
          BY <1>3, <2>2 DEF ShowInv, Singular
        <4>2. <<key, 2>> \in Items
          BY <1>3 DEF Items
        <4> QED BY <3>5, <4>1, <4>2
      <3>7. c.item # <<key, 2>>
        BY <1>3, <3>4, <3>6 DEF Values
      <3>8. \A j \in Items : j[1] = key => j \in {c.item, <<key, 2>>}
        <4>1. \A j \in Items : j = <<j[1], j[2]>> /\ j[2] \in {1, 2}
          BY DEF Items
        <4>2. c.item[1] = key
          BY <1>6, <1>9, <2>5
        <4> QED BY <1>3, <3>7, <4>1, <4>2
      <3>9. \A j \in Items : rows'[j] = g[j]
        <4>1. \A j \in Items : rows'[j] = (IF j = c.item THEN c.value ELSE 0)
          BY <1>3, <2>1 DEF NoRows
        <4> QED BY <3>4, <3>5, <3>6, <3>8, <4>1
      <3>10. ASSUME NEW r \in Slots, Alters(calls'[r])
             PROVE  Tracks(calls'[r], rows', g)
        <4>1. PICK d : d = calls[r]
          OBVIOUS
        <4>2. r # s /\ calls'[r] = d /\ Alters(d)
          BY <2>3, <2>4, <3>10, <4>1
        <4>3. Tracks(d, rows, g)
          BY <3>2, <4>1, <4>2 DEF Follow
        <4>4. d.item \in Items /\ d.how \notin Optimistic /\ d.value \in Values
          BY <2>2, <4>1, <4>2, ChangeFacts DEF Alters, ShowInv, Sensible
        <4>5. d.item = <<key, 2>>
          <5>1. d.item[1] = key /\ Touched(d) \cap Touched(c) = {}
            BY <1>1, <1>6, <1>9, <2>5, <4>1, <4>2 DEF ShowInv, Apart
          <5>2. d.item # c.item
            BY <1>3, <4>4, <5>1, TouchedFacts
          <5> QED BY <3>8, <4>4, <5>1, <5>2
        <4>6. ASSUME d.how = "edit", d.op = "set"
              PROVE  FALSE
          <5>1. rows[d.item] # 0 /\ g[d.item] = 0 /\ d.item \in Touched(d)
            BY <3>6, <4>3, <4>4, <4>5, <4>6, TouchedFacts DEF Tracks
          <5> QED BY <4>3, <4>4, <4>6, <5>1 DEF Tracks, Values
        <4>7. rows'[d.item] = g[d.item] /\ d.how # "whole" /\ Touched(d) = {d.item}
          BY <2>2, <3>9, <4>4, TouchedFacts DEF Optimistic
        <4>8. Tracks(d, rows', g)
          BY <2>2, <4>3, <4>4, <4>6, <4>7 DEF Tracks
        <4> QED BY <4>2, <4>8
      <3> QED BY <3>9, <3>10 DEF Follow
    <2> QED BY <1>1, <1>2, <1>4, <2>1, <2>4, <2>5, ShowEnds
  <1> QED BY <1>3, <1>5, <1>7, <1>8, <1>9 DEF Effects

LEMMA ShowSteps ==
  ASSUME PageInv, ShowInv, [PageNext]_pageVars
  PROVE  ShowInv'
  <1>1. CASE PageNext
    <2>1. PICK s \in Slots :
             \/ Serve(s) \/ Lose(s) \/ Answer(s)
             \/ \E k \in Keys : Navigate(s, k)
             \/ \E op \in Ops, i \in Items, v \in Values, how \in Effects :
                   Change(s, op, i, v, how)
      BY <1>1 DEF PageNext
    <2>2. CASE Serve(s) \/ Lose(s)
      BY <2>2, ShowIsServed, ShowIsAnswered DEF Serve
    <2>3. CASE Answer(s)
      BY <2>3, ShowIgnores, ShowArrives, ShowConfirms, ShowReverts DEF Answer
    <2>4. CASE \E k \in Keys : Navigate(s, k)
      BY <2>4, ShowMoves
    <2>5. CASE \E op \in Ops, i \in Items, v \in Values, how \in Effects :
                  Change(s, op, i, v, how)
      BY <2>5, ShowChanges
    <2> QED BY <2>1, <2>2, <2>3, <2>4, <2>5
  <1>2. CASE UNCHANGED pageVars
    <2>1. /\ page' = page /\ key' = key /\ rows' = rows /\ loaded' = loaded
          /\ failed' = failed /\ server' = server /\ calls' = calls /\ past' = past
      BY <1>2 DEF pageVars
    <2>2. \A k : OnServer(k)' = OnServer(k)
      BY <2>1, SameServer
    <2>3. Singular' /\ \A s \in Slots : Sensible(calls[s])'
      <3>1. ASSUME NEW s \in Slots
            PROVE  Sensible(calls[s])'
        <4>1. PICK c : c = calls[s]
          OBVIOUS
        <4>2. Sensible(c) /\ c = calls'[s] /\ OnServer(c.key)' = OnServer(c.key)
          BY <2>1, <2>2, <4>1 DEF ShowInv
        <4> QED BY <2>1, <4>2 DEF Sensible
      <3> QED BY <2>1, <3>1 DEF ShowInv, Singular
    <2>4. PICK g : g = OnServer(key) /\ g = OnServer(key)'
      BY <2>1, <2>2
    <2>5. Settled' <=> Settled
      BY <2>1 DEF Settled
    <2>6. past = {} => /\ Apart(calls, key) /\ Brought(calls, g)
                       /\ Settled => Follow(calls, rows, g)
      BY <2>4 DEF ShowInv
    <2>7. past' = {} => /\ Apart(calls', key') /\ Brought(calls', g)
                        /\ Settled' => Follow(calls', rows', g)
      BY <2>1, <2>5, <2>6
    <2>8. /\ Apart(calls, key)' <=> Apart(calls', key')
          /\ Follow(calls, rows, g)' <=> Follow(calls', rows', g)
      BY <2>1, SamePage
    <2> QED BY <2>3, <2>4, <2>7, <2>8 DEF ShowInv
  <1> QED BY <1>1, <1>2

LEMMA ShowHolds ==
  PageSpec => [](PageInv /\ ShowInv)
  <1>1. PageInit => PageInv /\ ShowInv
    BY PageStarts, ShowStarts
  <1>2. PageInv /\ ShowInv /\ [PageNext]_pageVars => PageInv' /\ ShowInv'
    BY PageSteps, ShowSteps
  <1> QED BY <1>1, <1>2, PTL DEF PageSpec

(* A page at rest shows what the server has, for any number of keys,       *)
(* navigations, changes and requests under way, unless an answer was lost  *)
(* or came for another key, a change overlapped with a load or with        *)
(* another change of a row it may reach, or a task was deleted below a     *)
(* deleted one by way of one the backlog does not list                     *)
(* (tasks/service.py:113-142, ProjectsBacklogPage.tsx:55-69).              *)
THEOREM PageShowsServer ==
  PageSpec => []ShowsServer
  <1>1. PageInv /\ ShowInv => ShowsServer
    <2> SUFFICES ASSUME PageInv, ShowInv, \A s \in Slots : Free(s), Showing, past = {}
                 PROVE  rows = OnServer(key)
      BY DEF ShowsServer
    <2>1. \A s \in Slots : calls[s].kind = "none"
      BY DEF Free
    <2>2. Settled /\ \A s \in Slots : ~Alters(calls[s])
      BY <2>1 DEF Settled, Showing, Loading, Overwrites, Renewing, Alters
    <2>3. PICK g : g = OnServer(key)
      OBVIOUS
    <2>4. Follow(calls, rows, g)
      BY <2>2, <2>3 DEF ShowInv
    <2>5. \A i \in Items : rows[i] = g[i]
      BY <2>2, <2>4 DEF Follow
    <2>6. rows \in Rows /\ g \in Rows
      BY <2>3, OnServerFacts, PageFacts
    <2>7. rows = g
      BY <2>5, <2>6 DEF Rows
    <2> QED BY <2>3, <2>7
  <1> QED BY <1>1, ShowHolds, PTL
=============================================================================
