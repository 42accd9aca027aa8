--------------------------------- MODULE SignIn ---------------------------------
(***************************************************************************)
(* Signing in with GitHub, the session and CSRF cookies, and the redirects *)
(* of a browser between the pages (pkg/server/handler_auth.go,             *)
(* handler_pages.go, pkg/middleware/auth.go, csrf.go, pkg/tenant/session.go *)
(* and pkg/oauth).  One browser has several tabs and one jar of cookies.   *)
(* A request carries the cookies of the moment it is sent, and its answer  *)
(* changes them at the moment it arrives: between the two, the other tabs  *)
(* go on.                                                                  *)
(*                                                                         *)
(* Tokens, states and codes are random: an id that occurs nowhere any more *)
(* may be taken again.                                                     *)
(***************************************************************************)
EXTENDS Integers, FiniteSets

CONSTANTS
  Tabs,
  Ids,       \* bound: ids there may be at a time
  MaxVisits, \* bound: what the user, the administrator and time do
  MaxFaults  \* bound: calls of GitHub and the store that fail

ASSUME SignInAssumption == 0 \notin Ids /\ MaxVisits \in Nat /\ MaxFaults \in Nat

VARIABLES
  jar,      \* the cookies: oauth_state, session, csrf
  tab,      \* what each tab shows or loads
  sessions, \* devtrace_session: rows that have not expired
  used,     \* codes GitHub has exchanged
  account,  \* "absent", "active" or "suspended"
  terms,    \* whether the account has accepted the terms of service
  rotated,    \* history: an admin page, with a token of its own, was served
  raced,    \* history: two pages were requested without a CSRF cookie
  visits,
  faults

signInVars ==
  <<jar, tab, sessions, used, account, terms, rotated, raced, visits, faults>>

None == 0
Pages == {"landing", "tos", "dashboard", "settings", "admin"}
Forms == {"signout", "accept"}

\* What a tab may be at: a page it shows, a request under way with the cookies
\* and the form token it carries, or the answer to one.
At(url) == [url |-> url, state |-> None, code |-> None]
Callback(state, code) == [url |-> "callback", state |-> state, code |-> code]
Shown(page, form) == [at |-> "shown", page |-> page, form |-> form]

Under(t) == tab[t].at \in {"sent", "answered"}

\* The ids in cookies, forms, requests and answers.
IdsOf(t) ==
  CASE tab[t].at = "shown"    -> {tab[t].form}
    [] tab[t].at = "github"   -> {tab[t].state}
    [] tab[t].at = "sent"     -> {tab[t].to.state, tab[t].to.code, tab[t].form,
                                  tab[t].jar.state, tab[t].jar.session,
                                  tab[t].jar.csrf}
    [] tab[t].at = "answered" -> {tab[t].next.state, tab[t].next.code,
                                  tab[t].form, tab[t].to.state, tab[t].to.code}
                                 \cup {tab[t].sets[k] : k \in DOMAIN tab[t].sets}
InUse == {jar.state, jar.session, jar.csrf} \cup UNION {IdsOf(t) : t \in Tabs}
\* What a random id is: one that occurs nowhere, and they are all alike.
FreshIds ==
  LET taken == InUse \cup sessions
  IN  IF Ids \subseteq taken THEN {} ELSE {CHOOSE i \in Ids : i \notin taken}

Visit == visits < MaxVisits /\ visits' = visits + 1
Fault == faults < MaxFaults /\ faults' = faults + 1

-----------------------------------------------------------------------------
(* The browser *)

Send(t, to, form) ==
  tab' = [tab EXCEPT ![t] = [at |-> "sent", to |-> to, form |-> form, jar |-> jar]]

\* Pages that InjectCSRF wraps and whose first request there is under way.
NewToken(to, cookies) ==
  to.url \in {"tos", "dashboard", "settings"} /\ cookies.csrf = None
Race(t, to) ==
  raced \/ /\ NewToken(to, jar)
           /\ \E u \in {v \in Tabs \ {t} : Under(v)} :
                IF tab[u].at = "sent" THEN NewToken(tab[u].to, tab[u].jar)
                                      ELSE "csrf" \in DOMAIN tab[u].sets

\* The user opens a page; a load under way is given up, answered or not.
Open(t, page) ==
  /\ Visit
  /\ Send(t, At(page), None)
  /\ raced' = Race(t, At(page))
  /\ UNCHANGED <<jar, sessions, used, account, terms, rotated, faults>>

\* A double click on GitHub's page: the callback is requested once more.
Again(t) ==
  /\ Visit
  /\ tab[t].at = "answered" /\ tab[t].to.url = "callback"
  /\ Send(t, tab[t].to, None)
  /\ UNCHANGED <<jar, sessions, used, account, terms, rotated, raced, faults>>

\* A form of the page that is shown is posted with its token.
Submit(t, form) ==
  /\ Visit
  /\ tab[t].at = "shown"
  /\ form = "accept" => tab[t].page = "tos"
  /\ form = "signout" => tab[t].page # "landing"
  /\ Send(t, At(form), tab[t].form)
  /\ UNCHANGED <<jar, sessions, used, account, terms, rotated, raced, faults>>

\* The answer sets its cookies and the tab goes where it says.  The script of a
\* page copies the CSRF cookie into its forms, but for those the server has
\* filled in.
Receive(t) ==
  LET a == tab[t]
      cookies == [k \in DOMAIN jar |->
                    IF k \in DOMAIN a.sets THEN a.sets[k] ELSE jar[k]]
  IN  /\ a.at = "answered"
      /\ jar' = cookies
      /\ tab' = [tab EXCEPT ![t] =
           CASE a.shown -> Shown(a.next.url, IF a.form = None THEN cookies.csrf
                                                            ELSE a.form)
             [] a.next.url = "github" -> [at |-> "github", state |-> a.next.state]
             [] OTHER -> [at |-> "sent", to |-> a.next, form |-> None,
                          jar |-> cookies]]
      /\ raced' = (raced \/ (~a.shown /\ cookies.csrf = None /\ Race(t, a.next)))
      /\ used' = {c \in used : \E u \in Tabs : Under(u) /\ tab[u].to.code = c}
      /\ UNCHANGED <<sessions, account, terms, rotated, visits, faults>>

\* GitHub asks nothing of a user who has authorised the application before: it
\* sends the browser back with a code.
Authorize(t) ==
  /\ tab[t].at = "github"
  /\ \E code \in FreshIds : Send(t, Callback(tab[t].state, code), None)
  /\ UNCHANGED <<jar, sessions, used, account, terms, rotated, raced, visits, faults>>

-----------------------------------------------------------------------------
(* The server *)

\* An answer: cookies to set, where to go next, and whether that is a page that
\* comes with it, with a token in its forms or not.
Reply(t, sets, next, shown, form) ==
  tab' = [tab EXCEPT ![t] =
    [at |-> "answered", to |-> tab[t].to, sets |-> sets, next |-> next,
     shown |-> shown, form |-> form]]
Show(t, sets, page, form) == Reply(t, sets, At(page), TRUE, form)
Redirect(t, sets, url) == Reply(t, sets, At(url), FALSE, None)

Kept == [k \in {} |-> None]
Cleared == [k \in {"session"} |-> None]
Signed(t) == tab[t].jar.session \in sessions

\* clearAndRedirect
\* ClearAndRedirect_Retries is a seeded fault: a failed sign-in starts another.
ClearAndRedirect_Retries(t) ==
  Redirect(t, [k \in {"state", "session"} |-> None], "start")
ClearAndRedirect(t) ==
  Redirect(t, [k \in {"state", "session"} |-> None], "landing")

\* InjectCSRF keeps a token the browser has.
\* InjectCSRF_Rotates is a seeded fault: every page gets a token of its own.
InjectCSRF_Rotates(t, token) == token \in FreshIds
InjectCSRF(t, token) ==
  IF tab[t].jar.csrf # None THEN token = tab[t].jar.csrf ELSE token \in FreshIds

ShowWithToken(t, page) ==
  \E token \in Ids :
    /\ InjectCSRF(t, token)
    /\ Show(t, IF token = tab[t].jar.csrf THEN Kept ELSE [k \in {"csrf"} |-> token],
            page, IF page = "settings" THEN token ELSE None)

\* RequireAuth: without a session, or suspended, the user is sent to sign in.
RequireAuth(t) == Signed(t) /\ account = "active"
TurnedAway(t) ==
  Redirect(t, IF tab[t].jar.session = None THEN Kept ELSE Cleared, "start")

Handle(t, urls) == tab[t].at = "sent" /\ tab[t].to.url \in urls

\* The landing page and the terms take any user but a suspended one, whom
\* RequireAnyAuth answers 403 (a page like the landing page here).
LandingHandler(t) ==
  /\ Handle(t, {"landing"})
  /\ IF RequireAuth(t) THEN Redirect(t, Kept, "dashboard")
                       ELSE Show(t, Kept, "landing", None)
  /\ UNCHANGED <<jar, sessions, used, account, terms, rotated, raced, visits, faults>>

TosPageHandler(t) ==
  /\ Handle(t, {"tos"})
  /\ IF Signed(t) /\ account = "suspended" THEN Show(t, Kept, "landing", None)
     ELSE ShowWithToken(t, "tos")
  /\ UNCHANGED <<jar, sessions, used, account, terms, rotated, raced, visits, faults>>

DashboardHandler(t) ==
  /\ Handle(t, {"dashboard", "settings"})
  /\ IF RequireAuth(t) THEN ShowWithToken(t, tab[t].to.url) ELSE TurnedAway(t)
  /\ UNCHANGED <<jar, sessions, used, account, terms, rotated, raced, visits, faults>>

\* Admin pages make a token for every request; other users find nothing.
AdminDashboardHandler(t) ==
  /\ Handle(t, {"admin"})
  /\ \/ /\ Signed(t)
        /\ \E token \in FreshIds : Show(t, [k \in {"csrf"} |-> token], "admin", token)
        /\ rotated' = TRUE
     \/ Show(t, Kept, "landing", None) /\ UNCHANGED rotated
  /\ UNCHANGED <<jar, sessions, used, account, terms, raced, visits, faults>>

OauthStartHandler(t) ==
  /\ Handle(t, {"start"})
  /\ \E state \in FreshIds :
       Reply(t, [k \in {"state"} |-> state],
             [url |-> "github", state |-> state, code |-> None], FALSE, None)
  /\ UNCHANGED <<jar, sessions, used, account, terms, rotated, raced, visits, faults>>

SetSessionCookie(s) ==
  [k \in {"state", "session"} |-> IF k = "session" THEN s ELSE None]

\* oauthCallbackHandler: GitHub exchanges a code once.
OauthCallbackHandler(t) ==
  LET to == tab[t].to
  IN  /\ Handle(t, {"callback"})
      /\ \/ /\ to.state # tab[t].jar.state
            /\ ClearAndRedirect(t)
            /\ UNCHANGED <<sessions, used, account, terms, faults>>
         \/ /\ to.state = tab[t].jar.state
            /\ \/ to.code \in used /\ UNCHANGED faults
               \/ to.code \notin used /\ Fault
            /\ IF Signed(t) THEN Redirect(t, [k \in {"state"} |-> None], "dashboard")
                            ELSE ClearAndRedirect(t)
            /\ UNCHANGED <<sessions, used, account, terms>>
         \/ /\ to.state = tab[t].jar.state /\ to.code \notin used
            /\ used' = used \cup {to.code}
            /\ \/ Fault /\ ClearAndRedirect(t) /\ UNCHANGED <<sessions, account, terms>>
               \/ \E s \in FreshIds :
                    /\ sessions' = sessions \cup {s}
                    /\ account' = IF account = "absent" THEN "active" ELSE account
                    /\ Redirect(t, SetSessionCookie(s),
                                IF terms THEN "dashboard" ELSE "tos")
                    /\ UNCHANGED <<terms, faults>>
      /\ UNCHANGED <<jar, rotated, raced, visits>>

\* ValidateCSRF: the form's token against the cookie's.
ValidateCSRF(t) == tab[t].form # None /\ tab[t].form = tab[t].jar.csrf

SignoutHandler(t) ==
  /\ Handle(t, {"signout"})
  /\ \/ ~RequireAuth(t) /\ TurnedAway(t) /\ UNCHANGED <<sessions, faults>>
     \/ /\ RequireAuth(t) /\ ~ValidateCSRF(t)
        /\ Show(t, Kept, "landing", None) /\ UNCHANGED <<sessions, faults>>
     \/ /\ RequireAuth(t) /\ ValidateCSRF(t)
        /\ Redirect(t, Cleared, "landing")
        /\ \/ sessions' = sessions \ {tab[t].jar.session} /\ UNCHANGED faults
           \/ Fault /\ UNCHANGED sessions
  /\ UNCHANGED <<jar, used, account, terms, rotated, raced, visits>>

TosAcceptHandler(t) ==
  /\ Handle(t, {"accept"})
  /\ \/ ~RequireAuth(t) /\ TurnedAway(t) /\ UNCHANGED <<terms, faults>>
     \/ /\ RequireAuth(t) /\ ~ValidateCSRF(t)
        /\ Show(t, Kept, "landing", None) /\ UNCHANGED <<terms, faults>>
     \/ /\ RequireAuth(t) /\ ValidateCSRF(t)
        /\ \/ terms' = TRUE /\ Redirect(t, Kept, "dashboard") /\ UNCHANGED faults
           \/ Fault /\ Show(t, Kept, "landing", None) /\ UNCHANGED terms
  /\ UNCHANGED <<jar, sessions, used, account, rotated, raced, visits>>

\* A session's time is over, or the administrator acts; the sessions of a
\* tenant go with its row.
Expire ==
  /\ Visit
  /\ \E s \in sessions : sessions' = sessions \ {s}
  /\ UNCHANGED <<jar, tab, used, account, terms, rotated, raced, faults>>

Administer ==
  /\ Visit /\ account # "absent"
  /\ \/ /\ account' = IF account = "active" THEN "suspended" ELSE "active"
        /\ UNCHANGED <<sessions, terms>>
     \/ account' = "absent" /\ sessions' = {} /\ terms' = FALSE
  /\ UNCHANGED <<jar, tab, used, rotated, raced, faults>>

-----------------------------------------------------------------------------

SignInInit ==
  /\ jar = [k \in {"state", "session", "csrf"} |-> None]
  /\ tab = [t \in Tabs |-> Shown("landing", None)]
  /\ sessions = {} /\ used = {} /\ account = "absent" /\ terms = FALSE
  /\ rotated = FALSE /\ raced = FALSE /\ visits = 0 /\ faults = 0

User(t) ==
  \/ \E page \in Pages \cup {"start"} : Open(t, page)
  \/ \E form \in Forms : Submit(t, form)
  \/ Again(t)

Server(t) ==
  \/ LandingHandler(t) \/ TosPageHandler(t) \/ DashboardHandler(t)
  \/ AdminDashboardHandler(t) \/ OauthStartHandler(t) \/ OauthCallbackHandler(t)
  \/ SignoutHandler(t) \/ TosAcceptHandler(t)

SignInNext ==
  \/ \E t \in Tabs : User(t) \/ Server(t) \/ Receive(t) \/ Authorize(t)
  \/ Expire \/ Administer

\* Requests are answered, and answers arrive.
SignInFairness ==
  \A t \in Tabs : WF_signInVars(Server(t)) /\ WF_signInVars(Receive(t) \/ Authorize(t))

SignInSpec == SignInInit /\ [][SignInNext]_signInVars /\ SignInFairness

-----------------------------------------------------------------------------
(* Properties *)

\* Cookies, requests and answers hold ids, and the sessions there are belong to
\* an account there is.
SignInTypeOK ==
  /\ jar \in [{"state", "session", "csrf"} -> Ids \cup {None}]
  /\ \A t \in Tabs :
       /\ tab[t].at \in {"shown", "sent", "answered", "github"}
       /\ IdsOf(t) \subseteq Ids \cup {None}
       /\ tab[t].at = "shown" => tab[t].page \in Pages
       /\ tab[t].at = "answered" => DOMAIN tab[t].sets \subseteq DOMAIN jar
  /\ sessions \subseteq Ids /\ used \subseteq Ids
  /\ account \in {"absent", "active", "suspended"}
  /\ account = "absent" => sessions = {} /\ ~terms
  /\ {terms, rotated, raced} \subseteq BOOLEAN
  /\ visits \in 0..MaxVisits /\ faults \in 0..MaxFaults

\* "Reuse keeps tokens stable for the session" (csrf.go): a form in any tab
\* stays acceptable however pages, sign-ins and sign-outs of the other tabs
\* overlap.  Two things break it in the code and are excepted: an admin page,
\* which makes a new token whenever it is opened, and first pages requested
\* together, each of which gets a token of its own.  (And the state has its type.)
FormsStayValid ==
  /\ SignInTypeOK
  /\ rotated \/ raced \/
       \A t \in Tabs : tab[t].at = "shown" /\ tab[t].form # None
                        => tab[t].form = jar.csrf

\* The redirects of a load end in a page (RequireAuth, oauthStartHandler,
\* oauthCallbackHandler), unless the account stays suspended: then RequireAuth
\* sends the user to GitHub and the callback sends them back for ever.
LoadsEnd ==
  <>[](account # "suspended") =>
    \A t \in Tabs : tab[t].at # "shown" ~> tab[t].at = "shown"

=============================================================================
