------------------------------ MODULE WebPages -------------------------------
(***************************************************************************)
(* The pages and forms of apps/web in the tabs of one browser, which share  *)
(* its cookies: the layout that guards the application's pages, the links   *)
(* that are mailed, and where each form goes with its answer.               *)
(*                                                                         *)
(* What the flows do to accounts is in Accounts, how organizations get      *)
(* their slugs in Organizations; a request is one action here.  Next keeps  *)
(* the layout a tab has when a link leads to another page under it, and     *)
(* renders it anew on a load, a refresh, and with the answer of an action   *)
(* that changed cookies.  Nothing here can leave a page that is loading.    *)
(***************************************************************************)
EXTENDS Naturals, FiniteSets

CONSTANTS
    Tabs,
    People,             \* accounts that use the browser
    Nobody,
    Next_,              \* what a link may have for its parameter next
    MaxOrganizations,   \* bound: organizations of one account
    MaxLinks,           \* bound: mailed links that wait to be used
    RateLimited         \* Upstash is configured

App == {"/orgs", "/orgs/new", "/onboarding/first-org", "/dashboard",
        "/account/change-password", "/account/change-email"}
Public == {"/", "/login", "/login?confirm=invalid", "/signup", "/check-email",
           "/forgot-password", "/forgot-password?reset=invalid", "/reset-password"}
Urls == App \cup Public
Paths == Urls \cup {"/no-such-page"}
Elsewhere == "elsewhere"   \* any page of another site
Places == Paths \cup {Elsewhere}

ASSUME WebPagesAssumption ==
    /\ Nobody \notin People
    /\ Next_ \subseteq Paths \cup {"", "https://elsewhere", "//elsewhere", "/\\elsewhere"}
    /\ MaxOrganizations \in Nat /\ MaxLinks \in Nat /\ RateLimited \in BOOLEAN

VARIABLES
    session,   \* whose session the cookies of each origin are
    count,     \* the organizations of each account
    links,     \* mailed links that have not been used
    tab,       \* what each tab is at
    changed    \* observed: whose link led to a password, and whose it became

pagesVars == <<session, count, links, tab, changed>>

Origins == {"public", "internal"}   \* the proxy's, and that of req.url
Types == {"signup", "recovery", "email_change"}
Reader == People \cup {Nobody}

\* kept: the next page under (app) comes without its layout.  reader: as whom
\* the page was rendered.  came: whose link led here and what it asked for, if
\* nothing has been done since, here or to the session.  unguarded: the session
\* was changed elsewhere after the layout was rendered.
NoLink == [of |-> Nobody, to |-> "in"]
Came == [of : Reader, to : Paths \cup {"in"}]
NewTab(url) ==
    [origin |-> "public", at |-> url, doc |-> "loading", kept |-> FALSE, pending |-> "none",
     reader |-> Nobody, came |-> NoLink, unguarded |-> FALSE]

PagesTypeOK ==
    /\ session \in [Origins -> Reader]
    /\ count \in [People -> 0 .. MaxOrganizations]
    /\ links \subseteq [of : People, type : Types]
    /\ tab \in [Tabs -> [origin : Origins, at : Places,
                         doc : {"loading", "page", "error", "limited"},
                         kept : BOOLEAN, pending : {"none", "routing", "leaving"},
                         reader : Reader, came : Came, unguarded : BOOLEAN]]
    /\ changed \subseteq People \X People

PagesInit ==
    /\ session = [o \in Origins |-> Nobody]
    /\ count = [p \in People |-> 0]
    /\ links = {} /\ changed = {}
    /\ tab = [t \in Tabs |-> NewTab("/")]

-----------------------------------------------------------------------------
(* Rendering.                                                               *)

Shown(t) == tab[t].doc # "loading"
On(t, urls) == tab[t].doc = "page" /\ tab[t].at \in urls /\ tab[t].pending = "none"
Mine(t) == session[tab[t].origin]

Load(t, url) == tab' = [tab EXCEPT ![t] = [NewTab(url) EXCEPT !.origin = tab[t].origin]]

\* The page is asked for with its layouts, or with those it has not got.
Refresh(t, pending) ==
    tab' = [tab EXCEPT ![t].doc = "loading", ![t].kept = FALSE, ![t].pending = pending,
                       ![t].came = NoLink]
Link(t, url) ==
    tab' = [tab EXCEPT ![t].at = url, ![t].doc = "loading", ![t].kept = @ /\ url \in App,
                       ![t].came = NoLink]

\* Deviation: the pages are left to guard themselves.
NoGuard(t) == tab[t].origin \in Origins

AppLayout(t) == tab[t].kept \/ Mine(t) # Nobody

\* memberships may not be read by the role anon.
getMyOrganizations(t) == Mine(t) # Nobody
OrgPickerPage(t) == getMyOrganizations(t)
Dashboard(t) == getMyOrganizations(t)   \* the OrgSwitcher of it

\* Pages that render the same for everyone.
Static(t) == tab[t].at \notin {"/orgs", "/dashboard"}

Serve(t) ==
    /\ tab[t].doc = "loading"
    /\ \/ /\ tab[t].at \in App /\ ~ AppLayout(t)
          /\ tab' = [tab EXCEPT ![t] = [NewTab("/login") EXCEPT
                                                !.origin = tab[t].origin,
                                                !.pending = tab[t].pending,
                                                !.came = tab[t].came]]
       \/ /\ tab[t].at \in App => AppLayout(t)
          /\ LET renders == \/ Static(t)
                            \/ tab[t].at = "/orgs" /\ OrgPickerPage(t)
                            \/ tab[t].at = "/dashboard" /\ Dashboard(t)
             IN tab' = [tab EXCEPT ![t].doc = IF renders THEN "page" ELSE "error",
                                   ![t].reader = IF tab[t].at \in App THEN Mine(t) ELSE Nobody,
                                   ![t].kept = tab[t].at \in App /\ renders,
                                   ![t].unguarded = @ /\ tab[t].kept]
    /\ UNCHANGED <<session, count, links, changed>>

\* The session of tab t's origin becomes p's; the other tabs learn nothing.
Become(t, p, mine) ==
    /\ session' = [session EXCEPT ![tab[t].origin] = p]
    /\ tab' = [u \in Tabs |->
                 IF u = t THEN mine
                 ELSE IF tab[u].origin # tab[t].origin THEN tab[u]
                 ELSE [tab[u] EXCEPT !.came = NoLink, !.unguarded = @ \/ tab[u].kept]]

-----------------------------------------------------------------------------
(* Going about.                                                             *)

\* By its address.
Visit(t, url) ==
    /\ Shown(t) /\ Load(t, url)
    /\ UNCHANGED <<session, count, links, changed>>

\* What a page has for this model is the links on it.
Marketing == {"/login", "/signup"}
LoginPage(invalid) == {"/forgot-password"} \cup IF invalid THEN {"/check-email"} ELSE {}
SignUpPage == {"/login"}
CheckEmailPage == {"/signup", "/login"}
ForgotPasswordPage == {"/login"}
ResetPasswordPage == {"/forgot-password"}
ChangePasswordPage == {"/forgot-password"}
ChangeEmailPage == {"/forgot-password"}
NewOrgPage == {}
FirstOrgOnboarding == {}
OrgSwitcher == {"/dashboard", "/orgs/new"}
OrgPickerLinks == {"/dashboard", "/orgs/new"}
LinksOf(at) ==
    CASE at = "/" -> Marketing
      [] at = "/login" -> LoginPage(FALSE)
      [] at = "/login?confirm=invalid" -> LoginPage(TRUE)
      [] at = "/signup" -> SignUpPage
      [] at = "/check-email" -> CheckEmailPage
      [] at \in {"/forgot-password", "/forgot-password?reset=invalid"} -> ForgotPasswordPage
      [] at = "/reset-password" -> ResetPasswordPage
      [] at = "/account/change-password" -> ChangePasswordPage
      [] at = "/account/change-email" -> ChangeEmailPage
      [] at = "/orgs/new" -> NewOrgPage
      [] at = "/onboarding/first-org" -> FirstOrgOnboarding
      [] at = "/orgs" -> OrgPickerLinks
      [] at = "/dashboard" -> OrgSwitcher
      [] OTHER -> {}
Follow(t, url) ==
    /\ tab[t].doc = "page" /\ tab[t].pending = "none"
    /\ url \in LinksOf(tab[t].at)
    /\ url = "/dashboard" => tab[t].reader # Nobody /\ count[tab[t].reader] > 0
    /\ Link(t, url)
    /\ UNCHANGED <<session, count, links, changed>>

\* The session ran out, or was revoked from another browser.
SessionEnds(o) ==
    /\ session[o] # Nobody
    /\ session' = [session EXCEPT ![o] = Nobody]
    /\ tab' = [u \in Tabs |-> IF tab[u].origin # o THEN tab[u]
                              ELSE [tab[u] EXCEPT !.came = NoLink, !.unguarded = @ \/ tab[u].kept]]
    /\ UNCHANGED <<count, links, changed>>

-----------------------------------------------------------------------------
(* The forms.  One whose action is refused shows the error, and stays.       *)

\* loginAction, and then routeAfterLoginAction, which is a second request.
LoginForm(t, p) ==
    /\ On(t, {"/login", "/login?confirm=invalid"})
    /\ Become(t, p, [tab[t] EXCEPT !.pending = "routing", !.came = NoLink])
    /\ UNCHANGED <<count, links, changed>>

destinationForOrganizations(n) ==
    IF n = 0 THEN "/onboarding/first-org" ELSE IF n = 1 THEN "/dashboard" ELSE "/orgs"

\* The policy on memberships shows those of the other members as well.
RowsShown(n) == IF n = 0 THEN {0} ELSE {n, n + 1}

\* It throws when the session has gone meanwhile: the form is there again.
routeAfterLoginAction(t) ==
    /\ tab[t].pending = "routing"
    /\ \/ /\ getMyOrganizations(t)
          /\ \E rows \in RowsShown(count[Mine(t)]) :
                Load(t, destinationForOrganizations(rows))
       \/ /\ ~ getMyOrganizations(t)
          /\ tab' = [tab EXCEPT ![t].pending = "none"]
    /\ UNCHANGED <<session, count, links, changed>>

Mailed(type, p) ==
    /\ links' = links \cup {[of |-> p, type |-> type]}
    /\ Cardinality(links') <= MaxLinks

SignUpForm(t, p) ==
    /\ On(t, {"/signup"})
    /\ Mailed("signup", p) /\ Link(t, "/check-email")
    /\ UNCHANGED <<session, count, changed>>

\* On /check-email, and on the login form for who has not confirmed.
ResendVerificationButton(t, p) ==
    /\ On(t, {"/check-email", "/login", "/login?confirm=invalid"})
    /\ Mailed("signup", p)
    /\ UNCHANGED <<session, count, tab, changed>>

ForgotPasswordForm(t, p) ==
    /\ On(t, {"/forgot-password", "/forgot-password?reset=invalid"})
    /\ Mailed("recovery", p)
    /\ UNCHANGED <<session, count, tab, changed>>

\* Without a session, the way back to ask for a link.
ResetPasswordForm(t) ==
    /\ On(t, {"/reset-password"})
    /\ \/ /\ Mine(t) # Nobody
          /\ changed' = IF tab[t].came = NoLink THEN changed
                        ELSE changed \cup {<<tab[t].came.of, Mine(t)>>}
          /\ Link(t, "/orgs")
       \/ /\ Mine(t) = Nobody
          /\ Link(t, "/forgot-password")
          /\ UNCHANGED changed
    /\ UNCHANGED <<session, count, links>>

\* The change signs in anew, and the page is refreshed after it.
ChangePasswordForm(t) ==
    /\ On(t, {"/account/change-password"}) /\ Mine(t) # Nobody
    /\ Refresh(t, "none")
    /\ UNCHANGED <<session, count, links, changed>>
ChangeEmailForm(t) ==
    /\ On(t, {"/account/change-email"}) /\ Mine(t) # Nobody
    /\ Mailed("email_change", Mine(t)) /\ Refresh(t, "none")
    /\ UNCHANGED <<session, count, changed>>

CreateOrganizationForm(t) ==
    /\ On(t, {"/orgs/new", "/onboarding/first-org"}) /\ Mine(t) # Nobody
    /\ count[Mine(t)] < MaxOrganizations
    /\ count' = [count EXCEPT ![Mine(t)] = @ + 1]
    /\ Load(t, "/dashboard")
    /\ UNCHANGED <<session, links, changed>>

\* The answer of logoutAction has the page rendered anew, as the cookies are
\* gone; after it the button goes to /login.
SignOutButton(t) ==
    /\ On(t, {"/dashboard"})
    /\ Become(t, Nobody, [tab[t] EXCEPT !.doc = "loading", !.kept = FALSE,
                                        !.pending = "leaving", !.came = NoLink])
    /\ UNCHANGED <<count, links, changed>>
SignedOut(t) ==
    /\ tab[t].pending = "leaving" /\ Shown(t)
    /\ Load(t, "/login")
    /\ UNCHANGED <<session, count, links, changed>>

-----------------------------------------------------------------------------
(* GET /auth/confirm, in whichever tab the mail program opens it.           *)

\* Deviation: the origin of req.url.
requestOrigin == "internal"

\* x-forwarded-host, which the proxy sets.
publicOrigin == "public"

sanitizeNext(next) == IF next \in {"https://elsewhere", "//elsewhere"} THEN "" ELSE next

\* new URL, which takes a backslash for a slash.
newURL(path) ==
    IF path \in {"https://elsewhere", "//elsewhere", "/\\elsewhere"} THEN Elsewhere ELSE path
destination(type, next) ==
    IF type = "recovery" THEN "/reset-password"
    ELSE IF sanitizeNext(next) # "" THEN sanitizeNext(next) ELSE "/orgs"

\* Observed: the page a link is for, where its text names one of this site.
LedBy(link, next) ==
    [of |-> link.of, to |-> IF link.type = "recovery" THEN "/reset-password"
                            ELSE IF next \in Paths THEN next ELSE "in"]

redirectInvalid(type) ==
    IF type = "recovery" THEN "/forgot-password?reset=invalid" ELSE "/login?confirm=invalid"

At(path) == [NewTab(newURL(path)) EXCEPT !.origin = publicOrigin]

\* Deviation: who is signed in stays so.
KeepSession(t, link, next) ==
    LET mine == At(destination(link.type, next)) IN
    /\ links' = links \ {link}
    /\ \/ /\ session["public"] = Nobody
          /\ session' = [session EXCEPT !["public"] = link.of]
       \/ session["public"] # Nobody /\ UNCHANGED session
    /\ tab' = [tab EXCEPT ![t] = [mine EXCEPT !.came = LedBy(link, next)]]

\* The proxy forwards what the browser sends to the public origin.  A link of
\* an email change opens a session when it is the last of the two.
Verified(t, link, next) ==
    LET mine == At(destination(link.type, next)) IN
    /\ links' = links \ {link}
    /\ \/ /\ session' = [session EXCEPT !["public"] = link.of]
          /\ tab' = [u \in Tabs |->
                       IF u = t THEN [mine EXCEPT !.came = LedBy(link, next)]
                       ELSE IF tab[u].origin # "public" THEN tab[u]
                       ELSE [tab[u] EXCEPT !.came = NoLink, !.unguarded = @ \/ tab[u].kept]]
       \/ /\ link.type = "email_change"
          /\ tab' = [tab EXCEPT ![t] = mine]
          /\ UNCHANGED session

\* A link that has been used or has expired is one that never was.
GET(t) ==
    /\ Shown(t)
    /\ \/ \E link \in links, next \in Next_ : Verified(t, link, next)
       \/ /\ \E type \in Types : tab' = [tab EXCEPT ![t] = At(redirectInvalid(type))]
          /\ UNCHANGED <<session, links>>
    /\ UNCHANGED <<count, changed>>

\* The limiter of the middleware answers for /auth/: the link stays good.
middleware(t) ==
    /\ Shown(t) /\ RateLimited
    /\ tab' = [tab EXCEPT ![t] = [NewTab(tab[t].at) EXCEPT !.doc = "limited"]]
    /\ UNCHANGED <<session, count, links, changed>>

LinkExpires(link) ==
    /\ link \in links /\ links' = links \ {link}
    /\ UNCHANGED <<session, count, tab, changed>>

PagesNext ==
    \/ \E t \in Tabs :
          \/ Serve(t) \/ \E url \in Urls : Visit(t, url) \/ Follow(t, url)
          \/ \E p \in People :
                \/ LoginForm(t, p) \/ SignUpForm(t, p) \/ ResendVerificationButton(t, p)
                \/ ForgotPasswordForm(t, p)
          \/ routeAfterLoginAction(t) \/ ResetPasswordForm(t)
          \/ ChangePasswordForm(t) \/ ChangeEmailForm(t) \/ CreateOrganizationForm(t)
          \/ SignOutButton(t) \/ SignedOut(t)
          \/ GET(t) \/ middleware(t)
    \/ \E o \in Origins : SessionEnds(o)
    \/ \E link \in links : LinkExpires(link)

PagesSpec == PagesInit /\ [][PagesNext]_pagesVars

-----------------------------------------------------------------------------
(* Properties.                                                              *)

\* A tab shows one of the application's pages without a session, or the error
\* of a query as anon, only if the session was ended or replaced elsewhere
\* after the layout was rendered in it: never by what is done in the tab, its
\* sign-out included ((app)/layout.tsx).
GuardedPages ==
    \A t \in Tabs :
        tab[t].at \in App
        /\ (tab[t].doc = "error" \/ (tab[t].doc = "page" /\ tab[t].reader = Nobody))
            => tab[t].unguarded

\* Who follows a link that opens a session comes to the page it asks for, with
\* that session, unless the browser's session is changed meanwhile: neither the
\* guard nor the server's own origin is in the way (auth/confirm/route.ts:44-74).
\* Who asks for none comes to /orgs, however many organizations he has (the
\* comments at lines 12-13 and 40-42 have him routed by their number), or where
\* new URL takes a backslash to lead (lines 76-79: "only allow same-origin app
\* paths").
LinksLand ==
    \A t \in Tabs : Shown(t) /\ tab[t].came # NoLink =>
        /\ tab[t].doc = "page"
        /\ \/ tab[t].at = tab[t].came.to
           \/ tab[t].came.to = "in" /\ tab[t].at \in {"/orgs", Elsewhere}
        /\ tab[t].at \in App => tab[t].reader = tab[t].came.of

\* The password that is set on the page a recovery link leads to is that of
\* the link's account, whoever was signed in before, unless the browser's
\* session is changed in between (reset-form.tsx has no link to go by).
ResetIsForTheLink == \A c \in changed : c[1] = c[2]
=============================================================================
