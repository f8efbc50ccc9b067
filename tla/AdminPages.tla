----------------------------- MODULE AdminPages ------------------------------
(***************************************************************************)
(* The pages and forms of apps/admin, in the tabs of one operator's         *)
(* browser: what each page checks before it renders, where it redirects,    *)
(* what its forms do with an answer, and the list of organizations.         *)
(*                                                                         *)
(* A page is served, and a server action handled, in one action: the calls  *)
(* they are made of are interleaved in AdminMfa, OperatorAccess and         *)
(* Entitlements.  Only the two queries of the list are steps of their own.  *)
(* What happens between a request and its answer, and in another tab, is    *)
(* what this module is about.                                               *)
(***************************************************************************)
EXTENDS OrganizationList

CONSTANTS
    Tabs,
    Searches,      \* what may be typed into the search field
    MaxFactors,    \* bound: enrolments
    MaxLists,      \* bound: tabs with the list of organizations at a time
    MaxRenames     \* bound: changes of an organization's name and slug

ASSUME AdminPagesAssumption ==
    /\ Searches \subseteq Seq(STRING) /\ <<>> \in Searches
    /\ MaxFactors \in Nat /\ MaxLists \in Nat /\ MaxRenames \in Nat

VARIABLES
    access,     \* the operator is in admin_users and not revoked
    invited,    \* the invitation in the operator's mail is acceptable
    session,    \* of the browser: its assurance level, or "none"
    elevated,   \* the browser has the elevation cookie of that session
    factor,     \* the operator's TOTP factors, by number; 0 is none
    codes,      \* the factor that the stored recovery codes came with
    organizations,   \* their names and slugs, oldest first
    renames,    \* how often one has been renamed
    tab,        \* what each tab is at
    enrolled,   \* the number of the last enrolment
    seen,       \* observed: the codes that have been on a screen
    excused,    \* observed: codes whose form was left, or overtaken, in between
    lost        \* observed: codes whose answer never reached the browser

table == <<organizations, renames>>
world == <<access, invited, session, elevated, factor, codes, table, enrolled>>
observed == <<seen, excused, lost>>
vars == <<world, tab, observed>>

Urls == {"/", "/login", "/accept", "/enroll", "/challenge", "/operators",
         "/organizations", "/organizations/1"}
Forms == {"login-form", "accept-form", "enroll-form", "challenge-form"}
Tables == {"operators", "organization"}
Documents == Forms \cup Tables \cup
    {"loading", "counting", "404", "index", "invalid", "enrolled", "codes",
     "organizations"}

Factors == 0 .. MaxFactors
EmptyList == [search |-> <<>>, page |-> 1, rows |-> <<>>, total |-> 0,
              begun |-> {}, met |-> {}, left |-> 0]
Tab(url, doc, number) ==
    [at |-> url, doc |-> doc, factor |-> number, busy |-> FALSE, list |-> EmptyList]

TypeOK ==
    /\ access \in BOOLEAN /\ invited \in BOOLEAN /\ elevated \in BOOLEAN
    /\ session \in {"none", "aal1", "aal2"}
    /\ factor \in [unverified : Factors, verified : Factors]
    /\ codes \in Factors /\ enrolled \in Factors
    /\ organizations \in Seq(Texts) /\ Len(organizations) <= MaxOrganizations
    /\ renames \in 0 .. MaxRenames
    /\ tab \in [Tabs -> [at : Urls, doc : Documents, factor : Factors,
                         busy : BOOLEAN,
                         list : [search : Searches, page : Nat \ {0},
                                 rows : Seq(Created), total : Nat,
                                 begun : SUBSET Created, met : SUBSET Created,
                                 left : Nat]]]
    /\ seen \subseteq Factors /\ excused \subseteq Factors /\ lost \subseteq Factors

\* An operator who has been invited.
Init ==
    /\ access = FALSE /\ invited = TRUE
    /\ session = "none" /\ elevated = FALSE
    /\ factor = [unverified |-> 0, verified |-> 0]
    /\ codes = 0 /\ enrolled = 0
    /\ organizations = AtFirst /\ renames = 0
    /\ tab = [t \in Tabs |-> Tab("/", "loading", 0)]
    /\ seen = {} /\ excused = {} /\ lost = {}

-----------------------------------------------------------------------------
(* The pages.                                                               *)

\* nextLevel is aal2 exactly when there is a verified factor.
gateAdmin ==
    IF session = "none" THEN "no-session"
    ELSE IF ~ access THEN "not-admin"
    ELSE IF session = "aal2" THEN "ok"
    ELSE IF factor.verified = 0 THEN "enroll"
    ELSE IF elevated THEN "ok" ELSE "challenge"

Redirect(url) == [to |-> url, doc |-> "loading"]
Render(doc) == [to |-> "", doc |-> doc]
notFound == Render("404")

requireOperator(doc) ==
    CASE gateAdmin = "ok" -> Render(doc)
      [] gateAdmin = "enroll" -> Redirect("/enroll")
      [] gateAdmin = "challenge" -> Redirect("/challenge")
      [] OTHER -> notFound

AdminIndex == requireOperator("index")
OperatorsPage == requireOperator("operators")
OrganizationsPage == requireOperator("counting")
getOrganizationDetail == IF organizations = <<>> THEN "null" ELSE "detail"
OrganizationDetailPage ==
    IF gateAdmin = "ok" /\ getOrganizationDetail = "null" THEN notFound
    ELSE requireOperator("organization")

LoginPage ==
    CASE gateAdmin = "ok" -> Redirect("/")
      [] gateAdmin = "enroll" -> Redirect("/enroll")
      [] gateAdmin = "challenge" -> Redirect("/challenge")
      [] OTHER -> Render("login-form")

\* Deviation: as if the page were of no use to an operator who has a factor.
EnrollPageDone ==
    CASE gateAdmin = "ok" -> Redirect("/")
      [] gateAdmin = "challenge" -> Redirect("/challenge")
      [] gateAdmin = "enroll" -> Render("enroll-form")
      [] OTHER -> notFound

\* Deviation: the two reasons are mistaken for each other.
EnrollPageMistaken ==
    CASE gateAdmin = "ok" -> Render("enrolled")
      [] gateAdmin = "enroll" -> Redirect("/challenge")
      [] gateAdmin = "challenge" -> Render("enroll-form")
      [] OTHER -> notFound

EnrollPage ==
    CASE gateAdmin = "ok" -> Render("enrolled")
      [] gateAdmin = "challenge" -> Redirect("/challenge")
      [] gateAdmin = "enroll" -> Render("enroll-form")
      [] OTHER -> notFound

ChallengePage ==
    CASE gateAdmin = "ok" -> Redirect("/")
      [] gateAdmin = "enroll" -> Redirect("/enroll")
      [] gateAdmin = "challenge" -> IF factor.verified = 0 /\ factor.unverified = 0
                                    THEN Redirect("/enroll")
                                    ELSE Render("challenge-form")
      [] OTHER -> notFound

AcceptPage == Render(IF invited THEN "accept-form" ELSE "invalid")

Page(url) ==
    CASE url = "/" -> AdminIndex
      [] url = "/login" -> LoginPage
      [] url = "/accept" -> AcceptPage
      [] url = "/enroll" -> EnrollPage
      [] url = "/challenge" -> ChallengePage
      [] url = "/operators" -> OperatorsPage
      [] url = "/organizations" -> OrganizationsPage
      [] OTHER -> OrganizationDetailPage

-----------------------------------------------------------------------------
(* Serving them.                                                            *)

Settled(t) == tab[t].doc \notin {"loading", "counting"}
Put(t, x) == tab' = [tab EXCEPT ![t] = x]
Load(t, url) == Put(t, Tab(url, "loading", 0))

\* enrollAdminTotp drops the factor that was not verified and adds one.
Enroll ==
    /\ enrolled < MaxFactors
    /\ enrolled' = enrolled + 1
    /\ factor' = [factor EXCEPT !.unverified = enrolled + 1]

\* A page reaches tab t: a redirect is another request, and the form to enrol
\* has a new factor, unless the auth service refuses it one.
Deliver(t, page, doc) ==
    \/ /\ page.to # ""
       /\ Load(t, page.to)
       /\ UNCHANGED <<enrolled, factor>>
    \/ /\ page.to = "" /\ page.doc # "enroll-form"
       /\ Put(t, Tab(tab[t].at, doc,
                     IF doc = "challenge-form" THEN factor.verified ELSE 0))
       /\ UNCHANGED <<enrolled, factor>>
    \/ /\ page.doc = "enroll-form"
       /\ \/ Enroll /\ Put(t, Tab(tab[t].at, doc, enrolled'))
          \/ /\ Put(t, Tab(tab[t].at, "404", 0))
             /\ UNCHANGED <<enrolled, factor>>

Serve(t) ==
    /\ tab[t].doc = "loading"
    /\ Page(tab[t].at).doc # "counting"
    /\ LET page == Page(tab[t].at) IN Deliver(t, page, page.doc)
    /\ UNCHANGED <<access, invited, session, elevated, codes, table, observed>>

\* OrganizationsPage: the rows of the page, and then the total.
QueryRows(t) ==
    /\ tab[t].doc = "loading"
    /\ Page(tab[t].at).doc = "counting"
    /\ LET list == tab[t].list
           rows == listOrganizations(organizations, list.search, list.page)
           first == list.page = 1
       IN Put(t, [tab[t] EXCEPT !.doc = "counting", !.list = [list EXCEPT
              !.rows = rows,
              !.begun = IF first THEN Named(organizations, list.search) ELSE @,
              !.met = ToSet(rows) \cup IF first THEN {} ELSE @,
              !.left = IF first THEN 0 ELSE @]])
    /\ UNCHANGED <<world, observed>>

QueryTotal(t) ==
    /\ tab[t].doc = "counting"
    /\ LET list == tab[t].list
       IN Put(t, [tab[t] EXCEPT !.doc = "organizations", !.list = [list EXCEPT
              !.total = Len(Found(organizations, list.search))]])
    /\ UNCHANGED <<world, observed>>

Overtake(some) == excused' = excused \cup {tab[t].factor : t \in some}
Answering == {t \in Tabs : tab[t].busy}

\* The operator goes somewhere else, by a link or by its address, and does not
\* wait for an answer that is due.
Visit(t, url) ==
    /\ Settled(t) /\ Load(t, url)
    /\ Overtake({t} \cap Answering)
    /\ url = "/organizations" =>
          Cardinality({u \in Tabs \ {t} : tab[u].at = url}) < MaxLists
    /\ UNCHANGED <<world, seen, lost>>

\* The search field and the links under the table.
TurnTo(t, search, page) ==
    /\ tab[t].doc = "organizations"
    /\ Put(t, [tab[t] EXCEPT !.doc = "loading",
               !.list = [@ EXCEPT !.search = search, !.page = PageNumber(page)]])
    /\ UNCHANGED <<world, observed>>
SearchInput(t, search) == TurnTo(t, search, 1)
NextLink(t) ==
    /\ hasNext(tab[t].list.page, tab[t].list.total)
    /\ TurnTo(t, tab[t].list.search, tab[t].list.page + 1)
PreviousLink(t) ==
    /\ hasPrevious(tab[t].list.page)
    /\ TurnTo(t, tab[t].list.search, tab[t].list.page - 1)

-----------------------------------------------------------------------------
(* The forms.  One that is refused shows the error and stays as it is.       *)

\* AcceptForm: for the login that follows.
AcceptForm(t) ==
    /\ tab[t].doc = "accept-form" /\ invited
    /\ invited' = FALSE /\ access' = TRUE
    /\ Load(t, "/login")
    /\ UNCHANGED <<session, elevated, factor, codes, table, enrolled, observed>>

LoginForm(t) ==
    /\ tab[t].doc = "login-form"
    /\ session' = "aal1" /\ elevated' = FALSE
    /\ Load(t, "/") /\ Overtake(Answering)
    /\ UNCHANGED <<access, invited, factor, codes, table, enrolled, seen, lost>>

\* EnrollForm with a right code for the factor it shows, if that is still
\* there: the factor is verified and its codes are stored.
confirmEnrollmentAction(t) ==
    /\ tab[t].doc = "enroll-form" /\ ~ tab[t].busy
    /\ session # "none"
    /\ tab[t].factor \in {factor.unverified, factor.verified} \ {0}
    /\ factor' = [unverified |-> IF tab[t].factor = factor.unverified THEN 0
                                 ELSE factor.unverified,
                  verified |-> tab[t].factor]
    /\ \/ /\ session' = "aal2"
          /\ codes' = tab[t].factor
          /\ Put(t, [tab[t] EXCEPT !.busy = TRUE])
          /\ lost' = lost \ {tab[t].factor}
       \/ \* it fails, or its process dies, before the codes are stored
          /\ session' \in {session, "aal2"}
          /\ UNCHANGED <<codes, tab, lost>>
    /\ UNCHANGED <<access, invited, elevated, table, enrolled, seen, excused>>

\* The answer comes with the page rendered anew, as the session's cookies have
\* changed.  Where that is EnrollForm again, the form is the same one, and has
\* the codes to show; a form that is gone shows nothing.
EnrollForm(t) ==
    /\ t \in Answering
    /\ LET shows == EnrollPage.doc \in {"enrolled", "enroll-form"}
       IN /\ Deliver(t, EnrollPage, IF shows THEN "codes" ELSE EnrollPage.doc)
          /\ seen' = IF tab'[t].doc = "codes" THEN seen \cup {tab[t].factor} ELSE seen
    /\ UNCHANGED <<access, invited, session, elevated, codes, table, excused, lost>>

\* The answer is lost after the codes are stored: the request fails, and the
\* form can be sent again.  The cookies of the new session were in that answer;
\* those of another one that is due are let stand for it.
LoseAnswer(t) ==
    /\ t \in Answering
    /\ Put(t, [tab[t] EXCEPT !.busy = FALSE])
    /\ session' \in {session} \cup
          {s \in {"aal1"} : session = "aal2" /\ Answering = {t}}
    /\ lost' = lost \cup {tab[t].factor}
    /\ UNCHANGED <<access, invited, elevated, factor, codes, table, enrolled, seen,
                   excused>>

\* ChallengeForm: the code of the authenticator, or a recovery code.
ChallengeForm(t) ==
    /\ tab[t].doc = "challenge-form" /\ session # "none"
    /\ \/ /\ tab[t].factor # 0 /\ tab[t].factor = factor.verified
          /\ session' = "aal2" /\ UNCHANGED elevated
       \/ /\ codes # 0
          /\ elevated' = TRUE /\ UNCHANGED session
    /\ Load(t, "/")
    /\ UNCHANGED <<access, invited, factor, codes, table, enrolled, observed>>

\* A server action that is not let in answers with the gate's page.
Refuse(t) ==
    /\ gateAdmin # "ok"
    /\ Deliver(t, requireOperator("index"), "404")
    /\ UNCHANGED <<access, invited, session, elevated, codes, table, observed>>

\* A button under a table: what it is for is done, and once the answer is there
\* the page is asked for again.
TableButton(t) ==
    \/ Refuse(t)
    \/ /\ gateAdmin = "ok"
       /\ Put(t, [tab[t] EXCEPT !.doc = "loading"])
       /\ UNCHANGED <<world, observed>>

OperatorsTable(t) == tab[t].doc = "operators" /\ TableButton(t)
PendingInvitationsTable(t) == tab[t].doc = "operators" /\ TableButton(t)
CompsPanel(t) == tab[t].doc = "organization" /\ TableButton(t)

\* No table is asked for again, so nothing changes in the tab.
InviteOperatorForm(t) == tab[t].doc = "operators" /\ Refuse(t)

-----------------------------------------------------------------------------
(* What happens elsewhere.                                                  *)

\* A peer revokes the operator, or invites one that has no access.  A form on
\* the screen can still be confirmed, by an action that does not look.
Revoked ==
    /\ access /\ access' = FALSE
    /\ Overtake({t \in Tabs : tab[t].doc = "enroll-form"})
    /\ UNCHANGED <<invited, session, elevated, factor, codes, table, enrolled, tab, seen,
                   lost>>
Invited ==
    /\ ~ access /\ ~ invited /\ invited' = TRUE
    /\ UNCHANGED <<access, session, elevated, factor, codes, table, enrolled, tab,
                   observed>>

\* A peer resets the second factor.  With a verified one the sessions end.
MfaReset ==
    /\ factor' = [unverified |-> 0, verified |-> 0]
    /\ codes' = 0
    /\ session' = IF factor.verified # 0 THEN "none" ELSE session
    /\ Overtake(Answering)
    /\ UNCHANGED <<access, invited, elevated, table, enrolled, tab, seen, lost>>

SessionEnds ==
    /\ session # "none" /\ session' = "none"
    /\ Overtake(Answering)
    /\ UNCHANGED <<access, invited, elevated, factor, codes, table, enrolled, tab, seen,
                   lost>>

\* Someone makes an organization, or its manager gives it another name and slug
\* (organizations_update).  No two have the same slug.
IsFree(slug) == \A o \in DOMAIN organizations : organizations[o].slug # slug
OrganizationCreated(text) ==
    /\ Len(organizations) < MaxOrganizations /\ IsFree(text.slug)
    /\ organizations' = Append(organizations, text)
    /\ UNCHANGED <<access, invited, session, elevated, factor, codes, renames,
                   enrolled, tab, observed>>

\* Observed: one that no longer has what a tab searches for has left its list.
WithoutLeft(list, o, text) ==
    IF Has(organizations[o], list.search) /\ ~ Has(text, list.search)
    THEN [list EXCEPT !.begun = @ \ {o}, !.left = @ + 1]
    ELSE list
OrganizationRenamed(o, text) ==
    /\ renames < MaxRenames /\ renames' = renames + 1
    /\ text # organizations[o]
    /\ organizations[o].slug = text.slug \/ IsFree(text.slug)
    /\ organizations' = [organizations EXCEPT ![o] = text]
    /\ tab' = [t \in Tabs |->
                 [tab[t] EXCEPT !.list = WithoutLeft(tab[t].list, o, text)]]
    /\ UNCHANGED <<access, invited, session, elevated, factor, codes, enrolled,
                   observed>>

Next ==
    \/ \E t \in Tabs :
          \/ Serve(t) \/ QueryRows(t) \/ QueryTotal(t)
          \/ \E url \in Urls : Visit(t, url)
          \/ \E search \in Searches : SearchInput(t, search)
          \/ NextLink(t) \/ PreviousLink(t)
          \/ AcceptForm(t) \/ LoginForm(t)
          \/ confirmEnrollmentAction(t) \/ EnrollForm(t) \/ LoseAnswer(t)
          \/ ChallengeForm(t)
          \/ OperatorsTable(t) \/ PendingInvitationsTable(t) \/ CompsPanel(t)
          \/ InviteOperatorForm(t)
    \/ Revoked \/ Invited \/ MfaReset \/ SessionEnds
    \/ \E text \in Texts :
          \/ OrganizationCreated(text)
          \/ \E o \in DOMAIN organizations : OrganizationRenamed(o, text)

Spec == Init /\ [][Next]_vars

-----------------------------------------------------------------------------
(* Properties.                                                              *)

\* Where an address leads in one redirect.
Hop(url) == IF Page(url).to = "" THEN url ELSE Page(url).to

\* Whatever the state of the session, no address is redirected more than
\* twice: the pages' guards do not send a request round in a circle (page.tsx,
\* login, enroll and challenge/page.tsx; gate.ts).
RedirectsEnd == \A url \in Urls : Page(Hop(Hop(url))).to = ""

\* The recovery codes an operator's account has have been on a screen, or the
\* answer with them is on its way, unless the operator left the form before it
\* came, a peer, another login or the end of the session overtook it, or the
\* answer was lost and the form not sent again: the page that is rendered with
\* the answer does not take the form away (enroll/page.tsx: "We must NOT
\* redirect on aal2").
CodesWereSeen ==
    codes # 0 =>
        \/ codes \in seen \cup excused \cup lost
        \/ \E t \in Tabs : tab[t].busy /\ tab[t].factor = codes

\* Who follows Next to the end has seen every organization that had what was
\* searched for in its name or slug at the beginning, letter by letter, and has
\* it still, but for at most one for each that has meanwhile been renamed out of
\* the search: its place is taken by the next, and so on, and the first of the
\* next page moves to the one that has been shown (organizations.ts:75-91, where
\* pages are cut by offset).  One that is created, or renamed into the search,
\* costs nothing, nor does the total's being another query.
ListIsComplete ==
    \A t \in Tabs : LET list == tab[t].list IN
        tab[t].doc = "organizations" /\ ~ hasNext(list.page, list.total) =>
            Cardinality(list.begun \ list.met) <= list.left
=============================================================================
